------------------------------ MODULE Dma_proofs ------------------------------
(***************************************************************************)
(* Proofs about the DMA controller and the motion decoder.                 *)
(*                                                                         *)
(* The first part is about the controller alone: TransfersAddUp and        *)
(* NoLostTransfer are invariants for any channels, modes, counts, slices,  *)
(* delays and DICR values, when the devices only drop requests while they  *)
(* are called for a block, as the GPU and the SPU do.  A device may end a  *)
(* frame while it is called, which abandons all calls in progress; what    *)
(* that leaves undone is in the ghost abandoned, and the properties except *)
(* it.  The part uses nothing of Mdec, its assumption included.            *)
(*                                                                         *)
(* With devices that only drop requests the stack has three forms: what    *)
(* transfers return to, nothing or one frame (BaseOk); one transfer on top *)
(* of that (InMove); one transfer and the device it calls (InDevice).  The *)
(* properties speak of the empty stack; in the other forms a channel may   *)
(* be ready that will be started by what a frame still has to do (InHand), *)
(* the block count of the channel on the move is in its frame, and in the  *)
(* sweep after a halt the ticks of the halts before it are still there     *)
(* (HaltOk).                                                               *)
(*                                                                         *)
(* The second part is about SpecM.  The decoder raises the request of one  *)
(* channel while the other calls it, so that transfers nest in each other  *)
(* and in sweeps without a bound, and there are no such forms of the       *)
(* stack.  Its invariant IndM says what each call that is still in         *)
(* progress will do once it is returned to.  IndE adds, as long as nothing *)
(* is noted as nested, that no channel has two transfers in progress       *)
(* (Ordered), that a transfer in progress or else the register of its      *)
(* channel knows how many blocks are left (Counted), and that only within  *)
(* the sweep of an unhalt event there are ticks without it (HaltsMatch).   *)
(***************************************************************************)
EXTENDS Mdec, SequenceTheorems, TLAPS

-----------------------------------------------------------------------------
(* The stack *)

Frames == [op : Ops, ch : Nat, left : Int, slice : Int]

(* What a transfer may return to: nothing, or what started it.             *)
Bases == {s \in Seq(Frames) :
            s # <<>> => /\ Tail(s) = <<>> /\ Head(s).op \in {"unhalt", "dpcr", "chcr"}
                        /\ Head(s).op = "chcr" => Head(s).ch \in Channel}

(* A frame is pushed on top of a stack.                                    *)
LEMMA PushFacts ==
  ASSUME NEW f \in Frames, NEW s \in Seq(Frames)
  PROVE  /\ Push(f, s) \in Seq(Frames) /\ Push(f, s) # <<>>
         /\ Head(Push(f, s)) = f /\ Tail(Push(f, s)) = s
  <1> DEFINE p == <<f>> \o s
  <1>1. Push(f, s) = p BY DEF Push
  <1>2. <<f>> \in Seq(Frames) /\ Len(<<f>>) = 1 /\ <<f>>[1] = f OBVIOUS
  <1>3. p \in Seq(Frames) /\ Len(p) = 1 + Len(s) /\ Len(s) \in Nat BY <1>2
  <1>4. p # <<>> BY <1>3
  <1>5. Head(p) = f BY <1>2, <1>3
  <1>6. Tail(p) = s
    <2>1. Tail(p) \in Seq(Frames) /\ Len(Tail(p)) = Len(s) BY <1>3, <1>4
    <2>2. ASSUME NEW i \in 1..Len(s) PROVE Tail(p)[i] = s[i] BY <1>2, <1>3
    <2> QED BY <2>1, <2>2, SeqEqual
  <1> QED BY <1>1, <1>3, <1>4, <1>5, <1>6

(* A transfer started by a device outside any transfer returns to nothing. *)
LEMMA EmptyBase == <<>> \in Bases /\ <<>> \in Seq(Frames)
  BY DEF Bases

(* What a transfer returns to has at most one frame, of a sweep or an OTC  *)
(* control write.                                                          *)
LEMMA BaseFacts ==
  ASSUME NEW b \in Bases
  PROVE  /\ b \in Seq(Frames)
         /\ b # <<>> => /\ Head(b) \in Frames /\ Tail(b) = <<>>
                        /\ Head(b).op \in {"unhalt", "dpcr", "chcr"}
                        /\ Head(b).op = "chcr" => Head(b).ch \in Channel
  <1>1. b \in Seq(Frames) BY DEF Bases
  <1>2. b # <<>> => Head(b) \in Frames BY <1>1
  <1> QED BY <1>1, <1>2 DEF Bases

(* A sweep or an OTC control write on its own.                             *)
LEMMA PushBase ==
  ASSUME NEW f \in Frames, f.op \in {"unhalt", "dpcr", "chcr"}, f.op = "chcr" => f.ch \in Channel
  PROVE  Push(f, <<>>) \in Bases /\ Push(f, <<>>) # <<>> /\ Head(Push(f, <<>>)) = f
  <1>1. /\ Push(f, <<>>) \in Seq(Frames) /\ Push(f, <<>>) # <<>>
        /\ Head(Push(f, <<>>)) = f /\ Tail(Push(f, <<>>)) = <<>>
    BY PushFacts, EmptyBase
  <1> QED BY <1>1, Zenon DEF Bases

(* A transfer that may be followed by others returns to what started it.   *)
LEMMA ReturnTrue ==
  ASSUME NEW f \in Frames, NEW b \in Bases
  PROVE  ReturnFrom(Push(f, b), TRUE) = b
  <1>1. Tail(Push(f, b)) = b BY PushFacts, BaseFacts
  <1> QED BY <1>1, Zenon DEF ReturnFrom

(* A transfer that has to stop ends the sweep it was started by.           *)
LEMMA ReturnFalse ==
  ASSUME NEW f \in Frames, NEW b \in Bases
  PROVE  LET r == ReturnFrom(Push(f, b), FALSE) IN
         IF b # <<>> /\ Head(b).op # "chcr" THEN r = <<>> ELSE r = b
  <1>1. Tail(Push(f, b)) = b BY PushFacts, BaseFacts
  <1>2. ReturnFrom(Push(f, b), FALSE) =
          IF b # <<>> /\ Head(b).op \in {"unhalt", "dpcr"} THEN Tail(b) ELSE b
    BY <1>1, Zenon DEF ReturnFrom, Sweeps
  <1>3. b # <<>> => Tail(b) = <<>> BY BaseFacts
  <1>4. b # <<>> => (Head(b).op # "chcr" <=> Head(b).op \in {"unhalt", "dpcr"}) BY BaseFacts, SMT
  <1> QED BY <1>2, <1>3, <1>4, Zenon

(* The fields of a frame.                                                  *)
LEMMA FrameFacts ==
  ASSUME NEW op \in Ops, NEW c \in Nat, NEW left \in Int
  PROVE  LET f == Frame(op, c, left) IN
         f \in Frames /\ f.op = op /\ f.ch = c /\ f.left = left /\ f.slice = 0
  BY DEF Frame, Frames

-----------------------------------------------------------------------------
(* The channels *)

(* The assumptions about the constants, as they are used.                  *)
LEMMA DmaFacts ==
  /\ Channel \subseteq Nat /\ Full \in Nat /\ Full >= 1 /\ HaltTicks \in Nat /\ HaltTicks >= 1
  /\ 0 \in 0..Full - 1
  /\ \A d \in Delays : d \in Nat
  /\ \A d \in Slices : d \in Nat /\ d >= 1
  /\ \A c \in Channel : \A mode \in SyncModes[c] : mode \in {"manual", "request", "list"}
  <1>1. /\ Channel \subseteq Nat /\ Full \in Nat \ {0} /\ HaltTicks \in Nat \ {0}
        /\ Delays \subseteq Nat /\ Slices \subseteq Nat \ {0}
        /\ SyncModes \in [Channel -> SUBSET {"manual", "request", "list"}]
    BY ChannelAssumption, Zenon DEF ChannelAssumption
  <1> QED BY <1>1, SMT

(* A register stands for one to Full blocks.                               *)
LEMMA CountFacts ==
  ASSUME NEW n \in 0..Full - 1
  PROVE  Count(n) \in 1..Full
  BY DmaFacts, SMT DEF Count

(* What is left is what the register counts.                               *)
LEMMA CountLeft ==
  ASSUME NEW left \in 1..Full
  PROVE  left % Full \in 0..Full - 1 /\ Count(left % Full) = left
  <1>1. Full \in Nat /\ Full >= 1 BY DmaFacts
  <1>2. CASE left = Full
    <2>1. left % Full = 0 BY <1>1, <1>2, SMT
    <2> QED BY <1>1, <1>2, <2>1, SMT DEF Count
  <1>3. CASE left # Full
    <2>1. left % Full = left BY <1>1, <1>3, SMT
    <2> QED BY <1>1, <1>3, <2>1, SMT DEF Count
  <1> QED BY <1>2, <1>3

(* The fields of a channel.                                                *)
LEMMA ControlFields ==
  ASSUME NEW ch \in [Channel -> Control], NEW c \in Channel
  PROVE  /\ ch[c].busy \in BOOLEAN /\ ch[c].mode \in {"manual", "request", "list"}
         /\ ch[c].blocks \in 0..Full - 1 /\ ch[c].request \in BOOLEAN
  <1>1. ch[c] \in Control OBVIOUS
  <1> QED BY <1>1, Zenon DEF Control

(* A channel becomes busy or idle; nothing else of it changes, and no      *)
(* other channel.                                                          *)
LEMMA SetBusy ==
  ASSUME NEW ch \in [Channel -> Control], NEW c \in Channel, NEW x \in BOOLEAN
  PROVE  LET n == [ch EXCEPT ![c].busy = x] IN
         /\ n \in [Channel -> Control]
         /\ n[c].busy = x /\ n[c].mode = ch[c].mode /\ n[c].blocks = ch[c].blocks
         /\ n[c].request = ch[c].request
         /\ \A d \in Channel : d # c => n[d] = ch[d]
  <1> DEFINE r == [ch[c] EXCEPT !.busy = x]
             n == [ch EXCEPT ![c] = r]
  <1>1. ch[c] \in Control OBVIOUS
  <1>2. /\ r \in Control /\ r.busy = x /\ r.mode = ch[c].mode /\ r.blocks = ch[c].blocks
        /\ r.request = ch[c].request
    BY <1>1, Zenon DEF Control
  <1>3. [ch EXCEPT ![c].busy = x] = n BY Zenon
  <1> HIDE DEF r
  <1>4. n \in [Channel -> Control] /\ n[c] = r /\ \A d \in Channel : d # c => n[d] = ch[d]
    BY <1>2, Zenon
  <1> HIDE DEF n
  <1> QED BY <1>2, <1>3, <1>4, Zenon

Modes == {"manual", "request", "list"}

(* A channel changes its sync mode.                                        *)
LEMMA SetMode ==
  ASSUME NEW ch \in [Channel -> Control], NEW c \in Channel, NEW x \in Modes
  PROVE  LET n == [ch EXCEPT ![c].mode = x] IN
         /\ n \in [Channel -> Control]
         /\ n[c].busy = ch[c].busy /\ n[c].mode = x /\ n[c].blocks = ch[c].blocks
         /\ n[c].request = ch[c].request
         /\ \A d \in Channel : d # c => n[d] = ch[d]
  <1> DEFINE r == [ch[c] EXCEPT !.mode = x]
             n == [ch EXCEPT ![c] = r]
  <1>1. ch[c] \in Control OBVIOUS
  <1>2. /\ r \in Control /\ r.busy = ch[c].busy /\ r.mode = x /\ r.blocks = ch[c].blocks
        /\ r.request = ch[c].request
    BY <1>1, Zenon DEF Control, Modes
  <1>3. [ch EXCEPT ![c].mode = x] = n BY Zenon
  <1> HIDE DEF r
  <1>4. n \in [Channel -> Control] /\ n[c] = r /\ \A d \in Channel : d # c => n[d] = ch[d]
    BY <1>2, Zenon
  <1> HIDE DEF n
  <1> QED BY <1>2, <1>3, <1>4, Zenon

(* A channel changes its block count.                                      *)
LEMMA SetBlocks ==
  ASSUME NEW ch \in [Channel -> Control], NEW c \in Channel, NEW x \in 0..Full - 1
  PROVE  LET n == [ch EXCEPT ![c].blocks = x] IN
         /\ n \in [Channel -> Control]
         /\ n[c].busy = ch[c].busy /\ n[c].mode = ch[c].mode /\ n[c].blocks = x
         /\ n[c].request = ch[c].request
         /\ \A d \in Channel : d # c => n[d] = ch[d]
  <1> DEFINE r == [ch[c] EXCEPT !.blocks = x]
             n == [ch EXCEPT ![c] = r]
  <1>1. ch[c] \in Control OBVIOUS
  <1>2. /\ r \in Control /\ r.busy = ch[c].busy /\ r.mode = ch[c].mode /\ r.blocks = x
        /\ r.request = ch[c].request
    BY <1>1, Zenon DEF Control
  <1>3. [ch EXCEPT ![c].blocks = x] = n BY Zenon
  <1> HIDE DEF r
  <1>4. n \in [Channel -> Control] /\ n[c] = r /\ \A d \in Channel : d # c => n[d] = ch[d]
    BY <1>2, Zenon
  <1> HIDE DEF n
  <1> QED BY <1>2, <1>3, <1>4, Zenon

(* A device changes the request of a channel.                              *)
LEMMA SetRequestBit ==
  ASSUME NEW ch \in [Channel -> Control], NEW c \in Channel, NEW x \in BOOLEAN
  PROVE  LET n == [ch EXCEPT ![c].request = x] IN
         /\ n \in [Channel -> Control]
         /\ n[c].busy = ch[c].busy /\ n[c].mode = ch[c].mode /\ n[c].blocks = ch[c].blocks
         /\ n[c].request = x
         /\ \A d \in Channel : d # c => n[d] = ch[d]
  <1> DEFINE r == [ch[c] EXCEPT !.request = x]
             n == [ch EXCEPT ![c] = r]
  <1>1. ch[c] \in Control OBVIOUS
  <1>2. /\ r \in Control /\ r.busy = ch[c].busy /\ r.mode = ch[c].mode /\ r.blocks = ch[c].blocks
        /\ r.request = x
    BY <1>1, Zenon DEF Control
  <1>3. [ch EXCEPT ![c].request = x] = n BY Zenon
  <1> HIDE DEF r
  <1>4. n \in [Channel -> Control] /\ n[c] = r /\ \A d \in Channel : d # c => n[d] = ch[d]
    BY <1>2, Zenon
  <1> HIDE DEF n
  <1> QED BY <1>2, <1>3, <1>4, Zenon

-----------------------------------------------------------------------------
(* The inductive invariant *)

Marks == [repeating : SUBSET Channel, waiting : SUBSET Channel, halt : BOOLEAN]

Typed ==
  /\ abandoned \in Marks
  /\ chan \in [Channel -> Control] /\ dpcr \subseteq Channel /\ owed \in [Channel -> Int]
  /\ dicr \in Dicr /\ line \in BOOLEAN /\ LineFollowsDicr
  /\ remaining \in Nat /\ unhalt_event \in [active : BOOLEAN, ticks : Int]
  /\ ~Halted => unhalt_event.ticks = 0

(* What the ends of frames have left to a channel.                         *)
Again(c) == c \in abandoned.repeating
Behind(c) == c \in abandoned.waiting

Exact(c) == Again(c) \/ Count(chan[c].blocks) = owed[c]

(* A channel that what a transfer returns to will start if it can.         *)
InHand(b, c) ==
  b # <<>> /\ IF Head(b).op = "chcr" THEN c = Head(b).ch ELSE c >= Head(b).ch

HaltsOk ==
  /\ Halted => remaining > 0
  /\ remaining > 0 => Halted \/ abandoned.halt
  /\ unhalt_event.ticks <= remaining

(* In the sweep after a halt the ticks of later halts are not dropped yet, *)
(* and no channel may halt without ending it.                              *)
HaltOk(b) ==
  IF b # <<>> /\ Head(b).op = "unhalt" THEN ~Halted
  ELSE HaltsOk

(* Between transfers.                                                      *)
BaseOk(b) ==
  /\ b \in Bases /\ HaltOk(b)
  /\ \A c \in Channel : Exact(c)
  /\ \A c \in Channel : Ready(c) => Halted \/ Behind(c) \/ InHand(b, c)

(* In the transfer f.                                                      *)
MoveOk(f, b) ==
  /\ f.op \in {"first", "loop"} /\ f.ch \in Channel
  /\ f.left \in 0..Full /\ (f.op = "first" => f.left >= 1)
  /\ HaltOk(b)
  /\ \A c \in Channel : c # f.ch => Exact(c)
  /\ IF chan[f.ch].mode = "request" THEN Again(f.ch) \/ owed[f.ch] = f.left
     ELSE Exact(f.ch)
  /\ \A c \in Channel : Ready(c) => Halted \/ Behind(c) \/ c = f.ch \/ InHand(b, c)

InMove == \E f \in Frames, b \in Bases : stack = Push(f, b) /\ MoveOk(f, b)
InDevice ==
  \E d, f \in Frames, b \in Bases :
    /\ stack = Push(d, Push(f, b))
    /\ d.op = "device" /\ d.ch = f.ch /\ f.op = "loop" /\ MoveOk(f, b)

Ind == Typed /\ (BaseOk(stack) \/ InMove \/ InDevice)

(* What the invariant says between calls.                                  *)
LEMMA RestingFacts ==
  ASSUME Ind, Resting
  PROVE  /\ Typed /\ BaseOk(<<>>) /\ stack = <<>>
         /\ HaltsOk /\ \A c \in Channel : Exact(c) /\ (Ready(c) => Halted \/ Behind(c))
  <1>1. stack = <<>> BY DEF Resting
  <1>2. ~InMove
    <2>1. \A f \in Frames, b \in Bases : Push(f, b) # <<>> BY PushFacts, BaseFacts
    <2> QED BY <1>1, <2>1, Zenon DEF InMove
  <1>3. ~InDevice
    <2>1. \A f \in Frames, b \in Bases : Push(f, b) \in Seq(Frames) BY PushFacts, BaseFacts
    <2>2. \A d, f \in Frames, b \in Bases : Push(d, Push(f, b)) # <<>> BY <2>1, PushFacts
    <2> QED BY <1>1, <2>2, Zenon DEF InDevice
  <1>4. Typed /\ BaseOk(<<>>) BY <1>1, <1>2, <1>3, Zenon DEF Ind
  <1>5. HaltsOk BY <1>4, Zenon DEF BaseOk, HaltOk, HaltsOk
  <1>6. \A c \in Channel : Exact(c) /\ (Ready(c) => Halted \/ Behind(c))
    BY <1>4, Zenon DEF BaseOk, InHand
  <1> QED BY <1>1, <1>4, <1>5, <1>6

(* The frame on top tells the form of the stack.                           *)
LEMMA TopFacts ==
  ASSUME Ind, stack # <<>>
  PROVE  /\ Head(stack).op \in {"unhalt", "dpcr", "chcr"} => BaseOk(stack)
         /\ Head(stack).op \in {"first", "loop"} =>
              Head(stack) \in Frames /\ \E b \in Bases : stack = Push(Head(stack), b) /\ MoveOk(Head(stack), b)
         /\ Head(stack).op = "device" => InDevice
  <1>1. CASE BaseOk(stack)
    <2>1. Head(stack).op \in {"unhalt", "dpcr", "chcr"} BY <1>1, BaseFacts DEF BaseOk
    <2> QED BY <1>1, <2>1, SMT
  <1>2. CASE InMove
    <2>1. PICK f \in Frames, b \in Bases : stack = Push(f, b) /\ MoveOk(f, b) BY <1>2 DEF InMove
    <2>2. Head(stack) = f BY <2>1, PushFacts, BaseFacts
    <2>3. Head(stack).op \in {"first", "loop"} BY <2>1, <2>2 DEF MoveOk
    <2>4. Head(stack).op \notin {"unhalt", "dpcr", "chcr"} /\ Head(stack).op # "device" BY <2>3, SMT
    <2> QED BY <2>1, <2>2, <2>4, Zenon
  <1>3. CASE InDevice
    <2>1. PICK d \in Frames, f \in Frames, b \in Bases : stack = Push(d, Push(f, b)) /\ d.op = "device"
      BY <1>3, Zenon DEF InDevice
    <2>2. Push(f, b) \in Seq(Frames) BY PushFacts, BaseFacts
    <2>3. Head(stack).op = "device" BY <2>1, <2>2, PushFacts
    <2>4. Head(stack).op \notin {"unhalt", "dpcr", "chcr", "first", "loop"} BY <2>3, SMT
    <2> QED BY <1>3, <2>4, Zenon
  <1> QED BY <1>1, <1>2, <1>3 DEF Ind

(* A transfer may be started on any base, and may be of any channel, when  *)
(* all others are looked after.                                            *)
LEMMA CallOk ==
  ASSUME Typed', NEW c \in Channel, NEW b \in Bases, stack' = Call(chan', c, b), HaltOk(b)',
         \A d \in Channel : Exact(d)',
         \A d \in Channel : Ready(d)' => Halted' \/ Behind(d)' \/ d = c \/ InHand(b, d)
  PROVE  Ind'
  <1>1. chan' \in [Channel -> Control] BY DEF Typed
  <1>2. chan'[c].blocks \in 0..Full - 1 BY <1>1, ControlFields
  <1>3. PICK left \in 1..Full : left = IF chan'[c].mode = "request" THEN Count(chan'[c].blocks) ELSE 1
    <2> DEFINE left == IF chan'[c].mode = "request" THEN Count(chan'[c].blocks) ELSE 1
    <2>1. Count(chan'[c].blocks) \in 1..Full /\ 1 \in 1..Full BY <1>2, CountFacts, DmaFacts, SMT
    <2>2. left \in {Count(chan'[c].blocks), 1} BY Zenon
    <2>3. left \in 1..Full BY <2>1, <2>2
    <2> QED BY <2>3
  <1>4. PICK f \in Frames : f.op = "first" /\ f.ch = c /\ f.left = left /\ stack' = Push(f, b)
    <2>1. stack' = Push(Frame("first", c, left), b) BY <1>3, Zenon DEF Call
    <2>2. "first" \in Ops /\ c \in Nat /\ left \in Int BY <1>3, DmaFacts, SMT DEF Ops
    <2> QED BY <2>1, <2>2, FrameFacts
  <1>5. f.left \in 0..Full /\ f.left >= 1 BY <1>3, <1>4, DmaFacts, SMT
  <1>6. IF chan'[f.ch].mode = "request" THEN Again(f.ch)' \/ owed'[f.ch] = f.left
        ELSE Exact(f.ch)'
    BY <1>3, <1>4, Zenon DEF Exact, Again
  <1>7. MoveOk(f, b)'
    <2>1. f.op \in {"first", "loop"} BY <1>4
    <2>2. \A d \in Channel : Ready(d)' => Halted' \/ Behind(d)' \/ d = f.ch \/ InHand(b, d)
      BY <1>4, Zenon
    <2> QED BY <1>4, <1>5, <1>6, <2>1, <2>2, Zenon DEF MoveOk
  <1>8. InMove' BY <1>4, <1>7, Zenon DEF InMove
  <1> QED BY <1>8 DEF Ind

(* dma_halt_transfer leaves a halt with ticks and with the event active.   *)
LEMMA HaltTransferOk ==
  ASSUME Typed, NEW duration \in Nat, duration >= 1, NEW b, HaltOk(b), HaltTransfer(duration)
  PROVE  /\ remaining' \in Nat /\ unhalt_event' \in [active : BOOLEAN, ticks : Int]
         /\ Halted' /\ remaining' > 0 /\ unhalt_event'.ticks <= remaining' /\ HaltsOk'
         /\ abandoned' \in Marks /\ abandoned'.repeating = abandoned.repeating
         /\ abandoned'.waiting = abandoned.waiting
  <1>1. remaining \in Nat /\ unhalt_event \in [active : BOOLEAN, ticks : Int] BY DEF Typed
  <1>2. remaining' = remaining + duration BY DEF HaltTransfer
  <1>3. remaining' \in Nat /\ remaining' > 0 /\ remaining <= remaining' BY <1>1, <1>2, SMT
  <1>4. ASSUME Halted
        PROVE  /\ unhalt_event' \in [active : BOOLEAN, ticks : Int]
               /\ Halted' /\ unhalt_event'.ticks <= remaining'
    <2>1. unhalt_event' = unhalt_event BY <1>4, Zenon DEF HaltTransfer
    <2>2. unhalt_event.ticks <= remaining BY <1>4, Zenon DEF HaltOk, HaltsOk
    <2>3. unhalt_event.ticks \in Int BY <1>1
    <2>4. unhalt_event.ticks <= remaining' BY <1>1, <1>3, <2>2, <2>3, SMT
    <2>5. Halted' BY <1>4, <2>1, Zenon DEF Halted
    <2>6. unhalt_event' \in [active : BOOLEAN, ticks : Int] /\ unhalt_event'.ticks <= remaining'
      BY <1>1, <2>1, <2>4, Zenon
    <2> QED BY <2>5, <2>6
  <1>5. ASSUME ~Halted
        PROVE  /\ unhalt_event' \in [active : BOOLEAN, ticks : Int]
               /\ Halted' /\ unhalt_event'.ticks <= remaining'
    <2>1. unhalt_event' = [active |-> TRUE, ticks |-> remaining']
      BY <1>2, <1>5, Zenon DEF HaltTransfer, After
    <2>2. remaining' <= remaining' /\ remaining' \in Int BY <1>3, SMT
    <2>3. unhalt_event'.active = TRUE /\ unhalt_event'.ticks = remaining' BY <2>1
    <2>4. unhalt_event' \in [active : BOOLEAN, ticks : Int] BY <2>1, <2>2, Zenon
    <2> QED BY <2>2, <2>3, <2>4, Zenon DEF Halted
  <1>6. /\ abandoned' \in Marks /\ abandoned'.repeating = abandoned.repeating
        /\ abandoned'.waiting = abandoned.waiting
    <2>1. abandoned \in Marks /\ abandoned' = [abandoned EXCEPT !.halt = FALSE]
      BY DEF Typed, HaltTransfer
    <2> QED BY <2>1, Zenon DEF Marks
  <1>7. HaltsOk' BY <1>3, <1>4, <1>5, Zenon DEF HaltsOk
  <1> QED BY <1>3, <1>4, <1>5, <1>6, <1>7

(* What NoteStart forgets: channels that are started, or are not ready.    *)
LEMMA NoteStartOk ==
  ASSUME Typed, NoteStart
  PROVE  /\ abandoned' \in Marks
         /\ abandoned'.repeating = abandoned.repeating /\ abandoned'.halt = abandoned.halt
         /\ \A d \in Channel : Behind(d) /\ Ready(d)' =>
              \/ Behind(d)'
              \/ stack' # <<>> /\ Head(stack').op = "first" /\ Head(stack').ch = d
  <1> DEFINE started == IF stack' # <<>> /\ Head(stack').op = "first"
                        THEN {Head(stack').ch} ELSE {}
             w == {c \in abandoned.waiting \ started : chan'[c].busy /\ chan'[c].request}
  <1>1. abandoned \in Marks /\ abandoned' = [abandoned EXCEPT !.waiting = w]
    BY Zenon DEF Typed, NoteStart
  <1>2. w \subseteq abandoned.waiting BY Zenon
  <1>3. \A d \in abandoned.waiting : chan'[d].busy /\ chan'[d].request => d \in w \/ d \in started
    BY Zenon
  <1>4. \A d \in started : stack' # <<>> /\ Head(stack').op = "first" /\ Head(stack').ch = d
    BY Zenon
  <1> HIDE DEF w, started
  <1>5. abandoned.waiting \in SUBSET Channel BY <1>1, Zenon DEF Marks
  <1>6. w \in SUBSET Channel BY <1>2, <1>5, Zenon
  <1>7. /\ abandoned' \in Marks /\ abandoned'.repeating = abandoned.repeating
        /\ abandoned'.halt = abandoned.halt /\ abandoned'.waiting = w
    BY <1>1, <1>6, Zenon DEF Marks
  <1> QED BY <1>3, <1>4, <1>7, Zenon DEF Behind, Ready

(* A channel that is started is on top of the stack.                       *)
LEMMA CalledFirst ==
  ASSUME chan' \in [Channel -> Control], NEW c \in Channel, NEW b \in Bases,
         stack' = Call(chan', c, b)
  PROVE  stack' # <<>> /\ Head(stack').op = "first" /\ Head(stack').ch = c
  <1>1. PICK left \in Int : left = IF chan'[c].mode = "request" THEN Count(chan'[c].blocks) ELSE 1
    <2> DEFINE left == IF chan'[c].mode = "request" THEN Count(chan'[c].blocks) ELSE 1
    <2>1. chan'[c].blocks \in 0..Full - 1 BY ControlFields
    <2>2. Count(chan'[c].blocks) \in Int /\ 1 \in Int BY <2>1, CountFacts
    <2>3. left \in {Count(chan'[c].blocks), 1} BY Zenon
    <2>4. left \in Int BY <2>2, <2>3
    <2> QED BY <2>4
  <1>2. stack' = Push(Frame("first", c, left), b) BY <1>1, Zenon DEF Call
  <1>3. "first" \in Ops /\ c \in Nat BY DmaFacts, SMT DEF Ops
  <1>4. Frame("first", c, left) \in Frames /\ Frame("first", c, left).op = "first"
        /\ Frame("first", c, left).ch = c
    BY <1>3, FrameFacts
  <1> QED BY <1>2, <1>4, PushFacts, BaseFacts

(* A step that starts a channel, or none, as NoteStart sees it.            *)
LEMMA NoteCall ==
  ASSUME Typed, NoteStart, chan' \in [Channel -> Control],
         NEW c \in Channel, NEW b \in Bases, stack' = Call(chan', c, b)
  PROVE  \A d \in Channel : Behind(d) /\ Ready(d)' => Behind(d)' \/ d = c
  BY NoteStartOk, CalledFirst, Zenon

(* Between transfers nothing starts: a channel is left behind no less.     *)
LEMMA NoteNone ==
  ASSUME Typed, NoteStart, stack' \in Bases
  PROVE  \A d \in Channel : Behind(d) /\ Ready(d)' => Behind(d)'
  <1>1. stack' # <<>> => Head(stack').op # "first" BY BaseFacts, SMT
  <1> QED BY <1>1, NoteStartOk, Zenon

(* Steps that end between transfers.                                       *)
LEMMA BaseStep ==
  ASSUME Typed', NEW b \in Bases, stack' = b, HaltOk(b)', \A d \in Channel : Exact(d)',
         \A d \in Channel : Ready(d)' => Halted' \/ Behind(d)' \/ InHand(b, d)
  PROVE  Ind'
  <1>1. BaseOk(stack)' BY Zenon DEF BaseOk
  <1> QED BY <1>1 DEF Ind

(* The same when NoteStart is part of the step.                            *)
LEMMA NotedCall ==
  ASSUME Typed, NoteStart, Typed', NEW c \in Channel, NEW b \in Bases, stack' = Call(chan', c, b),
         HaltOk(b)', \A d \in Channel : Exact(d)',
         \A d \in Channel : Ready(d)' => Halted' \/ Behind(d) \/ d = c \/ InHand(b, d)
  PROVE  Ind'
  <1>1. chan' \in [Channel -> Control] BY DEF Typed
  <1>2. \A d \in Channel : Behind(d) /\ Ready(d)' => Behind(d)' \/ d = c BY <1>1, NoteCall
  <1>3. \A d \in Channel : Ready(d)' => Halted' \/ Behind(d)' \/ d = c \/ InHand(b, d)
    BY <1>2, Zenon
  <1> QED BY <1>3, CallOk

LEMMA NotedBase ==
  ASSUME Typed, NoteStart, Typed', NEW b \in Bases, stack' = b, HaltOk(b)',
         \A d \in Channel : Exact(d)',
         \A d \in Channel : Ready(d)' => Halted' \/ Behind(d) \/ InHand(b, d)
  PROVE  Ind'
  <1>1. \A d \in Channel : Behind(d) /\ Ready(d)' => Behind(d)' BY NoteNone
  <1>2. \A d \in Channel : Ready(d)' => Halted' \/ Behind(d)' \/ InHand(b, d) BY <1>1, Zenon
  <1> QED BY <1>2, BaseStep

-----------------------------------------------------------------------------
(* The registers *)

(* A write to block control.                                               *)
LEMMA WriteBlockControlOk ==
  ASSUME Ind, NEW c \in Channel, NEW n \in 0..Full - 1, WriteBlockControl(c, n)
  PROVE  Ind'
  <1>1. /\ Resting /\ chan' = [chan EXCEPT ![c].blocks = n] /\ owed' = [owed EXCEPT ![c] = Count(n)]
        /\ abandoned' = [abandoned EXCEPT !.repeating = @ \ {c}]
        /\ dpcr' = dpcr /\ dicr' = dicr /\ line' = line /\ remaining' = remaining
        /\ unhalt_event' = unhalt_event /\ stack' = stack
    BY DEF WriteBlockControl
  <1>2. /\ Typed /\ stack = <<>> /\ HaltsOk
        /\ \A d \in Channel : Exact(d) /\ (Ready(d) => Halted \/ Behind(d))
    BY <1>1, RestingFacts
  <1>3. chan \in [Channel -> Control] /\ owed \in [Channel -> Int] BY <1>2 DEF Typed
  <1>4. /\ chan' \in [Channel -> Control]
        /\ chan'[c].busy = chan[c].busy /\ chan'[c].mode = chan[c].mode /\ chan'[c].blocks = n
        /\ chan'[c].request = chan[c].request
        /\ \A d \in Channel : d # c => chan'[d] = chan[d]
    BY <1>1, <1>3, SetBlocks
  <1>5. Count(n) \in Int BY CountFacts
  <1>6. /\ owed' \in [Channel -> Int] /\ owed'[c] = Count(n)
        /\ \A d \in Channel : d # c => owed'[d] = owed[d]
    BY <1>1, <1>3, <1>5, Zenon
  <1>11. /\ abandoned' \in Marks /\ abandoned'.repeating = abandoned.repeating \ {c}
         /\ abandoned'.waiting = abandoned.waiting /\ abandoned'.halt = abandoned.halt
    <2>1. abandoned \in Marks BY <1>2 DEF Typed
    <2>2. abandoned.repeating \ {c} \in SUBSET Channel BY <2>1, Zenon DEF Marks
    <2> QED BY <1>1, <2>1, <2>2, Zenon DEF Marks
  <1>7. Typed' BY <1>1, <1>2, <1>4, <1>6, <1>11 DEF Typed, LineFollowsDicr, Halted
  <1>8. \A d \in Channel : Exact(d)'
    <2>1. Exact(c)' BY <1>4, <1>6, Zenon DEF Exact
    <2>2. \A d \in Channel : d # c => (Again(d) => Again(d)') BY <1>11, Zenon DEF Again
    <2>3. \A d \in Channel : d # c => Exact(d)' BY <1>2, <1>4, <1>6, <2>2, Zenon DEF Exact
    <2> QED BY <2>1, <2>3
  <1>9. \A d \in Channel : Ready(d)' => Halted' \/ Behind(d)'
    BY <1>1, <1>2, <1>4, <1>11, Zenon DEF Ready, Halted, Behind
  <1>10. BaseOk(stack)'
    <2>1. stack' = <<>> /\ <<>> \in Bases BY <1>1, <1>2, EmptyBase
    <2>2. HaltOk(stack)' BY <1>1, <1>2, <1>11, <2>1, Zenon DEF HaltOk, HaltsOk, Halted
    <2> QED BY <1>8, <1>9, <2>1, <2>2, Zenon DEF BaseOk
  <1> QED BY <1>7, <1>10 DEF Ind

(* A write to channel control that starts a transfer, chops it, starts     *)
(* nothing, or stops one.                                                  *)
LEMMA WriteChannelControlOk ==
  ASSUME Ind, NEW c \in Channel, NEW busy \in BOOLEAN, NEW mode \in Modes,
         NEW delay \in Nat, NEW trigger, WriteChannelControl(c, busy, mode, delay, trigger)
  PROVE  Ind'
  <1> DEFINE ig == ~chan[c].busy /\ busy
             c1 == [chan EXCEPT ![c].busy = busy]
             ch == [c1 EXCEPT ![c].mode = mode]
             starts == CanTransfer(ch, c, ig)
             chopped == mode = "manual" /\ delay > 1
  <1>1. /\ Resting /\ chan' = ch
        /\ stack' = IF starts /\ ~chopped THEN Call(ch, c, stack) ELSE stack
        /\ IF starts /\ chopped THEN HaltTransfer(delay)
           ELSE NoteStart /\ UNCHANGED <<remaining, unhalt_event>>
        /\ dpcr' = dpcr /\ dicr' = dicr /\ line' = line /\ owed' = owed
    BY Zenon DEF WriteChannelControl
  <1>2. /\ Typed /\ stack = <<>> /\ HaltsOk
        /\ BaseOk(<<>>)
        /\ \A d \in Channel : Exact(d) /\ (Ready(d) => Halted \/ Behind(d))
    BY <1>1, RestingFacts
  <1>3. chan \in [Channel -> Control] BY <1>2 DEF Typed
  <1>4. /\ c1 \in [Channel -> Control] /\ c1[c].blocks = chan[c].blocks
        /\ \A d \in Channel : d # c => c1[d] = chan[d]
    BY <1>3, SetBusy
  <1> HIDE DEF c1
  <1>5. /\ ch \in [Channel -> Control] /\ ch[c].blocks = c1[c].blocks
        /\ \A d \in Channel : d # c => ch[d] = c1[d]
    BY <1>4, SetMode
  <1>6. ~starts => ~(c \in dpcr /\ ch[c].busy /\ ch[c].request) \/ Halted BY Zenon DEF CanTransfer
  <1> HIDE DEF ch, starts, ig
  <1>7. abandoned'.repeating = abandoned.repeating => \A d \in Channel : Exact(d)'
    BY <1>1, <1>2, <1>4, <1>5, Zenon DEF Exact, Again
  <1>8. \A d \in Channel : d # c => (Ready(d)' => Halted \/ Behind(d))
    BY <1>1, <1>2, <1>4, <1>5, Zenon DEF Ready
  <1>9. <<>> \in Bases BY EmptyBase
  <1>10. CASE starts /\ chopped
    <2>1. HaltTransfer(delay) /\ stack' = <<>> BY <1>1, <1>2, <1>10, Zenon
    <2>2. delay >= 1 /\ HaltOk(<<>>) BY <1>2, <1>10, SMT DEF BaseOk
    <2>3. /\ remaining' \in Nat /\ unhalt_event' \in [active : BOOLEAN, ticks : Int]
          /\ Halted' /\ HaltsOk' /\ abandoned' \in Marks /\ abandoned'.repeating = abandoned.repeating
      BY <1>2, <2>1, <2>2, HaltTransferOk
    <2>4. Typed' BY <1>1, <1>2, <1>5, <2>3 DEF Typed, LineFollowsDicr
    <2>5. HaltOk(<<>>)' BY <2>3, Zenon DEF HaltOk, HaltsOk
    <2>6. BaseOk(stack)' BY <1>7, <1>9, <2>1, <2>3, <2>5, Zenon DEF BaseOk
    <2> QED BY <2>4, <2>6 DEF Ind
  <1>11. CASE ~(starts /\ chopped)
    <2>1. remaining' = remaining /\ unhalt_event' = unhalt_event /\ NoteStart
      BY <1>1, <1>11, Zenon
    <2>7. /\ abandoned' \in Marks /\ abandoned'.repeating = abandoned.repeating
          /\ abandoned'.halt = abandoned.halt
      BY <1>2, <2>1, NoteStartOk
    <2>2. Typed' BY <1>1, <1>2, <1>5, <2>1, <2>7 DEF Typed, LineFollowsDicr, Halted
    <2>3. Halted' = Halted BY <2>1, Zenon DEF Halted
    <2>4. HaltOk(<<>>)' BY <1>2, <2>1, <2>3, <2>7, Zenon DEF HaltOk, HaltsOk
    <2>5. CASE starts
      <3>1. stack' = Call(chan', c, <<>>) BY <1>1, <1>2, <1>11, <2>5, Zenon
      <3>2. \A d \in Channel : Ready(d)' => Halted' \/ Behind(d) \/ d = c \/ InHand(<<>>, d)
        BY <1>8, <2>3, Zenon
      <3> QED BY <1>2, <1>7, <1>9, <2>1, <2>2, <2>4, <2>7, <3>1, <3>2, NotedCall
    <2>6. CASE ~starts
      <3>1. stack' = <<>> BY <1>1, <1>2, <2>6, Zenon
      <3>2. Ready(c)' => Halted' BY <1>1, <1>6, <2>3, <2>6, Zenon DEF Ready
      <3>3. \A d \in Channel : Ready(d)' => Halted' \/ Behind(d) \/ InHand(<<>>, d)
        BY <1>8, <2>3, <3>2, Zenon
      <3> QED BY <1>2, <1>7, <1>9, <2>1, <2>2, <2>4, <2>7, <3>1, <3>3, NotedBase
    <2> QED BY <2>5, <2>6
  <1> QED BY <1>10, <1>11

(* A frame alone is a frame pushed on nothing.                             *)
LEMMA PushEmpty ==
  ASSUME NEW f \in Frames
  PROVE  <<f>> = Push(f, <<>>)
  BY DEF Push

(* The first half of a write to the control of the OTC: its frame keeps    *)
(* the OTC in hand.                                                        *)
LEMMA WriteOtcControlOk ==
  ASSUME Ind, NEW c \in Channel, NEW busy \in BOOLEAN, NEW mode \in Modes,
         NEW delay, NEW trigger \in BOOLEAN, WriteOtcControl(c, busy, mode, delay, trigger)
  PROVE  Ind'
  <1> DEFINE c1 == [chan EXCEPT ![c].busy = busy]
             c2 == [c1 EXCEPT ![c].mode = mode]
             ch == [c2 EXCEPT ![c].request = trigger]
             three == [chan EXCEPT ![c].busy = busy, ![c].mode = mode, ![c].request = trigger]
             n == IF ~chan[c].busy /\ busy THEN 1 ELSE 0
             f == Frame("chcr", c, n)
             rest == Push(f, <<>>)
             called == chan[c].request # trigger /\ CanTransfer(ch, c, FALSE)
  <1>1. Resting /\ dpcr' = dpcr /\ dicr' = dicr /\ line' = line /\ owed' = owed
        /\ remaining' = remaining /\ unhalt_event' = unhalt_event
        /\ NoteStart
    BY DEF WriteOtcControl
  <1>2. /\ Typed /\ stack = <<>> /\ HaltsOk
        /\ \A d \in Channel : Exact(d) /\ (Ready(d) => Halted \/ Behind(d))
    BY <1>1, RestingFacts
  <1>3. /\ chan' = ch
        /\ stack' = IF called THEN Call(ch, c, rest) ELSE rest
    <2>1. three = ch BY Zenon
    <2>2. Push(f, stack) = rest BY <1>2
    <2> HIDE DEF ch, f
    <2>3. chan' = three BY Zenon DEF WriteOtcControl
    <2>4. stack' = IF chan[c].request # trigger /\ CanTransfer(three, c, FALSE)
                   THEN Call(three, c, Push(f, stack)) ELSE Push(f, stack)
      BY Zenon DEF WriteOtcControl, f
    <2> HIDE DEF three, rest
    <2>5. stack' = IF chan[c].request # trigger /\ CanTransfer(ch, c, FALSE)
                   THEN Call(ch, c, rest) ELSE rest
      BY <2>1, <2>2, <2>4
    <2> QED BY <2>1, <2>3, <2>5
  <1>20. /\ NoteStart /\ abandoned' \in Marks /\ abandoned'.repeating = abandoned.repeating
         /\ abandoned'.halt = abandoned.halt
    BY <1>1, <1>2, NoteStartOk
  <1>4. chan \in [Channel -> Control] BY <1>2 DEF Typed
  <1>5. /\ c1 \in [Channel -> Control] /\ c1[c].blocks = chan[c].blocks
        /\ \A d \in Channel : d # c => c1[d] = chan[d]
    BY <1>4, SetBusy
  <1> HIDE DEF c1
  <1>6. /\ c2 \in [Channel -> Control] /\ c2[c].blocks = c1[c].blocks
        /\ \A d \in Channel : d # c => c2[d] = c1[d]
    BY <1>5, SetMode
  <1> HIDE DEF c2
  <1>7. /\ ch \in [Channel -> Control] /\ ch[c].blocks = c2[c].blocks
        /\ \A d \in Channel : d # c => ch[d] = c2[d]
    BY <1>6, SetRequestBit
  <1> HIDE DEF ch
  <1>8. /\ rest \in Bases /\ rest # <<>> /\ Head(rest).op = "chcr" /\ Head(rest).ch = c
    <2>1. n \in Int /\ "chcr" \in Ops /\ c \in Nat BY DmaFacts DEF Ops
    <2> HIDE DEF n
    <2>2. f \in Frames /\ f.op = "chcr" /\ f.ch = c BY <2>1, FrameFacts
    <2> HIDE DEF f
    <2> QED BY <2>2, PushBase
  <1> HIDE DEF rest, called
  <1>9. PICK b \in Bases : b = rest /\ b # <<>> /\ Head(b).op = "chcr" /\ Head(b).ch = c BY <1>8
  <1>10. stack' = IF called THEN Call(ch, c, b) ELSE b BY <1>3, <1>9, Zenon
  <1>11. Halted' = Halted BY <1>1, Zenon DEF Halted
  <1>12. \A d \in Channel : Exact(d)'
    <2> SUFFICES ASSUME NEW d \in Channel PROVE Exact(d)' OBVIOUS
    <2>1. chan'[d].blocks = chan[d].blocks BY <1>3, <1>5, <1>6, <1>7, Zenon
    <2>2. owed' = owed /\ Exact(d) BY <1>1, <1>2, Zenon
    <2> QED BY <1>20, <2>1, <2>2, Zenon DEF Exact, Again
  <1>13. \A d \in Channel : d # c => (Ready(d)' => Halted' \/ Behind(d))
    BY <1>1, <1>2, <1>3, <1>5, <1>6, <1>7, <1>11, Zenon DEF Ready
  <1>14. InHand(b, c) BY <1>9, Zenon DEF InHand
  <1>15. Typed' BY <1>1, <1>2, <1>3, <1>7, <1>11, <1>20 DEF Typed, LineFollowsDicr
  <1>16. HaltOk(b)'
    <2>1. Head(b).op # "unhalt" BY <1>9, SMT
    <2> QED BY <1>1, <1>2, <1>11, <1>20, <2>1, Zenon DEF HaltOk, HaltsOk
  <1>17. CASE called
    <2>1. stack' = Call(chan', c, b) BY <1>3, <1>10, <1>17, Zenon
    <2>2. \A d \in Channel : Ready(d)' => Halted' \/ Behind(d) \/ d = c \/ InHand(b, d)
      BY <1>13, Zenon
    <2> QED BY <1>2, <1>12, <1>15, <1>16, <1>20, <2>1, <2>2, NotedCall
  <1>18. CASE ~called
    <2>1. stack' = b BY <1>10, <1>18, Zenon
    <2>2. \A d \in Channel : Ready(d)' => Halted' \/ Behind(d) \/ InHand(b, d)
      BY <1>13, <1>14, Zenon
    <2> QED BY <1>2, <1>12, <1>15, <1>16, <1>20, <2>1, <2>2, NotedBase
  <1> QED BY <1>17, <1>18

(* The second half of it: the OTC is started unless there is a halt.       *)
LEMMA OtcControlWrittenOk ==
  ASSUME Ind, OtcControlWritten
  PROVE  Ind'
  <1> DEFINE c == Head(stack).ch
             x == (Head(stack).left = 1)
  <1>1. /\ stack # <<>> /\ Head(stack).op = "chcr"
        /\ stack' = IF CanTransfer(chan, c, x) THEN Call(chan, c, Tail(stack)) ELSE Tail(stack)
        /\ chan' = chan /\ dpcr' = dpcr /\ dicr' = dicr /\ line' = line /\ owed' = owed
        /\ remaining' = remaining /\ unhalt_event' = unhalt_event
        /\ NoteStart
    BY Zenon DEF OtcControlWritten, TopIs
  <1>2. BaseOk(stack) /\ Typed BY <1>1, TopFacts DEF Ind
  <1>20. /\ NoteStart /\ abandoned' \in Marks /\ abandoned'.repeating = abandoned.repeating
         /\ abandoned'.halt = abandoned.halt
    BY <1>1, <1>2, NoteStartOk
  <1>3. Tail(stack) = <<>> /\ c \in Channel BY <1>1, <1>2, BaseFacts DEF BaseOk
  <1>4. \A d \in Channel : Exact(d) /\ (Ready(d) => Halted \/ Behind(d) \/ d = c)
    BY <1>1, <1>2, Zenon DEF BaseOk, InHand
  <1>5. HaltsOk
    <2>1. Head(stack).op # "unhalt" BY <1>1, SMT
    <2> QED BY <1>2, <2>1, Zenon DEF BaseOk, HaltOk, HaltsOk
  <1> PICK e \in Channel : e = c BY <1>3
  <1>6. Halted' = Halted BY <1>1, Zenon DEF Halted
  <1>7. Typed' BY <1>1, <1>2, <1>6, <1>20 DEF Typed, LineFollowsDicr
  <1>8. HaltOk(<<>>)' BY <1>1, <1>5, <1>6, <1>20, Zenon DEF HaltOk, HaltsOk
  <1>9. \A d \in Channel : Exact(d)' BY <1>1, <1>4, <1>20, Zenon DEF Exact, Again
  <1>10. \A d \in Channel : Ready(d)' => Halted' \/ Behind(d) \/ d = e
    BY <1>1, <1>4, <1>6, Zenon DEF Ready
  <1> HIDE DEF x
  <1>11. CASE CanTransfer(chan, c, x)
    <2>1. stack' = Call(chan', e, <<>>) BY <1>1, <1>3, <1>11, Zenon
    <2>2. \A d \in Channel : Ready(d)' => Halted' \/ Behind(d) \/ d = e \/ InHand(<<>>, d)
      BY <1>10, Zenon
    <2> QED BY <1>2, <1>7, <1>8, <1>9, <1>20, <2>1, <2>2, EmptyBase, NotedCall
  <1>12. CASE ~CanTransfer(chan, c, x)
    <2>1. stack' = <<>> BY <1>1, <1>3, <1>12, Zenon
    <2>2. ~(e \in dpcr /\ chan[e].busy /\ chan[e].request) \/ Halted
      BY <1>12, Zenon DEF CanTransfer
    <2>3. Ready(e)' => Halted' BY <1>1, <1>6, <2>2, Zenon DEF Ready
    <2>4. \A d \in Channel : Ready(d)' => Halted' \/ Behind(d) \/ InHand(<<>>, d)
      BY <1>10, <2>3, Zenon
    <2> QED BY <1>2, <1>7, <1>8, <1>9, <1>20, <2>1, <2>4, EmptyBase, NotedBase
  <1> QED BY <1>11, <1>12

(* A write to DPCR: its sweep has all channels in hand.                    *)
LEMMA WriteDpcrOk ==
  ASSUME Ind, NEW enabled \in SUBSET Channel, WriteDpcr(enabled)
  PROVE  Ind'
  <1> DEFINE f == Frame("dpcr", 0, 0)
  <1>1. /\ Resting /\ dpcr' = enabled /\ stack' = <<f>> /\ chan' = chan
        /\ dicr' = dicr /\ line' = line /\ owed' = owed
        /\ remaining' = remaining /\ unhalt_event' = unhalt_event /\ abandoned' = abandoned
    BY DEF WriteDpcr
  <1>2. /\ Typed /\ stack = <<>> /\ HaltsOk
        /\ \A d \in Channel : Exact(d) /\ (Ready(d) => Halted \/ Behind(d))
    BY <1>1, RestingFacts
  <1>3. f \in Frames /\ f.op = "dpcr" /\ f.ch = 0
    <2>1. "dpcr" \in Ops /\ 0 \in Nat /\ 0 \in Int BY DEF Ops
    <2> QED BY <2>1, FrameFacts
  <1> HIDE DEF f
  <1>4. PICK b \in Bases : stack' = b /\ b # <<>> /\ Head(b).op = "dpcr" /\ Head(b).ch = 0
    <2>1. stack' = Push(f, <<>>) BY <1>1, <1>3, PushEmpty
    <2>2. f.op = "chcr" => f.ch \in Channel BY <1>3, SMT
    <2>3. Push(f, <<>>) \in Bases /\ Push(f, <<>>) # <<>> /\ Head(Push(f, <<>>)) = f
      BY <1>3, <2>2, PushBase
    <2> QED BY <1>3, <2>1, <2>3
  <1>5. Halted' = Halted BY <1>1, Zenon DEF Halted
  <1>6. Typed' BY <1>1, <1>2, <1>5 DEF Typed, LineFollowsDicr
  <1>7. Head(b).op # "unhalt" /\ Head(b).op # "chcr" BY <1>4, SMT
  <1>8. HaltOk(b)' BY <1>1, <1>2, <1>5, <1>7, Zenon DEF HaltOk, HaltsOk
  <1>9. \A d \in Channel : Exact(d)' BY <1>1, <1>2, Zenon DEF Exact, Again
  <1>10. \A d \in Channel : InHand(b, d)
    <2>1. \A d \in Channel : d >= 0 BY DmaFacts, SMT
    <2> QED BY <1>4, <1>7, <2>1, Zenon DEF InHand
  <1> QED BY <1>4, <1>6, <1>8, <1>9, <1>10, BaseStep

(* A write to DICR.                                                        *)
LEMMA WriteDicrOk ==
  ASSUME Ind, NEW value \in DicrWrites, WriteDicr(value)
  PROVE  Ind'
  <1>1. /\ Resting /\ line' = MasterFlag(dicr')
        /\ dicr' = [busError |-> value.busError, enable |-> value.enable,
                    master |-> value.master, flags |-> dicr.flags \ value.ack]
        /\ dpcr' = dpcr /\ stack' = stack /\ chan' = chan /\ owed' = owed
        /\ remaining' = remaining /\ unhalt_event' = unhalt_event /\ abandoned' = abandoned
    BY DEF WriteDicr, UpdateIrq
  <1>2. /\ Typed /\ stack = <<>> /\ HaltsOk
        /\ \A d \in Channel : Exact(d) /\ (Ready(d) => Halted \/ Behind(d))
    BY <1>1, RestingFacts
  <1>3. value.busError \in BOOLEAN /\ value.enable \in SUBSET Channel /\ value.master \in BOOLEAN
    <2>1. value \in [busError : BOOLEAN, enable : SUBSET Channel, master : BOOLEAN,
                     ack : SUBSET Channel]
      BY ChannelAssumption, Zenon DEF ChannelAssumption
    <2> QED BY <2>1, Zenon
  <1>4. dicr.flags \in SUBSET Channel BY <1>2 DEF Typed, Dicr
  <1>5. dicr' \in Dicr
    <2>1. dicr.flags \ value.ack \in SUBSET Channel BY <1>4
    <2> QED BY <1>1, <1>3, <2>1, Zenon DEF Dicr
  <1>6. line' \in BOOLEAN /\ LineFollowsDicr'
    <2>1. MasterFlag(dicr') \in BOOLEAN
      <3>1. dicr'.busError \in BOOLEAN /\ dicr'.master \in BOOLEAN BY <1>5 DEF Dicr
      <3> QED BY <3>1 DEF MasterFlag
    <2> QED BY <1>1, <2>1, Zenon DEF LineFollowsDicr
  <1>7. Halted' = Halted BY <1>1, Zenon DEF Halted
  <1>8. Typed' BY <1>1, <1>2, <1>5, <1>6, <1>7, Zenon DEF Typed
  <1>9. HaltOk(<<>>)' BY <1>1, <1>2, <1>7, Zenon DEF HaltOk, HaltsOk
  <1>10. \A d \in Channel : Exact(d)' BY <1>1, <1>2, Zenon DEF Exact, Again
  <1>11. \A d \in Channel : Ready(d)' => Halted' \/ Behind(d)' \/ InHand(<<>>, d)
    BY <1>1, <1>2, <1>7, Zenon DEF Ready, Behind
  <1>12. stack' = <<>> BY <1>1, <1>2
  <1> QED BY <1>8, <1>9, <1>10, <1>11, <1>12, EmptyBase, BaseStep

(* dma_set_request outside any transfer.                                   *)
LEMMA DeviceRequestOk ==
  ASSUME Ind, NEW c \in Channel, NEW level \in BOOLEAN, DeviceRequest(c, level)
  PROVE  Ind'
  <1> DEFINE ch == [chan EXCEPT ![c].request = level]
             called == chan[c].request # level /\ CanTransfer(ch, c, FALSE)
  <1>1. /\ Resting /\ dpcr' = dpcr /\ dicr' = dicr /\ line' = line /\ owed' = owed
        /\ remaining' = remaining /\ unhalt_event' = unhalt_event
        /\ chan' = ch /\ stack' = IF called THEN Call(ch, c, stack) ELSE stack
        /\ NoteStart
    BY Zenon DEF DeviceRequest, SetRequest
  <1>2. /\ Typed /\ stack = <<>> /\ HaltsOk
        /\ \A d \in Channel : Exact(d) /\ (Ready(d) => Halted \/ Behind(d))
    BY <1>1, RestingFacts
  <1>20. /\ NoteStart /\ abandoned' \in Marks /\ abandoned'.repeating = abandoned.repeating
         /\ abandoned'.halt = abandoned.halt
    BY <1>1, <1>2, NoteStartOk
  <1>3. chan \in [Channel -> Control] BY <1>2 DEF Typed
  <1>4. /\ ch \in [Channel -> Control] /\ ch[c].blocks = chan[c].blocks
        /\ ch[c].busy = chan[c].busy /\ ch[c].request = level
        /\ \A d \in Channel : d # c => ch[d] = chan[d]
    BY <1>3, SetRequestBit
  <1>5. ~CanTransfer(ch, c, FALSE) => ~(c \in dpcr /\ ch[c].busy /\ ch[c].request) \/ Halted
    BY Zenon DEF CanTransfer
  <1> HIDE DEF ch
  <1>6. Halted' = Halted BY <1>1, Zenon DEF Halted
  <1>7. Typed' BY <1>1, <1>2, <1>4, <1>6, <1>20 DEF Typed, LineFollowsDicr
  <1>8. HaltOk(<<>>)' BY <1>1, <1>2, <1>6, <1>20, Zenon DEF HaltOk, HaltsOk
  <1>9. \A d \in Channel : Exact(d)' BY <1>1, <1>2, <1>4, <1>20, Zenon DEF Exact, Again
  <1>10. \A d \in Channel : d # c => (Ready(d)' => Halted' \/ Behind(d))
    BY <1>1, <1>2, <1>4, <1>6, Zenon DEF Ready
  <1>11. CASE called
    <2>1. stack' = Call(chan', c, <<>>) BY <1>1, <1>2, <1>11, Zenon
    <2>2. \A d \in Channel : Ready(d)' => Halted' \/ Behind(d) \/ d = c \/ InHand(<<>>, d)
      BY <1>10, Zenon
    <2> QED BY <1>2, <1>7, <1>8, <1>9, <1>20, <2>1, <2>2, EmptyBase, NotedCall
  <1>12. CASE ~called
    <2>1. stack' = <<>> BY <1>1, <1>2, <1>12, Zenon
    <2>2. Ready(c)' => Halted' \/ Behind(c)
      <3>1. CASE chan[c].request = level BY <1>1, <1>2, <1>4, <1>6, <3>1, Zenon DEF Ready
      <3>2. CASE ~CanTransfer(ch, c, FALSE) BY <1>1, <1>5, <1>6, <3>2, Zenon DEF Ready
      <3> QED BY <1>12, <3>1, <3>2
    <2>3. \A d \in Channel : Ready(d)' => Halted' \/ Behind(d) \/ InHand(<<>>, d)
      BY <1>10, <2>2, Zenon
    <2> QED BY <1>2, <1>7, <1>8, <1>9, <1>20, <2>1, <2>3, EmptyBase, NotedBase
  <1> QED BY <1>11, <1>12

(* The unhalt event: its sweep has all channels in hand, and no halt.      *)
LEMMA UnhaltOk ==
  ASSUME Ind, Unhalt
  PROVE  Ind'
  <1> DEFINE f == Frame("unhalt", 0, 0)
  <1>1. /\ Resting /\ Halted /\ remaining' = remaining - unhalt_event.ticks
        /\ unhalt_event' = NoEvent /\ stack' = <<f>> /\ chan' = chan
        /\ dpcr' = dpcr /\ dicr' = dicr /\ line' = line /\ owed' = owed
        /\ abandoned' = abandoned
    BY DEF Unhalt
  <1>2. /\ Typed /\ unhalt_event.ticks <= remaining
        /\ \A d \in Channel : Exact(d)
    BY <1>1, RestingFacts DEF HaltsOk
  <1>3. f \in Frames /\ f.op = "unhalt" /\ f.ch = 0
    <2>1. "unhalt" \in Ops /\ 0 \in Nat /\ 0 \in Int BY DEF Ops
    <2> QED BY <2>1, FrameFacts
  <1> HIDE DEF f
  <1>4. PICK b \in Bases : stack' = b /\ b # <<>> /\ Head(b).op = "unhalt" /\ Head(b).ch = 0
    <2>1. stack' = Push(f, <<>>) BY <1>1, <1>3, PushEmpty
    <2>2. f.op = "chcr" => f.ch \in Channel BY <1>3, SMT
    <2>3. Push(f, <<>>) \in Bases /\ Push(f, <<>>) # <<>> /\ Head(Push(f, <<>>)) = f
      BY <1>3, <2>2, PushBase
    <2> QED BY <1>3, <2>1, <2>3
  <1>5. remaining' \in Nat
    <2>1. remaining \in Nat /\ unhalt_event.ticks \in Int BY <1>2, Zenon DEF Typed
    <2> QED BY <1>1, <1>2, <2>1, SMT
  <1>6. /\ unhalt_event' \in [active : BOOLEAN, ticks : Int] /\ unhalt_event'.ticks = 0
        /\ ~Halted'
    BY <1>1 DEF NoEvent, Halted
  <1>7. Typed' BY <1>1, <1>2, <1>5, <1>6, Zenon DEF Typed, LineFollowsDicr
  <1>8. HaltOk(b)' BY <1>4, <1>6, Zenon DEF HaltOk, HaltsOk
  <1>9. \A d \in Channel : Exact(d)' BY <1>1, <1>2, Zenon DEF Exact, Again
  <1>10. \A d \in Channel : InHand(b, d)
    <2>1. \A d \in Channel : d >= 0 BY DmaFacts, SMT
    <2>2. Head(b).op # "chcr" BY <1>4, SMT
    <2> QED BY <1>4, <2>1, <2>2, Zenon DEF InHand
  <1> QED BY <1>4, <1>7, <1>8, <1>9, <1>10, BaseStep

(* A sweep starts its next channel: those below it that are ready are      *)
(* halted.                                                                 *)
LEMMA SweepNextOk ==
  ASSUME Ind, SweepNext
  PROVE  Ind'
  <1> DEFINE from == Head(stack).ch
             op == Head(stack).op
  <1>1. PICK c \in Waiting(from) :
          /\ \A d \in Waiting(from) : c <= d
          /\ stack' = Call(chan, c, Push(Frame(op, c + 1, 0), Tail(stack)))
    BY Zenon DEF SweepNext
  <1>2. /\ TopIs("unhalt") \/ TopIs("dpcr")
        /\ chan' = chan /\ dpcr' = dpcr /\ dicr' = dicr /\ line' = line /\ owed' = owed
        /\ remaining' = remaining /\ unhalt_event' = unhalt_event /\ NoteStart
    BY Zenon DEF SweepNext
  <1>3. stack # <<>> /\ (op = "unhalt" \/ op = "dpcr") BY <1>2, Zenon DEF TopIs
  <1>4. op \in {"unhalt", "dpcr", "chcr"} /\ op # "chcr" /\ op \in Ops BY <1>3, SMT DEF Ops
  <1>5. BaseOk(stack) /\ Typed BY <1>3, <1>4, TopFacts DEF Ind
  <1>20. /\ NoteStart /\ abandoned' \in Marks /\ abandoned'.repeating = abandoned.repeating
         /\ abandoned'.halt = abandoned.halt
    BY <1>2, <1>5, NoteStartOk
  <1>6. Tail(stack) = <<>> /\ Head(stack) \in Frames BY <1>3, <1>5, BaseFacts DEF BaseOk
  <1>7. from \in Nat BY <1>6 DEF Frames
  <1>8. c \in Channel /\ c \in Nat BY <1>1, DmaFacts DEF Waiting
  <1>9. PICK f \in Frames : f = Frame(op, c + 1, 0) /\ f.op = op /\ f.ch = c + 1
    <2>1. c + 1 \in Nat /\ 0 \in Int BY <1>8
    <2> QED BY <1>4, <2>1, FrameFacts
  <1>10. PICK b \in Bases : b = Push(f, <<>>) /\ b # <<>> /\ Head(b) = f
    <2>1. f.op \in {"unhalt", "dpcr", "chcr"} /\ (f.op = "chcr" => f.ch \in Channel)
      BY <1>4, <1>9, Zenon
    <2> QED BY <2>1, PushBase
  <1>11. stack' = Call(chan', c, b) BY <1>1, <1>2, <1>6, <1>9, <1>10, Zenon
  <1>12. Halted' = Halted BY <1>2, Zenon DEF Halted
  <1>13. Typed' BY <1>2, <1>5, <1>12, <1>20, Zenon DEF Typed, LineFollowsDicr
  <1>14. HaltOk(b)'
    <2>1. HaltOk(stack) BY <1>5 DEF BaseOk
    <2>2. CASE op = "unhalt"
      <3>1. ~Halted BY <1>3, <2>1, <2>2, Zenon DEF HaltOk, HaltsOk
      <3> QED BY <1>9, <1>10, <1>12, <2>2, <3>1, Zenon DEF HaltOk, HaltsOk
    <2>3. CASE op # "unhalt"
      <3>1. HaltsOk BY <2>1, <2>3, Zenon DEF HaltOk
      <3> QED BY <1>2, <1>9, <1>10, <1>12, <1>20, <2>3, <3>1, Zenon DEF HaltOk, HaltsOk
    <2> QED BY <2>2, <2>3
  <1>15. \A d \in Channel : Exact(d)' BY <1>2, <1>5, <1>20, Zenon DEF BaseOk, Exact, Again
  <1>16. \A d \in Channel : Ready(d)' => Halted' \/ Behind(d) \/ d = c \/ InHand(b, d)
    <2> SUFFICES ASSUME NEW d \in Channel, Ready(d), ~Halted, ~Behind(d), d # c
                 PROVE InHand(b, d)
      BY <1>2, <1>12, Zenon DEF Ready
    <2>1. d >= from BY <1>3, <1>4, <1>5, Zenon DEF BaseOk, InHand
    <2>2. d \in Waiting(from) BY <2>1, Zenon DEF Waiting, CanTransfer, Ready
    <2>3. c <= d BY <1>1, <2>2
    <2>4. d >= c + 1 BY <1>8, <2>3, DmaFacts, SMT
    <2> QED BY <1>4, <1>9, <1>10, <2>4, Zenon DEF InHand
  <1> QED BY <1>5, <1>8, <1>11, <1>13, <1>14, <1>15, <1>16, <1>20, NotedCall

(* A sweep finds no channel any more: the ticks left over are dropped, and *)
(* no halt can be with them.                                               *)
LEMMA SweepEndOk ==
  ASSUME Ind, SweepEnd
  PROVE  Ind'
  <1> DEFINE from == Head(stack).ch
             op == Head(stack).op
  <1>1. /\ TopIs("unhalt") \/ TopIs("dpcr")
        /\ Waiting(from) = {} /\ stack' = Tail(stack)
        /\ remaining' = IF TopIs("unhalt") THEN 0 ELSE remaining
        /\ chan' = chan /\ dpcr' = dpcr /\ dicr' = dicr /\ line' = line /\ owed' = owed
        /\ unhalt_event' = unhalt_event /\ abandoned' = abandoned
    BY Zenon DEF SweepEnd
  <1>2. stack # <<>> /\ (op = "unhalt" \/ op = "dpcr") BY <1>1, Zenon DEF TopIs
  <1>3. op \in {"unhalt", "dpcr", "chcr"} /\ op # "chcr" BY <1>2, SMT
  <1>4. BaseOk(stack) /\ Typed BY <1>2, <1>3, TopFacts DEF Ind
  <1>5. stack' = <<>> BY <1>1, <1>2, <1>4, BaseFacts DEF BaseOk
  <1>6. Halted' = Halted BY <1>1, Zenon DEF Halted
  <1>7. remaining' \in Nat BY <1>1, <1>4 DEF Typed
  <1>8. Typed' BY <1>1, <1>4, <1>6, <1>7, Zenon DEF Typed, LineFollowsDicr
  <1>9. HaltOk(<<>>)'
    <2>1. HaltOk(stack) BY <1>4 DEF BaseOk
    <2>2. CASE op = "unhalt"
      <3>1. ~Halted BY <1>2, <2>1, <2>2, Zenon DEF HaltOk, HaltsOk
      <3>2. remaining' = 0 BY <1>1, <1>2, <2>2, Zenon DEF TopIs
      <3>3. unhalt_event'.ticks = 0 BY <1>1, <1>4, <3>1, Zenon DEF Typed
      <3>4. ~(remaining' > 0) /\ unhalt_event'.ticks <= remaining' BY <3>2, <3>3, SMT
      <3> QED BY <1>6, <3>1, <3>4, Zenon DEF HaltOk, HaltsOk
    <2>3. CASE op # "unhalt"
      <3>1. HaltsOk BY <2>1, <2>3, Zenon DEF HaltOk
      <3>2. remaining' = remaining BY <1>1, <2>3, Zenon DEF TopIs
      <3> QED BY <1>1, <1>6, <3>1, <3>2, Zenon DEF HaltOk, HaltsOk
    <2> QED BY <2>2, <2>3
  <1>10. \A d \in Channel : Exact(d)' BY <1>1, <1>4, Zenon DEF BaseOk, Exact, Again
  <1>11. \A d \in Channel : Ready(d)' => Halted' \/ Behind(d)' \/ InHand(<<>>, d)
    <2> SUFFICES ASSUME NEW d \in Channel, Ready(d), ~Halted, ~Behind(d) PROVE FALSE
      BY <1>1, <1>6, Zenon DEF Ready, Behind
    <2>1. d >= from BY <1>2, <1>3, <1>4, Zenon DEF BaseOk, InHand
    <2>2. d \in Waiting(from) BY <2>1, Zenon DEF Waiting, CanTransfer, Ready
    <2> QED BY <1>1, <2>2
  <1> QED BY <1>5, <1>8, <1>9, <1>10, <1>11, EmptyBase, BaseStep

(* The values of a reset.                                                  *)
LEMMA IdleFacts ==
  /\ [c \in Channel |-> Idle] \in [Channel -> Control] /\ [c \in Channel |-> Full] \in [Channel -> Int]
  /\ NothingUndone \in Marks /\ Idle.busy = FALSE /\ Count(Idle.blocks) = Full
  /\ ClearDicr \in Dicr /\ ~MasterFlag(ClearDicr)
  /\ NoEvent \in [active : BOOLEAN, ticks : Int] /\ NoEvent.active = FALSE /\ NoEvent.ticks = 0
  <1>1. Idle \in Control /\ Idle.busy = FALSE /\ Idle.blocks = 0
    <2>1. 0 \in 0..Full - 1 BY DmaFacts
    <2> QED BY <2>1, Zenon DEF Idle, Control
  <1>2. [c \in Channel |-> Idle] \in [Channel -> Control] BY <1>1
  <1>3. [c \in Channel |-> Full] \in [Channel -> Int] BY DmaFacts
  <1>4. Count(Idle.blocks) = Full BY <1>1 DEF Count
  <1>5. ClearDicr \in Dicr /\ ~MasterFlag(ClearDicr) BY DEF ClearDicr, Dicr, MasterFlag
  <1>6. /\ NoEvent \in [active : BOOLEAN, ticks : Int] /\ NoEvent.active = FALSE
        /\ NoEvent.ticks = 0
    BY DEF NoEvent
  <1>7. NothingUndone \in Marks BY DEF NothingUndone, Marks
  <1> QED BY <1>1, <1>2, <1>3, <1>4, <1>5, <1>6, <1>7

(* The controller at the start.                                            *)
LEMMA InitOk ==
  ASSUME Init
  PROVE  Ind
  <1>1. Typed
    <2>1. LineFollowsDicr BY IdleFacts, Zenon DEF LineFollowsDicr, Init
    <2>2. dpcr \subseteq Channel /\ line \in BOOLEAN /\ remaining \in Nat BY DEF Init
    <2> QED BY <2>1, <2>2, IdleFacts, Zenon DEF Typed, Init
  <1>2. HaltOk(<<>>)
    <2>1. ~Halted BY IdleFacts, Zenon DEF Halted, Init
    <2>2. ~(remaining > 0) /\ unhalt_event.ticks <= remaining BY IdleFacts, SMT DEF Init
    <2> QED BY <2>1, <2>2, Zenon DEF HaltOk, HaltsOk
  <1>3. \A c \in Channel : chan[c] = Idle /\ owed[c] = Full BY DEF Init
  <1>4. \A c \in Channel : Exact(c) BY <1>3, IdleFacts, Zenon DEF Exact, Again
  <1>5. \A c \in Channel : ~Ready(c) BY <1>3, IdleFacts, Zenon DEF Ready
  <1>6. BaseOk(stack) BY <1>2, <1>4, <1>5, EmptyBase, Zenon DEF BaseOk, Init
  <1> QED BY <1>1, <1>6 DEF Ind

(* dma_reset.                                                              *)
LEMMA ResetOk ==
  ASSUME Ind, Reset
  PROVE  Ind'
  <1>1. /\ Resting /\ chan' = [c \in Channel |-> Idle] /\ dpcr' = {} /\ dicr' = ClearDicr
        /\ line' = FALSE /\ remaining' = 0 /\ unhalt_event' = NoEvent
        /\ owed' = [c \in Channel |-> Full] /\ stack' = stack /\ abandoned' = NothingUndone
    BY DEF Reset
  <1>2. stack' = <<>> BY <1>1, RestingFacts
  <1>3. Typed'
    <2>1. LineFollowsDicr' BY <1>1, IdleFacts, Zenon DEF LineFollowsDicr
    <2>2. dpcr' \subseteq Channel /\ line' \in BOOLEAN /\ remaining' \in Nat BY <1>1
    <2> QED BY <1>1, <2>1, <2>2, IdleFacts, Zenon DEF Typed
  <1>4. HaltOk(<<>>)'
    <2>1. ~Halted' BY <1>1, IdleFacts, Zenon DEF Halted
    <2>2. ~(remaining' > 0) /\ unhalt_event'.ticks <= remaining' BY <1>1, IdleFacts, SMT
    <2> QED BY <2>1, <2>2, Zenon DEF HaltOk, HaltsOk
  <1>5. \A c \in Channel : chan'[c] = Idle /\ owed'[c] = Full BY <1>1
  <1>6. \A c \in Channel : Exact(c)' BY <1>5, IdleFacts, Zenon DEF Exact, Again
  <1>7. \A c \in Channel : ~Ready(c)' BY <1>5, IdleFacts, Zenon DEF Ready
  <1> QED BY <1>2, <1>3, <1>4, <1>6, <1>7, EmptyBase, BaseStep

(* A save and its load: the event is what the ticks make it.               *)
LEMMA SaveAndLoadOk ==
  ASSUME Ind, SaveAndLoad
  PROVE  Ind'
  <1>1. /\ Resting
        /\ unhalt_event' = IF remaining <= 0 THEN NoEvent
                           ELSE IF Halted THEN unhalt_event ELSE After(remaining)
        /\ dpcr' = dpcr /\ dicr' = dicr /\ line' = line /\ owed' = owed /\ chan' = chan
        /\ remaining' = remaining /\ stack' = stack
        /\ abandoned' = [abandoned EXCEPT !.halt = FALSE]
    BY DEF SaveAndLoad
  <1>2. /\ Typed /\ stack = <<>> /\ HaltsOk
        /\ \A d \in Channel : Exact(d) /\ (Ready(d) => Halted \/ Behind(d))
    BY <1>1, RestingFacts
  <1>3. /\ abandoned' \in Marks /\ abandoned'.repeating = abandoned.repeating
        /\ abandoned'.waiting = abandoned.waiting
    <2>1. abandoned \in Marks BY <1>2 DEF Typed
    <2> QED BY <1>1, <2>1, Zenon DEF Marks
  <1>4. /\ unhalt_event' \in [active : BOOLEAN, ticks : Int] /\ (Halted => Halted')
        /\ (Halted' <=> remaining > 0) /\ unhalt_event'.ticks <= remaining
        /\ ~Halted' => unhalt_event'.ticks = 0
    <2>1. /\ remaining \in Nat /\ unhalt_event \in [active : BOOLEAN, ticks : Int]
          /\ Halted => remaining > 0
          /\ unhalt_event.ticks <= remaining
      BY <1>2, Zenon DEF Typed, HaltsOk
    <2>2. CASE remaining <= 0
      <3>1. ~Halted /\ ~(remaining > 0) /\ 0 <= remaining BY <2>1, <2>2, SMT
      <3>2. unhalt_event' = NoEvent BY <1>1, <2>2, Zenon
      <3> QED BY <3>1, <3>2, IdleFacts, Zenon DEF Halted
    <2>3. CASE ~(remaining <= 0)
      <3>1. remaining > 0 /\ remaining <= remaining /\ remaining \in Int BY <2>1, <2>3, SMT
      <3>2. CASE Halted
        <4>1. unhalt_event' = unhalt_event BY <1>1, <2>3, <3>2, Zenon
        <4> QED BY <2>1, <3>1, <3>2, <4>1, Zenon DEF Halted
      <3>3. CASE ~Halted
        <4>1. unhalt_event' = [active |-> TRUE, ticks |-> remaining]
          BY <1>1, <2>3, <3>3, Zenon DEF After
        <4>2. /\ unhalt_event' \in [active : BOOLEAN, ticks : Int]
              /\ unhalt_event'.active = TRUE /\ unhalt_event'.ticks = remaining
          BY <3>1, <4>1, Zenon
        <4> QED BY <3>1, <4>2, Zenon DEF Halted
      <3> QED BY <3>2, <3>3
    <2> QED BY <2>2, <2>3
  <1>5. Typed' BY <1>1, <1>2, <1>3, <1>4, Zenon DEF Typed, LineFollowsDicr
  <1>6. HaltOk(<<>>)' BY <1>1, <1>4, Zenon DEF HaltOk, HaltsOk
  <1>7. \A d \in Channel : Exact(d)' BY <1>1, <1>2, <1>3, Zenon DEF Exact, Again
  <1>8. \A d \in Channel : Ready(d)' => Halted' \/ Behind(d)' \/ InHand(<<>>, d)
    BY <1>1, <1>2, <1>3, <1>4, Zenon DEF Ready, Behind
  <1>9. stack' = <<>> BY <1>1, <1>2
  <1> QED BY <1>5, <1>6, <1>7, <1>8, <1>9, EmptyBase, BaseStep

-----------------------------------------------------------------------------
(* The steps of a transfer *)

(* Steps that end in a transfer.                                           *)
LEMMA MoveStep ==
  ASSUME Typed', NEW f \in Frames, NEW b \in Bases, stack' = Push(f, b), MoveOk(f, b)'
  PROVE  Ind'
  <1>1. InMove' BY Zenon DEF InMove
  <1> QED BY <1>1 DEF Ind

(* Before a block there is a transfer on top, with blocks left.            *)
LEMMA AtBlockFacts ==
  ASSUME Ind, NEW f, f = Head(stack), AtBlock
  PROVE  /\ f \in Frames /\ Typed /\ f.ch \in Channel /\ f.left \in 1..Full
         /\ \E b \in Bases : stack = Push(f, b) /\ MoveOk(f, b)
  <1>1. stack # <<>> /\ (f.op = "first" \/ (f.op = "loop" /\ f.left > 0))
    BY Zenon DEF AtBlock, TopIs
  <1>2. f.op \in {"first", "loop"} BY <1>1, SMT
  <1>3. f \in Frames /\ \E b \in Bases : stack = Push(f, b) /\ MoveOk(f, b)
    BY <1>1, <1>2, TopFacts
  <1>4. f.ch \in Channel /\ f.left \in 0..Full /\ (f.op = "first" => f.left >= 1)
    BY <1>3, Zenon DEF MoveOk
  <1>5. f.left \in 1..Full BY <1>1, <1>4, DmaFacts, SMT
  <1> QED BY <1>3, <1>4, <1>5 DEF Ind

(* After a block there is a transfer on top.                               *)
LEMMA LoopingFacts ==
  ASSUME Ind, NEW c \in Channel, NEW f, f = Head(stack), Looping(c)
  PROVE  /\ f \in Frames /\ Typed /\ f.ch = c /\ f.left \in 0..Full
         /\ \E b \in Bases : stack = Push(f, b) /\ MoveOk(f, b)
  <1>1. stack # <<>> /\ f.op = "loop" /\ f.ch = c BY Zenon DEF Looping, TopIs
  <1>2. f.op \in {"first", "loop"} BY <1>1
  <1>3. f \in Frames /\ \E b \in Bases : stack = Push(f, b) /\ MoveOk(f, b)
    BY <1>1, <1>2, TopFacts
  <1>4. f.left \in 0..Full BY <1>3, Zenon DEF MoveOk
  <1> QED BY <1>1, <1>3, <1>4 DEF Ind

(* The count stored when a transfer stops is the one it had left.          *)
LEMMA StoreProgressOk ==
  ASSUME chan \in [Channel -> Control], owed \in [Channel -> Int],
         NEW c \in Channel, NEW f, f = Head(stack), f.left \in 1..Full,
         IF chan[c].mode = "request" THEN Again(c) \/ owed[c] = f.left ELSE Exact(c)
  PROVE  LET ch == StoreProgress(c) IN
         /\ ch \in [Channel -> Control]
         /\ Again(c) \/ Count(ch[c].blocks) = owed[c]
         /\ ch[c].busy = chan[c].busy /\ ch[c].mode = chan[c].mode
         /\ ch[c].request = chan[c].request
         /\ \A d \in Channel : d # c => ch[d] = chan[d]
  <1> DEFINE x == IF chan[c].mode = "request" THEN f.left % Full ELSE chan[c].blocks
             ch == [chan EXCEPT ![c].blocks = x]
  <1>1. StoreProgress(c) = ch BY Zenon DEF StoreProgress
  <1>2. f.left % Full \in 0..Full - 1 /\ Count(f.left % Full) = f.left BY CountLeft
  <1>3. chan[c].blocks \in 0..Full - 1 BY ControlFields
  <1>4. x \in 0..Full - 1 /\ (Again(c) \/ Count(x) = owed[c])
    <2>1. CASE chan[c].mode = "request"
      <3>1. x = f.left % Full /\ (Again(c) \/ owed[c] = f.left) BY <2>1, Zenon
      <3> QED BY <1>2, <3>1, Zenon
    <2>2. CASE chan[c].mode # "request"
      <3>1. x = chan[c].blocks /\ Exact(c) BY <2>2, Zenon
      <3> QED BY <1>3, <3>1, Zenon DEF Exact, Again
    <2> QED BY <2>1, <2>2
  <1> HIDE DEF x
  <1>5. /\ ch \in [Channel -> Control] /\ ch[c].busy = chan[c].busy /\ ch[c].mode = chan[c].mode
        /\ ch[c].blocks = x /\ ch[c].request = chan[c].request
        /\ \A d \in Channel : d # c => ch[d] = chan[d]
    BY <1>4, SetBlocks
  <1> HIDE DEF ch
  <1> QED BY <1>1, <1>4, <1>5, Zenon

(* A bus error: the channel is idle, with its count kept.                  *)
LEMMA BusErrorOk ==
  ASSUME Ind, BusError
  PROVE  Ind'
  <1>1. PICK c \in Channel :
          /\ AtBlock /\ c = Head(stack).ch
          /\ chan' = [StoreProgress(c) EXCEPT ![c].busy = FALSE]
          /\ dicr' = [dicr EXCEPT !.busError = TRUE, !.flags = @ \cup {c}]
          /\ line' = MasterFlag(dicr') /\ stack' = ReturnFrom(stack, TRUE)
          /\ dpcr' = dpcr /\ owed' = owed /\ remaining' = remaining
          /\ unhalt_event' = unhalt_event /\ abandoned' = abandoned
    BY Zenon DEF BusError, UpdateIrq
  <1>2. PICK f : f = Head(stack) OBVIOUS
  <1>3. f \in Frames /\ Typed /\ f.left \in 1..Full BY <1>1, <1>2, AtBlockFacts
  <1>4. PICK b \in Bases : stack = Push(f, b) /\ MoveOk(f, b) BY <1>1, <1>2, AtBlockFacts
  <1>5. stack' = b BY <1>1, <1>3, <1>4, ReturnTrue
  <1>6. f.ch = c BY <1>1, <1>2
  <1>7. /\ HaltOk(b) /\ \A d \in Channel : d # c => Exact(d)
        /\ IF chan[c].mode = "request" THEN Again(c) \/ owed[c] = f.left ELSE Exact(c)
        /\ \A d \in Channel : Ready(d) => Halted \/ Behind(d) \/ d = c \/ InHand(b, d)
    BY <1>4, <1>6, Zenon DEF MoveOk
  <1> DEFINE s == StoreProgress(c)
             ch == [s EXCEPT ![c].busy = FALSE]
  <1>8. chan \in [Channel -> Control] /\ owed \in [Channel -> Int] BY <1>3 DEF Typed
  <1>9. /\ s \in [Channel -> Control] /\ (Again(c) \/ Count(s[c].blocks) = owed[c])
        /\ \A d \in Channel : d # c => s[d] = chan[d]
    BY <1>2, <1>3, <1>7, <1>8, StoreProgressOk
  <1> HIDE DEF s
  <1>10. /\ ch \in [Channel -> Control] /\ ch[c].busy = FALSE /\ ch[c].blocks = s[c].blocks
         /\ \A d \in Channel : d # c => ch[d] = s[d]
    BY <1>9, SetBusy
  <1>11. chan' = ch BY <1>1, Zenon DEF s
  <1> HIDE DEF ch
  <1>12. dicr' \in Dicr /\ MasterFlag(dicr')
    <2>1. dicr \in Dicr BY <1>3 DEF Typed
    <2>2. dicr' \in Dicr /\ dicr'.busError = TRUE BY <1>1, <2>1, Zenon DEF Dicr
    <2> QED BY <2>2, Zenon DEF MasterFlag
  <1>13. line' = TRUE BY <1>1, <1>12, Zenon DEF MasterFlag
  <1>14. Halted' = Halted BY <1>1, Zenon DEF Halted
  <1>15. Typed' BY <1>1, <1>3, <1>10, <1>11, <1>12, <1>13, <1>14 DEF Typed, LineFollowsDicr
  <1>16. HaltOk(b)' BY <1>1, <1>7, <1>14, Zenon DEF HaltOk, HaltsOk
  <1>17. \A d \in Channel : Exact(d)'
    <2>1. Exact(c)' BY <1>1, <1>9, <1>10, <1>11, Zenon DEF Exact, Again
    <2>2. \A d \in Channel : d # c => chan'[d] = chan[d] BY <1>9, <1>10, <1>11
    <2>3. \A d \in Channel : d # c => Exact(d)' BY <1>1, <1>7, <2>2, Zenon DEF Exact, Again
    <2> QED BY <2>1, <2>3
  <1>18. \A d \in Channel : Ready(d)' => Halted' \/ Behind(d)' \/ InHand(b, d)
    <2>1. ~Ready(c)' BY <1>10, <1>11, Zenon DEF Ready
    <2>2. \A d \in Channel : d # c => (Ready(d)' => Halted' \/ Behind(d)' \/ InHand(b, d))
      BY <1>1, <1>7, <1>9, <1>10, <1>11, <1>14, Zenon DEF Ready, Behind
    <2> QED BY <2>1, <2>2
  <1> QED BY <1>5, <1>15, <1>16, <1>17, <1>18, BaseStep

(* The end of a transfer.                                                  *)
LEMMA CompleteOk ==
  ASSUME Ind, Complete
  PROVE  Ind'
  <1> DEFINE Cleared(c) ==
               [chan EXCEPT ![c].busy = FALSE,
                            ![c].blocks = IF chan[c].mode = "request" THEN 0 ELSE @]
  <1>1. PICK c \in Channel :
          /\ Looping(c) /\ Head(stack).left = 0
          /\ chan' = Cleared(c)
          /\ IF chan[c].mode = "request"
             THEN /\ owed' = [owed EXCEPT ![c] = Full]
                  /\ abandoned' = [abandoned EXCEPT !.repeating = @ \ {c}]
             ELSE owed' = owed /\ abandoned' = abandoned
          /\ RaiseCompletion(c) /\ stack' = ReturnFrom(stack, TRUE)
          /\ dpcr' = dpcr /\ remaining' = remaining /\ unhalt_event' = unhalt_event
    BY DEF Complete
  <1> HIDE DEF Cleared
  <1>2. PICK f : f = Head(stack) OBVIOUS
  <1>3. f \in Frames /\ Typed /\ f.ch = c BY <1>1, <1>2, LoopingFacts
  <1>4. PICK b \in Bases : stack = Push(f, b) /\ MoveOk(f, b) BY <1>1, <1>2, LoopingFacts
  <1>5. stack' = b BY <1>1, <1>3, <1>4, ReturnTrue
  <1>6. /\ HaltOk(b) /\ \A d \in Channel : d # c => Exact(d)
        /\ chan[c].mode # "request" => Exact(c)
        /\ \A d \in Channel : Ready(d) => Halted \/ Behind(d) \/ d = c \/ InHand(b, d)
    BY <1>3, <1>4, Zenon DEF MoveOk
  <1> DEFINE s == [chan EXCEPT ![c].busy = FALSE]
             x == IF chan[c].mode = "request" THEN 0 ELSE s[c].blocks
             ch == [s EXCEPT ![c].blocks = x]
  <1>7. chan \in [Channel -> Control] /\ owed \in [Channel -> Int] /\ Full \in Int
    BY <1>3, DmaFacts DEF Typed
  <1>8. chan' = ch
    <2>1. Cleared(c) = ch BY Zenon DEF Cleared
    <2> QED BY <1>1, <2>1, Zenon
  <1>9. /\ s \in [Channel -> Control] /\ s[c].busy = FALSE /\ s[c].blocks = chan[c].blocks
        /\ \A d \in Channel : d # c => s[d] = chan[d]
    BY <1>7, SetBusy
  <1>10. x \in 0..Full - 1
    <2>1. s[c].blocks \in 0..Full - 1 BY <1>9, ControlFields
    <2> QED BY <2>1, DmaFacts, Zenon
  <1>11. Count(x) = IF chan[c].mode = "request" THEN Full ELSE Count(chan[c].blocks)
    BY <1>9, Zenon DEF Count
  <1> HIDE DEF s, x
  <1>12. /\ ch \in [Channel -> Control] /\ ch[c].busy = s[c].busy /\ ch[c].blocks = x
         /\ \A d \in Channel : d # c => ch[d] = s[d]
    BY <1>9, <1>10, SetBlocks
  <1> HIDE DEF ch
  <1>13. /\ owed' \in [Channel -> Int] /\ \A d \in Channel : d # c => owed'[d] = owed[d]
         /\ owed'[c] = IF chan[c].mode = "request" THEN Full ELSE owed[c]
    <2>1. CASE chan[c].mode = "request"
      <3>1. owed' = [owed EXCEPT ![c] = Full] BY <1>1, <2>1, Zenon
      <3> QED BY <1>7, <2>1, <3>1, Zenon
    <2>2. CASE chan[c].mode # "request"
      <3>1. owed' = owed BY <1>1, <2>2, Zenon
      <3> QED BY <1>7, <2>2, <3>1, Zenon
    <2> QED BY <2>1, <2>2
  <1>20. /\ abandoned' \in Marks /\ abandoned'.waiting = abandoned.waiting
         /\ abandoned'.halt = abandoned.halt
         /\ abandoned'.repeating = IF chan[c].mode = "request" THEN abandoned.repeating \ {c}
                                  ELSE abandoned.repeating
    <2>1. abandoned \in Marks BY <1>3 DEF Typed
    <2>2. abandoned.repeating \ {c} \in SUBSET Channel BY <2>1, Zenon DEF Marks
    <2>3. CASE chan[c].mode = "request"
      <3>1. abandoned' = [abandoned EXCEPT !.repeating = @ \ {c}] BY <1>1, <2>3, Zenon
      <3> QED BY <2>1, <2>2, <2>3, <3>1, Zenon DEF Marks
    <2>4. CASE chan[c].mode # "request"
      <3>1. abandoned' = abandoned BY <1>1, <2>4, Zenon
      <3> QED BY <2>1, <2>4, <3>1, Zenon
    <2> QED BY <2>3, <2>4
  <1>21. \A d \in Channel : d # c => (Again(d) => Again(d)')
    <2>1. CASE chan[c].mode = "request" BY <1>20, <2>1, Zenon DEF Again
    <2>2. CASE chan[c].mode # "request" BY <1>20, <2>2, Zenon DEF Again
    <2> QED BY <2>1, <2>2
  <1>14. dicr' \in Dicr /\ line' \in BOOLEAN /\ LineFollowsDicr'
    <2>1. dicr \in Dicr /\ line \in BOOLEAN /\ LineFollowsDicr BY <1>3 DEF Typed
    <2>2. CASE c \in dicr.enable /\ dicr.master
      <3>1. dicr' = [dicr EXCEPT !.flags = @ \cup {c}] /\ line' = MasterFlag(dicr')
        BY <1>1, <2>2, Zenon DEF RaiseCompletion, UpdateIrq
      <3>2. dicr' \in Dicr /\ dicr'.busError = dicr.busError /\ dicr'.master = dicr.master
        BY <2>1, <3>1, Zenon DEF Dicr
      <3>3. MasterFlag(dicr') \in BOOLEAN
        <4>1. dicr'.busError \in BOOLEAN /\ dicr'.master \in BOOLEAN BY <3>2 DEF Dicr
        <4> QED BY <4>1 DEF MasterFlag
      <3> QED BY <3>1, <3>2, <3>3, Zenon DEF LineFollowsDicr
    <2>3. CASE ~(c \in dicr.enable /\ dicr.master)
      <3>1. dicr' = dicr /\ line' = line BY <1>1, <2>3, Zenon DEF RaiseCompletion
      <3> QED BY <2>1, <3>1, Zenon DEF LineFollowsDicr
    <2> QED BY <2>2, <2>3
  <1>15. Halted' = Halted BY <1>1, Zenon DEF Halted
  <1>16. Typed' BY <1>1, <1>3, <1>8, <1>12, <1>13, <1>14, <1>15, <1>20,
                   Zenon DEF Typed
  <1>17. HaltOk(b)' BY <1>1, <1>6, <1>15, <1>20, Zenon DEF HaltOk, HaltsOk
  <1>18. \A d \in Channel : Exact(d)'
    <2>1. Exact(c)'
      <3>1. CASE chan[c].mode = "request"
        BY <1>8, <1>11, <1>12, <1>13, <3>1, Zenon DEF Exact, Again
      <3>2. CASE chan[c].mode # "request"
        BY <1>6, <1>8, <1>11, <1>12, <1>13, <1>20, <3>2, Zenon DEF Exact, Again
      <3> QED BY <3>1, <3>2
    <2>2. \A d \in Channel : d # c => Exact(d)'
      BY <1>6, <1>8, <1>9, <1>12, <1>13, <1>21, Zenon DEF Exact
    <2> QED BY <2>1, <2>2
  <1>19. \A d \in Channel : Ready(d)' => Halted' \/ Behind(d)' \/ InHand(b, d)
    <2>1. ~Ready(c)' BY <1>8, <1>9, <1>12, Zenon DEF Ready
    <2>2. \A d \in Channel : d # c => (Ready(d)' => Halted' \/ Behind(d)' \/ InHand(b, d))
      BY <1>1, <1>6, <1>8, <1>9, <1>12, <1>15, <1>20, Zenon DEF Ready, Behind
    <2> QED BY <2>1, <2>2
  <1> QED BY <1>5, <1>16, <1>17, <1>18, <1>19, BaseStep

(* The device drops its request: the channel is no longer ready.           *)
LEMMA RequestDroppedOk ==
  ASSUME Ind, RequestDropped
  PROVE  Ind'
  <1>1. PICK c \in Channel :
          /\ Looping(c) /\ Head(stack).left > 0 /\ ~chan[c].request
          /\ chan' = StoreProgress(c) /\ stack' = ReturnFrom(stack, TRUE)
          /\ dpcr' = dpcr /\ dicr' = dicr /\ line' = line /\ owed' = owed
          /\ remaining' = remaining /\ unhalt_event' = unhalt_event
          /\ abandoned' = abandoned
    BY Zenon DEF RequestDropped
  <1>2. PICK f : f = Head(stack) OBVIOUS
  <1>3. f \in Frames /\ Typed /\ f.ch = c /\ f.left \in 0..Full BY <1>1, <1>2, LoopingFacts
  <1>4. PICK b \in Bases : stack = Push(f, b) /\ MoveOk(f, b) BY <1>1, <1>2, LoopingFacts
  <1>5. stack' = b BY <1>1, <1>3, <1>4, ReturnTrue
  <1>6. f.left \in 1..Full BY <1>1, <1>2, <1>3, DmaFacts, SMT
  <1>7. /\ HaltOk(b) /\ \A d \in Channel : d # c => Exact(d)
        /\ IF chan[c].mode = "request" THEN Again(c) \/ owed[c] = f.left ELSE Exact(c)
        /\ \A d \in Channel : Ready(d) => Halted \/ Behind(d) \/ d = c \/ InHand(b, d)
    BY <1>3, <1>4, Zenon DEF MoveOk
  <1>8. chan \in [Channel -> Control] /\ owed \in [Channel -> Int] BY <1>3 DEF Typed
  <1>9. /\ chan' \in [Channel -> Control] /\ (Again(c) \/ Count(chan'[c].blocks) = owed[c])
        /\ chan'[c].request = chan[c].request
        /\ \A d \in Channel : d # c => chan'[d] = chan[d]
    BY <1>1, <1>2, <1>6, <1>7, <1>8, StoreProgressOk
  <1>10. Halted' = Halted BY <1>1, Zenon DEF Halted
  <1>11. Typed' BY <1>1, <1>3, <1>9, <1>10, Zenon DEF Typed, LineFollowsDicr
  <1>12. HaltOk(b)' BY <1>1, <1>7, <1>10, Zenon DEF HaltOk, HaltsOk
  <1>13. \A d \in Channel : Exact(d)'
    <2>1. Exact(c)' BY <1>1, <1>9, Zenon DEF Exact, Again
    <2>2. \A d \in Channel : d # c => Exact(d)' BY <1>1, <1>7, <1>9, Zenon DEF Exact, Again
    <2> QED BY <2>1, <2>2
  <1>14. \A d \in Channel : Ready(d)' => Halted' \/ Behind(d)' \/ InHand(b, d)
    <2>1. ~Ready(c)' BY <1>1, <1>9, Zenon DEF Ready
    <2>2. \A d \in Channel : d # c => (Ready(d)' => Halted' \/ Behind(d)' \/ InHand(b, d))
      BY <1>1, <1>7, <1>9, <1>10, Zenon DEF Ready, Behind
    <2> QED BY <2>1, <2>2
  <1> QED BY <1>5, <1>11, <1>12, <1>13, <1>14, BaseStep

(* The slice is over: there is a halt now, whether it is new or not.       *)
LEMMA SliceOverOk ==
  ASSUME Ind, SliceOver
  PROVE  Ind'
  <1>1. PICK c \in Channel :
          /\ Looping(c) /\ Head(stack).left > 0
          /\ chan' = StoreProgress(c) /\ stack' = ReturnFrom(stack, FALSE)
          /\ \/ HaltTransfer(HaltTicks)
             \/ /\ Halted /\ remaining' = remaining /\ unhalt_event' = unhalt_event
                /\ abandoned' = abandoned
          /\ dpcr' = dpcr /\ dicr' = dicr /\ line' = line /\ owed' = owed
    BY Zenon DEF SliceOver
  <1>2. PICK f : f = Head(stack) OBVIOUS
  <1>3. f \in Frames /\ Typed /\ f.ch = c /\ f.left \in 0..Full BY <1>1, <1>2, LoopingFacts
  <1>4. PICK b \in Bases : stack = Push(f, b) /\ MoveOk(f, b) BY <1>1, <1>2, LoopingFacts
  <1>5. f.left \in 1..Full BY <1>1, <1>2, <1>3, DmaFacts, SMT
  <1>6. /\ HaltOk(b) /\ \A d \in Channel : d # c => Exact(d)
        /\ IF chan[c].mode = "request" THEN Again(c) \/ owed[c] = f.left ELSE Exact(c)
    BY <1>3, <1>4, Zenon DEF MoveOk
  <1>7. chan \in [Channel -> Control] /\ owed \in [Channel -> Int] BY <1>3 DEF Typed
  <1>8. /\ chan' \in [Channel -> Control] /\ (Again(c) \/ Count(chan'[c].blocks) = owed[c])
        /\ \A d \in Channel : d # c => chan'[d] = chan[d]
    BY <1>1, <1>2, <1>5, <1>6, <1>7, StoreProgressOk
  <1>10. /\ remaining' \in Nat /\ unhalt_event' \in [active : BOOLEAN, ticks : Int]
         /\ Halted' /\ HaltsOk' /\ abandoned' \in Marks
         /\ abandoned'.repeating = abandoned.repeating
    <2>1. CASE HaltTransfer(HaltTicks) BY <1>3, <1>6, <2>1, DmaFacts, HaltTransferOk
    <2>2. CASE /\ Halted /\ remaining' = remaining /\ unhalt_event' = unhalt_event
               /\ abandoned' = abandoned
      <3>1. HaltsOk BY <1>6, <2>2, Zenon DEF HaltOk
      <3>2. remaining \in Nat /\ unhalt_event \in [active : BOOLEAN, ticks : Int]
            /\ abandoned \in Marks
        BY <1>3 DEF Typed
      <3>3. Halted' BY <2>2, Zenon DEF Halted
      <3> QED BY <2>2, <3>1, <3>2, <3>3, Zenon DEF HaltsOk
    <2> QED BY <1>1, <2>1, <2>2
  <1>9. \A d \in Channel : Exact(d)'
    <2>1. Exact(c)' BY <1>1, <1>8, <1>10, Zenon DEF Exact, Again
    <2>2. \A d \in Channel : d # c => Exact(d)' BY <1>1, <1>6, <1>8, <1>10, Zenon DEF Exact, Again
    <2> QED BY <2>1, <2>2
  <1>11. Typed' BY <1>1, <1>3, <1>8, <1>10, Zenon DEF Typed, LineFollowsDicr
  <1>12. PICK r \in Bases : stack' = r /\ (r # <<>> => Head(r).op = "chcr")
    <2>1. stack' = ReturnFrom(Push(f, b), FALSE) BY <1>1, <1>4
    <2>2. CASE b # <<>> /\ Head(b).op # "chcr"
      <3>1. stack' = <<>> BY <1>3, <2>1, <2>2, ReturnFalse
      <3> QED BY <3>1, EmptyBase
    <2>3. CASE ~(b # <<>> /\ Head(b).op # "chcr")
      <3>1. stack' = b BY <1>3, <2>1, <2>3, ReturnFalse
      <3> QED BY <2>3, <3>1
    <2> QED BY <2>2, <2>3
  <1>13. HaltOk(r)'
    <2>1. r # <<>> => Head(r).op # "unhalt" BY <1>12, SMT
    <2> QED BY <1>10, <2>1, Zenon DEF HaltOk, HaltsOk
  <1>14. \A d \in Channel : Ready(d)' => Halted' \/ Behind(d)' \/ InHand(r, d) BY <1>10
  <1> QED BY <1>9, <1>11, <1>12, <1>13, <1>14, BaseStep

(* A block: the frame counts it, and so does the ghost.                    *)
LEMMA BlockOk ==
  ASSUME Ind, NEW last \in BOOLEAN, NEW slice \in Slices, Block(last, slice)
  PROVE  Ind'
  <1> DEFINE Left(c) == IF chan[c].mode = "list" /\ ~last
                        THEN Head(stack).left ELSE Head(stack).left - 1
             ticks == IF Head(stack).op = "first" THEN slice ELSE Head(stack).slice
  <1>1. PICK c \in Channel :
          /\ AtBlock /\ c = Head(stack).ch
          /\ stack' = Push(Frame("device", c, 0),
                           Push(Loop(c, Left(c), ticks - 1), Tail(stack)))
          /\ owed' = (IF chan[c].mode = "request" /\ c \notin abandoned.repeating
                      THEN [owed EXCEPT ![c] = @ - 1] ELSE owed)
          /\ chan' = chan /\ dpcr' = dpcr /\ dicr' = dicr /\ line' = line
          /\ remaining' = remaining /\ unhalt_event' = unhalt_event /\ abandoned' = abandoned
    BY Zenon DEF Block
  <1>2. PICK f : f = Head(stack) OBVIOUS
  <1>3. f \in Frames /\ Typed /\ f.left \in 1..Full BY <1>1, <1>2, AtBlockFacts
  <1>4. PICK b \in Bases : stack = Push(f, b) /\ MoveOk(f, b) BY <1>1, <1>2, AtBlockFacts
  <1>5. Tail(stack) = b BY <1>3, <1>4, PushFacts, BaseFacts
  <1>6. /\ HaltOk(b) /\ \A d \in Channel : d # c => Exact(d)
        /\ IF chan[c].mode = "request" THEN Again(c) \/ owed[c] = f.left ELSE Exact(c)
        /\ \A d \in Channel : Ready(d) => Halted \/ Behind(d) \/ d = c \/ InHand(b, d)
    BY <1>1, <1>2, <1>4, Zenon DEF MoveOk
  <1>7. owed \in [Channel -> Int] /\ c \in Nat BY <1>3, DmaFacts DEF Typed
  <1>8. PICK left \in 0..Full : left = Left(c) /\ (chan[c].mode = "request" => left = f.left - 1)
    <2>1. f.left - 1 \in 0..Full /\ f.left \in 0..Full BY <1>3, DmaFacts, SMT
    <2>2. CASE chan[c].mode = "list" /\ ~last
      <3>1. Left(c) = f.left BY <1>2, <2>2, Zenon
      <3>2. chan[c].mode # "request" BY <2>2, SMT
      <3> QED BY <2>1, <3>1, <3>2, Zenon
    <2>3. CASE ~(chan[c].mode = "list" /\ ~last)
      <3>1. Left(c) = f.left - 1 BY <1>2, <2>3, Zenon
      <3> QED BY <2>1, <3>1, Zenon
    <2> QED BY <2>2, <2>3
  <1>9. PICK n \in Int : n = ticks - 1
    <2>1. slice \in Int /\ f.slice \in Int BY <1>3, DmaFacts DEF Frames
    <2>2. ticks = slice \/ ticks = f.slice BY <1>2, Zenon
    <2>3. ticks \in Int BY <2>1, <2>2
    <2> HIDE DEF ticks
    <2> QED BY <2>3
  <1> HIDE DEF Left, ticks
  <1>10. PICK g \in Frames : g = Loop(c, left, n) /\ g.op = "loop" /\ g.ch = c /\ g.left = left
    <2>1. left \in Int BY <1>8, DmaFacts
    <2> DEFINE l == Loop(c, left, n)
    <2>2. l \in Frames /\ l.op = "loop" /\ l.ch = c /\ l.left = left
      BY <1>7, <2>1 DEF Loop, Frames, Ops
    <2> HIDE DEF l
    <2> QED BY <2>2, Zenon DEF l
  <1>11. PICK d \in Frames : d = Frame("device", c, 0) /\ d.op = "device" /\ d.ch = c
    <2>1. "device" \in Ops /\ 0 \in Int BY DEF Ops
    <2> QED BY <1>7, <2>1, FrameFacts
  <1>12. stack' = Push(d, Push(g, b)) BY <1>1, <1>5, <1>8, <1>9, <1>10, <1>11, Zenon
  <1>13. /\ owed' \in [Channel -> Int] /\ \A e \in Channel : e # c => owed'[e] = owed[e]
         /\ owed'[c] = IF chan[c].mode = "request" /\ ~Again(c) THEN owed[c] - 1 ELSE owed[c]
    <2>1. owed[c] - 1 \in Int BY <1>7
    <2>2. CASE chan[c].mode = "request" /\ ~Again(c)
      <3>1. owed' = [owed EXCEPT ![c] = owed[c] - 1] BY <1>1, <2>2, Zenon DEF Again
      <3> QED BY <1>7, <2>1, <2>2, <3>1, Zenon
    <2>3. CASE ~(chan[c].mode = "request" /\ ~Again(c))
      <3>1. owed' = owed BY <1>1, <2>3, Zenon DEF Again
      <3> QED BY <1>7, <2>3, <3>1, Zenon
    <2> QED BY <2>2, <2>3
  <1>14. Halted' = Halted BY <1>1, Zenon DEF Halted
  <1>15. Typed' BY <1>1, <1>3, <1>13, <1>14, Zenon DEF Typed, LineFollowsDicr
  <1>16. MoveOk(g, b)'
    <2>1. g.op \in {"first", "loop"} /\ g.op # "first" BY <1>10, SMT
    <2>2. HaltOk(b)' BY <1>1, <1>6, <1>14, Zenon DEF HaltOk, HaltsOk
    <2>3. \A e \in Channel : e # c => Exact(e)' BY <1>1, <1>6, <1>13, Zenon DEF Exact, Again
    <2>4. IF chan'[c].mode = "request" THEN Again(c)' \/ owed'[c] = left ELSE Exact(c)'
      BY <1>1, <1>6, <1>8, <1>13, Zenon DEF Exact, Again
    <2>5. \A e \in Channel : Ready(e)' => Halted' \/ Behind(e)' \/ e = c \/ InHand(b, e)
      BY <1>1, <1>6, <1>14, Zenon DEF Ready, Behind
    <2> QED BY <1>8, <1>10, <2>1, <2>2, <2>3, <2>4, <2>5, Zenon DEF MoveOk
  <1>17. InDevice' BY <1>10, <1>11, <1>12, <1>16, Zenon DEF InDevice
  <1> QED BY <1>15, <1>17 DEF Ind

(* Under a device that is called there is the transfer that calls it.      *)
LEMMA DeviceFacts ==
  ASSUME Ind, TopIs("device")
  PROVE  /\ Typed
         /\ \E f \in Frames, b \in Bases : Tail(stack) = Push(f, b) /\ MoveOk(f, b)
         /\ InDevice
  <1>1. InDevice BY TopFacts, Zenon DEF TopIs
  <1>2. PICK d \in Frames, f \in Frames, b \in Bases :
          stack = Push(d, Push(f, b)) /\ MoveOk(f, b)
    BY <1>1, Zenon DEF InDevice
  <1>3. Push(f, b) \in Seq(Frames) BY PushFacts, BaseFacts
  <1>4. Tail(stack) = Push(f, b) BY <1>2, <1>3, PushFacts
  <1> QED BY <1>1, <1>2, <1>4 DEF Ind

(* The device returns.                                                     *)
LEMMA DeviceReturnOk ==
  ASSUME Ind, DeviceReturn
  PROVE  Ind'
  <1>1. /\ TopIs("device") /\ stack' = Tail(stack) /\ chan' = chan
        /\ dpcr' = dpcr /\ dicr' = dicr /\ line' = line /\ owed' = owed
        /\ remaining' = remaining /\ unhalt_event' = unhalt_event /\ abandoned' = abandoned
    BY DEF DeviceReturn
  <1>2. PICK f \in Frames, b \in Bases : Tail(stack) = Push(f, b) /\ MoveOk(f, b)
    BY <1>1, DeviceFacts
  <1>3. Typed BY DEF Ind
  <1>4. Halted' = Halted BY <1>1, Zenon DEF Halted
  <1>5. Typed' BY <1>1, <1>3, <1>4, Zenon DEF Typed, LineFollowsDicr
  <1>6. stack' = Push(f, b) BY <1>1, <1>2
  <1>7. MoveOk(f, b)' BY <1>1, <1>2, <1>4, Zenon DEF MoveOk, HaltOk, HaltsOk, Exact, Ready, Again, Behind
  <1> QED BY <1>5, <1>6, <1>7, MoveStep

(* The frames under a device that is called.                               *)
LEMMA FramesBelow ==
  ASSUME NEW d \in Frames, NEW f \in Frames, NEW b \in Bases, stack = Push(d, Push(f, b))
  PROVE  /\ 2 \in DOMAIN stack /\ stack[2] = f
         /\ b # <<>> => 3 \in DOMAIN stack /\ stack[3] = Head(b)
  <1> DEFINE q == <<f>> \o b
             p == <<d>> \o q
  <1>1. b \in Seq(Frames) /\ (b # <<>> => Len(b) >= 1 /\ Head(b) = b[1]) BY BaseFacts
  <1>2. /\ q \in Seq(Frames) /\ Len(q) = 1 + Len(b) /\ Len(b) \in Nat /\ q[1] = f
        /\ Len(b) >= 1 => q[2] = b[1]
    BY <1>1
  <1> HIDE DEF q
  <1>3. /\ p \in Seq(Frames) /\ Len(p) = 1 + Len(q) /\ p[2] = q[1]
        /\ Len(b) >= 1 => p[3] = q[2]
    BY <1>2
  <1>4. stack = p BY DEF Push, q
  <1> HIDE DEF p
  <1>5. 2 \in DOMAIN p /\ (Len(b) >= 1 => 3 \in DOMAIN p) BY <1>2, <1>3
  <1> QED BY <1>1, <1>2, <1>3, <1>4, <1>5

(* The end of a frame within a transfer: its channel moves blocks again,   *)
(* the channels in hand are left behind, and the ticks of a sweep after a  *)
(* halt are kept.                                                          *)
LEMMA FrameEndsOk ==
  ASSUME Ind, FrameEnds
  PROVE  Ind'
  <1> DEFINE again == abandoned.repeating \cup
               {c \in Channel : chan[c].mode = "request"
                                 /\ \E i \in DOMAIN stack : stack[i].op = "loop" /\ stack[i].ch = c}
             behind == abandoned.waiting \cup {c \in InHands : CanTransfer(chan, c, FALSE)}
             halt == abandoned.halt \/ (remaining > 0 /\ \E i \in DOMAIN stack : stack[i].op = "unhalt")
  <1>1. /\ TopIs("device") /\ stack' = <<>>
        /\ abandoned' = [repeating |-> again, waiting |-> behind, halt |-> halt]
        /\ owed' = [c \in Channel |-> IF c \in abandoned'.repeating THEN Full ELSE owed[c]]
        /\ chan' = chan /\ dpcr' = dpcr /\ dicr' = dicr /\ line' = line
        /\ remaining' = remaining /\ unhalt_event' = unhalt_event
    BY Zenon DEF FrameEnds
  <1>2. Typed /\ InDevice BY <1>1, DeviceFacts
  <1>3. PICK d \in Frames, f \in Frames, b \in Bases :
          stack = Push(d, Push(f, b)) /\ f.op = "loop" /\ MoveOk(f, b)
    BY <1>2, Zenon DEF InDevice
  <1>4. /\ 2 \in DOMAIN stack /\ stack[2] = f
        /\ b # <<>> => 3 \in DOMAIN stack /\ stack[3] = Head(b)
    BY <1>3, FramesBelow
  <1>5. abandoned \in Marks /\ owed \in [Channel -> Int] BY <1>2 DEF Typed
  <1>6. again \in SUBSET Channel /\ behind \in SUBSET Channel /\ halt \in BOOLEAN
    <2>1. abandoned.repeating \in SUBSET Channel /\ abandoned.waiting \in SUBSET Channel
          /\ abandoned.halt \in BOOLEAN
      BY <1>5, Zenon DEF Marks
    <2>2. InHands \subseteq Channel BY Zenon DEF InHands
    <2> QED BY <2>1, <2>2, Zenon
  <1>7. \A c \in Channel : c \in abandoned.repeating => c \in again BY Zenon
  <1>8. chan[f.ch].mode = "request" => f.ch \in again
    <2>1. f.ch \in Channel BY <1>3, Zenon DEF MoveOk
    <2> QED BY <1>3, <1>4, <2>1, Zenon
  <1>9. \A c \in Channel : Ready(c) => Halted \/ c \in behind
    <2> SUFFICES ASSUME NEW c \in Channel, Ready(c), ~Halted, c \notin abandoned.waiting
                 PROVE  c \in behind
      BY Zenon
    <2>1. CanTransfer(chan, c, FALSE) BY Zenon DEF CanTransfer, Ready
    <2>2. c = f.ch \/ InHand(b, c) BY <1>3, Zenon DEF MoveOk, Behind
    <2>3. c \in InHands
      <3>1. CASE c = f.ch
        <4>1. f.op \in {"first", "loop", "chcr"} BY <1>3
        <4> QED BY <1>4, <3>1, <4>1, Zenon DEF InHands
      <3>2. CASE InHand(b, c)
        <4>1. b # <<>> /\ Head(b).op \in {"unhalt", "dpcr", "chcr"} BY <3>2, BaseFacts DEF InHand
        <4>2. CASE Head(b).op = "chcr"
          <5>1. c = Head(b).ch /\ Head(b).op \in {"first", "loop", "chcr"} BY <3>2, <4>2 DEF InHand
          <5> QED BY <1>4, <4>1, <5>1, Zenon DEF InHands
        <4>3. CASE Head(b).op # "chcr"
          <5>1. c >= Head(b).ch /\ Head(b).op \in Sweeps BY <3>2, <4>1, <4>3 DEF InHand, Sweeps
          <5> QED BY <1>4, <4>1, <5>1, Zenon DEF InHands
        <4> QED BY <4>2, <4>3
      <3> QED BY <2>2, <3>1, <3>2
    <2> QED BY <2>1, <2>3, Zenon
  <1>10. b # <<>> /\ Head(b).op = "unhalt" => (remaining > 0 => halt) BY <1>4, Zenon
  <1>11. abandoned.halt => halt BY Zenon
  <1> HIDE DEF again, behind, halt
  <1>12. /\ abandoned' \in Marks /\ abandoned'.repeating = again
         /\ abandoned'.waiting = behind /\ abandoned'.halt = halt
    BY <1>1, <1>6, Zenon DEF Marks
  <1>13. /\ owed' \in [Channel -> Int]
         /\ \A c \in Channel : c \notin again => owed'[c] = owed[c]
    <2>1. Full \in Int BY DmaFacts
    <2>2. \A c \in Channel : owed[c] \in Int BY <1>5
    <2> QED BY <1>1, <1>12, <2>1, <2>2, Zenon
  <1>14. Halted' = Halted BY <1>1, Zenon DEF Halted
  <1>15. Typed' BY <1>1, <1>2, <1>12, <1>13, <1>14, Zenon DEF Typed, LineFollowsDicr
  <1>16. HaltOk(<<>>)'
    <2>1. HaltOk(b) BY <1>3, Zenon DEF MoveOk
    <2>2. CASE b # <<>> /\ Head(b).op = "unhalt"
      <3>1. ~Halted BY <2>1, <2>2, Zenon DEF HaltOk
      <3>2. remaining \in Nat /\ unhalt_event.ticks = 0 BY <1>2, <3>1, Zenon DEF Typed
      <3>3. unhalt_event'.ticks <= remaining' BY <1>1, <3>2, SMT
      <3>4. remaining' > 0 => abandoned'.halt BY <1>1, <1>10, <1>12, <2>2, Zenon
      <3> QED BY <1>14, <3>1, <3>3, <3>4, Zenon DEF HaltOk, HaltsOk
    <2>3. CASE ~(b # <<>> /\ Head(b).op = "unhalt")
      <3>1. HaltsOk BY <2>1, <2>3, Zenon DEF HaltOk
      <3> QED BY <1>1, <1>11, <1>12, <1>14, <3>1, Zenon DEF HaltOk, HaltsOk
    <2> QED BY <2>2, <2>3
  <1>17. \A c \in Channel : Exact(c)'
    <2> SUFFICES ASSUME NEW c \in Channel, c \notin again PROVE Count(chan'[c].blocks) = owed'[c]
      BY <1>12, Zenon DEF Exact, Again
    <2>1. ~Again(c) BY <1>7, Zenon DEF Again
    <2>2. Exact(c)
      <3>1. CASE c = f.ch BY <1>3, <1>8, <3>1, Zenon DEF MoveOk
      <3>2. CASE c # f.ch BY <1>3, <3>2, Zenon DEF MoveOk
      <3> QED BY <3>1, <3>2
    <2> QED BY <1>1, <1>13, <2>1, <2>2, Zenon DEF Exact
  <1>18. \A c \in Channel : Ready(c)' => Halted' \/ Behind(c)' \/ InHand(<<>>, c)
    BY <1>1, <1>9, <1>12, <1>14, Zenon DEF Ready, Behind
  <1> QED BY <1>1, <1>15, <1>16, <1>17, <1>18, EmptyBase, BaseStep

(* A device that drops a request while it is called starts no transfer.    *)
LEMMA DeviceNestedOk ==
  ASSUME \A r \in Reenters : ~r.level, Ind, DeviceNested
  PROVE  Ind'
  <1>1. PICK r \in Reenters :
          /\ SetRequest(r.to, r.level, stack) /\ TopIs("device")
          /\ dpcr' = dpcr /\ dicr' = dicr /\ line' = line /\ owed' = owed
          /\ remaining' = remaining /\ unhalt_event' = unhalt_event /\ NoteStart
    BY Zenon DEF DeviceNested, SetRequest
  <1>2. r.to \in Channel /\ r.level \in BOOLEAN /\ ~r.level
    <2>1. r \in [from : Channel, to : Channel, level : BOOLEAN]
      BY ChannelAssumption, Zenon DEF ChannelAssumption
    <2>2. r.to \in Channel /\ r.level \in BOOLEAN BY <2>1, Zenon
    <2> QED BY <1>1, <2>2
  <1> PICK e \in Channel, level \in BOOLEAN : e = r.to /\ level = r.level /\ ~level BY <1>2
  <1> DEFINE ch == [chan EXCEPT ![e].request = level]
  <1>3. /\ chan' = ch
        /\ stack' = IF chan[e].request # level /\ CanTransfer(ch, e, FALSE)
                    THEN Call(ch, e, stack) ELSE stack
    BY <1>1, <1>2, Zenon DEF SetRequest
  <1>4. Typed /\ InDevice BY <1>1, DeviceFacts
  <1>5. chan \in [Channel -> Control] BY <1>4 DEF Typed
  <1>6. /\ ch \in [Channel -> Control] /\ ch[e].blocks = chan[e].blocks
        /\ ch[e].mode = chan[e].mode /\ ch[e].request = level
        /\ \A c \in Channel : c # e => ch[c] = chan[c]
    BY <1>5, SetRequestBit
  <1> HIDE DEF ch
  <1>7. stack' = stack BY <1>3, <1>6, Zenon DEF CanTransfer
  <1>8. PICK d \in Frames, f \in Frames, b \in Bases :
          /\ stack = Push(d, Push(f, b))
          /\ d.op = "device" /\ d.ch = f.ch /\ f.op = "loop" /\ MoveOk(f, b)
    BY <1>4, Zenon DEF InDevice
  <1>9. Halted' = Halted BY <1>1, Zenon DEF Halted
  <1>20. /\ abandoned' \in Marks /\ abandoned'.repeating = abandoned.repeating
         /\ abandoned'.halt = abandoned.halt
         /\ \A c \in Channel : Behind(c) /\ Ready(c)' => Behind(c)'
    <2>1. Head(stack').op # "first" BY <1>1, <1>7, SMT DEF TopIs
    <2> QED BY <1>1, <1>4, <2>1, NoteStartOk, Zenon
  <1>10. Typed' BY <1>1, <1>3, <1>4, <1>6, <1>9, <1>20, Zenon DEF Typed, LineFollowsDicr
  <1>11. \A c \in Channel : chan'[c].blocks = chan[c].blocks /\ chan'[c].mode = chan[c].mode
    BY <1>3, <1>6
  <1>12. \A c \in Channel : Exact(c)' <=> Exact(c) BY <1>1, <1>11, <1>20, Zenon DEF Exact, Again
  <1>13. \A c \in Channel : Ready(c)' => Ready(c) BY <1>1, <1>3, <1>6, Zenon DEF Ready
  <1>14. f.ch \in Channel BY <1>8, Zenon DEF MoveOk
  <1>17. HaltOk(b)' BY <1>1, <1>8, <1>9, <1>20, Zenon DEF MoveOk, HaltOk, HaltsOk
  <1>18. Again(f.ch)' <=> Again(f.ch) BY <1>20, Zenon DEF Again
  <1>15. MoveOk(f, b)'
    <2>1. /\ \A c \in Channel : c # f.ch => Exact(c)'
          /\ IF chan'[f.ch].mode = "request" THEN Again(f.ch)' \/ owed'[f.ch] = f.left
             ELSE Exact(f.ch)'
      BY <1>1, <1>8, <1>11, <1>12, <1>14, <1>18, Zenon DEF MoveOk
    <2>2. \A c \in Channel : Ready(c)' => Halted' \/ Behind(c)' \/ c = f.ch \/ InHand(b, c)
      BY <1>8, <1>9, <1>13, <1>20, Zenon DEF MoveOk
    <2> QED BY <1>8, <1>17, <2>1, <2>2, Zenon DEF MoveOk
  <1>16. InDevice' BY <1>7, <1>8, <1>15, Zenon DEF InDevice
  <1> QED BY <1>10, <1>16 DEF Ind

(* Nothing changes.                                                        *)
LEMMA StutterOk ==
  ASSUME Ind, UNCHANGED vars
  PROVE  Ind'
  <1>1. /\ chan' = chan /\ dpcr' = dpcr /\ dicr' = dicr /\ line' = line /\ owed' = owed
        /\ remaining' = remaining /\ unhalt_event' = unhalt_event /\ stack' = stack
        /\ abandoned' = abandoned
    BY DEF vars
  <1>2. Halted' = Halted BY <1>1, Zenon DEF Halted
  <1>3. Typed' BY <1>1, <1>2, Zenon DEF Ind, Typed, LineFollowsDicr
  <1>4. CASE BaseOk(stack)
    <2>1. BaseOk(stack)' BY <1>1, <1>2, <1>4, Zenon DEF BaseOk, HaltOk, HaltsOk, Exact, Ready, Again, Behind
    <2> QED BY <1>3, <2>1 DEF Ind
  <1>5. \A f \in Frames, b \in Bases : MoveOk(f, b) => MoveOk(f, b)'
    BY <1>1, <1>2, Zenon DEF MoveOk, HaltOk, HaltsOk, Exact, Ready, Again, Behind
  <1>6. CASE InMove
    <2>1. InMove' BY <1>1, <1>5, <1>6, Zenon DEF InMove
    <2> QED BY <1>3, <2>1 DEF Ind
  <1>7. CASE InDevice
    <2>1. InDevice' BY <1>1, <1>5, <1>7, Zenon DEF InDevice
    <2> QED BY <1>3, <2>1 DEF Ind
  <1> QED BY <1>4, <1>6, <1>7 DEF Ind

-----------------------------------------------------------------------------
(* The theorems *)

(* The sync modes of a channel.                                            *)
LEMMA ModeFacts ==
  ASSUME NEW c \in Channel, NEW mode \in SyncModes[c]
  PROVE  mode \in Modes
  BY DmaFacts DEF Modes

(* Every step keeps the invariant.                                         *)
LEMMA Inductive ==
  ASSUME \A r \in Reenters : ~r.level, Ind, [Next]_vars
  PROVE  Ind'
  <1>1. CASE Program
    <2>1. CASE \E c \in Channel, n \in 0..Full - 1 : WriteBlockControl(c, n)
      BY <2>1, WriteBlockControlOk
    <2>2. CASE \E c \in Channel : \E busy, trigger \in BOOLEAN, mode \in SyncModes[c], delay \in Delays :
                 WriteChannelControl(c, busy, mode, delay, trigger)
      BY <2>2, ModeFacts, DmaFacts, WriteChannelControlOk
    <2>3. CASE \E c \in Channel : \E busy, trigger \in BOOLEAN, mode \in SyncModes[c], delay \in Delays :
                 WriteOtcControl(c, busy, mode, delay, trigger)
      BY <2>3, ModeFacts, WriteOtcControlOk
    <2>4. CASE \E enabled \in SUBSET Channel : WriteDpcr(enabled) BY <2>4, WriteDpcrOk
    <2>5. CASE \E value \in DicrWrites : WriteDicr(value) BY <2>5, WriteDicrOk
    <2> QED BY <1>1, <2>1, <2>2, <2>3, <2>4, <2>5, Zenon DEF Program
  <1>2. CASE Transfer
    <2>1. CASE \E last \in BOOLEAN, slice \in Slices : Block(last, slice) BY <2>1, BlockOk
    <2> QED BY <1>2, <2>1, BusErrorOk, CompleteOk, RequestDroppedOk, SliceOverOk, SweepNextOk,
               SweepEndOk, OtcControlWrittenOk, Zenon DEF Transfer
  <1>3. CASE Device BY <1>3, DeviceRequestOk, Zenon DEF Device
  <1>4. CASE Host BY <1>4, ResetOk, SaveAndLoadOk, Zenon DEF Host
  <1>5. CASE DeviceNested BY <1>5, DeviceNestedOk
  <1>6. CASE DeviceReturn \/ FrameEnds \/ Unhalt
    BY <1>6, DeviceReturnOk, FrameEndsOk, UnhaltOk
  <1>7. CASE UNCHANGED vars BY <1>7, StutterOk
  <1> QED BY <1>1, <1>2, <1>3, <1>4, <1>5, <1>6, <1>7, Zenon DEF Next

(* The invariant holds in every reachable state.                           *)
LEMMA Invariant ==
  ASSUME \A r \in Reenters : ~r.level
  PROVE  Spec => []Ind
  <1>1. Init => Ind BY InitOk
  <1>2. Ind /\ [Next]_vars => Ind' BY Inductive
  <1> QED BY <1>1, <1>2, PTL DEF Spec

(* In all its forms the stack is a sequence of frames.                     *)
LEMMA StackTyped ==
  ASSUME Ind
  PROVE  stack \in Seq(Frames)
  <1>1. \A f \in Frames, b \in Bases : Push(f, b) \in Seq(Frames) BY PushFacts, BaseFacts
  <1>2. CASE BaseOk(stack) BY <1>2, BaseFacts DEF BaseOk
  <1>3. CASE InMove BY <1>1, <1>3, Zenon DEF InMove
  <1>4. CASE InDevice
    <2>1. PICK d \in Frames, f \in Frames, b \in Bases : stack = Push(d, Push(f, b))
      BY <1>4, Zenon DEF InDevice
    <2> QED BY <1>1, <2>1, PushFacts
  <1> QED BY <1>2, <1>3, <1>4 DEF Ind

(* Between calls the halt ticks, the unhalt event, the block counts in the *)
(* registers and the interrupt line agree with what has been transferred   *)
(* (dma_transfer_channel, dma_halt_transfer, dma_unhalt_transfer).  When a *)
(* device has ended a frame within a transfer, the count of the transfers  *)
(* it cut off is too high until they are over, and the ticks of the halts  *)
(* of a sweep it cut off may be left without the event until the next halt *)
(* or load; the line is right in any case.                                 *)
THEOREM AddUp ==
  ASSUME \A r \in Reenters : ~r.level
  PROVE  Spec => []TransfersAddUp
  <1>1. Ind => TransfersAddUp
    <2> SUFFICES ASSUME Ind PROVE TransfersAddUp OBVIOUS
    <2>1. Typed BY DEF Ind
    <2>2. TypeOK
      <3>1. remaining \in Int BY <2>1 DEF Typed
      <3>2. stack \in Seq([op : Ops, ch : Nat, left : Int, slice : Int]) BY StackTyped DEF Frames
      <3> QED BY <2>1, <3>1, <3>2, Zenon DEF Typed, TypeOK, Marks
    <2>3. HaltMatchesEvent BY RestingFacts, Zenon DEF HaltMatchesEvent, HaltsOk
    <2>4. BlocksAreExact BY RestingFacts, Zenon DEF BlocksAreExact, Exact, Again
    <2> QED BY <2>1, <2>2, <2>3, <2>4, Zenon DEF TransfersAddUp, Typed
  <1> QED BY <1>1, Invariant, PTL

(* No channel that could transfer is left without the unhalt event, however*)
(* its transfer stopped and whatever sweep it was skipped by, but for the  *)
(* channels of the calls that the end of a frame has abandoned, until they *)
(* are started again (dma_set_request, dma_unhalt_transfer).               *)
THEOREM NoneLost ==
  ASSUME \A r \in Reenters : ~r.level
  PROVE  Spec => []NoLostTransfer
  <1>1. Ind => NoLostTransfer BY RestingFacts, Zenon DEF NoLostTransfer, Behind
  <1> QED BY <1>1, Invariant, PTL

-----------------------------------------------------------------------------
(* The invariant of a stream                                             *)

(* The frames of a stream: no OTC, so no control write that starts twice.  *)
MdecFrames ==
  [op : {"first", "loop", "device", "unhalt", "dpcr", "execute", "status", "statusOut"},
   ch : Nat, left : Int, slice : Int]

(* A call with one of these operations is still in progress.               *)
Pending(ops) == \E f \in Range(stack) : f.op \in ops

(* A call in progress that will start a channel if it can transfer.        *)
Reaches(f, c) ==
  \/ f.op \in {"first", "loop"} /\ f.ch = c
  \/ f.op \in Sweeps /\ c >= f.ch

(* The ranges of the decoder's variables.                                  *)
TypedM ==
  /\ mstate \in {"idle", "decoding", "writing", "table", "invalid"}
  /\ params \in Nat
  /\ {enableIn, enableOut, mono, decoded, copyOut, nested} \subseteq BOOLEAN

InRange ==
  /\ chan \in [Channel -> Control] /\ stack \in Seq(MdecFrames)
  /\ TypedM /\ FifosInBounds /\ Halted \in BOOLEAN

(* The output is empty while a macroblock is written to it.                *)
CopyOutOk == (copyOut <=> mstate = "writing") /\ (mstate = "writing" => outSize = 0)

(* The calls that go on once others return.                                *)
Waits(s) == \A f \in Range(s) : f.op \notin {"first", "device"}

(* A transfer starts, and a device is called, for a request that stands.   *)
TopOk ==
  /\ stack # <<>> => Waits(Tail(stack))
  /\ TopIs("first") => chan[Head(stack).ch].request
  /\ BlocksFit

(* The request of MDECin may be wrong only where the decoder has the turn. *)
RequestInOk ==
  (stack # <<>> => Head(stack).op \notin {"execute", "status"}) =>
    (chan[In].request <=> (enableIn /\ Space >= Burst))

(* That of MDECout may be wrong as long as mdec_update_status is not over. *)
RequestOutOk ==
  ~Pending({"execute", "status", "statusOut"}) =>
    (chan[Out].request <=> (enableOut /\ outSize > 0))

(* The decoder may have work left only while mdec_execute is in progress.  *)
Settled ==
  ~Pending({"execute"}) =>
    /\ mstate = "idle" => inSize < 2
    /\ mstate = "decoding" => outSize > 0 \/ (inSize = 0 /\ params > 0 /\ ~decoded)

(* A channel that is ready is halted, or a call in progress comes to it.   *)
Reached ==
  ~Halted => \A c \in Channel : Ready(c) => \E f \in Range(stack) : Reaches(f, c)

IndM ==
  InRange /\ CopyOutOk /\ TopOk /\ RequestInOk /\ RequestOutOk /\ Settled /\ Reached

-----------------------------------------------------------------------------
(* The calls in progress in a stream                                     *)

(* A frame is pushed on the calls in progress.                             *)
LEMMA PushCall ==
  ASSUME NEW f \in MdecFrames, NEW s \in Seq(MdecFrames)
  PROVE  /\ Push(f, s) \in Seq(MdecFrames) /\ Push(f, s) # <<>>
         /\ Head(Push(f, s)) = f /\ Tail(Push(f, s)) = s
         /\ Range(Push(f, s)) = {f} \cup Range(s)
  <1> DEFINE p == <<f>> \o s
  <1>1. Push(f, s) = p BY DEF Push
  <1>2. <<f>> \in Seq(MdecFrames) /\ Len(<<f>>) = 1 /\ <<f>>[1] = f OBVIOUS
  <1>3. p \in Seq(MdecFrames) /\ Len(p) = 1 + Len(s) /\ Len(s) \in Nat BY <1>2
  <1>4. p # <<>> BY <1>3
  <1>5. Head(p) = f BY <1>2, <1>3
  <1>6. Tail(p) = s
    <2>1. Tail(p) \in Seq(MdecFrames) /\ Len(Tail(p)) = Len(s) BY <1>3, <1>4
    <2>2. ASSUME NEW i \in 1..Len(s) PROVE Tail(p)[i] = s[i] BY <1>2, <1>3
    <2> QED BY <2>1, <2>2, SeqEqual
  <1>7. Range(p) = {f} \cup Range(s)
    <2>1. Range(p) = Range(<<f>>) \cup Range(s) BY <1>2, RangeConcatenation
    <2>2. Range(<<f>>) = {f} BY <1>2 DEF Range
    <2> QED BY <2>1, <2>2
  <1> HIDE DEF p
  <1> QED BY <1>1, <1>3, <1>4, <1>5, <1>6, <1>7

(* The top of the calls in progress and what is under it.                  *)
LEMMA TopCall ==
  ASSUME NEW s \in Seq(MdecFrames), s # <<>>
  PROVE  /\ Head(s) \in MdecFrames /\ Tail(s) \in Seq(MdecFrames)
         /\ Range(s) = {Head(s)} \cup Range(Tail(s))
  <1>1. Head(s) \in MdecFrames /\ Tail(s) \in Seq(MdecFrames) OBVIOUS
  <1>2. s = <<Head(s)>> \o Tail(s)
    <2> DEFINE p == <<Head(s)>> \o Tail(s)
    <2>1. p \in Seq(MdecFrames) /\ Len(p) = Len(s) BY <1>1
    <2>2. ASSUME NEW i \in 1..Len(s) PROVE p[i] = s[i] BY <1>1
    <2> QED BY <2>1, <2>2, SeqEqual
  <1>3. s = Push(Head(s), Tail(s)) BY <1>2 DEF Push
  <1> QED BY <1>1, <1>3, PushCall

(* Nothing is in progress.                                                 *)
LEMMA NoCall == <<>> \in Seq(MdecFrames) /\ Range(<<>>) = {}
  BY DEF Range

(* A single call.                                                          *)
LEMMA OneCall ==
  ASSUME NEW f \in MdecFrames
  PROVE  <<f>> \in Seq(MdecFrames) /\ <<f>> # <<>> /\ Head(<<f>>) = f /\ Range(<<f>>) = {f}
  BY DEF Range

(* The frames the decoder and the transfers push.                          *)
LEMMA NewFrames ==
  /\ Execute \in MdecFrames /\ Execute.op = "execute"
  /\ Status \in MdecFrames /\ Status.op = "status"
  /\ StatusOut \in MdecFrames /\ StatusOut.op = "statusOut"
  BY DEF Execute, Status, StatusOut, Frame, MdecFrames

(* A frame of an operation on a channel.                                   *)
LEMMA FrameIn ==
  ASSUME NEW op \in {"first", "device", "unhalt", "dpcr"}, NEW c \in Nat, NEW left \in Int
  PROVE  LET f == Frame(op, c, left) IN f \in MdecFrames /\ f.op = op /\ f.ch = c
  BY DEF Frame, MdecFrames

(* A frame of a transfer that waits for its device.                        *)
LEMMA LoopIn ==
  ASSUME NEW c \in Nat, NEW left \in Int, NEW slice \in Int
  PROVE  LET f == Loop(c, left, slice) IN f \in MdecFrames /\ f.op = "loop" /\ f.ch = c
  BY DEF Loop, MdecFrames

(* The constants.                                                          *)
LEMMA MdecFacts ==
  /\ In \in Channel /\ Out \in Channel /\ In # Out /\ In \in Nat /\ Out \in Nat
  /\ InCap \in Nat /\ OutCap \in Nat /\ Burst \in Nat /\ Burst >= 1
  /\ InBlock \in Nat /\ InBlock >= 1 /\ OutBlock \in Nat /\ OutBlock >= 1
  /\ \A w \in Words : w \in Nat
  /\ \A n \in Tables : n \in Nat
  /\ \A n \in Picture : n \in 1..OutCap
  BY MdecAssumption DEF MdecAssumption, In, Out

(* A transfer starts on top of the calls in progress.                      *)
LEMMA CallIn ==
  ASSUME NEW ch \in [Channel -> Control], NEW c \in Channel, NEW s \in Seq(MdecFrames)
  PROVE  \E f \in MdecFrames : Call(ch, c, s) = Push(f, s) /\ f.op = "first" /\ f.ch = c
  <1> DEFINE left == IF ch[c].mode = "request" THEN Count(ch[c].blocks) ELSE 1
  <1>1. ch[c].blocks \in 0..Full - 1 BY ControlFields
  <1>2. Count(ch[c].blocks) \in 1..Full BY <1>1, CountFacts
  <1>3. left \in Int BY <1>2
  <1>4. c \in Nat BY DmaFacts
  <1> HIDE DEF left
  <1>5. Frame("first", c, left) \in MdecFrames /\ Frame("first", c, left).op = "first"
          /\ Frame("first", c, left).ch = c
    BY <1>3, <1>4, FrameIn
  <1>6. Call(ch, c, s) = Push(Frame("first", c, left), s) BY Zenon DEF Call, left
  <1> QED BY <1>5, <1>6, Zenon

-----------------------------------------------------------------------------
(* Steps that leave the decoder alone                                    *)

(* Calls that go on, with one more.                                        *)
LEMMA WaitsPush ==
  ASSUME NEW f \in MdecFrames, NEW s \in Seq(MdecFrames), Waits(s), f.op \notin {"first", "device"}
  PROVE  Waits(Push(f, s))
  <1>1. Range(Push(f, s)) = {f} \cup Range(s) BY PushCall
  <1> QED BY <1>1 DEF Waits

(* Calls that go on, with the innermost gone.                              *)
LEMMA WaitsTail ==
  ASSUME NEW s \in Seq(MdecFrames), s # <<>>, Waits(s)
  PROVE  Waits(Tail(s)) /\ Tail(s) \in Seq(MdecFrames)
  <1>1. Range(s) = {Head(s)} \cup Range(Tail(s)) /\ Tail(s) \in Seq(MdecFrames) BY TopCall
  <1> QED BY <1>1 DEF Waits

(* Where a call returns to, no transfer starts and no device is called.    *)
LEMMA ReturnTop ==
  ASSUME NEW s \in Seq(MdecFrames), Waits(s), stack' = s
  PROVE  TopOk'
  <1>1. s # <<>> => Waits(Tail(s)) BY WaitsTail
  <1>2. s # <<>> => Head(s).op \notin {"first", "device"}
    <2> SUFFICES ASSUME s # <<>> PROVE Head(s).op \notin {"first", "device"} OBVIOUS
    <2>1. Head(s) \in Range(s) BY TopCall
    <2> QED BY <2>1 DEF Waits
  <1>3. ~TopIs("first")' /\ ~TopIs("device")' BY <1>2, Zenon DEF TopIs
  <1>4. (stack # <<>> => Waits(Tail(stack)))' BY <1>1, Zenon DEF Waits
  <1> QED BY <1>3, <1>4, Zenon DEF TopOk, BlocksFit

(* A new call.                                                             *)
LEMMA CallTop ==
  ASSUME NEW f \in MdecFrames, NEW s \in Seq(MdecFrames), Waits(s), stack' = Push(f, s),
         f.op = "first" => chan'[f.ch].request,
         f.op = "device" /\ f.ch = In => (Space >= Burst)'
  PROVE  TopOk'
  <1>1. Head(stack') = f /\ Tail(stack') = s BY PushCall
  <1>2. (stack # <<>> => Waits(Tail(stack)))' BY <1>1, Zenon DEF Waits
  <1>3. (TopIs("first") => chan[Head(stack).ch].request)' BY <1>1, Zenon DEF TopIs
  <1>4. BlocksFit' BY <1>1, Zenon DEF TopIs, BlocksFit
  <1> QED BY <1>2, <1>3, <1>4, Zenon DEF TopOk

(* A step that leaves the decoder alone.                                   *)
LEMMA SameMdec ==
  ASSUME mdec' = mdec
  PROVE  /\ mstate' = mstate /\ params' = params /\ inSize' = inSize /\ outSize' = outSize
         /\ enableIn' = enableIn /\ enableOut' = enableOut /\ mono' = mono
         /\ decoded' = decoded /\ copyOut' = copyOut /\ nested' = nested
  BY Zenon DEF mdec, decoder

(* The DMA goes on: nothing of the decoder changes, no request, and no call*)
(* of the decoder that is in progress.                                     *)
LEMMA TransferKeeps ==
  ASSUME IndM, mdec' = mdec,
         chan'[In].request = chan[In].request, chan'[Out].request = chan[Out].request,
         stack # <<>> => Head(stack).op \notin {"execute", "status"},
         \A f \in Range(stack) : f.op \in {"execute", "status", "statusOut"} => f \in Range(stack')
  PROVE  /\ TypedM' /\ FifosInBounds' /\ CopyOutOk'
         /\ RequestInOk' /\ RequestOutOk' /\ Settled'
  <1> USE SameMdec
  <1>1. TypedM' /\ FifosInBounds' BY Zenon DEF IndM, InRange, TypedM, FifosInBounds
  <1>2. CopyOutOk' BY SMT DEF IndM, CopyOutOk
  <1>3. RequestInOk'
    <2>1. chan[In].request <=> (enableIn /\ Space >= Burst) BY Zenon DEF IndM, RequestInOk
    <2>2. Space' = Space BY Zenon DEF Space
    <2>3. chan'[In].request <=> chan[In].request OBVIOUS
    <2>4. enableIn' <=> enableIn OBVIOUS
    <2> QED BY <2>1, <2>2, <2>3, <2>4, SMT DEF RequestInOk
  <1>4. \A ops \in SUBSET {"execute", "status", "statusOut"} : Pending(ops) => Pending(ops)'
    <2> SUFFICES ASSUME NEW ops \in SUBSET {"execute", "status", "statusOut"}, Pending(ops)
                 PROVE  Pending(ops)'
      OBVIOUS
    <2>1. PICK f \in Range(stack) : f.op \in ops BY Zenon DEF Pending
    <2>2. f \in Range(stack') BY <2>1
    <2> QED BY <2>1, <2>2, Zenon DEF Pending
  <1>5. /\ Pending({"execute", "status", "statusOut"}) => Pending({"execute", "status", "statusOut"})'
        /\ Pending({"execute"}) => Pending({"execute"})'
    BY <1>4
  <1>6. RequestOutOk' BY <1>5, Zenon DEF IndM, RequestOutOk
  <1>7. Settled' BY <1>5, Zenon DEF IndM, Settled
  <1> QED BY <1>1, <1>2, <1>3, <1>6, <1>7

(* The frames on the stack, in the names of the step that looks at its top.*)
LEMMA TopFrame ==
  ASSUME IndM, stack # <<>>
  PROVE  /\ Head(stack) \in MdecFrames /\ Tail(stack) \in Seq(MdecFrames) /\ Waits(Tail(stack))
         /\ Range(stack) = {Head(stack)} \cup Range(Tail(stack))
  <1>1. stack \in Seq(MdecFrames) /\ Waits(Tail(stack)) BY DEF IndM, InRange, TopOk
  <1> QED BY <1>1, TopCall

(* What stops a transfer early or ends it returns, and may end a sweep.    *)
LEMMA Returned ==
  ASSUME NEW result \in BOOLEAN, IndM, stack # <<>>
  PROVE  LET s == ReturnFrom(stack, result) IN
         /\ s \in Seq(MdecFrames) /\ Waits(s)
         /\ \A f \in Range(stack) :
              f.op \in {"execute", "status", "statusOut"} /\ f # Head(stack) => f \in Range(s)
         /\ result => s = Tail(stack)
  <1> DEFINE t == Tail(stack)
  <1>1. t \in Seq(MdecFrames) /\ Waits(t) /\ Range(stack) = {Head(stack)} \cup Range(t) BY TopFrame
  <1>2. ReturnFrom(stack, result) =
          IF ~result /\ t # <<>> /\ Head(t).op \in Sweeps THEN Tail(t) ELSE t
    BY Zenon DEF ReturnFrom
  <1> HIDE DEF t
  <1>3. CASE ~result /\ t # <<>> /\ Head(t).op \in Sweeps
    <2>1. ReturnFrom(stack, result) = Tail(t) BY <1>2, <1>3
    <2>2. Tail(t) \in Seq(MdecFrames) /\ Waits(Tail(t)) BY <1>1, <1>3, WaitsTail
    <2>3. Range(t) = {Head(t)} \cup Range(Tail(t)) BY <1>1, <1>3, TopCall
    <2>4. Head(t).op \notin {"execute", "status", "statusOut"} BY <1>3 DEF Sweeps
    <2> QED BY <1>1, <1>3, <2>1, <2>2, <2>3, <2>4, Zenon
  <1>4. CASE ~(~result /\ t # <<>> /\ Head(t).op \in Sweeps)
    <2>1. ReturnFrom(stack, result) = t BY <1>2, <1>4
    <2> QED BY <1>1, <2>1, Zenon DEF t
  <1> QED BY <1>3, <1>4

-----------------------------------------------------------------------------
(* Transfers that stop                                                   *)

(* A transfer stops: it is halted, or its channel can go on no more.       *)
LEMMA TransferStops ==
  ASSUME IndM, mdec' = mdec, NEW c \in Channel, NEW result \in BOOLEAN,
         stack # <<>>, Head(stack).op \in {"first", "loop"}, Head(stack).ch = c,
         stack' = ReturnFrom(stack, result), dpcr' = dpcr,
         chan' \in [Channel -> Control], chan'[c].request = chan[c].request,
         \A d \in Channel : d # c => chan'[d] = chan[d],
         Halted' \in BOOLEAN, Halted => Halted', Halted' \/ (result /\ ~Ready(c)')
  PROVE  IndM'
  <1>1. /\ stack' \in Seq(MdecFrames) /\ Waits(stack')
        /\ \A f \in Range(stack) :
              f.op \in {"execute", "status", "statusOut"} /\ f # Head(stack) => f \in Range(stack')
        /\ result => stack' = Tail(stack)
    BY Returned, Zenon
  <1>2. Head(stack).op \notin {"execute", "status", "statusOut"} BY SMT
  <1>3. /\ chan'[In].request = chan[In].request /\ chan'[Out].request = chan[Out].request
    BY MdecFacts, Zenon
  <1>4. /\ TypedM' /\ FifosInBounds' /\ CopyOutOk'
        /\ RequestInOk' /\ RequestOutOk' /\ Settled'
    <2>1. stack # <<>> => Head(stack).op \notin {"execute", "status"} BY <1>2
    <2>2. \A f \in Range(stack) : f.op \in {"execute", "status", "statusOut"} => f \in Range(stack')
      BY <1>1, <1>2, Zenon
    <2> QED BY <1>3, <2>1, <2>2, TransferKeeps
  <1>5. TopOk' BY <1>1, ReturnTop
  <1>6. Reached'
    <2> SUFFICES ASSUME ~Halted', NEW d \in Channel, Ready(d)'
                 PROVE  \E f \in Range(stack') : Reaches(f, d)
      BY Zenon DEF Reached, Reaches
    <2>1. ~Halted /\ result /\ ~Ready(c)' BY Zenon
    <2>2. d # c BY <2>1
    <2>3. Ready(d) BY <2>2, Zenon DEF Ready
    <2>4. PICK f \in Range(stack) : Reaches(f, d) BY <2>1, <2>3, Zenon DEF IndM, Reached
    <2>5. f # Head(stack)
      <3>1. ~Reaches(Head(stack), d) BY <2>2, SMT DEF Reaches, Sweeps
      <3> QED BY <2>4, <3>1
    <2>6. f \in Range(Tail(stack)) BY <2>4, <2>5, TopFrame, Zenon
    <2> QED BY <1>1, <2>1, <2>4, <2>6, Zenon
  <1>7. InRange' BY <1>1, <1>4, Zenon DEF InRange
  <1> QED BY <1>4, <1>5, <1>6, <1>7 DEF IndM

(* The count that is stored is one of the register, and nothing else       *)
(* changes.                                                                *)
LEMMA ProgressOk ==
  ASSUME IndM, NEW c \in Channel, stack # <<>>
  PROVE  LET ch == StoreProgress(c) IN
         /\ ch \in [Channel -> Control]
         /\ ch[c].busy = chan[c].busy /\ ch[c].request = chan[c].request
         /\ \A d \in Channel : d # c => ch[d] = chan[d]
  <1> DEFINE x == IF chan[c].mode = "request" THEN Head(stack).left % Full ELSE chan[c].blocks
             ch == [chan EXCEPT ![c].blocks = x]
  <1>1. StoreProgress(c) = ch BY Zenon DEF StoreProgress
  <1>2. chan \in [Channel -> Control] BY DEF IndM, InRange
  <1>3. x \in 0..Full - 1
    <2>1. Head(stack).left \in Int BY TopFrame DEF MdecFrames
    <2>2. Head(stack).left % Full \in 0..Full - 1 BY <2>1, DmaFacts
    <2>3. chan[c].blocks \in 0..Full - 1 BY <1>2, ControlFields
    <2> QED BY <2>2, <2>3
  <1> HIDE DEF x
  <1>4. /\ ch \in [Channel -> Control] /\ ch[c].busy = chan[c].busy
        /\ ch[c].request = chan[c].request
        /\ \A d \in Channel : d # c => ch[d] = chan[d]
    BY <1>2, <1>3, SetBlocks
  <1> HIDE DEF ch
  <1> QED BY <1>1, <1>4, Zenon

(* A transfer is at a block.                                               *)
LEMMA BlockTop ==
  ASSUME AtBlock
  PROVE  /\ stack # <<>> /\ Head(stack).op \in {"first", "loop"}
         /\ TopIs("first") \/ chan[Head(stack).ch].request
  BY DEF AtBlock, TopIs

(* A transfer that waits for its device has the turn again.                *)
LEMMA LoopTop ==
  ASSUME NEW c, Looping(c)
  PROVE  stack # <<>> /\ Head(stack).op \in {"first", "loop"} /\ Head(stack).ch = c
  BY DEF Looping, TopIs

(* A bus error.                                                            *)
LEMMA MdecBusError ==
  ASSUME IndM, mdec' = mdec, BusError
  PROVE  IndM'
  <1>1. PICK c \in Channel :
          /\ AtBlock /\ c = Head(stack).ch
          /\ chan' = [StoreProgress(c) EXCEPT ![c].busy = FALSE]
          /\ stack' = ReturnFrom(stack, TRUE) /\ dpcr' = dpcr /\ unhalt_event' = unhalt_event
    BY Zenon DEF BusError
  <1>2. stack # <<>> /\ Head(stack).op \in {"first", "loop"} BY <1>1, BlockTop
  <1> DEFINE s == StoreProgress(c)
             ch == [s EXCEPT ![c].busy = FALSE]
  <1>3. /\ s \in [Channel -> Control] /\ s[c].request = chan[c].request
        /\ \A d \in Channel : d # c => s[d] = chan[d]
    BY <1>2, ProgressOk
  <1> HIDE DEF s
  <1>4. /\ ch \in [Channel -> Control] /\ ch[c].busy = FALSE /\ ch[c].request = s[c].request
        /\ \A d \in Channel : d # c => ch[d] = s[d]
    BY <1>3, SetBusy
  <1>5. chan' = ch BY <1>1, Zenon DEF s
  <1> HIDE DEF ch
  <1>6. Halted' = Halted /\ Halted \in BOOLEAN BY <1>1, Zenon DEF Halted, IndM, InRange
  <1>7. ~Ready(c)' BY <1>4, <1>5, Zenon DEF Ready
  <1>8. chan'[c].request = chan[c].request /\ \A d \in Channel : d # c => chan'[d] = chan[d]
    BY <1>3, <1>4, <1>5, Zenon
  <1>9. chan' \in [Channel -> Control] BY <1>4, <1>5
  <1> QED BY <1>1, <1>2, <1>6, <1>7, <1>8, <1>9, TransferStops, Zenon

(* The end of a transfer.                                                  *)
LEMMA MdecComplete ==
  ASSUME IndM, mdec' = mdec, Complete
  PROVE  IndM'
  <1>1. PICK c \in Channel :
          /\ Looping(c)
          /\ chan' = [chan EXCEPT ![c].busy = FALSE,
                                  ![c].blocks = IF chan[c].mode = "request" THEN 0 ELSE @]
          /\ stack' = ReturnFrom(stack, TRUE) /\ dpcr' = dpcr /\ unhalt_event' = unhalt_event
    BY Zenon DEF Complete
  <1>2. stack # <<>> /\ Head(stack).op \in {"first", "loop"} /\ Head(stack).ch = c
    BY <1>1, LoopTop
  <1> DEFINE s == [chan EXCEPT ![c].busy = FALSE]
             x == IF chan[c].mode = "request" THEN 0 ELSE s[c].blocks
             ch == [s EXCEPT ![c].blocks = x]
  <1>3. chan \in [Channel -> Control] BY DEF IndM, InRange
  <1>4. /\ s \in [Channel -> Control] /\ s[c].busy = FALSE /\ s[c].request = chan[c].request
        /\ \A d \in Channel : d # c => s[d] = chan[d]
    BY <1>3, SetBusy
  <1>5. x \in 0..Full - 1
    <2>1. s[c].blocks \in 0..Full - 1 BY <1>4, ControlFields
    <2> QED BY <2>1, DmaFacts
  <1>6. chan' = ch BY <1>1, Zenon
  <1> HIDE DEF s, x
  <1>7. /\ ch \in [Channel -> Control] /\ ch[c].busy = s[c].busy /\ ch[c].request = s[c].request
        /\ \A d \in Channel : d # c => ch[d] = s[d]
    BY <1>4, <1>5, SetBlocks
  <1> HIDE DEF ch
  <1>8. Halted' = Halted /\ Halted \in BOOLEAN BY <1>1, Zenon DEF Halted, IndM, InRange
  <1>9. ~Ready(c)' BY <1>4, <1>6, <1>7, Zenon DEF Ready
  <1>10. chan'[c].request = chan[c].request /\ \A d \in Channel : d # c => chan'[d] = chan[d]
    BY <1>4, <1>6, <1>7, Zenon
  <1>11. chan' \in [Channel -> Control] BY <1>6, <1>7
  <1> QED BY <1>1, <1>2, <1>8, <1>9, <1>10, <1>11, TransferStops, Zenon

(* The device does not want more.                                          *)
LEMMA MdecRequestDropped ==
  ASSUME IndM, mdec' = mdec, RequestDropped
  PROVE  IndM'
  <1>1. PICK c \in Channel :
          /\ Looping(c) /\ ~chan[c].request /\ chan' = StoreProgress(c)
          /\ stack' = ReturnFrom(stack, TRUE) /\ dpcr' = dpcr /\ unhalt_event' = unhalt_event
    BY Zenon DEF RequestDropped
  <1>2. stack # <<>> /\ Head(stack).op \in {"first", "loop"} /\ Head(stack).ch = c
    BY <1>1, LoopTop
  <1>3. /\ chan' \in [Channel -> Control] /\ chan'[c].request = chan[c].request
        /\ \A d \in Channel : d # c => chan'[d] = chan[d]
    BY <1>1, <1>2, ProgressOk
  <1>4. Halted' = Halted /\ Halted \in BOOLEAN BY <1>1, Zenon DEF Halted, IndM, InRange
  <1>5. ~Ready(c)' BY <1>1, <1>3, Zenon DEF Ready
  <1> QED BY <1>1, <1>2, <1>3, <1>4, <1>5, TransferStops, Zenon

(* The slice is over: from now on there is a halt.                         *)
LEMMA MdecSliceOver ==
  ASSUME IndM, mdec' = mdec, SliceOver
  PROVE  IndM'
  <1>1. PICK c \in Channel :
          /\ Looping(c) /\ chan' = StoreProgress(c)
          /\ IF chan[c].mode = "list" \/ ~Halted THEN HaltTransfer(HaltTicks)
             ELSE unhalt_event' = unhalt_event
          /\ stack' = ReturnFrom(stack, FALSE) /\ dpcr' = dpcr
    BY Zenon DEF SliceOver
  <1>2. stack # <<>> /\ Head(stack).op \in {"first", "loop"} /\ Head(stack).ch = c
    BY <1>1, LoopTop
  <1>3. /\ chan' \in [Channel -> Control] /\ chan'[c].request = chan[c].request
        /\ \A d \in Channel : d # c => chan'[d] = chan[d]
    BY <1>1, <1>2, ProgressOk
  <1>4. Halted \in BOOLEAN BY DEF IndM, InRange
  <1>5. Halted' = TRUE
    <2>1. CASE Halted
      <3>1. unhalt_event' = unhalt_event BY <1>1, <2>1, Zenon DEF HaltTransfer
      <3> QED BY <1>4, <2>1, <3>1, SMT DEF Halted
    <2>2. CASE ~Halted
      <3>1. unhalt_event' = After(remaining + HaltTicks) BY <1>1, <2>2, Zenon DEF HaltTransfer
      <3> QED BY <3>1 DEF Halted, After
    <2> QED BY <2>1, <2>2
  <1> QED BY <1>1, <1>2, <1>3, <1>5, TransferStops, Zenon

-----------------------------------------------------------------------------
(* Blocks and sweeps                                                     *)

(* A transfer by request, a list or a manual one calls its device.         *)
LEMMA MdecBlock ==
  ASSUME IndM, mdec' = mdec, NEW last \in BOOLEAN, NEW slice \in Slices, Block(last, slice)
  PROVE  IndM'
  <1> DEFINE f == Head(stack)
             t == Tail(stack)
  <1>1. PICK c \in Channel :
          /\ AtBlock /\ c = f.ch
          /\ LET left == IF chan[c].mode = "list" /\ ~last THEN f.left ELSE f.left - 1
                 ticks == IF f.op = "first" THEN slice ELSE f.slice
             IN stack' = Push(Frame("device", c, 0), Push(Loop(c, left, ticks - 1), t))
          /\ chan' = chan /\ dpcr' = dpcr /\ unhalt_event' = unhalt_event
    BY Zenon DEF Block
  <1>2. stack # <<>> /\ f.op \in {"first", "loop"} BY <1>1, BlockTop
  <1>3. /\ f \in MdecFrames /\ t \in Seq(MdecFrames) /\ Waits(t)
        /\ Range(stack) = {f} \cup Range(t)
    BY <1>2, TopFrame
  <1>4. c \in Nat BY DmaFacts
  <1>5. f.left \in Int /\ f.slice \in Int BY <1>3 DEF MdecFrames
  <1>6. PICK left \in Int, ticks \in Int :
          stack' = Push(Frame("device", c, 0), Push(Loop(c, left, ticks), t))
    <2> DEFINE l == IF chan[c].mode = "list" /\ ~last THEN f.left ELSE f.left - 1
               n == (IF f.op = "first" THEN slice ELSE f.slice) - 1
    <2>1. l \in Int /\ n \in Int BY <1>5, DmaFacts
    <2>2. stack' = Push(Frame("device", c, 0), Push(Loop(c, l, n), t)) BY <1>1, Zenon
    <2> QED BY <2>1, <2>2, Zenon
  <1>7. PICK d \in MdecFrames : d = Frame("device", c, 0) /\ d.op = "device" /\ d.ch = c
    <2>1. LET d == Frame("device", c, 0) IN d \in MdecFrames /\ d.op = "device" /\ d.ch = c
      BY <1>4, FrameIn
    <2> QED BY <2>1, Zenon
  <1>8. PICK g \in MdecFrames : g = Loop(c, left, ticks) /\ g.op = "loop" /\ g.ch = c
    BY <1>4, LoopIn, Zenon
  <1> HIDE DEF f, t
  <1>9. PICK s \in Seq(MdecFrames) : s = Push(g, t) /\ Range(s) = {g} \cup Range(t) /\ Waits(s)
    <2>1. g.op \notin {"first", "device"} BY <1>8
    <2> QED BY <1>3, <2>1, PushCall, WaitsPush, Zenon
  <1>10. stack' = Push(d, s) BY <1>6, <1>7, <1>8, <1>9
  <1>11. stack' \in Seq(MdecFrames) /\ Range(stack') = {d, g} \cup Range(t)
    <2>1. Push(d, s) \in Seq(MdecFrames) /\ Range(Push(d, s)) = {d} \cup Range(s) BY PushCall
    <2>2. Range(Push(d, s)) = {d, g} \cup Range(t) BY <1>9, <2>1
    <2> QED BY <1>10, <2>1, <2>2, Zenon
  <1>12. /\ TypedM' /\ FifosInBounds' /\ CopyOutOk'
         /\ RequestInOk' /\ RequestOutOk' /\ Settled'
    <2>1. stack # <<>> => Head(stack).op \notin {"execute", "status"} BY <1>2 DEF f
    <2>2. f.op \notin {"execute", "status", "statusOut"} BY <1>2, SMT
    <2>3. \A h \in Range(stack) : h.op \in {"execute", "status", "statusOut"} => h \in Range(stack')
      BY <1>3, <1>11, <2>2
    <2>4. chan'[In].request = chan[In].request /\ chan'[Out].request = chan[Out].request
      BY <1>1
    <2> QED BY <2>1, <2>3, <2>4, TransferKeeps
  <1>13. TopOk'
    <2>1. d.op = "first" => chan'[d.ch].request BY <1>7
    <2>2. d.op = "device" /\ d.ch = In => (Space >= Burst)'
      <3> SUFFICES ASSUME c = In PROVE (Space >= Burst)' BY <1>7
      <3>1. chan[In].request
        BY <1>1, <1>2, BlockTop, Zenon DEF f, IndM, TopOk
      <3>2. chan'[In].request BY <1>1, <3>1
      <3>3. stack # <<>> /\ Head(stack).op \notin {"execute", "status"} BY <1>2 DEF f
      <3>4. Space >= Burst BY <3>1, <3>3, Zenon DEF IndM, RequestInOk
      <3>5. Space' = Space BY SameMdec, Zenon DEF Space
      <3> QED BY <3>4, <3>5
    <2> QED BY <1>9, <1>10, <2>1, <2>2, CallTop
  <1>14. Reached'
    <2> SUFFICES ASSUME ~Halted', NEW i \in Channel, Ready(i)'
                 PROVE  \E h \in Range(stack') : Reaches(h, i)
      BY Zenon DEF Reached, Reaches
    <2>1. ~Halted /\ Ready(i) BY <1>1, Zenon DEF Halted, Ready
    <2>2. PICK h \in Range(stack) : Reaches(h, i) BY <2>1, Zenon DEF IndM, Reached
    <2>3. CASE h = f
      <3>1. i = c BY <1>1, <1>2, <2>2, <2>3, SMT DEF Reaches, Sweeps, f
      <3>2. Reaches(g, i) BY <1>8, <3>1 DEF Reaches
      <3> QED BY <1>11, <3>2
    <2>4. CASE h \in Range(t) BY <1>11, <2>2, <2>4
    <2> QED BY <1>3, <2>3, <2>4
  <1>15. InRange' BY <1>1, <1>11, <1>12, Zenon DEF IndM, InRange, Halted
  <1> QED BY <1>12, <1>13, <1>14, <1>15 DEF IndM

(* A sweep.                                                                *)
LEMMA SweepTop ==
  ASSUME TopIs("unhalt") \/ TopIs("dpcr")
  PROVE  /\ stack # <<>> /\ Head(stack).op \in {"unhalt", "dpcr"}
         /\ Head(stack).op \notin {"execute", "status", "statusOut"}
         /\ Head(stack).op \notin {"first", "loop", "device"} /\ Head(stack).op \in Sweeps
  BY DEF TopIs, Sweeps

(* The next channel of a sweep.                                            *)
LEMMA MdecSweepNext ==
  ASSUME IndM, mdec' = mdec, SweepNext
  PROVE  IndM'
  <1> DEFINE f == Head(stack)
             t == Tail(stack)
  <1>1. PICK c \in Waiting(f.ch) :
          /\ TopIs("unhalt") \/ TopIs("dpcr")
          /\ \A d \in Waiting(f.ch) : c <= d
          /\ stack' = Call(chan, c, Push(Frame(f.op, c + 1, 0), t))
          /\ chan' = chan /\ dpcr' = dpcr /\ unhalt_event' = unhalt_event
    BY Zenon DEF SweepNext
  <1>2. /\ stack # <<>> /\ f.op \in {"unhalt", "dpcr"}
        /\ f.op \notin {"execute", "status", "statusOut"}
        /\ f.op \notin {"first", "loop", "device"} /\ f.op \in Sweeps
    BY <1>1, SweepTop
  <1>3. /\ f \in MdecFrames /\ t \in Seq(MdecFrames) /\ Waits(t)
        /\ Range(stack) = {f} \cup Range(t)
    BY <1>2, TopFrame
  <1>4. c \in Channel /\ CanTransfer(chan, c, FALSE) BY DEF Waiting
  <1>5. c \in Nat BY <1>4, DmaFacts
  <1>6. PICK g \in MdecFrames : g = Frame(f.op, c + 1, 0) /\ g.op = f.op /\ g.ch = c + 1
    <2>1. c + 1 \in Nat /\ 0 \in Int BY <1>5
    <2>2. f.op \in {"first", "device", "unhalt", "dpcr"} BY <1>2, SMT
    <2>3. LET g == Frame(f.op, c + 1, 0) IN g \in MdecFrames /\ g.op = f.op /\ g.ch = c + 1
      BY <2>1, <2>2, FrameIn
    <2> QED BY <2>3, Zenon
  <1>7. f.ch \in Nat BY <1>3 DEF MdecFrames
  <1>8. stack' = Call(chan, c, Push(g, t)) BY <1>1, <1>6
  <1> HIDE DEF f, t
  <1>9. PICK s \in Seq(MdecFrames) : s = Push(g, t) /\ Range(s) = {g} \cup Range(t) /\ Waits(s)
    <2>1. g.op \notin {"first", "device"} BY <1>2, <1>6
    <2> QED BY <1>3, <2>1, PushCall, WaitsPush, Zenon
  <1>10. chan \in [Channel -> Control] BY DEF IndM, InRange
  <1>11. PICK h \in MdecFrames : stack' = Push(h, s) /\ h.op = "first" /\ h.ch = c
    BY <1>4, <1>8, <1>9, <1>10, CallIn, Zenon
  <1>12. stack' \in Seq(MdecFrames) /\ Range(stack') = {h, g} \cup Range(t)
    <2>1. Push(h, s) \in Seq(MdecFrames) /\ Range(Push(h, s)) = {h} \cup Range(s) BY PushCall
    <2>2. Range(Push(h, s)) = {h, g} \cup Range(t) BY <1>9, <2>1
    <2> QED BY <1>11, <2>1, <2>2, Zenon
  <1>13. /\ TypedM' /\ FifosInBounds' /\ CopyOutOk'
         /\ RequestInOk' /\ RequestOutOk' /\ Settled'
    <2>1. stack # <<>> => Head(stack).op \notin {"execute", "status"} BY <1>2 DEF f
    <2>2. \A e \in Range(stack) : e.op \in {"execute", "status", "statusOut"} => e \in Range(stack')
      BY <1>2, <1>3, <1>12, Zenon
    <2>3. chan'[In].request = chan[In].request /\ chan'[Out].request = chan[Out].request
      BY <1>1
    <2> QED BY <2>1, <2>2, <2>3, TransferKeeps
  <1>14. TopOk'
    <2>1. h.op = "first" => chan'[h.ch].request BY <1>1, <1>4, <1>11, Zenon DEF CanTransfer
    <2>2. h.op # "device" BY <1>11
    <2> QED BY <1>9, <1>11, <2>1, <2>2, CallTop
  <1>15. Reached'
    <2> SUFFICES ASSUME ~Halted', NEW i \in Channel, Ready(i)'
                 PROVE  \E e \in Range(stack') : Reaches(e, i)
      BY Zenon DEF Reached, Reaches
    <2>1. ~Halted /\ Ready(i) BY <1>1, Zenon DEF Halted, Ready
    <2>2. PICK e \in Range(stack) : Reaches(e, i) BY <2>1, Zenon DEF IndM, Reached
    <2>3. CASE e = f
      <3>1. i >= f.ch BY <1>2, <2>2, <2>3, Zenon DEF Reaches
      <3>2. i \in Waiting(f.ch) BY <2>1, <3>1, Zenon DEF Waiting, CanTransfer, Ready
      <3>3. c <= i BY <1>1, <3>2 DEF f
      <3>4. CASE i = c
        <4>1. Reaches(h, i) BY <1>11, <3>4 DEF Reaches
        <4> QED BY <1>12, <4>1
      <3>5. CASE i # c
        <4>1. i >= c + 1 BY <1>5, <3>3, <3>5, DmaFacts, SMT
        <4>2. Reaches(g, i) BY <1>2, <1>6, <4>1, Zenon DEF Reaches
        <4> QED BY <1>12, <4>2
      <3> QED BY <3>4, <3>5
    <2>4. CASE e \in Range(t) BY <1>12, <2>2, <2>4
    <2> QED BY <1>3, <2>3, <2>4
  <1>16. InRange' BY <1>1, <1>12, <1>13, Zenon DEF IndM, InRange, Halted
  <1> QED BY <1>13, <1>14, <1>15, <1>16 DEF IndM

(* The end of a sweep.                                                     *)
LEMMA MdecSweepEnd ==
  ASSUME IndM, mdec' = mdec, SweepEnd
  PROVE  IndM'
  <1> DEFINE f == Head(stack)
             t == Tail(stack)
  <1>1. /\ TopIs("unhalt") \/ TopIs("dpcr")
        /\ Waiting(f.ch) = {} /\ stack' = t
        /\ chan' = chan /\ dpcr' = dpcr /\ unhalt_event' = unhalt_event
    BY Zenon DEF SweepEnd
  <1>2. /\ stack # <<>> /\ f.op \notin {"execute", "status", "statusOut"}
        /\ f.op \notin {"first", "loop", "device"} /\ f.op \in Sweeps
    BY <1>1, SweepTop
  <1>3. t \in Seq(MdecFrames) /\ Waits(t) /\ Range(stack) = {f} \cup Range(t)
    BY <1>2, TopFrame
  <1>4. /\ TypedM' /\ FifosInBounds' /\ CopyOutOk'
        /\ RequestInOk' /\ RequestOutOk' /\ Settled'
    <2>1. stack # <<>> => Head(stack).op \notin {"execute", "status"} BY <1>2
    <2>2. \A e \in Range(stack) : e.op \in {"execute", "status", "statusOut"} => e \in Range(stack')
      BY <1>1, <1>2, <1>3, Zenon
    <2>3. chan'[In].request = chan[In].request /\ chan'[Out].request = chan[Out].request
      BY <1>1
    <2> QED BY <2>1, <2>2, <2>3, TransferKeeps
  <1>5. TopOk' BY <1>1, <1>3, ReturnTop
  <1>6. Reached'
    <2> SUFFICES ASSUME ~Halted', NEW i \in Channel, Ready(i)'
                 PROVE  \E e \in Range(stack') : Reaches(e, i)
      BY Zenon DEF Reached, Reaches
    <2>1. ~Halted /\ Ready(i) BY <1>1, Zenon DEF Halted, Ready
    <2>2. PICK e \in Range(stack) : Reaches(e, i) BY <2>1, Zenon DEF IndM, Reached
    <2>3. e # f
      <3> SUFFICES ASSUME e = f PROVE FALSE OBVIOUS
      <3>1. i >= f.ch BY <1>2, <2>2, Zenon DEF Reaches
      <3>2. i \in Waiting(f.ch) BY <2>1, <3>1, Zenon DEF Waiting, CanTransfer, Ready
      <3> QED BY <1>1, <3>2
    <2> QED BY <1>1, <1>3, <2>2, <2>3, Zenon
  <1>7. InRange' BY <1>1, <1>3, <1>4, Zenon DEF IndM, InRange, Halted
  <1> QED BY <1>4, <1>5, <1>6, <1>7 DEF IndM

(* There is no OTC in a stream.                                            *)
LEMMA NoOtc ==
  ASSUME IndM
  PROVE  ~OtcControlWritten
  <1> SUFFICES ASSUME OtcControlWritten PROVE FALSE OBVIOUS
  <1>1. stack # <<>> /\ Head(stack).op = "chcr" BY Zenon DEF OtcControlWritten, TopIs
  <1>2. Head(stack) \in MdecFrames BY <1>1, TopFrame
  <1> QED BY <1>1, <1>2 DEF MdecFrames

(* Every step of the DMA within a call.                                    *)
LEMMA MdecTransfer ==
  ASSUME IndM, mdec' = mdec, Transfer
  PROVE  IndM'
  <1>1. CASE \E last \in BOOLEAN, slice \in Slices : Block(last, slice) BY <1>1, MdecBlock
  <1> QED BY <1>1, MdecBusError, MdecComplete, MdecRequestDropped, MdecSliceOver, MdecSweepNext,
             MdecSweepEnd, NoOtc, Zenon DEF Transfer

-----------------------------------------------------------------------------
(* mdec_update_status                                                    *)

(* A call that waits itself, on top of calls that wait.                    *)
LEMMA TopWaits ==
  ASSUME IndM, stack # <<>>, Head(stack).op \notin {"first", "device"}
  PROVE  Waits(stack)
  BY TopFrame DEF Waits

(* The ranges of the variables.                                            *)
LEMMA Sizes ==
  ASSUME IndM
  PROVE  /\ inSize \in Nat /\ inSize <= InCap /\ outSize \in Nat /\ outSize <= OutCap
         /\ params \in Nat /\ Space \in Nat /\ Space = InCap - inSize
         /\ enableIn \in BOOLEAN /\ enableOut \in BOOLEAN /\ mono \in BOOLEAN
         /\ decoded \in BOOLEAN /\ copyOut \in BOOLEAN /\ nested \in BOOLEAN
         /\ mstate \in {"idle", "decoding", "writing", "table", "invalid"}
  <1>1. TypedM /\ FifosInBounds BY DEF IndM, InRange
  <1>2. /\ enableIn \in BOOLEAN /\ enableOut \in BOOLEAN /\ mono \in BOOLEAN
        /\ decoded \in BOOLEAN /\ copyOut \in BOOLEAN /\ nested \in BOOLEAN
    BY <1>1, Zenon DEF TypedM
  <1>3. inSize \in Nat /\ inSize <= InCap /\ outSize \in Nat /\ outSize <= OutCap
    BY <1>1, MdecFacts, SMT DEF FifosInBounds
  <1>4. Space \in Nat /\ Space = InCap - inSize BY <1>3, MdecFacts, SMT DEF Space
  <1> QED BY <1>1, <1>2, <1>3, <1>4, Zenon DEF TypedM

(* The decoder has the turn: its requests and what it has left to do are   *)
(* not settled yet.                                                        *)
LEMMA Turn ==
  ASSUME NEW f \in {Execute, Status}, NEW s \in Seq(MdecFrames), stack' = Push(f, s)
  PROVE  /\ RequestInOk' /\ RequestOutOk'
         /\ f = Execute => Settled'
         /\ stack' \in Seq(MdecFrames) /\ Range(stack') = {f} \cup Range(s)
  <1>1. f \in MdecFrames /\ f.op \in {"execute", "status"} /\ (f = Execute => f.op = "execute")
    BY NewFrames
  <1> DEFINE p == Push(f, s)
  <1>2. p \in Seq(MdecFrames) /\ p # <<>> /\ Head(p) = f /\ Range(p) = {f} \cup Range(s)
    BY <1>1, PushCall
  <1>3. stack' = p OBVIOUS
  <1> HIDE DEF p
  <1>4. RequestInOk' BY <1>1, <1>2, <1>3, Zenon DEF RequestInOk
  <1>5. f \in Range(stack') BY <1>2, <1>3
  <1>6. Pending({"execute", "status", "statusOut"})'
    <2>1. f.op \in {"execute", "status", "statusOut"} BY <1>1
    <2> QED BY <1>5, <2>1, Zenon DEF Pending
  <1>7. RequestOutOk' BY <1>6, Zenon DEF RequestOutOk
  <1>8. f = Execute => Settled'
    <2> SUFFICES ASSUME f = Execute PROVE Pending({"execute"})' BY Zenon DEF Settled
    <2>1. f.op \in {"execute"} BY <1>1
    <2> QED BY <1>5, <2>1, Zenon DEF Pending
  <1> QED BY <1>2, <1>3, <1>4, <1>7, <1>8, Zenon

(* The decoder takes a step between transfers.                             *)
LEMMA DecoderCalls ==
  ASSUME IndM, SameDma, stack' \in Seq(MdecFrames), Waits(stack'),
         \A f \in Range(stack) :
           f.op \in {"first", "loop", "unhalt", "dpcr"} => f \in Range(stack')
  PROVE  /\ TopOk' /\ Reached' /\ chan' = chan /\ chan' \in [Channel -> Control]
         /\ Halted' \in BOOLEAN /\ nested' = nested
  <1>1. /\ dpcr' = dpcr /\ chan' = chan /\ unhalt_event' = unhalt_event /\ nested' = nested
    BY Zenon DEF SameDma, dmaRest
  <1>2. TopOk' BY ReturnTop
  <1>3. Reached'
    <2> SUFFICES ASSUME ~Halted', NEW i \in Channel, Ready(i)'
                 PROVE  \E e \in Range(stack') : Reaches(e, i)
      BY Zenon DEF Reached, Reaches
    <2>1. ~Halted /\ Ready(i) BY <1>1, Zenon DEF Halted, Ready
    <2>2. PICK e \in Range(stack) : Reaches(e, i) BY <2>1, Zenon DEF IndM, Reached
    <2>3. e.op \in {"first", "loop", "unhalt", "dpcr"} BY <2>2 DEF Reaches, Sweeps
    <2> QED BY <2>2, <2>3
  <1> QED BY <1>1, <1>2, <1>3, Zenon DEF IndM, InRange, Halted

(* A request is set with the calls in s left to return to, and may start a *)
(* transfer on top of them.                                                *)
LEMMA RequestSet ==
  ASSUME IndM, NEW c \in Channel, NEW level \in BOOLEAN, NEW s \in Seq(MdecFrames), Waits(s),
         SetRequest(c, level, s), dpcr' = dpcr, unhalt_event' = unhalt_event,
         \A f \in Range(stack) : f.op \in {"first", "loop", "unhalt", "dpcr"} => f \in Range(s)
  PROVE  /\ chan' \in [Channel -> Control] /\ chan'[c].request = level
         /\ \A d \in Channel : d # c => chan'[d] = chan[d]
         /\ stack' \in Seq(MdecFrames) /\ Range(s) \subseteq Range(stack')
         /\ TopOk' /\ Reached'
  <1> DEFINE ch == [chan EXCEPT ![c].request = level]
  <1>1. chan \in [Channel -> Control] BY DEF IndM, InRange
  <1>2. /\ ch \in [Channel -> Control] /\ ch[c].busy = chan[c].busy /\ ch[c].mode = chan[c].mode
        /\ ch[c].request = level /\ \A d \in Channel : d # c => ch[d] = chan[d]
    BY <1>1, SetRequestBit
  <1>3. /\ chan' = ch
        /\ stack' = IF chan[c].request # level /\ CanTransfer(ch, c, FALSE) THEN Call(ch, c, s) ELSE s
    BY Zenon DEF SetRequest
  <1> HIDE DEF ch
  <1>4. \A d \in Channel : d # c => (Ready(d)' <=> Ready(d))
    BY <1>2, <1>3, Zenon DEF Ready
  <1>5. \A d \in Channel : ~Halted /\ Ready(d) => \E f \in Range(s) : Reaches(f, d)
    <2> SUFFICES ASSUME NEW d \in Channel, ~Halted, Ready(d)
                 PROVE  \E f \in Range(s) : Reaches(f, d)
      OBVIOUS
    <2>1. PICK f \in Range(stack) : Reaches(f, d) BY Zenon DEF IndM, Reached
    <2>2. f.op \in {"first", "loop", "unhalt", "dpcr"} BY <2>1 DEF Reaches, Sweeps
    <2> QED BY <2>1, <2>2
  <1>6. Halted' = Halted BY Zenon DEF Halted
  <1>7. CASE chan[c].request # level /\ CanTransfer(ch, c, FALSE)
    <2>1. PICK f \in MdecFrames : stack' = Push(f, s) /\ f.op = "first" /\ f.ch = c
      <3>1. stack' = Call(ch, c, s) BY <1>3, <1>7, Zenon
      <3> QED BY <1>2, <3>1, CallIn, Zenon
    <2>2. stack' \in Seq(MdecFrames) /\ Range(stack') = {f} \cup Range(s)
      <3>1. Push(f, s) \in Seq(MdecFrames) /\ Range(Push(f, s)) = {f} \cup Range(s) BY PushCall
      <3> QED BY <2>1, <3>1, Zenon
    <2>3. TopOk'
      <3>1. f.op = "first" => chan'[f.ch].request BY <1>3, <1>7, <2>1, Zenon DEF CanTransfer
      <3>2. f.op # "device" BY <2>1
      <3> QED BY <2>1, <3>1, <3>2, CallTop
    <2>4. Reached'
      <3> SUFFICES ASSUME ~Halted', NEW d \in Channel, Ready(d)'
                   PROVE  \E e \in Range(stack') : Reaches(e, d)
        BY Zenon DEF Reached, Reaches
      <3>1. CASE d = c
        <4>1. Reaches(f, d) BY <2>1, <3>1 DEF Reaches
        <4> QED BY <2>2, <4>1
      <3>2. CASE d # c BY <1>4, <1>5, <1>6, <2>2, <3>2
      <3> QED BY <3>1, <3>2
    <2> QED BY <1>2, <1>3, <2>1, <2>2, <2>3, <2>4, Zenon
  <1>8. CASE ~(chan[c].request # level /\ CanTransfer(ch, c, FALSE))
    <2>1. stack' = s BY <1>3, <1>8, Zenon
    <2>2. TopOk' BY <2>1, ReturnTop
    <2>3. Reached'
      <3> SUFFICES ASSUME ~Halted', NEW d \in Channel, Ready(d)'
                   PROVE  \E e \in Range(stack') : Reaches(e, d)
        BY Zenon DEF Reached, Reaches
      <3>1. CASE d = c
        <4>1. d \in dpcr /\ ch[d].busy /\ ch[d].request BY <1>3, Zenon DEF Ready
        <4>2. ~Halted BY <1>6
        <4>3. chan[c].request = level BY <1>8, <3>1, <4>1, <4>2, Zenon DEF CanTransfer
        <4>4. Ready(d) BY <1>2, <3>1, <4>1, <4>3, Zenon DEF Ready
        <4> QED BY <1>5, <2>1, <4>2, <4>4
      <3>2. CASE d # c BY <1>4, <1>5, <1>6, <2>1, <3>2
      <3> QED BY <3>1, <3>2
    <2> QED BY <1>2, <1>3, <2>1, <2>2, <2>3, Zenon
  <1> QED BY <1>7, <1>8

(* mdec_update_status leaves the decoder as it is.                         *)
LEMMA StatusKeeps ==
  ASSUME IndM, decoder' = decoder, nested' \in BOOLEAN,
         Pending({"execute"}) => Pending({"execute"})'
  PROVE  TypedM' /\ FifosInBounds' /\ CopyOutOk' /\ Settled' /\ Space' = Space
  <1>1. /\ mstate' = mstate /\ params' = params /\ inSize' = inSize /\ outSize' = outSize
        /\ enableIn' = enableIn /\ enableOut' = enableOut /\ mono' = mono
        /\ decoded' = decoded /\ copyOut' = copyOut
    BY Zenon DEF decoder
  <1>2. TypedM' BY <1>1, Sizes DEF TypedM
  <1>3. FifosInBounds' BY <1>1, Zenon DEF IndM, InRange, FifosInBounds
  <1>4. CopyOutOk' BY <1>1, SMT DEF IndM, CopyOutOk
  <1>5. Settled' BY <1>1, Zenon DEF IndM, Settled
  <1>6. Space' = Space BY <1>1, Zenon DEF Space
  <1> QED BY <1>2, <1>3, <1>4, <1>5, <1>6

(* Whether a transfer nests is a truth value.                              *)
LEMMA NestedOk ==
  ASSUME IndM, NEW c, NEW s, NoteNesting(c, s)
  PROVE  nested' \in BOOLEAN
  BY Sizes, Zenon DEF NoteNesting

(* The first half of mdec_update_status.                                   *)
LEMMA MdecUpdateStatusIn ==
  ASSUME IndM, UpdateStatusIn
  PROVE  IndM'
  <1> DEFINE t == Tail(stack)
             s == Push(StatusOut, t)
             level == enableIn /\ Space >= Burst
  <1>1. /\ TopIs("status") /\ SetRequest(In, level, s) /\ NoteNesting(In, s)
        /\ dpcr' = dpcr /\ unhalt_event' = unhalt_event /\ decoder' = decoder
    BY Zenon DEF UpdateStatusIn, dmaRest
  <1>2. stack # <<>> /\ Head(stack).op = "status" BY <1>1, Zenon DEF TopIs
  <1>3. t \in Seq(MdecFrames) /\ Waits(t) /\ Range(stack) = {Head(stack)} \cup Range(t)
    BY <1>2, TopFrame
  <1>4. s \in Seq(MdecFrames) /\ Waits(s) /\ Range(s) = {StatusOut} \cup Range(t)
    <2>1. StatusOut \in MdecFrames /\ StatusOut.op \notin {"first", "device"} BY NewFrames
    <2> QED BY <1>3, <2>1, PushCall, WaitsPush
  <1>5. level \in BOOLEAN BY Sizes
  <1>6. nested' \in BOOLEAN BY <1>1, NestedOk
  <1> HIDE DEF s, t, level
  <1>7. \A f \in Range(stack) : f.op # "status" => f \in Range(s) BY <1>2, <1>3, <1>4
  <1>8. /\ chan' \in [Channel -> Control] /\ chan'[In].request = level
        /\ stack' \in Seq(MdecFrames) /\ Range(s) \subseteq Range(stack')
        /\ TopOk' /\ Reached'
    <2>1. \A f \in Range(stack) : f.op \in {"first", "loop", "unhalt", "dpcr"} => f \in Range(s)
      BY <1>7
    <2> QED BY <1>1, <1>4, <1>5, <2>1, MdecFacts, RequestSet
  <1>9. Pending({"execute"}) => Pending({"execute"})'
    <2> SUFFICES ASSUME NEW f \in Range(stack), f.op \in {"execute"} PROVE f \in Range(stack')
      BY Zenon DEF Pending
    <2> QED BY <1>7, <1>8
  <1>10. TypedM' /\ FifosInBounds' /\ CopyOutOk' /\ Settled' /\ Space' = Space
    BY <1>1, <1>6, <1>9, StatusKeeps
  <1>11. RequestInOk'
    <2>1. enableIn' = enableIn BY <1>1, Zenon DEF decoder
    <2>2. (enableIn /\ Space >= Burst)' <=> level BY <1>10, <2>1, Zenon DEF level
    <2>3. chan'[In].request <=> level BY <1>8
    <2> QED BY <2>2, <2>3, Zenon DEF RequestInOk
  <1>12. RequestOutOk'
    <2>1. StatusOut \in Range(stack') BY <1>4, <1>8
    <2>2. StatusOut.op \in {"execute", "status", "statusOut"} BY NewFrames
    <2>3. Pending({"execute", "status", "statusOut"})' BY <2>1, <2>2, Zenon DEF Pending
    <2> QED BY <2>3, Zenon DEF RequestOutOk
  <1>13. Halted' \in BOOLEAN BY <1>1, Zenon DEF IndM, InRange, Halted
  <1>14. InRange' BY <1>8, <1>10, <1>13 DEF InRange
  <1> QED BY <1>8, <1>10, <1>11, <1>12, <1>14 DEF IndM

(* The second half of mdec_update_status.                                  *)
LEMMA MdecUpdateStatusOut ==
  ASSUME IndM, UpdateStatusOut
  PROVE  IndM'
  <1> DEFINE s == Tail(stack)
             level == enableOut /\ outSize > 0
  <1>1. /\ TopIs("statusOut") /\ SetRequest(Out, level, s) /\ NoteNesting(Out, s)
        /\ dpcr' = dpcr /\ unhalt_event' = unhalt_event /\ decoder' = decoder
    BY Zenon DEF UpdateStatusOut, dmaRest
  <1>2. stack # <<>> /\ Head(stack).op = "statusOut" BY <1>1, Zenon DEF TopIs
  <1>3. s \in Seq(MdecFrames) /\ Waits(s) /\ Range(stack) = {Head(stack)} \cup Range(s)
    BY <1>2, TopFrame
  <1>4. level \in BOOLEAN BY Sizes
  <1>5. nested' \in BOOLEAN BY <1>1, NestedOk
  <1>6. chan[In].request <=> (enableIn /\ Space >= Burst)
    <2>1. Head(stack).op \notin {"execute", "status"} BY <1>2
    <2> QED BY <2>1, Zenon DEF IndM, RequestInOk
  <1> HIDE DEF s, level
  <1>7. \A f \in Range(stack) : f.op # "statusOut" => f \in Range(s) BY <1>2, <1>3
  <1>8. /\ chan' \in [Channel -> Control] /\ chan'[Out].request = level
        /\ \A d \in Channel : d # Out => chan'[d] = chan[d]
        /\ stack' \in Seq(MdecFrames) /\ Range(s) \subseteq Range(stack')
        /\ TopOk' /\ Reached'
    <2>1. \A f \in Range(stack) : f.op \in {"first", "loop", "unhalt", "dpcr"} => f \in Range(s)
      BY <1>7
    <2> QED BY <1>1, <1>3, <1>4, <2>1, MdecFacts, RequestSet
  <1>9. Pending({"execute"}) => Pending({"execute"})'
    <2> SUFFICES ASSUME NEW f \in Range(stack), f.op \in {"execute"} PROVE f \in Range(stack')
      BY Zenon DEF Pending
    <2> QED BY <1>7, <1>8
  <1>10. TypedM' /\ FifosInBounds' /\ CopyOutOk' /\ Settled' /\ Space' = Space
    BY <1>1, <1>5, <1>9, StatusKeeps
  <1>11. /\ enableIn' = enableIn /\ enableOut' = enableOut /\ outSize' = outSize
    BY <1>1, Zenon DEF decoder
  <1>12. RequestInOk'
    <2>1. (enableIn /\ Space >= Burst)' <=> (enableIn /\ Space >= Burst)
      BY <1>10, <1>11, Zenon
    <2>2. chan'[In].request <=> chan[In].request BY <1>8, MdecFacts
    <2> QED BY <1>6, <2>1, <2>2, Zenon DEF RequestInOk
  <1>13. RequestOutOk'
    <2>1. (enableOut /\ outSize > 0)' <=> level BY <1>11, Zenon DEF level
    <2>2. chan'[Out].request <=> level BY <1>8
    <2> QED BY <2>1, <2>2, Zenon DEF RequestOutOk
  <1>14. Halted' \in BOOLEAN BY <1>1, Zenon DEF IndM, InRange, Halted
  <1>15. InRange' BY <1>8, <1>10, <1>14 DEF InRange
  <1> QED BY <1>8, <1>10, <1>12, <1>13, <1>15 DEF IndM

-----------------------------------------------------------------------------
(* The blocks of a transfer                                              *)

(* n & ~2 is not more than n.                                              *)
LEMMA MaskedFacts ==
  ASSUME NEW n \in Nat
  PROVE  Masked(n) \in Nat /\ Masked(n) <= n
  <1>1. CASE (n \div 2) % 2 = 1
    <2>1. n >= 2 BY <1>1, SMT
    <2> QED BY <1>1, <2>1, SMT DEF Masked
  <1>2. CASE (n \div 2) % 2 # 1 BY <1>2, SMT DEF Masked
  <1> QED BY <1>1, <1>2

(* The lesser of two numbers.                                              *)
LEMMA MinFacts ==
  ASSUME NEW x \in Nat, NEW y \in Nat
  PROVE  MinOf(x, y) \in Nat /\ MinOf(x, y) <= x /\ MinOf(x, y) <= y
         /\ (MinOf(x, y) = x \/ MinOf(x, y) = y)
  BY DEF MinOf

(* The invariant from what a step of the decoder does to its own part.     *)
LEMMA DecoderStep ==
  ASSUME IndM, SameDma, stack' \in Seq(MdecFrames), Waits(stack'),
         \A f \in Range(stack) :
           f.op \in {"first", "loop", "unhalt", "dpcr"} => f \in Range(stack'),
         mstate' \in {"idle", "decoding", "writing", "table", "invalid"}, params' \in Nat,
         enableIn' = enableIn, enableOut' = enableOut, mono' = mono,
         decoded' \in BOOLEAN, copyOut' \in BOOLEAN,
         inSize' \in 0..InCap, outSize' \in 0..OutCap,
         CopyOutOk', RequestInOk', RequestOutOk', Settled'
  PROVE  IndM'
  <1>1. /\ TopOk' /\ Reached' /\ chan' \in [Channel -> Control]
        /\ Halted' \in BOOLEAN /\ nested' = nested
    BY DecoderCalls
  <1>2. TypedM' BY <1>1, Sizes DEF TypedM
  <1>3. FifosInBounds' BY DEF FifosInBounds
  <1>4. InRange' BY <1>1, <1>2, <1>3 DEF InRange
  <1> QED BY <1>1, <1>4 DEF IndM

(* A block of input.                                                       *)
LEMMA MdecDmaWrite ==
  ASSUME IndM, DmaWrite
  PROVE  IndM'
  <1> DEFINE n == IF InBlock <= Space THEN InBlock ELSE Masked(Space)
  <1>1. /\ stack # <<>> /\ Head(stack).op = "device"
        /\ inSize' = inSize + n
        /\ stack' = Push(Execute, Tail(stack)) /\ SameDma
        /\ mstate' = mstate /\ params' = params /\ outSize' = outSize /\ enableIn' = enableIn
        /\ enableOut' = enableOut /\ mono' = mono /\ decoded' = decoded /\ copyOut' = copyOut
    BY Zenon DEF DmaWrite, TopIs
  <1>2. Tail(stack) \in Seq(MdecFrames) /\ Waits(Tail(stack))
        /\ Range(stack) = {Head(stack)} \cup Range(Tail(stack))
    BY <1>1, TopFrame
  <1>3. Execute \in MdecFrames /\ Execute.op \notin {"first", "device"} BY NewFrames
  <1>4. Waits(stack') BY <1>1, <1>2, <1>3, WaitsPush
  <1>5. /\ RequestInOk' /\ RequestOutOk' /\ Settled' /\ stack' \in Seq(MdecFrames)
        /\ Range(stack') = {Execute} \cup Range(Tail(stack))
    <2>1. stack' = Push(Execute, Tail(stack)) /\ Execute \in {Execute, Status} BY <1>1
    <2> QED BY <1>2, <2>1, Turn
  <1>6. \A f \in Range(stack) :
          f.op \in {"first", "loop", "unhalt", "dpcr"} => f \in Range(stack')
    BY <1>1, <1>2, <1>5
  <1>7. n \in Nat /\ n <= Space BY Sizes, MdecFacts, MaskedFacts
  <1> HIDE DEF n
  <1>8. inSize' \in 0..InCap BY <1>1, <1>7, Sizes, MdecFacts
  <1>9. CopyOutOk' BY <1>1, SMT DEF IndM, CopyOutOk
  <1>10. outSize' \in 0..OutCap BY <1>1, Sizes, MdecFacts
  <1> QED BY <1>1, <1>4, <1>5, <1>6, <1>8, <1>9, <1>10, Sizes, DecoderStep

(* A block of output.                                                      *)
LEMMA MdecDmaRead ==
  ASSUME IndM, DmaRead
  PROVE  IndM'
  <1> DEFINE n == MinOf(OutBlock, outSize)
             t == Tail(stack)
  <1>1. /\ stack # <<>> /\ Head(stack).op = "device" /\ Head(stack).ch = Out
        /\ outSize' = outSize - n
        /\ stack' = IF outSize' = 0 THEN Push(Execute, t) ELSE t
        /\ SameDma
        /\ mstate' = mstate /\ params' = params /\ inSize' = inSize /\ enableIn' = enableIn
        /\ enableOut' = enableOut /\ mono' = mono /\ decoded' = decoded /\ copyOut' = copyOut
    BY Zenon DEF DmaRead, TopIs
  <1>2. t \in Seq(MdecFrames) /\ Waits(t) /\ Range(stack) = {Head(stack)} \cup Range(t)
    BY <1>1, TopFrame
  <1>3. Execute \in MdecFrames /\ Execute.op \notin {"first", "device"} BY NewFrames
  <1>4. n \in Nat /\ n <= outSize BY Sizes, MdecFacts, MinFacts
  <1> HIDE DEF n, t
  <1>5. outSize' \in 0..OutCap /\ outSize' <= outSize BY <1>1, <1>4, Sizes, MdecFacts
  <1>6. CopyOutOk'
    <2>1. outSize = 0 => outSize' = 0 BY <1>5, Sizes, SMT
    <2> QED BY <1>1, <2>1, SMT DEF IndM, CopyOutOk
  <1>7. CASE outSize' = 0
    <2>1. stack' = Push(Execute, t) BY <1>1, <1>7
    <2>2. Waits(stack') BY <1>2, <1>3, <2>1, WaitsPush
    <2>3. /\ RequestInOk' /\ RequestOutOk' /\ Settled' /\ stack' \in Seq(MdecFrames)
          /\ Range(stack') = {Execute} \cup Range(t)
      <3>1. Execute \in {Execute, Status} OBVIOUS
      <3> QED BY <1>2, <2>1, <3>1, Turn
    <2>4. \A f \in Range(stack) :
            f.op \in {"first", "loop", "unhalt", "dpcr"} => f \in Range(stack')
      BY <1>1, <1>2, <2>3
    <2>5. inSize' \in 0..InCap BY <1>1, Sizes, MdecFacts
    <2> QED BY <1>1, <1>5, <1>6, <2>2, <2>3, <2>4, <2>5, Sizes, DecoderStep
  <1>8. CASE outSize' # 0
    <2>1. stack' = t BY <1>1, <1>8
    <2>2. \A f \in Range(stack) : f.op # "device" => f \in Range(stack')
      BY <1>1, <1>2, <2>1
    <2>3. outSize > 0 /\ outSize' > 0 BY <1>5, <1>8, Sizes, SMT
    <2>4. chan' = chan BY <1>1, Zenon DEF SameDma
    <2>5. RequestInOk'
      <3>1. Head(stack).op \notin {"execute", "status"} BY <1>1
      <3>2. chan[In].request <=> (enableIn /\ Space >= Burst)
        BY <3>1, Zenon DEF IndM, RequestInOk
      <3>3. Space' = Space BY <1>1, Zenon DEF Space
      <3> QED BY <1>1, <2>4, <3>2, <3>3, SMT DEF RequestInOk
    <2>6. \A ops \in SUBSET {"execute", "status", "statusOut"} : Pending(ops) => Pending(ops)'
      <3> SUFFICES ASSUME NEW ops \in SUBSET {"execute", "status", "statusOut"},
                          NEW f \in Range(stack), f.op \in ops
                   PROVE  f \in Range(stack')
        BY Zenon DEF Pending
      <3> QED BY <2>2
    <2>7. RequestOutOk'
      <3>1. Pending({"execute", "status", "statusOut"}) => Pending({"execute", "status", "statusOut"})'
        BY <2>6
      <3>2. (enableOut /\ outSize > 0)' <=> (enableOut /\ outSize > 0) BY <1>1, <2>3, SMT
      <3> QED BY <2>4, <3>1, <3>2, Zenon DEF IndM, RequestOutOk
    <2>8. Settled'
      <3>1. Pending({"execute"}) => Pending({"execute"})' BY <2>6
      <3> QED BY <1>1, <2>3, <3>1, Zenon DEF IndM, Settled
    <2>9. \A f \in Range(stack) :
            f.op \in {"first", "loop", "unhalt", "dpcr"} => f \in Range(stack')
      BY <2>2
    <2>10. inSize' \in 0..InCap BY <1>1, Sizes, MdecFacts
    <2>11. stack' \in Seq(MdecFrames) /\ Waits(stack') BY <1>2, <2>1
    <2> QED BY <1>1, <1>5, <1>6, <2>5, <2>7, <2>8, <2>9, <2>10, <2>11, Sizes, DecoderStep
  <1> QED BY <1>7, <1>8

(* The three ways mdec_execute goes on.                                    *)
LEMMA ExecuteTop ==
  ASSUME IndM, TopIs("execute")
  PROVE  /\ stack # <<>> /\ Head(stack).op = "execute" /\ Head(stack) \in MdecFrames
         /\ stack \in Seq(MdecFrames) /\ Waits(stack)
         /\ Tail(stack) \in Seq(MdecFrames) /\ Waits(Tail(stack))
         /\ Range(stack) = {Head(stack)} \cup Range(Tail(stack))
  <1>1. stack # <<>> /\ Head(stack).op = "execute" BY Zenon DEF TopIs
  <1>2. stack \in Seq(MdecFrames) BY DEF IndM, InRange
  <1> QED BY <1>1, <1>2, TopFrame, TopWaits

(* It is finished, and updates the status.                                 *)
LEMMA IsFinished ==
  ASSUME IndM, TopIs("execute"), Finished
  PROVE  /\ RequestInOk' /\ RequestOutOk' /\ stack' \in Seq(MdecFrames) /\ Waits(stack')
         /\ \A f \in Range(stack) :
              f.op \in {"first", "loop", "unhalt", "dpcr"} => f \in Range(stack')
  <1>1. stack' = Push(Status, Tail(stack)) BY DEF Finished
  <1>2. Status \in MdecFrames /\ Status.op \notin {"first", "device"} BY NewFrames
  <1>3. Waits(stack') BY <1>1, <1>2, ExecuteTop, WaitsPush
  <1>4. /\ RequestInOk' /\ RequestOutOk' /\ stack' \in Seq(MdecFrames)
        /\ Range(stack') = {Status} \cup Range(Tail(stack))
    <2>1. Status \in {Execute, Status} OBVIOUS
    <2> QED BY <1>1, <2>1, ExecuteTop, Turn
  <1> QED BY <1>3, <1>4, ExecuteTop

(* It updates the status and goes on.                                      *)
LEMMA Continues ==
  ASSUME IndM, TopIs("execute"), Continue \/ stack' = stack
  PROVE  /\ RequestInOk' /\ RequestOutOk' /\ Settled'
         /\ stack' \in Seq(MdecFrames) /\ Waits(stack')
         /\ \A f \in Range(stack) :
              f.op \in {"first", "loop", "unhalt", "dpcr"} => f \in Range(stack')
  <1>1. Head(stack) \in Range(stack) /\ Head(stack).op \in {"execute"} BY ExecuteTop
  <1>2. Range(stack) \subseteq Range(stack') => Settled'
    <2> SUFFICES ASSUME Range(stack) \subseteq Range(stack') PROVE Pending({"execute"})'
      BY Zenon DEF Settled
    <2>1. Head(stack) \in Range(stack') BY <1>1
    <2> QED BY <1>1, <2>1, Zenon DEF Pending
  <1>3. CASE Continue
    <2>1. stack' = Push(Status, stack) BY <1>3 DEF Continue
    <2>2. Status \in MdecFrames /\ Status.op \notin {"first", "device"} BY NewFrames
    <2>3. Waits(stack') BY <2>1, <2>2, ExecuteTop, WaitsPush
    <2>4. /\ RequestInOk' /\ RequestOutOk' /\ stack' \in Seq(MdecFrames)
          /\ Range(stack') = {Status} \cup Range(stack)
      <3>1. Status \in {Execute, Status} OBVIOUS
      <3> QED BY <2>1, <3>1, ExecuteTop, Turn
    <2> QED BY <1>2, <2>3, <2>4
  <1>4. CASE stack' = stack
    <2>1. stack' \in Seq(MdecFrames) /\ Waits(stack') /\ Range(stack) \subseteq Range(stack')
      BY <1>4, ExecuteTop
    <2>2. Head(stack) \in Range(stack') BY <1>1, <2>1
    <2>3. RequestInOk' BY <1>4, ExecuteTop, SMT DEF RequestInOk
    <2>4. RequestOutOk'
      <3>1. Head(stack).op \in {"execute", "status", "statusOut"} BY ExecuteTop
      <3>2. Pending({"execute", "status", "statusOut"})' BY <2>2, <3>1, Zenon DEF Pending
      <3> QED BY <3>2, Zenon DEF RequestOutOk
    <2> QED BY <1>2, <2>1, <2>3, <2>4
  <1> QED BY <1>3, <1>4

-----------------------------------------------------------------------------
(* mdec_execute                                                          *)

(* The decoder waits.                                                      *)
LEMMA MdecWaits ==
  ASSUME IndM, ExecuteWaits
  PROVE  IndM'
  <1>1. /\ TopIs("execute") /\ Finished /\ SameDma /\ decoder' = decoder
        /\ \/ mstate = "idle" /\ inSize < 2
           \/ mstate = "writing"
           \/ mstate = "table" /\ inSize < params
    BY Zenon DEF ExecuteWaits
  <1>2. /\ mstate' = mstate /\ params' = params /\ inSize' = inSize /\ outSize' = outSize
        /\ enableIn' = enableIn /\ enableOut' = enableOut /\ mono' = mono
        /\ decoded' = decoded /\ copyOut' = copyOut
    BY <1>1, Zenon DEF decoder
  <1>3. CopyOutOk' BY <1>2, SMT DEF IndM, CopyOutOk
  <1>4. Settled' BY <1>1, <1>2, SMT DEF Settled
  <1>5. inSize' \in 0..InCap /\ outSize' \in 0..OutCap BY <1>2, Sizes, MdecFacts
  <1> QED BY <1>1, <1>2, <1>3, <1>4, <1>5, Sizes, IsFinished, DecoderStep

(* A command starts.                                                       *)
LEMMA MdecHeader ==
  ASSUME IndM, NEW command \in {"decode", "table", "invalid"}, NEW n \in Nat,
         ExecuteHeader(command, n)
  PROVE  IndM'
  <1>1. /\ TopIs("execute") /\ mstate = "idle" /\ inSize >= 2
        /\ mstate' = IF command = "decode" THEN "decoding" ELSE command
        /\ params' = n /\ inSize' = inSize - 2 /\ outSize' = 0 /\ Continue /\ SameDma
        /\ enableIn' = enableIn /\ enableOut' = enableOut /\ mono' = mono
        /\ decoded' = decoded /\ copyOut' = copyOut
    BY Zenon DEF ExecuteHeader
  <1>2. mstate' \in {"decoding", "table", "invalid"} BY <1>1
  <1>3. CopyOutOk' BY <1>1, <1>2, SMT DEF IndM, CopyOutOk
  <1>4. inSize' \in 0..InCap /\ outSize' \in 0..OutCap BY <1>1, Sizes, MdecFacts
  <1>5. mstate' \in {"idle", "decoding", "writing", "table", "invalid"} BY <1>2
  <1> QED BY <1>1, <1>3, <1>4, <1>5, Sizes, Continues, DecoderStep

(* A table is stored.                                                      *)
LEMMA MdecTable ==
  ASSUME IndM, ExecuteTable
  PROVE  IndM'
  <1>1. /\ TopIs("execute") /\ mstate = "table" /\ inSize >= params
        /\ inSize' = inSize - params /\ params' = 0 /\ mstate' = "idle" /\ Continue /\ SameDma
        /\ outSize' = outSize /\ enableIn' = enableIn /\ enableOut' = enableOut /\ mono' = mono
        /\ decoded' = decoded /\ copyOut' = copyOut
    BY Zenon DEF ExecuteTable
  <1>2. CopyOutOk' BY <1>1, SMT DEF IndM, CopyOutOk
  <1>3. inSize' \in 0..InCap /\ outSize' \in 0..OutCap BY <1>1, Sizes, MdecFacts
  <1>4. params' \in Nat /\ mstate' \in {"idle", "decoding", "writing", "table", "invalid"} BY <1>1
  <1> QED BY <1>1, <1>2, <1>3, <1>4, Sizes, Continues, DecoderStep

(* Parameters of an invalid command are dropped.                           *)
LEMMA MdecInvalid ==
  ASSUME IndM, ExecuteInvalid
  PROVE  IndM'
  <1> DEFINE n == MinOf(params, inSize)
  <1>1. /\ TopIs("execute") /\ mstate = "invalid"
        /\ inSize' = inSize - n /\ params' = params - n
        /\ IF params' = 0 THEN mstate' = mstate /\ Finished ELSE mstate' = "idle" /\ Continue
        /\ SameDma
        /\ outSize' = outSize /\ enableIn' = enableIn /\ enableOut' = enableOut /\ mono' = mono
        /\ decoded' = decoded /\ copyOut' = copyOut
    BY Zenon DEF ExecuteInvalid
  <1>2. n \in Nat /\ n <= params /\ n <= inSize BY Sizes, MinFacts
  <1> HIDE DEF n
  <1>3. mstate' \in {"idle", "invalid"} BY <1>1
  <1>4. CopyOutOk' BY <1>1, <1>3, SMT DEF IndM, CopyOutOk
  <1>5. inSize' \in 0..InCap /\ outSize' \in 0..OutCap /\ params' \in Nat
    BY <1>1, <1>2, Sizes, MdecFacts
  <1>6. mstate' \in {"idle", "decoding", "writing", "table", "invalid"} BY <1>3
  <1>7. /\ RequestInOk' /\ RequestOutOk' /\ Settled'
        /\ stack' \in Seq(MdecFrames) /\ Waits(stack')
        /\ \A f \in Range(stack) :
             f.op \in {"first", "loop", "unhalt", "dpcr"} => f \in Range(stack')
    <2>1. CASE params' = 0
      <3>1. mstate' = "invalid" /\ Finished BY <1>1, <2>1
      <3>2. Settled' BY <3>1, SMT DEF Settled
      <3> QED BY <1>1, <3>1, <3>2, IsFinished
    <2>2. CASE params' # 0 BY <1>1, <2>2, Continues
    <2> QED BY <2>1, <2>2
  <1> QED BY <1>1, <1>4, <1>5, <1>6, <1>7, Sizes, DecoderStep

(* A macroblock is complete.                                               *)
LEMMA MdecDecoded ==
  ASSUME IndM, NEW n \in 1..InCap, ExecuteDecoded(n)
  PROVE  IndM'
  <1>1. /\ TopIs("execute") /\ mstate = "decoding" /\ n \in 1..Available
        /\ inSize' = inSize - n /\ params' = params - n /\ decoded' = TRUE
        /\ stack' = stack /\ mstate' = mstate /\ outSize' = outSize /\ enableIn' = enableIn
        /\ enableOut' = enableOut /\ mono' = mono /\ copyOut' = copyOut /\ SameDma
    BY Zenon DEF ExecuteDecoded, MayDecode
  <1>2. n <= params /\ n <= inSize
    <2>1. Available \in Nat /\ Available <= params /\ Available <= inSize
      BY Sizes, MinFacts DEF Available
    <2> QED BY <1>1, <2>1, Sizes
  <1>3. CopyOutOk' BY <1>1, SMT DEF IndM, CopyOutOk
  <1>4. inSize' \in 0..InCap /\ outSize' \in 0..OutCap /\ params' \in Nat
    BY <1>1, <1>2, Sizes, MdecFacts
  <1> QED BY <1>1, <1>3, <1>4, Sizes, Continues, DecoderStep

(* The input runs out within a macroblock.                                 *)
LEMMA MdecStarved ==
  ASSUME IndM, ExecuteStarved
  PROVE  IndM'
  <1>1. /\ TopIs("execute") /\ mstate = "decoding" /\ ~decoded
        /\ inSize' = inSize - Available /\ params' = params - Available
        /\ IF params' = 0 THEN mstate' = "idle" /\ stack' = stack ELSE mstate' = mstate /\ Finished
        /\ SameDma /\ outSize' = outSize /\ enableIn' = enableIn /\ enableOut' = enableOut
        /\ mono' = mono /\ decoded' = decoded /\ copyOut' = copyOut
    BY Zenon DEF ExecuteStarved, MayDecode
  <1>2. /\ Available \in Nat /\ Available <= params /\ Available <= inSize
        /\ Available = params \/ Available = inSize
    BY Sizes, MinFacts DEF Available
  <1>3. mstate' \in {"idle", "decoding"} BY <1>1
  <1>4. CopyOutOk' BY <1>1, <1>3, SMT DEF IndM, CopyOutOk
  <1>5. inSize' \in 0..InCap /\ outSize' \in 0..OutCap /\ params' \in Nat
    BY <1>1, <1>2, Sizes, MdecFacts
  <1>6. mstate' \in {"idle", "decoding", "writing", "table", "invalid"} BY <1>3
  <1>7. /\ RequestInOk' /\ RequestOutOk' /\ Settled'
        /\ stack' \in Seq(MdecFrames) /\ Waits(stack')
        /\ \A f \in Range(stack) :
             f.op \in {"first", "loop", "unhalt", "dpcr"} => f \in Range(stack')
    <2>1. CASE params' = 0 BY <1>1, <2>1, Continues
    <2>2. CASE params' # 0
      <3>1. mstate' = "decoding" /\ Finished BY <1>1, <2>2
      <3>2. inSize' = 0 /\ params' > 0 BY <1>1, <1>2, <1>5, <2>2, Sizes
      <3>3. Settled' BY <1>1, <3>1, <3>2, SMT DEF Settled
      <3> QED BY <1>1, <3>1, <3>3, IsFinished
    <2> QED BY <2>1, <2>2
  <1> QED BY <1>1, <1>4, <1>5, <1>6, <1>7, Sizes, DecoderStep

(* A macroblock waits for the output.                                      *)
LEMMA MdecBlocked ==
  ASSUME IndM, ExecuteBlocked
  PROVE  IndM'
  <1>1. /\ TopIs("execute") /\ mstate = "decoding" /\ outSize > 0
        /\ IF params = 0 /\ ~decoded THEN mstate' = "idle" /\ stack' = stack
           ELSE mstate' = mstate /\ Finished
        /\ SameDma /\ params' = params /\ inSize' = inSize /\ outSize' = outSize
        /\ enableIn' = enableIn /\ enableOut' = enableOut
        /\ mono' = mono /\ decoded' = decoded /\ copyOut' = copyOut
    BY Zenon DEF ExecuteBlocked
  <1>2. mstate' \in {"idle", "decoding"} BY <1>1
  <1>3. CopyOutOk' BY <1>1, <1>2, SMT DEF IndM, CopyOutOk
  <1>4. inSize' \in 0..InCap /\ outSize' \in 0..OutCap BY <1>1, Sizes, MdecFacts
  <1>5. mstate' \in {"idle", "decoding", "writing", "table", "invalid"} BY <1>2
  <1>6. /\ RequestInOk' /\ RequestOutOk' /\ Settled'
        /\ stack' \in Seq(MdecFrames) /\ Waits(stack')
        /\ \A f \in Range(stack) :
             f.op \in {"first", "loop", "unhalt", "dpcr"} => f \in Range(stack')
    <2>1. CASE params = 0 /\ ~decoded BY <1>1, <2>1, Continues
    <2>2. CASE ~(params = 0 /\ ~decoded)
      <3>1. mstate' = "decoding" /\ Finished BY <1>1, <2>2
      <3>2. Settled' BY <1>1, <3>1, SMT DEF Settled
      <3> QED BY <1>1, <3>1, <3>2, IsFinished
    <2> QED BY <2>1, <2>2
  <1> QED BY <1>1, <1>3, <1>4, <1>5, <1>6, Sizes, DecoderStep

(* The macroblock will be written by the event.                            *)
LEMMA MdecSchedule ==
  ASSUME IndM, ExecuteSchedule
  PROVE  IndM'
  <1>1. /\ TopIs("execute") /\ outSize = 0
        /\ decoded' = FALSE /\ mstate' = "writing" /\ copyOut' = TRUE /\ Finished /\ SameDma
        /\ params' = params /\ inSize' = inSize /\ outSize' = outSize
        /\ enableIn' = enableIn /\ enableOut' = enableOut /\ mono' = mono
    BY Zenon DEF ExecuteSchedule
  <1>2. CopyOutOk' BY <1>1, SMT DEF CopyOutOk
  <1>3. Settled' BY <1>1, SMT DEF Settled
  <1>4. inSize' \in 0..InCap /\ outSize' \in 0..OutCap BY <1>1, Sizes, MdecFacts
  <1>5. mstate' \in {"idle", "decoding", "writing", "table", "invalid"} BY <1>1
  <1> QED BY <1>1, <1>2, <1>3, <1>4, <1>5, Sizes, IsFinished, DecoderStep

(* Every step of mdec_execute.                                             *)
LEMMA MdecExecute ==
  ASSUME IndM, ExecuteStep
  PROVE  IndM'
  <1>1. \A w \in Words : 2 * w \in Nat BY MdecFacts
  <1>2. CASE \E w \in Words : ExecuteHeader("decode", 2 * w) BY <1>1, <1>2, MdecHeader
  <1>3. CASE \E n \in Tables : ExecuteHeader("table", n) BY <1>3, MdecFacts, MdecHeader
  <1>4. CASE \E w \in Words : ExecuteHeader("invalid", 2 * w) BY <1>1, <1>4, MdecHeader
  <1>5. CASE \E n \in 1..InCap : ExecuteDecoded(n) BY <1>5, MdecDecoded
  <1> QED BY <1>2, <1>3, <1>4, <1>5, MdecWaits, MdecTable, MdecInvalid, MdecStarved,
             MdecBlocked, MdecSchedule, Zenon DEF ExecuteStep

-----------------------------------------------------------------------------
(* The program and the events                                            *)

(* Nothing is in progress: what the invariant says between calls.          *)
LEMMA BetweenCalls ==
  ASSUME IndM, Resting
  PROVE  /\ Range(stack) = {} /\ \A ops : ~Pending(ops)
         /\ chan \in [Channel -> Control]
         /\ chan[In].request <=> (enableIn /\ Space >= Burst)
         /\ chan[Out].request <=> (enableOut /\ outSize > 0)
         /\ mstate = "idle" => inSize < 2
         /\ mstate = "decoding" => outSize > 0 \/ (inSize = 0 /\ params > 0 /\ ~decoded)
         /\ \A c \in Channel : Ready(c) => Halted
  <1>1. stack = <<>> BY DEF Resting
  <1>2. Range(stack) = {} BY <1>1, NoCall
  <1>3. \A ops : ~Pending(ops) BY <1>2, Zenon DEF Pending
  <1>4. chan[In].request <=> (enableIn /\ Space >= Burst)
    BY <1>1, Zenon DEF IndM, RequestInOk
  <1>5. chan[Out].request <=> (enableOut /\ outSize > 0)
    BY <1>3, Zenon DEF IndM, RequestOutOk
  <1>6. \A c \in Channel : Ready(c) => Halted BY <1>2, Zenon DEF IndM, Reached
  <1>7. /\ mstate = "idle" => inSize < 2
        /\ mstate = "decoding" => outSize > 0 \/ (inSize = 0 /\ params > 0 /\ ~decoded)
    BY <1>3, Zenon DEF IndM, Settled
  <1> QED BY <1>2, <1>3, <1>4, <1>5, <1>6, <1>7, Zenon DEF IndM, InRange

(* What is known of the DMA and the decoder whatever is in the FIFOs.      *)
Kept ==
  /\ chan \in [Channel -> Control] /\ TypedM /\ Halted \in BOOLEAN
  /\ \A c \in Channel : Ready(c) => Halted

(* It is known between calls.                                              *)
LEMMA KeptAtRest ==
  ASSUME IndM, Resting
  PROVE  Kept
  BY BetweenCalls, Zenon DEF Kept, IndM, InRange

(* The program or the event calls the decoder.                             *)
LEMMA Started ==
  ASSUME NEW f \in {Execute, Status}, stack' = <<f>>
  PROVE  /\ RequestInOk' /\ RequestOutOk' /\ stack' \in Seq(MdecFrames) /\ Waits(stack')
         /\ f = Execute => Settled'
  <1>1. f \in MdecFrames /\ f.op \notin {"first", "device"} BY NewFrames
  <1>2. <<f>> = Push(f, <<>>) BY <1>1 DEF Push
  <1>3. stack' = Push(f, <<>>) BY <1>2
  <1>4. Waits(<<>>) /\ <<>> \in Seq(MdecFrames) BY NoCall DEF Waits
  <1>5. Waits(stack') BY <1>1, <1>3, <1>4, WaitsPush
  <1> QED BY <1>3, <1>4, <1>5, Turn

(* A call of the decoder between calls, while the DMA is left alone.       *)
LEMMA DecoderCalled ==
  ASSUME IndM, Resting, SameDma, NEW f \in {Execute, Status}, stack' = <<f>>,
         f = Status => Settled',
         mstate' \in {"idle", "decoding", "writing", "table", "invalid"}, params' = params,
         enableIn' = enableIn, enableOut' = enableOut, mono' = mono, decoded' = decoded,
         copyOut' \in BOOLEAN, inSize' \in 0..InCap, outSize' \in 0..OutCap, CopyOutOk'
  PROVE  IndM'
  <1>1. /\ RequestInOk' /\ RequestOutOk' /\ stack' \in Seq(MdecFrames) /\ Waits(stack')
        /\ Settled'
    BY Started
  <1>2. \A e \in Range(stack) :
          e.op \in {"first", "loop", "unhalt", "dpcr"} => e \in Range(stack')
    BY BetweenCalls
  <1> QED BY <1>1, <1>2, Sizes, DecoderStep

(* A parameter word of the program.                                        *)
LEMMA MdecWriteData ==
  ASSUME IndM, WriteData, ~misused'
  PROVE  IndM'
  <1>1. /\ Resting /\ inSize' = inSize + 2 /\ stack' = <<Execute>> /\ SameDma
        /\ misused' = (Space < 2)
        /\ mstate' = mstate /\ params' = params /\ outSize' = outSize /\ enableIn' = enableIn
        /\ enableOut' = enableOut /\ mono' = mono /\ decoded' = decoded /\ copyOut' = copyOut
    BY Zenon DEF WriteData
  <1>2. CopyOutOk' BY <1>1, SMT DEF IndM, CopyOutOk
  <1>3. inSize' \in 0..InCap /\ outSize' \in 0..OutCap
    <2>1. ~(Space < 2) BY <1>1, Zenon
    <2>2. Space >= 2 BY <2>1, Sizes
    <2> QED BY <1>1, <2>2, Sizes, MdecFacts
  <1>4. Execute \in {Execute, Status} /\ (Execute = Status => FALSE) BY NewFrames
  <1> QED BY <1>1, <1>2, <1>3, <1>4, Sizes, DecoderCalled

(* A word is read by the program.                                          *)
LEMMA MdecReadData ==
  ASSUME IndM, ReadData, ~misused'
  PROVE  IndM'
  <1>1. /\ Resting /\ outSize > 0 /\ outSize' = outSize - 1 /\ SameDma
        /\ stack' = <<IF outSize' = 0 THEN Execute ELSE Status>>
        /\ mstate' = mstate /\ params' = params /\ inSize' = inSize /\ enableIn' = enableIn
        /\ enableOut' = enableOut /\ mono' = mono /\ decoded' = decoded /\ copyOut' = copyOut
    <2>1. /\ Resting /\ outSize' = outSize - 1 /\ SameDma /\ misused' = (outSize = 0)
          /\ stack' = <<IF outSize' = 0 THEN Execute ELSE Status>>
          /\ mstate' = mstate /\ params' = params /\ inSize' = inSize /\ enableIn' = enableIn
          /\ enableOut' = enableOut /\ mono' = mono /\ decoded' = decoded /\ copyOut' = copyOut
      BY Zenon DEF ReadData
    <2>2. outSize # 0 BY <2>1, Zenon
    <2>3. outSize > 0 BY <2>2, Sizes
    <2> QED BY <2>1, <2>3
  <1>2. CopyOutOk'
    <2>1. mstate # "writing" BY <1>1, Sizes, SMT DEF IndM, CopyOutOk
    <2> QED BY <1>1, <2>1, SMT DEF IndM, CopyOutOk
  <1>3. inSize' \in 0..InCap /\ outSize' \in 0..OutCap BY <1>1, Sizes, MdecFacts
  <1>4. CASE outSize' = 0
    <2>1. stack' = <<Execute>> BY <1>1, <1>4, Zenon
    <2>2. Execute \in {Execute, Status} /\ (Execute = Status => FALSE) BY NewFrames
    <2> QED BY <1>1, <1>2, <1>3, <2>1, <2>2, Sizes, DecoderCalled
  <1>5. CASE outSize' # 0
    <2>1. stack' = <<Status>> BY <1>1, <1>5, Zenon
    <2>2. Status \in {Execute, Status} OBVIOUS
    <2>3. Settled'
      <3>1. mstate = "idle" => inSize < 2 BY <1>1, BetweenCalls
      <3>2. outSize' > 0 BY <1>3, <1>5
      <3> QED BY <1>1, <3>1, <3>2, SMT DEF Settled
    <2> QED BY <1>1, <1>2, <1>3, <2>1, <2>2, <2>3, Sizes, DecoderCalled
  <1> QED BY <1>4, <1>5

(* The program writes to a full FIFO or reads an empty one.                *)
LEMMA Misused ==
  ASSUME IndM, WriteData \/ ReadData, misused'
  PROVE  stack' = <<>> /\ Kept'
  <1>1. /\ Resting /\ SameDma /\ stack' = <<>>
        /\ mstate' = mstate /\ params' = params /\ enableIn' = enableIn
        /\ enableOut' = enableOut /\ mono' = mono /\ decoded' = decoded /\ copyOut' = copyOut
    BY Zenon DEF WriteData, ReadData
  <1>2. /\ dpcr' = dpcr /\ chan' = chan /\ unhalt_event' = unhalt_event /\ nested' = nested
    BY <1>1, Zenon DEF SameDma, dmaRest
  <1>3. Kept BY <1>1, KeptAtRest
  <1>4. TypedM' BY <1>1, <1>2, <1>3, Zenon DEF Kept, TypedM
  <1> QED BY <1>1, <1>2, <1>3, <1>4, Zenon DEF Kept, Ready, Halted

(* A macroblock is copied out: the output was empty.                       *)
LEMMA MdecCopyOut ==
  ASSUME IndM, NEW n \in Picture, CopyOutBlock(n)
  PROVE  IndM'
  <1>1. /\ Resting /\ copyOut /\ copyOut' = FALSE /\ outSize' = outSize + n /\ SameDma
        /\ mstate' = IF params = 0 THEN "idle" ELSE "decoding"
        /\ stack' = <<Execute>> /\ params' = params /\ inSize' = inSize /\ enableIn' = enableIn
        /\ enableOut' = enableOut /\ mono' = mono /\ decoded' = decoded
    BY Zenon DEF CopyOutBlock
  <1>2. outSize = 0 BY <1>1, SMT DEF IndM, CopyOutOk
  <1>3. inSize' \in 0..InCap /\ outSize' \in 0..OutCap BY <1>1, <1>2, Sizes, MdecFacts
  <1>4. mstate' \in {"idle", "decoding"} BY <1>1
  <1>5. CopyOutOk' BY <1>1, <1>4, SMT DEF CopyOutOk
  <1>6. mstate' \in {"idle", "decoding", "writing", "table", "invalid"} /\ copyOut' \in BOOLEAN
    BY <1>1, <1>4
  <1>7. Execute \in {Execute, Status} /\ (Execute = Status => FALSE) BY NewFrames
  <1> QED BY <1>1, <1>3, <1>5, <1>6, <1>7, Sizes, DecoderCalled

(* The control register: a soft reset drops both requests first.           *)
LEMMA MdecWriteControl ==
  ASSUME Kept, NEW reset \in BOOLEAN, NEW in \in BOOLEAN, NEW out \in BOOLEAN,
         WriteControl(reset, in, out), reset \/ IndM
  PROVE  IndM'
  <1>1. /\ Resting /\ enableIn' = in /\ enableOut' = out /\ mono' = mono /\ nested' = nested
        /\ stack' = <<Execute>> /\ dpcr' = dpcr /\ unhalt_event' = unhalt_event
    BY Zenon DEF WriteControl, dmaRest
  <1>2. /\ reset => /\ mstate' = "idle" /\ params' = 0 /\ inSize' = 0 /\ outSize' = 0
                    /\ decoded' = FALSE /\ copyOut' = FALSE
        /\ ~reset => /\ mstate' = mstate /\ params' = params /\ inSize' = inSize
                     /\ outSize' = outSize /\ decoded' = decoded /\ copyOut' = copyOut
    BY Zenon DEF WriteControl
  <1>3. /\ RequestInOk' /\ RequestOutOk' /\ stack' \in Seq(MdecFrames) /\ Waits(stack')
        /\ Settled'
    BY <1>1, Started
  <1>4. TopOk' BY <1>3, ReturnTop
  <1>5. /\ chan' \in [Channel -> Control]
        /\ \A c \in Channel : /\ chan'[c].busy = chan[c].busy
                              /\ chan'[c].request => chan[c].request
    <2> DEFINE half == [chan EXCEPT ![In].request = FALSE]
               ch == [half EXCEPT ![Out].request = FALSE]
    <2>1. chan \in [Channel -> Control] BY DEF Kept
    <2>2. CASE reset
      <3>1. /\ half \in [Channel -> Control] /\ half[In].busy = chan[In].busy /\ ~half[In].request
            /\ \A d \in Channel : d # In => half[d] = chan[d]
        BY <2>1, MdecFacts, SetRequestBit
      <3>2. chan' = ch BY <2>2, Zenon DEF WriteControl
      <3> HIDE DEF half
      <3>3. /\ ch \in [Channel -> Control] /\ ch[Out].busy = half[Out].busy /\ ~ch[Out].request
            /\ \A d \in Channel : d # Out => ch[d] = half[d]
        BY <3>1, MdecFacts, SetRequestBit
      <3> HIDE DEF ch
      <3> QED BY <3>1, <3>2, <3>3, MdecFacts, Zenon
    <2>3. CASE ~reset
      <3>1. chan' = chan BY <2>3, Zenon DEF WriteControl
      <3> QED BY <2>1, <3>1
    <2> QED BY <2>2, <2>3
  <1>6. Reached'
    <2> SUFFICES ASSUME ~Halted', NEW c \in Channel, Ready(c)' PROVE FALSE
      BY Zenon DEF Reached, Reaches
    <2>1. ~Halted BY <1>1, Zenon DEF Halted
    <2>2. Ready(c) BY <1>1, <1>5, Zenon DEF Ready
    <2> QED BY <2>1, <2>2, Zenon DEF Kept
  <1>7. CopyOutOk'
    <2>1. CASE reset BY <1>2, <2>1, SMT DEF CopyOutOk
    <2>2. CASE ~reset
      <3>1. mstate' = mstate /\ outSize' = outSize /\ copyOut' = copyOut BY <1>2, <2>2
      <3>2. IndM BY <2>2
      <3> QED BY <3>1, <3>2, SMT DEF IndM, CopyOutOk
    <2> QED BY <2>1, <2>2
  <1>8. TypedM'
    <2>1. TypedM BY DEF Kept
    <2>2. mstate' \in {"idle", "decoding", "writing", "table", "invalid"} /\ params' \in Nat
      BY <1>2, <2>1 DEF TypedM
    <2>3. /\ enableIn' \in BOOLEAN /\ enableOut' \in BOOLEAN /\ mono' \in BOOLEAN
          /\ nested' \in BOOLEAN
      BY <1>1, <2>1, Zenon DEF TypedM
    <2>4. decoded' \in BOOLEAN /\ copyOut' \in BOOLEAN
      BY <1>2, <2>1, Zenon DEF TypedM
    <2> QED BY <2>2, <2>3, <2>4, Zenon DEF TypedM
  <1>9. FifosInBounds'
    <2>1. CASE reset BY <1>2, <2>1, MdecFacts, SMT DEF FifosInBounds
    <2>2. CASE ~reset BY <1>2, <2>2, Sizes, MdecFacts, SMT DEF FifosInBounds
    <2> QED BY <2>1, <2>2
  <1>10. Halted' \in BOOLEAN BY <1>1, Zenon DEF Kept, Halted
  <1>11. InRange' BY <1>3, <1>5, <1>8, <1>9, <1>10 DEF InRange
  <1> QED BY <1>3, <1>4, <1>6, <1>7, <1>11 DEF IndM

(* The halt ends, or DPCR is written: a sweep starts, and comes to every   *)
(* channel.                                                                *)
LEMMA SweepStarts ==
  ASSUME IndM, Resting, mdec' = mdec, chan' = chan, Halted' \in BOOLEAN,
         NEW op \in Sweeps, stack' = <<Frame(op, 0, 0)>>
  PROVE  IndM'
  <1> DEFINE f == Frame(op, 0, 0)
  <1>1. op \in {"first", "device", "unhalt", "dpcr"} /\ 0 \in Nat /\ 0 \in Int
    BY DEF Sweeps
  <1>2. f \in MdecFrames /\ f.op = op /\ f.ch = 0 BY <1>1, FrameIn
  <1>3. stack' = <<f>> OBVIOUS
  <1> HIDE DEF f
  <1>4. stack' \in Seq(MdecFrames) /\ f \in Range(stack') /\ Waits(stack')
    <2>1. <<f>> = Push(f, <<>>) BY <1>2 DEF Push
    <2>2. Waits(<<>>) /\ <<>> \in Seq(MdecFrames) BY NoCall DEF Waits
    <2>3. f.op \notin {"first", "device"} BY <1>2 DEF Sweeps
    <2>4. Waits(<<f>>) BY <1>2, <2>1, <2>2, <2>3, WaitsPush
    <2>5. <<f>> \in Seq(MdecFrames) /\ Range(<<f>>) = {f} BY <1>2, OneCall
    <2> QED BY <1>3, <2>4, <2>5
  <1>5. TopOk' BY <1>4, ReturnTop
  <1>6. stack = <<>> BY DEF Resting
  <1>7. /\ TypedM' /\ FifosInBounds' /\ CopyOutOk'
        /\ RequestInOk' /\ RequestOutOk' /\ Settled'
    <2>1. \A e \in Range(stack) :
            e.op \in {"execute", "status", "statusOut"} => e \in Range(stack')
      BY BetweenCalls
    <2> QED BY <1>6, <2>1, TransferKeeps
  <1>8. Reached'
    <2> SUFFICES ASSUME NEW c \in Channel PROVE \E e \in Range(stack') : Reaches(e, c)
      BY Zenon DEF Reached, Reaches
    <2>1. c >= 0 BY DmaFacts
    <2>2. Reaches(f, c) BY <1>2, <2>1, Zenon DEF Reaches
    <2> QED BY <1>4, <2>2
  <1>9. InRange' BY <1>4, <1>7, BetweenCalls DEF InRange
  <1> QED BY <1>5, <1>7, <1>8, <1>9 DEF IndM

(* The end of a halt.                                                      *)
LEMMA MdecUnhalt ==
  ASSUME IndM, Unhalt, mdec' = mdec
  PROVE  IndM'
  <1>1. /\ Resting /\ chan' = chan /\ unhalt_event' = NoEvent
        /\ stack' = <<Frame("unhalt", 0, 0)>>
    BY Zenon DEF Unhalt
  <1>2. Halted' \in BOOLEAN BY <1>1 DEF Halted, NoEvent
  <1>3. "unhalt" \in Sweeps BY DEF Sweeps
  <1> QED BY <1>1, <1>2, <1>3, SweepStarts

(* The channels are enabled.                                               *)
LEMMA MdecWriteDpcr ==
  ASSUME IndM, WriteDpcr(Channel), mdec' = mdec
  PROVE  IndM'
  <1>1. /\ Resting /\ chan' = chan /\ unhalt_event' = unhalt_event
        /\ stack' = <<Frame("dpcr", 0, 0)>>
    BY Zenon DEF WriteDpcr
  <1>2. Halted' \in BOOLEAN BY <1>1, Zenon DEF IndM, InRange, Halted
  <1>3. "dpcr" \in Sweeps BY DEF Sweeps
  <1> QED BY <1>1, <1>2, <1>3, SweepStarts

-----------------------------------------------------------------------------
(* Starting, resetting                                                   *)

(* A channel is started: its transfer begins, unless it waits for its      *)
(* request.  A channel that was not busy does not wait for a halt.         *)
LEMMA MdecStartChannel ==
  ASSUME IndM, NEW c \in {In, Out}, ~chan[c].busy,
         WriteChannelControl(c, TRUE, "request", 0, FALSE), mdec' = mdec
  PROVE  IndM'
  <1> DEFINE c1 == [chan EXCEPT ![c].busy = TRUE]
             ch == [c1 EXCEPT ![c].mode = "request"]
             ig == ~chan[c].busy /\ TRUE
             starts == CanTransfer(ch, c, ig)
             chopped == "request" = "manual" /\ 0 > 1
  <1>1. /\ Resting /\ chan' = ch /\ dpcr' = dpcr
        /\ stack' = IF starts THEN Call(ch, c, stack) ELSE stack
        /\ unhalt_event' = unhalt_event
    <2>1. /\ Resting /\ chan' = ch /\ dpcr' = dpcr
          /\ stack' = IF starts /\ ~chopped THEN Call(ch, c, stack) ELSE stack
          /\ IF starts /\ chopped THEN HaltTransfer(0)
             ELSE NoteStart /\ UNCHANGED <<remaining, unhalt_event>>
      BY Zenon DEF WriteChannelControl
    <2>2. ~chopped OBVIOUS
    <2> HIDE DEF chopped, starts, ch
    <2> QED BY <2>1, <2>2, Zenon
  <1>2. chan \in [Channel -> Control] /\ c \in Channel BY <1>1, BetweenCalls, MdecFacts
  <1>3. /\ c1 \in [Channel -> Control] /\ c1[c].request = chan[c].request
        /\ \A d \in Channel : d # c => c1[d] = chan[d]
    BY <1>2, SetBusy
  <1> HIDE DEF c1
  <1>4. "request" \in Modes BY DEF Modes
  <1>5. /\ ch \in [Channel -> Control] /\ ch[c].request = chan[c].request
        /\ ch[c].mode = "request" /\ \A d \in Channel : d # c => ch[d] = chan[d]
    <2>1. /\ ch \in [Channel -> Control] /\ ch[c].request = c1[c].request
          /\ ch[c].mode = "request" /\ \A d \in Channel : d # c => ch[d] = c1[d]
      BY <1>2, <1>3, <1>4, SetMode
    <2> HIDE DEF ch
    <2> QED BY <1>3, <2>1, Zenon
  <1> HIDE DEF ch
  <1>6. stack = <<>> /\ stack \in Seq(MdecFrames) /\ Waits(stack) /\ Range(stack) = {}
    <2>1. stack = <<>> BY <1>1 DEF Resting
    <2> QED BY <2>1, NoCall DEF Waits
  <1>7. Halted' = Halted BY <1>1, Zenon DEF Halted
  <1>8. \A d \in Channel : d # c => (Ready(d)' => Halted')
    <2> SUFFICES ASSUME NEW d \in Channel, d # c, Ready(d)' PROVE Halted' OBVIOUS
    <2>1. Ready(d) BY <1>1, <1>5, Zenon DEF Ready
    <2> QED BY <1>1, <1>7, <2>1, BetweenCalls
  <1>9. /\ stack' \in Seq(MdecFrames) /\ TopOk' /\ Reached'
    <2>1. CASE starts
      <3>1. PICK f \in MdecFrames : stack' = Push(f, stack) /\ f.op = "first" /\ f.ch = c
        <4>1. stack' = Call(ch, c, stack) BY <1>1, <2>1, Zenon
        <4>2. \E f \in MdecFrames : Call(ch, c, stack) = Push(f, stack) /\ f.op = "first" /\ f.ch = c
          BY <1>2, <1>5, <1>6, CallIn
        <4> QED BY <4>1, <4>2, Zenon
      <3>2. stack' \in Seq(MdecFrames) /\ f \in Range(stack')
        <4>1. Push(f, stack) \in Seq(MdecFrames) /\ f \in Range(Push(f, stack))
          BY <1>6, PushCall
        <4> QED BY <3>1, <4>1, Zenon
      <3>3. TopOk'
        <4>1. chan'[f.ch].request BY <1>1, <2>1, <3>1, Zenon DEF CanTransfer
        <4>2. f.op # "device" BY <3>1
        <4> QED BY <1>6, <3>1, <4>1, <4>2, CallTop
      <3>4. Reached'
        <4>1. Reaches(f, c) BY <3>1 DEF Reaches
        <4> QED BY <1>8, <3>2, <4>1, Zenon DEF Reached, Reaches
      <3> QED BY <3>2, <3>3, <3>4
    <2>2. CASE ~starts
      <3>1. stack' = stack BY <1>1, <2>2, Zenon
      <3>2. TopOk' BY <1>6, <3>1, ReturnTop
      <3>3. ~Ready(c)'
        <4> SUFFICES ASSUME Ready(c)' PROVE FALSE OBVIOUS
        <4>1. ig OBVIOUS
        <4>2. c \in dpcr /\ ch[c].busy /\ ch[c].request BY <1>1, Zenon DEF Ready
        <4> QED BY <2>2, <4>1, <4>2, Zenon DEF CanTransfer
      <3>4. Reached' BY <1>8, <3>3, Zenon DEF Reached, Reaches
      <3> QED BY <1>6, <3>1, <3>2, <3>4
    <2> QED BY <2>1, <2>2
  <1>10. /\ TypedM' /\ FifosInBounds' /\ CopyOutOk'
         /\ RequestInOk' /\ RequestOutOk' /\ Settled'
    <2>1. /\ chan'[In].request = chan[In].request /\ chan'[Out].request = chan[Out].request
      BY <1>1, <1>5, MdecFacts, Zenon
    <2>2. \A e \in Range(stack) :
            e.op \in {"execute", "status", "statusOut"} => e \in Range(stack')
      BY <1>6
    <2> QED BY <1>6, <2>1, <2>2, TransferKeeps
  <1>11. Halted' \in BOOLEAN BY <1>7, Zenon DEF IndM, InRange
  <1>12. InRange' BY <1>1, <1>5, <1>9, <1>10, <1>11 DEF InRange
  <1> QED BY <1>9, <1>10, <1>12 DEF IndM

(* Everything idle: as at the start and after a reset.                     *)
LEMMA IdleStream ==
  ASSUME stack = <<>>, chan = [c \in Channel |-> Idle], ~Halted, Halted \in BOOLEAN,
         mstate = "idle", params = 0, inSize = 0, outSize = 0, enableIn = FALSE,
         enableOut = FALSE, mono \in BOOLEAN, decoded = FALSE, copyOut = FALSE, nested = FALSE
  PROVE  IndM
  <1>1. \A c \in Channel : chan[c] = Idle OBVIOUS
  <1>2. Idle.busy = FALSE /\ Idle.request = FALSE BY DEF Idle
  <1>3. stack \in Seq(MdecFrames) /\ Range(stack) = {} /\ ~TopIs("first") /\ ~TopIs("device")
    BY NoCall DEF TopIs
  <1>4. TypedM BY DEF TypedM
  <1>5. FifosInBounds BY MdecFacts DEF FifosInBounds
  <1>6. InRange BY <1>3, <1>4, <1>5, IdleFacts DEF InRange
  <1>7. CopyOutOk BY DEF CopyOutOk
  <1>8. TopOk BY <1>3 DEF TopOk, BlocksFit
  <1>9. RequestInOk /\ RequestOutOk
    <2>1. ~chan[In].request /\ ~chan[Out].request BY <1>1, <1>2, MdecFacts
    <2>2. ~enableIn /\ ~enableOut OBVIOUS
    <2> QED BY <2>1, <2>2, Zenon DEF RequestInOk, RequestOutOk
  <1>10. Settled BY DEF Settled
  <1>11. Reached
    <2>1. \A c \in Channel : ~Ready(c) BY <1>1, <1>2, Zenon DEF Ready
    <2> QED BY <2>1, Zenon DEF Reached
  <1> QED BY <1>6, <1>7, <1>8, <1>9, <1>10, <1>11 DEF IndM

(* The invariant holds at the start.                                       *)
LEMMA MdecInit == InitM => IndM
  <1> SUFFICES ASSUME InitM PROVE IndM OBVIOUS
  <1>1. stack = <<>> /\ chan = [c \in Channel |-> Idle] /\ unhalt_event = NoEvent
    BY Zenon DEF InitM, Init
  <1>2. ~Halted /\ Halted \in BOOLEAN BY <1>1 DEF Halted, NoEvent
  <1>3. mono \in BOOLEAN BY MdecAssumption DEF InitM, MdecAssumption
  <1> QED BY <1>1, <1>2, <1>3, IdleStream DEF InitM

(* The machine is reset.                                                   *)
LEMMA MdecResetM ==
  ASSUME mono \in BOOLEAN, ResetM
  PROVE  IndM'
  <1>1. /\ stack' = <<>> /\ chan' = [c \in Channel |-> Idle] /\ unhalt_event' = NoEvent
    BY Zenon DEF ResetM, Reset, Resting
  <1>2. ~Halted' /\ Halted' \in BOOLEAN BY <1>1 DEF Halted, NoEvent
  <1>3. /\ mstate' = "idle" /\ params' = 0 /\ inSize' = 0 /\ outSize' = 0 /\ enableIn' = FALSE
        /\ enableOut' = FALSE /\ mono' \in BOOLEAN /\ decoded' = FALSE /\ copyOut' = FALSE
        /\ nested' = FALSE
    BY DEF ResetM
  <1>4. (/\ stack = <<>> /\ chan = [c \in Channel |-> Idle] /\ ~Halted /\ Halted \in BOOLEAN
         /\ mstate = "idle" /\ params = 0 /\ inSize = 0 /\ outSize = 0 /\ enableIn = FALSE
         /\ enableOut = FALSE /\ mono \in BOOLEAN /\ decoded = FALSE /\ copyOut = FALSE
         /\ nested = FALSE
         => IndM)'
    BY IdleStream, PTL
  <1> QED BY <1>1, <1>2, <1>3, <1>4

-----------------------------------------------------------------------------
(* The invariant                                                         *)

(* Nothing changes.                                                        *)
LEMMA MdecStutter ==
  ASSUME IndM, UNCHANGED allVars
  PROVE  IndM'
  <1>1. /\ chan' = chan /\ stack' = stack /\ dpcr' = dpcr /\ unhalt_event' = unhalt_event
        /\ mdec' = mdec
    BY Zenon DEF allVars, vars
  <1>2. /\ mstate' = mstate /\ params' = params /\ inSize' = inSize /\ outSize' = outSize
        /\ enableIn' = enableIn /\ enableOut' = enableOut /\ mono' = mono
        /\ decoded' = decoded /\ copyOut' = copyOut /\ nested' = nested
    BY <1>1, SameMdec
  <1>3. InRange' BY <1>1, <1>2, Zenon DEF IndM, InRange, TypedM, FifosInBounds, Halted
  <1>4. CopyOutOk' BY <1>2, SMT DEF IndM, CopyOutOk
  <1>5. Space' = Space BY <1>2, Zenon DEF Space
  <1>6. \A op : TopIs(op)' <=> TopIs(op) BY <1>1, Zenon DEF TopIs
  <1>7. TopOk' BY <1>1, <1>5, <1>6, Zenon DEF IndM, TopOk, BlocksFit, Waits
  <1>8. RequestInOk' BY <1>1, <1>2, <1>5, Zenon DEF IndM, RequestInOk
  <1>9. \A ops : Pending(ops)' <=> Pending(ops) BY <1>1, Zenon DEF Pending
  <1>10. RequestOutOk' BY <1>1, <1>2, <1>9, Zenon DEF IndM, RequestOutOk
  <1>11. Settled' BY <1>2, <1>9, Zenon DEF IndM, Settled
  <1>12. Reached' BY <1>1, Zenon DEF IndM, Reached, Reaches, Ready, Halted
  <1> QED BY <1>3, <1>4, <1>7, <1>8, <1>10, <1>11, <1>12 DEF IndM

(* A step by which the program misuses no FIFO.                            *)
LEMMA MdecInductive == IndM /\ [NextM]_allVars /\ ~misused' => IndM'
  <1> SUFFICES ASSUME IndM, [NextM]_allVars, ~misused' PROVE IndM' OBVIOUS
  <1>1. CASE Transfer /\ UNCHANGED mdec BY <1>1, MdecTransfer
  <1>2. CASE Decoder
    BY <1>2, MdecUpdateStatusIn, MdecUpdateStatusOut, MdecDmaWrite, MdecDmaRead, MdecExecute,
       Zenon DEF Decoder
  <1>3. CASE CopyOut BY <1>3, MdecCopyOut, Zenon DEF CopyOut
  <1>4. CASE UnhaltM BY <1>4, MdecUnhalt, Zenon DEF UnhaltM
  <1>5. CASE StartM
    BY <1>5, MdecStartChannel, MdecWriteDpcr, Zenon DEF StartM, StartChannels
  <1>6. CASE WriteData \/ ReadData BY <1>6, MdecWriteData, MdecReadData
  <1>7. CASE \E reset, in, out \in BOOLEAN : WriteControl(reset, in, out)
    <2>1. PICK reset \in BOOLEAN, in \in BOOLEAN, out \in BOOLEAN : WriteControl(reset, in, out)
      BY <1>7
    <2>2. Kept BY <2>1, KeptAtRest, Zenon DEF WriteControl
    <2> QED BY <2>1, <2>2, MdecWriteControl
  <1>8. CASE ResetM BY <1>8, Sizes, MdecResetM
  <1>9. CASE UNCHANGED allVars BY <1>9, MdecStutter
  <1> QED BY <1>1, <1>2, <1>3, <1>4, <1>5, <1>6, <1>7, <1>8, <1>9,
             Zenon DEF NextM, Calls, MdecProgram

(* After a misuse only a reset goes on.                                    *)
LEMMA OnlyReset ==
  ASSUME stack = <<>>, misused, NextM
  PROVE  ResetM \/ \E in, out \in BOOLEAN : WriteControl(TRUE, in, out)
  <1>1. \A op : ~TopIs(op) BY DEF TopIs
  <1>2. ~Transfer
    <2>1. ~AtBlock BY <1>1, Zenon DEF AtBlock
    <2>2. \A c : ~Looping(c) BY <1>1, Zenon DEF Looping
    <2> QED BY <1>1, <2>1, <2>2,
               Zenon DEF Transfer, BusError, Block, Complete, RequestDropped, SliceOver, SweepNext,
                         SweepEnd, OtcControlWritten
  <1>3. ~ExecuteStep
    BY <1>1, Zenon DEF ExecuteStep, ExecuteWaits, ExecuteHeader, ExecuteTable, ExecuteInvalid,
                       ExecuteDecoded, ExecuteStarved, ExecuteBlocked, ExecuteSchedule
  <1>4. ~Decoder
    BY <1>1, <1>3, Zenon DEF Decoder, UpdateStatusIn, UpdateStatusOut, DmaWrite, DmaRead
  <1>5. ~CopyOut /\ ~UnhaltM /\ ~StartM /\ ~WriteData /\ ~ReadData
    BY Zenon DEF CopyOut, CopyOutBlock, UnhaltM, StartM, WriteData, ReadData
  <1>6. ASSUME NEW reset \in BOOLEAN, NEW in \in BOOLEAN, NEW out \in BOOLEAN,
               WriteControl(reset, in, out)
        PROVE  reset = TRUE
    BY <1>6, SMT DEF WriteControl
  <1> QED BY <1>2, <1>4, <1>5, <1>6, Zenon DEF NextM, Calls, MdecProgram

-----------------------------------------------------------------------------
(* No frame ends within a stream                                         *)

(* A start leaves nothing undone.                                          *)
LEMMA UndoneNote ==
  ASSUME abandoned = NothingUndone, NoteStart
  PROVE  abandoned' = NothingUndone
  <1> DEFINE started == IF stack' # <<>> /\ Head(stack').op = "first" THEN {Head(stack').ch} ELSE {}
             w == {c \in abandoned.waiting \ started : chan'[c].busy /\ chan'[c].request}
  <1>1. abandoned' = [abandoned EXCEPT !.waiting = w] BY Zenon DEF NoteStart
  <1>2. abandoned.waiting = {} BY DEF NothingUndone
  <1>3. w = {} BY <1>2
  <1> HIDE DEF w
  <1> QED BY <1>1, <1>3 DEF NothingUndone

(* Nor does a halt.                                                        *)
LEMMA UndoneHalt ==
  ASSUME abandoned = NothingUndone, abandoned' = [abandoned EXCEPT !.halt = FALSE]
  PROVE  abandoned' = NothingUndone
  BY DEF NothingUndone

(* Nor the end of a transfer.                                              *)
LEMMA UndoneComplete ==
  ASSUME abandoned = NothingUndone, Complete
  PROVE  abandoned' = NothingUndone
  <1>1. PICK c \in Channel :
          abandoned' = abandoned \/ abandoned' = [abandoned EXCEPT !.repeating = @ \ {c}]
    BY Zenon DEF Complete
  <1> QED BY <1>1 DEF NothingUndone

(* The steps of a stream leave nothing undone.                             *)
LEMMA UndoneStep == abandoned = NothingUndone /\ [NextM]_allVars => abandoned' = NothingUndone
  <1> SUFFICES ASSUME abandoned = NothingUndone, [NextM]_allVars PROVE abandoned' = NothingUndone
    OBVIOUS
  <1>1. CASE Transfer
    <2>1. CASE BusError BY <2>1, Zenon DEF BusError
    <2>2. CASE \E last \in BOOLEAN, slice \in Slices : Block(last, slice) BY <2>2, Zenon DEF Block
    <2>3. CASE Complete BY <2>3, UndoneComplete
    <2>4. CASE RequestDropped BY <2>4, Zenon DEF RequestDropped
    <2>5. CASE SliceOver BY <2>5, UndoneHalt, Zenon DEF SliceOver, HaltTransfer
    <2>6. CASE SweepNext BY <2>6, UndoneNote, Zenon DEF SweepNext
    <2>7. CASE SweepEnd BY <2>7, Zenon DEF SweepEnd
    <2>8. CASE OtcControlWritten BY <2>8, UndoneNote, Zenon DEF OtcControlWritten
    <2> QED BY <1>1, <2>1, <2>2, <2>3, <2>4, <2>5, <2>6, <2>7, <2>8, Zenon DEF Transfer
  <1>2. CASE Decoder
    <2>1. CASE UpdateStatusIn \/ UpdateStatusOut
      BY <2>1, UndoneNote, Zenon DEF UpdateStatusIn, UpdateStatusOut, SetRequest
    <2>2. CASE DmaWrite \/ DmaRead BY <2>2, Zenon DEF DmaWrite, DmaRead, SameDma
    <2>3. CASE ExecuteStep
      BY <2>3, Zenon DEF SameDma, ExecuteStep, ExecuteWaits, ExecuteHeader, ExecuteTable,
                         ExecuteInvalid, ExecuteDecoded, ExecuteStarved, ExecuteBlocked,
                         ExecuteSchedule
    <2> QED BY <1>2, <2>1, <2>2, <2>3, Zenon DEF Decoder
  <1>3. CASE CopyOut BY <1>3, Zenon DEF CopyOut, CopyOutBlock, SameDma
  <1>4. CASE UnhaltM BY <1>4, Zenon DEF UnhaltM, Unhalt
  <1>5. CASE StartM
    <2>1. CASE WriteDpcr(Channel) BY <2>1, Zenon DEF WriteDpcr
    <2>2. ASSUME NEW c, WriteChannelControl(c, TRUE, "request", 0, FALSE)
          PROVE  abandoned' = NothingUndone
      <3>1. NoteStart \/ abandoned' = [abandoned EXCEPT !.halt = FALSE]
        BY <2>2, Zenon DEF WriteChannelControl, HaltTransfer
      <3> QED BY <3>1, UndoneNote, UndoneHalt
    <2> QED BY <1>5, <2>1, <2>2, Zenon DEF StartM, StartChannels
  <1>6. CASE MdecProgram BY <1>6, Zenon DEF MdecProgram, WriteData, ReadData, WriteControl, SameDma
  <1>7. CASE ResetM BY <1>7, Zenon DEF ResetM, Reset
  <1>8. CASE UNCHANGED allVars BY <1>8, Zenon DEF allVars, vars
  <1> QED BY <1>1, <1>2, <1>3, <1>4, <1>5, <1>6, <1>7, <1>8, Zenon DEF NextM, Calls

-----------------------------------------------------------------------------
(* The invariant of a stream, misused or not                             *)

StreamOk ==
  /\ misused \in BOOLEAN /\ abandoned = NothingUndone
  /\ misused => stack = <<>> /\ Kept
  /\ ~misused => IndM

(* The ghost of misuse is a truth value.                                   *)
LEMMA MisusedOk == misused \in BOOLEAN /\ [NextM]_allVars => misused' \in BOOLEAN
  <1> SUFFICES ASSUME misused \in BOOLEAN, [NextM]_allVars PROVE misused' \in BOOLEAN OBVIOUS
  <1>1. CASE UNCHANGED misused BY <1>1
  <1>2. CASE WriteData \/ ReadData
    <2>1. CASE WriteData
      <3>1. misused' = (Space < 2) BY <2>1, Zenon DEF WriteData
      <3> QED BY <3>1, SMT
    <2>2. CASE ReadData BY <2>2, Zenon DEF ReadData
    <2> QED BY <1>2, <2>1, <2>2
  <1>3. CASE ResetM \/ \E reset, in, out \in BOOLEAN : WriteControl(reset, in, out)
    BY <1>3, Zenon DEF ResetM, WriteControl
  <1> QED BY <1>1, <1>2, <1>3, Zenon DEF NextM, Calls, Decoder, CopyOut, UnhaltM, StartM, MdecProgram,
                                         allVars, mdec

(* It holds at the start.                                                  *)
LEMMA StreamInit == InitM => StreamOk
  BY MdecInit, Zenon DEF StreamOk, InitM, Init

(* Every step of a stream keeps it.                                        *)
LEMMA StreamInductive == StreamOk /\ [NextM]_allVars => StreamOk'
  <1> SUFFICES ASSUME StreamOk, [NextM]_allVars PROVE StreamOk' OBVIOUS
  <1>1. misused' \in BOOLEAN /\ abandoned' = NothingUndone
    BY MisusedOk, UndoneStep, Zenon DEF StreamOk
  <1>2. CASE ~misused
    <2>1. IndM BY <1>2, Zenon DEF StreamOk
    <2>2. ~misused' => IndM' BY <2>1, MdecInductive
    <2>3. ASSUME misused' PROVE stack' = <<>> /\ Kept'
      <3>1. ~UNCHANGED misused BY <1>2, <2>3
      <3>2. ~ResetM /\ \A reset, in, out \in BOOLEAN : ~WriteControl(reset, in, out)
        BY <2>3, Zenon DEF ResetM, WriteControl
      <3>3. WriteData \/ ReadData
        BY <3>1, <3>2, Zenon DEF NextM, Calls, Decoder, CopyOut, UnhaltM, StartM, MdecProgram,
                                 allVars, mdec
      <3> QED BY <2>1, <2>3, <3>3, Misused
    <2> QED BY <1>1, <2>2, <2>3, Zenon DEF StreamOk
  <1>3. CASE misused
    <2>1. stack = <<>> /\ Kept BY <1>3, Zenon DEF StreamOk
    <2>2. CASE UNCHANGED allVars
      <3>1. /\ stack' = stack /\ chan' = chan /\ dpcr' = dpcr /\ unhalt_event' = unhalt_event
            /\ mdec' = mdec /\ misused' = misused
        BY <2>2, Zenon DEF allVars, vars, mdec
      <3>2. TypedM' BY <2>1, <3>1, SameMdec, Zenon DEF Kept, TypedM
      <3>3. Kept' BY <2>1, <3>1, <3>2, Zenon DEF Kept, Ready, Halted
      <3> QED BY <1>1, <1>3, <2>1, <3>1, <3>3, Zenon DEF StreamOk
    <2>3. CASE NextM
      <3>1. CASE ResetM
        <4>1. mono \in BOOLEAN BY <2>1, Zenon DEF Kept, TypedM
        <4>2. IndM' /\ ~misused' BY <3>1, <4>1, MdecResetM, Zenon DEF ResetM
        <4> QED BY <1>1, <4>2, Zenon DEF StreamOk
      <3>2. ASSUME NEW in \in BOOLEAN, NEW out \in BOOLEAN, WriteControl(TRUE, in, out)
            PROVE  StreamOk'
        <4>1. IndM' BY <2>1, <3>2, MdecWriteControl
        <4>2. ~misused' BY <3>2, Zenon DEF WriteControl
        <4> QED BY <1>1, <4>1, <4>2, Zenon DEF StreamOk
      <3> QED BY <1>3, <2>1, <2>3, <3>1, <3>2, OnlyReset
    <2> QED BY <2>2, <2>3
  <1>4. misused \in BOOLEAN BY DEF StreamOk
  <1> QED BY <1>2, <1>3, <1>4

(* The invariant of every behaviour of a stream.                           *)
LEMMA MdecInvariant == SpecM => []StreamOk
  BY StreamInit, StreamInductive, PTL DEF SpecM

(* What the invariant says while nothing is in progress.                   *)
LEMMA Agrees == StreamOk => DecoderAndChannelsAgree
  <1> SUFFICES ASSUME StreamOk PROVE DecoderAndChannelsAgree OBVIOUS
  <1>1. TypeOKM
    <2>1. TypedM BY Zenon DEF StreamOk, Kept, IndM, InRange
    <2>2. misused \in BOOLEAN BY DEF StreamOk
    <2>3. {enableIn, enableOut, mono, decoded, copyOut, nested, misused} \subseteq BOOLEAN
      BY <2>1, <2>2 DEF TypedM
    <2> QED BY <2>1, <2>3, Zenon DEF TypedM, TypeOKM
  <1>2. ASSUME ~misused
        PROVE  /\ FifosInBounds /\ BlocksFit /\ RequestsFollowFifos
               /\ CopyOutPending /\ DecoderIsIdle /\ NoLostTransfer
    <2>1. IndM BY <1>2, Zenon DEF StreamOk
    <2>2. FifosInBounds /\ BlocksFit BY <2>1 DEF IndM, InRange, TopOk
    <2>3. RequestsFollowFifos BY <2>1, BetweenCalls, Zenon DEF RequestsFollowFifos
    <2>4. CopyOutPending BY <2>1, SMT DEF IndM, CopyOutOk, CopyOutPending
    <2>5. DecoderIsIdle BY <2>1, BetweenCalls, Zenon DEF DecoderIsIdle
    <2>6. NoLostTransfer BY <2>1, BetweenCalls, Zenon DEF NoLostTransfer
    <2> QED BY <2>2, <2>3, <2>4, <2>5, <2>6
  <1> QED BY <1>1, <1>2, Zenon DEF DecoderAndChannelsAgree

(* However deep transfers of MDECin and MDECout nest in each other, and    *)
(* whatever the capacities, the sizes of blocks, tables and macroblocks    *)
(* and the commands are, as long as the program itself writes to no full   *)
(* FIFO and reads no empty one while a macroblock waits to be copied out,  *)
(* which nothing guards: the FIFOs stay in their bounds, a block of MDECin *)
(* for which it is requested fits, between calls the requests say what the *)
(* FIFOs hold and the decoder has nothing left to do, the copy out event   *)
(* is active exactly while a macroblock waits for it, and no channel is    *)
(* left behind (mdec_update_status, mdec_execute, dma_set_request).  A     *)
(* reset after a misuse brings all of this back.                           *)
THEOREM StreamsAgree == SpecM => []DecoderAndChannelsAgree
  BY MdecInvariant, Agrees, PTL

-----------------------------------------------------------------------------
(* What the calls of a stream know                                       *)

(* A transfer in progress, and the sweep of an unhalt event.               *)
Moves(f) == f.op \in {"first", "loop"}
Unhalting(s) == s # <<>> /\ s[Len(s)].op = "unhalt"

(* Sweeps start from nothing, a channel has one transfer at a time, and in *)
(* the sweep of an unhalt event there is one, started by the sweep.        *)
Ordered(s) ==
  /\ \A i \in 1..Len(s) : s[i].op \in Sweeps => i = Len(s)
  /\ \A i, j \in 1..Len(s) : Moves(s[i]) /\ Moves(s[j]) /\ s[i].ch = s[j].ch => i = j
  /\ Unhalting(s) => \A i \in 1..Len(s) : Moves(s[i]) => i = Len(s) - 1

(* A transfer knows what is left to move.                                  *)
Knows(f, ch, ow) ==
  /\ f.ch \in Channel /\ ch[f.ch].mode = "request"
  /\ f.left = ow[f.ch] /\ f.left \in 0..Full
  /\ f.op = "first" => f.left >= 1

(* The transfers in s know what is left, the registers what is left of the *)
(* channels but c that are not in s.                                       *)
CountedBut(c, s, ch, ow) ==
  /\ \A f \in Range(s) : Moves(f) => Knows(f, ch, ow) /\ f.ch # c
  /\ \A d \in Channel : d # c /\ (\A f \in Range(s) : Moves(f) => f.ch # d)
                          => Count(ch[d].blocks) = ow[d]

(* The same for all channels.                                              *)
Counted(s, ch, ow) ==
  /\ \A f \in Range(s) : Moves(f) => Knows(f, ch, ow)
  /\ \A d \in Channel : (\A f \in Range(s) : Moves(f) => f.ch # d)
                          => Count(ch[d].blocks) = ow[d]

(* The halts match the event.  In the sweep of an unhalt event there are   *)
(* the ticks of other halts, and no event until the sweep has ended.       *)
HaltsMatch(s, rem, ev) ==
  /\ rem \in Nat /\ ev \in [active : BOOLEAN, ticks : Int]
  /\ ~ev.active => ev.ticks = 0
  /\ Unhalting(s) => ~ev.active
  /\ ~Unhalting(s) => /\ rem > 0 <=> ev.active
                      /\ ev.ticks <= rem

(* Calls, counts and halts agree.                                          *)
Fine(s, ch, ow, rem, ev) == Ordered(s) /\ Counted(s, ch, ow) /\ HaltsMatch(s, rem, ev)

ByRequestOnly(ch) == \A c \in Channel : ch[c].busy => ch[c].mode = "request"

(* What holds as long as nothing has nested.                               *)
NotNested ==
  /\ Fine(stack, chan, owed, remaining, unhalt_event)
  /\ owed \in [Channel -> Int] /\ ByRequestOnly(chan)

IndE == ~nested => NotNested

-----------------------------------------------------------------------------
(* Where a call is                                                       *)

(* The places of a call and of those under it.                             *)
LEMMA PushIndex ==
  ASSUME NEW f \in MdecFrames, NEW s \in Seq(MdecFrames)
  PROVE  /\ Len(s) \in Nat /\ Len(Push(f, s)) = Len(s) + 1 /\ Push(f, s)[1] = f
         /\ \A i \in 2..Len(s) + 1 : Push(f, s)[i] = s[i - 1] /\ i - 1 \in 1..Len(s)
         /\ s = <<>> <=> Len(s) = 0
  <1>1. Push(f, s) = <<f>> \o s BY DEF Push
  <1>2. Len(s) \in Nat /\ Len(<<f>>) = 1 /\ <<f>>[1] = f /\ (s = <<>> <=> Len(s) = 0) OBVIOUS
  <1>3. Len(<<f>> \o s) = Len(s) + 1 BY <1>2
  <1>4. (<<f>> \o s)[1] = f BY <1>2
  <1>5. ASSUME NEW i \in 2..Len(s) + 1 PROVE (<<f>> \o s)[i] = s[i - 1] /\ i - 1 \in 1..Len(s)
    BY <1>2
  <1> QED BY <1>1, <1>2, <1>3, <1>4, <1>5

(* What is under a call.                                                   *)
LEMMA PopIndex ==
  ASSUME NEW s \in Seq(MdecFrames), s # <<>>
  PROVE  /\ Len(s) \in Nat /\ Len(s) >= 1 /\ s[1] = Head(s) /\ Len(Tail(s)) = Len(s) - 1
         /\ \A i \in 1..Len(s) - 1 : Tail(s)[i] = s[i + 1]
         /\ Tail(s) = <<>> <=> Len(s) = 1
  <1>1. Len(s) \in Nat /\ Len(s) # 0 OBVIOUS
  <1>2. s[1] = Head(s) /\ Len(Tail(s)) = Len(s) - 1 BY <1>1
  <1>3. \A i \in 1..Len(s) - 1 : Tail(s)[i] = s[i + 1] BY <1>1
  <1>4. Tail(s) \in Seq(MdecFrames) OBVIOUS
  <1>5. Tail(s) = <<>> <=> Len(s) = 1 BY <1>1, <1>2, <1>4
  <1> QED BY <1>1, <1>2, <1>3, <1>5

(* Whether the calls are in the sweep of an unhalt event.                  *)
LEMMA UnhaltingPush ==
  ASSUME NEW f \in MdecFrames, NEW s \in Seq(MdecFrames)
  PROVE  Unhalting(Push(f, s)) <=> IF s = <<>> THEN f.op = "unhalt" ELSE Unhalting(s)
  <1>1. Push(f, s) # <<>> BY PushCall
  <1>2. CASE s = <<>>
    <2>1. Len(Push(f, s)) = 1 /\ Push(f, s)[1] = f
      <3>1. Len(s) = 0 BY <1>2, PushIndex
      <3>2. Len(Push(f, s)) = Len(s) + 1 /\ Push(f, s)[1] = f BY PushIndex
      <3> QED BY <3>1, <3>2
    <2> QED BY <1>1, <1>2, <2>1, Zenon DEF Unhalting
  <1>3. CASE s # <<>>
    <2>1. Len(s) \in Nat /\ Len(s) # 0 /\ Len(s) + 1 \in 2..Len(s) + 1 BY <1>3, PushIndex
    <2>2. Push(f, s)[Len(Push(f, s))] = s[Len(s)] BY <2>1, PushIndex
    <2> QED BY <1>1, <1>3, <2>2 DEF Unhalting
  <1> QED BY <1>2, <1>3

(* The same for what is under a call.                                      *)
LEMMA UnhaltingPop ==
  ASSUME NEW s \in Seq(MdecFrames), s # <<>>
  PROVE  Unhalting(Tail(s)) <=> Unhalting(s) /\ Tail(s) # <<>>
  <1>1. CASE Tail(s) = <<>> BY <1>1 DEF Unhalting
  <1>2. CASE Tail(s) # <<>>
    <2>1. Len(s) \in Nat /\ Len(s) >= 2 BY <1>2, PopIndex
    <2>2. Tail(s)[Len(Tail(s))] = s[Len(s)] BY <2>1, PopIndex
    <2> QED BY <1>2, <2>2 DEF Unhalting
  <1> QED BY <1>1, <1>2

(* A call returns.                                                         *)
LEMMA OrderedPop ==
  ASSUME NEW s \in Seq(MdecFrames), s # <<>>, Ordered(s)
  PROVE  Ordered(Tail(s))
  <1> DEFINE t == Tail(s)
  <1>1. /\ Len(s) \in Nat /\ Len(s) >= 1 /\ Len(t) = Len(s) - 1
        /\ \A i \in 1..Len(s) - 1 : t[i] = s[i + 1]
    BY PopIndex
  <1>2. Unhalting(t) => Unhalting(s) BY UnhaltingPop
  <1> HIDE DEF t
  <1>3. \A i \in 1..Len(t) : t[i] = s[i + 1] /\ i + 1 \in 1..Len(s) BY <1>1
  <1>4. ASSUME NEW i \in 1..Len(t), t[i].op \in Sweeps PROVE i = Len(t)
    <2>1. s[i + 1].op \in Sweeps /\ i + 1 \in 1..Len(s) BY <1>3, <1>4
    <2>2. i + 1 = Len(s) BY <2>1, Zenon DEF Ordered
    <2> QED BY <1>1, <2>2
  <1>5. ASSUME NEW i \in 1..Len(t), NEW j \in 1..Len(t), Moves(t[i]), Moves(t[j]), t[i].ch = t[j].ch
        PROVE  i = j
    <2>1. /\ Moves(s[i + 1]) /\ Moves(s[j + 1]) /\ s[i + 1].ch = s[j + 1].ch
          /\ i + 1 \in 1..Len(s) /\ j + 1 \in 1..Len(s)
      BY <1>3, <1>5
    <2>2. i + 1 = j + 1 BY <2>1, Zenon DEF Ordered
    <2> QED BY <1>1, <2>2
  <1>6. ASSUME Unhalting(t), NEW i \in 1..Len(t), Moves(t[i]) PROVE i = Len(t) - 1
    <2>1. Moves(s[i + 1]) /\ i + 1 \in 1..Len(s) BY <1>3, <1>6
    <2>2. i + 1 = Len(s) - 1 BY <1>2, <1>6, <2>1, Zenon DEF Ordered
    <2> QED BY <1>1, <2>2
  <1>7. Ordered(t) BY <1>4, <1>5, <1>6, Zenon DEF Ordered
  <1> QED BY <1>7 DEF t

(* A call.  A sweep starts from nothing, a transfer of a channel that has  *)
(* none, and in the sweep of an unhalt event by the sweep.                 *)
LEMMA OrderedPush ==
  ASSUME NEW f \in MdecFrames, NEW s \in Seq(MdecFrames), Ordered(s),
         f.op \in Sweeps => s = <<>>,
         Moves(f) => /\ \A g \in Range(s) : Moves(g) => g.ch # f.ch
                     /\ Unhalting(s) => Len(s) = 1
  PROVE  Ordered(Push(f, s))
  <1> DEFINE p == Push(f, s)
  <1>1. /\ Len(s) \in Nat /\ Len(p) = Len(s) + 1 /\ p[1] = f
        /\ \A i \in 2..Len(s) + 1 : p[i] = s[i - 1] /\ i - 1 \in 1..Len(s)
        /\ s = <<>> <=> Len(s) = 0
    BY PushIndex
  <1>2. Unhalting(p) <=> IF s = <<>> THEN f.op = "unhalt" ELSE Unhalting(s) BY UnhaltingPush
  <1> HIDE DEF p
  <1>3. \A i \in 1..Len(p) : i = 1 \/ (i \in 2..Len(s) + 1) BY <1>1
  <1>4. ASSUME NEW i \in 1..Len(p), p[i].op \in Sweeps PROVE i = Len(p)
    <2>1. CASE i = 1 BY <1>1, <1>4, <2>1
    <2>2. CASE i \in 2..Len(s) + 1
      <3>1. s[i - 1].op \in Sweeps /\ i - 1 \in 1..Len(s) BY <1>1, <1>4, <2>2
      <3>2. i - 1 = Len(s) BY <3>1, Zenon DEF Ordered
      <3> QED BY <1>1, <3>2
    <2> QED BY <1>3, <2>1, <2>2
  <1>5. ASSUME Moves(f), NEW i \in 2..Len(s) + 1, Moves(p[i]) PROVE p[i].ch # f.ch
    <2>1. s[i - 1] \in Range(s) BY <1>1 DEF Range
    <2> QED BY <1>1, <1>5, <2>1
  <1>6. ASSUME NEW i \in 1..Len(p), NEW j \in 1..Len(p), Moves(p[i]), Moves(p[j]), p[i].ch = p[j].ch
        PROVE  i = j
    <2>1. CASE i \in 2..Len(s) + 1 /\ j \in 2..Len(s) + 1
      <3>1. /\ Moves(s[i - 1]) /\ Moves(s[j - 1]) /\ s[i - 1].ch = s[j - 1].ch
            /\ i - 1 \in 1..Len(s) /\ j - 1 \in 1..Len(s)
        BY <1>1, <1>6, <2>1
      <3>2. i - 1 = j - 1 BY <3>1, Zenon DEF Ordered
      <3> QED BY <3>2
    <2>2. CASE i = 1 /\ j \in 2..Len(s) + 1 BY <1>1, <1>5, <1>6, <2>2
    <2>3. CASE j = 1 /\ i \in 2..Len(s) + 1 BY <1>1, <1>5, <1>6, <2>3
    <2> QED BY <1>3, <2>1, <2>2, <2>3
  <1>7. ASSUME Unhalting(p), NEW i \in 1..Len(p), Moves(p[i]) PROVE i = Len(p) - 1
    <2>1. CASE i \in 2..Len(s) + 1
      <3>1. Moves(s[i - 1]) /\ i - 1 \in 1..Len(s) BY <1>1, <1>7, <2>1
      <3>2. s # <<>> BY <1>1, <3>1
      <3>3. Unhalting(s) BY <1>2, <1>7, <3>2
      <3>4. i - 1 = Len(s) - 1 BY <3>1, <3>3, Zenon DEF Ordered
      <3> QED BY <1>1, <3>4
    <2>2. CASE i = 1
      <3>1. Moves(f) BY <1>1, <1>7, <2>2
      <3>2. f.op # "unhalt" BY <3>1 DEF Moves
      <3>3. s # <<>> /\ Unhalting(s) BY <1>2, <1>7, <3>2
      <3>4. Len(s) = 1 BY <3>1, <3>3
      <3> QED BY <1>1, <2>2, <3>4
    <2> QED BY <1>3, <2>1, <2>2
  <1>8. Ordered(p) BY <1>4, <1>6, <1>7, Zenon DEF Ordered
  <1> QED BY <1>8 DEF p

(* The channel of the innermost transfer has no other; and in the sweep of *)
(* an unhalt event that transfer is on the sweep.                          *)
LEMMA HeadAlone ==
  ASSUME NEW s \in Seq(MdecFrames), s # <<>>, Ordered(s), Moves(Head(s))
  PROVE  /\ \A g \in Range(Tail(s)) : Moves(g) => g.ch # Head(s).ch
         /\ Unhalting(s) => Len(s) = 2
  <1>1. /\ Len(s) \in Nat /\ Len(s) >= 1 /\ s[1] = Head(s) /\ Len(Tail(s)) = Len(s) - 1
        /\ \A i \in 1..Len(s) - 1 : Tail(s)[i] = s[i + 1]
    BY PopIndex
  <1>2. ASSUME NEW g \in Range(Tail(s)), Moves(g) PROVE g.ch # Head(s).ch
    <2>1. PICK i \in 1..Len(Tail(s)) : g = Tail(s)[i]
      <3>1. Tail(s) \in Seq(MdecFrames) OBVIOUS
      <3> QED BY <3>1 DEF Range
    <2>2. g = s[i + 1] /\ i + 1 \in 1..Len(s) /\ i + 1 # 1 /\ 1 \in 1..Len(s) BY <1>1, <2>1
    <2> QED BY <1>1, <1>2, <2>2, Zenon DEF Ordered
  <1>3. ASSUME Unhalting(s) PROVE Len(s) = 2
    <2>1. 1 \in 1..Len(s) /\ Moves(s[1]) BY <1>1
    <2>2. 1 = Len(s) - 1 BY <1>3, <2>1, Zenon DEF Ordered
    <2>3. Len(s) \in Nat BY <1>1
    <2> QED BY <2>2, <2>3
  <1> QED BY <1>2, <1>3

(* A sweep that has the turn is all there is.                              *)
LEMMA SweepAlone ==
  ASSUME NEW s \in Seq(MdecFrames), s # <<>>, Ordered(s), Head(s).op \in Sweeps
  PROVE  /\ Len(s) = 1 /\ Tail(s) = <<>> /\ Range(s) = {Head(s)}
         /\ Unhalting(s) <=> Head(s).op = "unhalt"
  <1>1. Len(s) \in Nat /\ Len(s) >= 1 /\ s[1] = Head(s) /\ 1 \in 1..Len(s)
        /\ (Tail(s) = <<>> <=> Len(s) = 1)
    BY PopIndex
  <1>2. Len(s) = 1 BY <1>1, Zenon DEF Ordered
  <1>3. Range(s) = {Head(s)} BY <1>1, <1>2, TopCall, NoCall
  <1> QED BY <1>1, <1>2, <1>3 DEF Unhalting

-----------------------------------------------------------------------------
(* The blocks that are left                                              *)

(* The counts do not change when a call returns that moved nothing.        *)
LEMMA CountedPop ==
  ASSUME NEW ch, NEW ow, NEW s \in Seq(MdecFrames), s # <<>>, ~Moves(Head(s)), Counted(s, ch, ow)
  PROVE  Counted(Tail(s), ch, ow)
  <1>1. Range(s) = {Head(s)} \cup Range(Tail(s)) BY TopCall
  <1>2. \A f \in Range(Tail(s)) : Moves(f) => Knows(f, ch, ow) BY <1>1, Zenon DEF Counted
  <1>3. ASSUME NEW d \in Channel, \A f \in Range(Tail(s)) : Moves(f) => f.ch # d
        PROVE  Count(ch[d].blocks) = ow[d]
    <2>1. \A f \in Range(s) : Moves(f) => f.ch # d BY <1>1, <1>3
    <2> QED BY <2>1, Zenon DEF Counted
  <1> QED BY <1>2, <1>3, Zenon DEF Counted

(* The counts do not change with a call that moves nothing.                *)
LEMMA CountedPush ==
  ASSUME NEW ch, NEW ow, NEW f \in MdecFrames, NEW s \in Seq(MdecFrames), ~Moves(f),
         Counted(s, ch, ow)
  PROVE  Counted(Push(f, s), ch, ow)
  <1>1. Range(Push(f, s)) = {f} \cup Range(s) BY PushCall
  <1>2. ASSUME NEW g \in Range(Push(f, s)), Moves(g) PROVE Knows(g, ch, ow)
    <2>1. g \in Range(s) BY <1>1, <1>2
    <2> QED BY <1>2, <2>1, Zenon DEF Counted
  <1>3. ASSUME NEW d \in Channel, \A g \in Range(Push(f, s)) : Moves(g) => g.ch # d
        PROVE  Count(ch[d].blocks) = ow[d]
    <2>1. \A g \in Range(s) : Moves(g) => g.ch # d BY <1>1, <1>3
    <2> QED BY <2>1, Zenon DEF Counted
  <1> QED BY <1>2, <1>3, Zenon DEF Counted

(* A transfer lays aside what it knows.                                    *)
LEMMA LayAside ==
  ASSUME NEW ch, NEW ow, NEW s \in Seq(MdecFrames), s # <<>>, Moves(Head(s)), Ordered(s),
         Counted(s, ch, ow)
  PROVE  CountedBut(Head(s).ch, Tail(s), ch, ow) /\ Knows(Head(s), ch, ow)
  <1>1. Range(s) = {Head(s)} \cup Range(Tail(s)) BY TopCall
  <1>2. \A f \in Range(Tail(s)) : Moves(f) => f.ch # Head(s).ch BY HeadAlone
  <1>3. Knows(Head(s), ch, ow) BY <1>1, Zenon DEF Counted
  <1>4. \A f \in Range(Tail(s)) : Moves(f) => Knows(f, ch, ow) BY <1>1, Zenon DEF Counted
  <1>5. ASSUME NEW d \in Channel, d # Head(s).ch, \A f \in Range(Tail(s)) : Moves(f) => f.ch # d
        PROVE  Count(ch[d].blocks) = ow[d]
    <2>1. \A f \in Range(s) : Moves(f) => f.ch # d BY <1>1, <1>5
    <2> QED BY <2>1, Zenon DEF Counted
  <1> QED BY <1>2, <1>3, <1>4, <1>5, Zenon DEF CountedBut

(* A channel without a transfer.                                           *)
LEMMA NoTransfer ==
  ASSUME NEW ch, NEW ow, NEW c \in Channel, NEW s, Counted(s, ch, ow),
         \A f \in Range(s) : Moves(f) => f.ch # c
  PROVE  CountedBut(c, s, ch, ow) /\ Count(ch[c].blocks) = ow[c]
  BY Zenon DEF Counted, CountedBut

(* Only c changes.                                                         *)
LEMMA OthersSame ==
  ASSUME NEW ch, NEW ow, NEW ch2, NEW ow2, NEW c, NEW s, CountedBut(c, s, ch, ow),
         \A d \in Channel : d # c => ch2[d] = ch[d] /\ ow2[d] = ow[d]
  PROVE  CountedBut(c, s, ch2, ow2)
  <1>1. ASSUME NEW f \in Range(s), Moves(f) PROVE Knows(f, ch2, ow2) /\ f.ch # c
    <2>1. Knows(f, ch, ow) /\ f.ch # c BY <1>1, Zenon DEF CountedBut
    <2>2. f.ch \in Channel BY <2>1 DEF Knows
    <2>3. ch2[f.ch] = ch[f.ch] /\ ow2[f.ch] = ow[f.ch] BY <2>1, <2>2
    <2> QED BY <2>1, <2>3, Zenon DEF Knows
  <1>2. ASSUME NEW d \in Channel, d # c, \A f \in Range(s) : Moves(f) => f.ch # d
        PROVE  Count(ch2[d].blocks) = ow2[d]
    <2>1. Count(ch[d].blocks) = ow[d] BY <1>2, Zenon DEF CountedBut
    <2> QED BY <1>2, <2>1, Zenon
  <1> QED BY <1>1, <1>2, Zenon DEF CountedBut

(* The transfer of c is over, and the register says what is left.          *)
LEMMA PutBack ==
  ASSUME NEW ch, NEW ow, NEW c \in Channel, NEW s, CountedBut(c, s, ch, ow),
         Count(ch[c].blocks) = ow[c]
  PROVE  Counted(s, ch, ow)
  <1>1. \A d \in Channel : (\A f \in Range(s) : Moves(f) => f.ch # d)
                             => Count(ch[d].blocks) = ow[d]
    BY Zenon DEF CountedBut
  <1> QED BY <1>1, Zenon DEF Counted, CountedBut

(* The transfer of c goes on, and knows what is left.                      *)
LEMMA GoOn ==
  ASSUME NEW ch, NEW ow, NEW c \in Channel, NEW s \in Seq(MdecFrames), CountedBut(c, s, ch, ow),
         NEW f \in MdecFrames, Moves(f), f.ch = c, Knows(f, ch, ow)
  PROVE  Counted(Push(f, s), ch, ow)
  <1>1. Range(Push(f, s)) = {f} \cup Range(s) BY PushCall
  <1>2. ASSUME NEW g \in Range(Push(f, s)), Moves(g) PROVE Knows(g, ch, ow)
    <2>1. CASE g = f BY <2>1
    <2>2. CASE g \in Range(s) BY <1>2, <2>2, Zenon DEF CountedBut
    <2> QED BY <1>1, <2>1, <2>2
  <1>3. ASSUME NEW d \in Channel, \A g \in Range(Push(f, s)) : Moves(g) => g.ch # d
        PROVE  Count(ch[d].blocks) = ow[d]
    <2>1. d # c /\ \A g \in Range(s) : Moves(g) => g.ch # d BY <1>1, <1>3
    <2> QED BY <2>1, Zenon DEF CountedBut
  <1> QED BY <1>2, <1>3, Zenon DEF Counted

(* Only requests and the like change.                                      *)
LEMMA CountsSame ==
  ASSUME NEW ch, NEW ow, NEW ch2, NEW s, Counted(s, ch, ow),
         \A d \in Channel : ch2[d].mode = ch[d].mode /\ ch2[d].blocks = ch[d].blocks
  PROVE  Counted(s, ch2, ow)
  <1>1. ASSUME NEW f \in Range(s), Moves(f) PROVE Knows(f, ch2, ow)
    <2>1. Knows(f, ch, ow) BY <1>1, Zenon DEF Counted
    <2>2. f.ch \in Channel BY <2>1 DEF Knows
    <2>3. ch2[f.ch].mode = ch[f.ch].mode BY <2>2
    <2> QED BY <2>1, <2>3, Zenon DEF Knows
  <1>2. ASSUME NEW d \in Channel, \A f \in Range(s) : Moves(f) => f.ch # d
        PROVE  Count(ch2[d].blocks) = ow[d]
    <2>1. Count(ch[d].blocks) = ow[d] BY <1>2, Zenon DEF Counted
    <2> QED BY <2>1, Zenon
  <1> QED BY <1>1, <1>2, Zenon DEF Counted

(* The frame of a transfer by request that starts.                         *)
LEMMA CallKnows ==
  ASSUME NEW ch \in [Channel -> Control], NEW ow, NEW c \in Channel, ch[c].mode = "request",
         Count(ch[c].blocks) = ow[c], NEW s \in Seq(MdecFrames)
  PROVE  \E f \in MdecFrames : /\ Call(ch, c, s) = Push(f, s) /\ f.op = "first" /\ f.ch = c
                               /\ Knows(f, ch, ow)
  <1> DEFINE left == Count(ch[c].blocks)
             f == Frame("first", c, left)
  <1>1. left \in 1..Full
    <2>1. ch[c].blocks \in 0..Full - 1 BY ControlFields
    <2> QED BY <2>1, CountFacts
  <1>2. Call(ch, c, s) = Push(f, s)
    <2>1. (IF ch[c].mode = "request" THEN Count(ch[c].blocks) ELSE 1) = left OBVIOUS
    <2> QED BY <2>1, Zenon DEF Call
  <1>3. left = ow[c] OBVIOUS
  <1> HIDE DEF left
  <1>4. c \in Nat /\ Full \in Nat BY DmaFacts
  <1>5. f \in MdecFrames /\ f.op = "first" /\ f.ch = c /\ f.left = left
    BY <1>1, <1>4 DEF Frame, MdecFrames
  <1> HIDE DEF f
  <1>6. left \in 0..Full /\ left >= 1 BY <1>1, <1>4
  <1>7. Knows(f, ch, ow) BY <1>3, <1>5, <1>6, Zenon DEF Knows
  <1> QED BY <1>2, <1>5, <1>7

-----------------------------------------------------------------------------
(* Calls of the decoder                                                  *)

(* The halts match as long as a sweep has neither started nor ended.       *)
LEMMA HaltsSame ==
  ASSUME NEW s, NEW t, NEW rem, NEW ev, HaltsMatch(s, rem, ev), Unhalting(t) <=> Unhalting(s)
  PROVE  HaltsMatch(t, rem, ev)
  BY Zenon DEF HaltsMatch

(* A call returns that is no transfer and no sweep.                        *)
LEMMA FinePop ==
  ASSUME NEW ch, NEW ow, NEW rem, NEW ev, NEW s \in Seq(MdecFrames), s # <<>>,
         ~Moves(Head(s)), Head(s).op \notin Sweeps, Fine(s, ch, ow, rem, ev)
  PROVE  Fine(Tail(s), ch, ow, rem, ev)
  <1>1. Ordered(s) /\ Counted(s, ch, ow) /\ HaltsMatch(s, rem, ev) BY DEF Fine
  <1>2. Ordered(Tail(s)) BY <1>1, OrderedPop
  <1>3. Counted(Tail(s), ch, ow) BY <1>1, CountedPop
  <1>4. Unhalting(s) => Tail(s) # <<>>
    <2> SUFFICES ASSUME Unhalting(s), Tail(s) = <<>> PROVE FALSE OBVIOUS
    <2>1. Len(s) = 1 /\ s[1] = Head(s) BY PopIndex
    <2>2. Head(s).op = "unhalt" BY <2>1, Zenon DEF Unhalting
    <2> QED BY <2>2 DEF Sweeps
  <1>5. Unhalting(Tail(s)) <=> Unhalting(s) BY <1>4, UnhaltingPop
  <1>6. HaltsMatch(Tail(s), rem, ev) BY <1>1, <1>5, HaltsSame
  <1> QED BY <1>2, <1>3, <1>6 DEF Fine

(* A call that is no transfer and no sweep.                                *)
LEMMA FinePush ==
  ASSUME NEW ch, NEW ow, NEW rem, NEW ev, NEW f \in MdecFrames, NEW s \in Seq(MdecFrames),
         ~Moves(f), f.op \notin Sweeps, Fine(s, ch, ow, rem, ev)
  PROVE  Fine(Push(f, s), ch, ow, rem, ev)
  <1>1. Ordered(s) /\ Counted(s, ch, ow) /\ HaltsMatch(s, rem, ev) BY DEF Fine
  <1>2. Ordered(Push(f, s)) BY <1>1, OrderedPush
  <1>3. Counted(Push(f, s), ch, ow) BY <1>1, CountedPush
  <1>4. f.op # "unhalt" BY DEF Sweeps
  <1>5. s = <<>> => ~Unhalting(s) BY DEF Unhalting
  <1>6. Unhalting(Push(f, s)) <=> Unhalting(s) BY <1>4, <1>5, UnhaltingPush
  <1>7. HaltsMatch(Push(f, s), rem, ev) BY <1>1, <1>6, HaltsSame
  <1> QED BY <1>2, <1>3, <1>7 DEF Fine

(* The frames of the decoder are no transfers and no sweeps.               *)
LEMMA DecoderFrames ==
  ASSUME NEW f \in {Execute, Status, StatusOut}
  PROVE  f \in MdecFrames /\ ~Moves(f) /\ f.op \notin Sweeps
  BY NewFrames DEF Moves, Sweeps

(* The DMA is left alone while the decoder has the turn.                   *)
LEMMA ExactDecoder ==
  ASSUME IndM, IndE, SameDma, NEW s \in Seq(MdecFrames),
         ~nested => Fine(s, chan, owed, remaining, unhalt_event),
         stack' = s \/ \E f \in {Execute, Status} : stack' = Push(f, s)
  PROVE  IndE'
  <1>1. /\ chan' = chan /\ owed' = owed /\ remaining' = remaining
        /\ unhalt_event' = unhalt_event /\ nested' = nested
    BY Zenon DEF SameDma, dmaRest
  <1> SUFFICES ASSUME ~nested PROVE NotNested' BY <1>1, Zenon DEF IndE
  <1>2. NotNested BY DEF IndE
  <1>3. \A f \in {Execute, Status} : Fine(Push(f, s), chan, owed, remaining, unhalt_event)
    BY DecoderFrames, FinePush
  <1>4. Fine(stack', chan, owed, remaining, unhalt_event) BY <1>3, Zenon
  <1>5. Fine(stack', chan', owed', remaining', unhalt_event') BY <1>1, <1>4, Zenon
  <1>6. owed' \in [Channel -> Int] /\ ByRequestOnly(chan') BY <1>1, <1>2, Zenon DEF NotNested
  <1> QED BY <1>5, <1>6, Zenon DEF NotNested

(* The decoder has the turn: without it the calls are fine, too.           *)
LEMMA ExactTop ==
  ASSUME IndM, IndE, stack # <<>>, ~Moves(Head(stack)), Head(stack).op \notin Sweeps
  PROVE  /\ stack \in Seq(MdecFrames) /\ Tail(stack) \in Seq(MdecFrames)
         /\ ~nested => /\ Fine(stack, chan, owed, remaining, unhalt_event)
                       /\ Fine(Tail(stack), chan, owed, remaining, unhalt_event)
  <1>1. stack \in Seq(MdecFrames) BY DEF IndM, InRange
  <1>2. Tail(stack) \in Seq(MdecFrames) BY TopFrame
  <1>3. ~nested => Fine(stack, chan, owed, remaining, unhalt_event) BY Zenon DEF IndE, NotNested
  <1>4. ~nested => Fine(Tail(stack), chan, owed, remaining, unhalt_event) BY <1>1, <1>3, FinePop
  <1> QED BY <1>1, <1>2, <1>3, <1>4

(* A block of input or output.                                             *)
LEMMA ExactDevice ==
  ASSUME IndM, IndE, DmaWrite \/ DmaRead
  PROVE  IndE'
  <1>1. /\ SameDma /\ stack # <<>> /\ Head(stack).op = "device"
        /\ stack' = Tail(stack) \/ stack' = Push(Execute, Tail(stack))
    BY Zenon DEF DmaWrite, DmaRead, TopIs
  <1>2. ~Moves(Head(stack)) /\ Head(stack).op \notin Sweeps BY <1>1 DEF Moves, Sweeps
  <1>3. Execute \in {Execute, Status} OBVIOUS
  <1>4. /\ Tail(stack) \in Seq(MdecFrames)
        /\ ~nested => Fine(Tail(stack), chan, owed, remaining, unhalt_event)
    BY <1>1, <1>2, ExactTop
  <1> QED BY <1>1, <1>3, <1>4, ExactDecoder

(* What mdec_execute does to the calls and the DMA.                        *)
LEMMA ExecuteCalls ==
  ASSUME ExecuteStep
  PROVE  /\ SameDma /\ TopIs("execute")
         /\ stack' = stack \/ stack' = Push(Status, stack) \/ stack' = Push(Status, Tail(stack))
  <1> DEFINE G == /\ SameDma /\ TopIs("execute")
                  /\ stack' = stack \/ stack' = Push(Status, stack) \/ stack' = Push(Status, Tail(stack))
  <1>1. ExecuteWaits => G BY Zenon DEF ExecuteWaits, Finished
  <1>2. ASSUME NEW command, NEW n, ExecuteHeader(command, n) PROVE G
    BY <1>2, Zenon DEF ExecuteHeader, Continue
  <1>3. ExecuteTable => G BY Zenon DEF ExecuteTable, Continue
  <1>4. ExecuteInvalid => G BY Zenon DEF ExecuteInvalid, Continue, Finished
  <1>5. ASSUME NEW n, ExecuteDecoded(n) PROVE G BY <1>5, Zenon DEF ExecuteDecoded
  <1>6. ExecuteStarved => G BY Zenon DEF ExecuteStarved, Finished
  <1>7. ExecuteBlocked => G BY Zenon DEF ExecuteBlocked, Finished
  <1>8. ExecuteSchedule => G BY Zenon DEF ExecuteSchedule, Finished
  <1> HIDE DEF G
  <1>9. G BY <1>1, <1>2, <1>3, <1>4, <1>5, <1>6, <1>7, <1>8, Zenon DEF ExecuteStep
  <1> QED BY <1>9 DEF G

(* mdec_execute.                                                           *)
LEMMA ExactExecute ==
  ASSUME IndM, IndE, ExecuteStep
  PROVE  IndE'
  <1>1. /\ SameDma /\ stack # <<>> /\ Head(stack).op = "execute"
        /\ stack' = stack \/ stack' = Push(Status, stack) \/ stack' = Push(Status, Tail(stack))
    BY ExecuteCalls, Zenon DEF TopIs
  <1>2. ~Moves(Head(stack)) /\ Head(stack).op \notin Sweeps BY <1>1 DEF Moves, Sweeps
  <1>3. Status \in {Execute, Status} OBVIOUS
  <1>4. /\ stack \in Seq(MdecFrames) /\ Tail(stack) \in Seq(MdecFrames)
        /\ ~nested => /\ Fine(stack, chan, owed, remaining, unhalt_event)
                      /\ Fine(Tail(stack), chan, owed, remaining, unhalt_event)
    BY <1>1, <1>2, ExactTop
  <1>5. CASE stack' = stack \/ stack' = Push(Status, stack)
    BY <1>1, <1>3, <1>4, <1>5, ExactDecoder
  <1>6. CASE stack' = Push(Status, Tail(stack)) BY <1>1, <1>3, <1>4, <1>6, ExactDecoder
  <1> QED BY <1>1, <1>5, <1>6

-----------------------------------------------------------------------------
(* Requests                                                              *)

(* A transfer by request starts, of a channel that has none.               *)
LEMMA FineCall ==
  ASSUME NEW ch \in [Channel -> Control], NEW ow, NEW rem, NEW ev, NEW c \in Channel,
         NEW s \in Seq(MdecFrames), Fine(s, ch, ow, rem, ev), ch[c].mode = "request",
         \A g \in Range(s) : Moves(g) => g.ch # c, Unhalting(s) => Len(s) = 1
  PROVE  Fine(Call(ch, c, s), ch, ow, rem, ev)
  <1>1. Ordered(s) /\ Counted(s, ch, ow) /\ HaltsMatch(s, rem, ev) BY DEF Fine
  <1>2. CountedBut(c, s, ch, ow) /\ Count(ch[c].blocks) = ow[c] BY <1>1, NoTransfer
  <1>3. PICK f \in MdecFrames : /\ Call(ch, c, s) = Push(f, s) /\ f.op = "first" /\ f.ch = c
                                /\ Knows(f, ch, ow)
    BY <1>2, CallKnows
  <1>4. Moves(f) /\ f.op \notin Sweeps BY <1>3 DEF Moves, Sweeps
  <1>5. Ordered(Push(f, s)) BY <1>1, <1>3, <1>4, OrderedPush
  <1>6. Counted(Push(f, s), ch, ow) BY <1>2, <1>3, <1>4, GoOn
  <1>7. s = <<>> => ~Unhalting(s) BY DEF Unhalting
  <1>8. f.op # "unhalt" BY <1>3
  <1>9. Unhalting(Push(f, s)) <=> Unhalting(s) BY <1>7, <1>8, UnhaltingPush
  <1>10. HaltsMatch(Push(f, s), rem, ev) BY <1>1, <1>9, HaltsSame
  <1> QED BY <1>3, <1>5, <1>6, <1>10, Zenon DEF Fine

(* What is not noted as nested has no transfer of the channel under it and *)
(* is not in the sweep of an unhalt event.                                 *)
LEMMA NotNoted ==
  ASSUME NEW c, NEW s \in Seq(MdecFrames), NoteNesting(c, s), stack' # s, ~nested'
  PROVE  ~nested /\ (\A g \in Range(s) : Moves(g) => g.ch # c) /\ ~Unhalting(s)
  <1>1. /\ ~nested
        /\ ~ \E i \in {i \in DOMAIN s : s[i].op \in {"first", "loop"}} : s[i].ch = c
        /\ {i \in DOMAIN s : s[i].op \in {"unhalt"}} = {}
    BY Zenon DEF NoteNesting
  <1>2. DOMAIN s = 1..Len(s) /\ Len(s) \in Nat /\ (s = <<>> <=> Len(s) = 0) OBVIOUS
  <1>3. ASSUME NEW g \in Range(s), Moves(g) PROVE g.ch # c
    <2>1. PICK i \in DOMAIN s : g = s[i] BY DEF Range
    <2>2. s[i].op \in {"first", "loop"} BY <1>3, <2>1 DEF Moves
    <2> QED BY <1>1, <2>1, <2>2, Zenon
  <1>4. ~Unhalting(s)
    <2> SUFFICES ASSUME Unhalting(s) PROVE FALSE OBVIOUS
    <2>1. s # <<>> /\ s[Len(s)].op \in {"unhalt"} BY DEF Unhalting
    <2>2. Len(s) \in DOMAIN s BY <1>2, <2>1
    <2> QED BY <1>1, <2>1, <2>2, Zenon
  <1> QED BY <1>1, <1>3, <1>4

(* A request is set and noted.                                             *)
LEMMA ExactRequest ==
  ASSUME IndM, IndE, NEW c \in Channel, NEW level \in BOOLEAN, NEW s \in Seq(MdecFrames),
         ~nested => Fine(s, chan, owed, remaining, unhalt_event),
         SetRequest(c, level, s), NoteNesting(c, s),
         owed' = owed, remaining' = remaining, unhalt_event' = unhalt_event
  PROVE  IndE'
  <1> SUFFICES ASSUME ~nested' PROVE NotNested' BY DEF IndE
  <1> DEFINE ch == [chan EXCEPT ![c].request = level]
  <1>1. chan \in [Channel -> Control] BY DEF IndM, InRange
  <1>2. /\ ch \in [Channel -> Control] /\ ch[c].busy = chan[c].busy /\ ch[c].mode = chan[c].mode
        /\ ch[c].blocks = chan[c].blocks /\ \A d \in Channel : d # c => ch[d] = chan[d]
    BY <1>1, SetRequestBit
  <1>3. /\ chan' = ch
        /\ stack' = IF chan[c].request # level /\ CanTransfer(ch, c, FALSE) THEN Call(ch, c, s) ELSE s
    BY Zenon DEF SetRequest
  <1> HIDE DEF ch
  <1>4. ~nested
    <2>1. CASE stack' = s BY <2>1, Zenon DEF NoteNesting
    <2>2. CASE stack' # s BY <2>2, NotNoted
    <2> QED BY <2>1, <2>2
  <1>5. Fine(s, chan, owed, remaining, unhalt_event) /\ NotNested BY <1>4 DEF IndE
  <1>6. \A d \in Channel : /\ ch[d].mode = chan[d].mode /\ ch[d].blocks = chan[d].blocks
                           /\ ch[d].busy = chan[d].busy
    BY <1>2, Zenon
  <1>7. Fine(s, ch, owed, remaining, unhalt_event) BY <1>5, <1>6, CountsSame DEF Fine
  <1>8. owed \in [Channel -> Int] /\ ByRequestOnly(ch)
    BY <1>5, <1>6, Zenon DEF NotNested, ByRequestOnly
  <1>9. Fine(stack', ch, owed, remaining, unhalt_event)
    <2>1. CASE chan[c].request # level /\ CanTransfer(ch, c, FALSE)
      <3>1. stack' = Call(ch, c, s) BY <1>3, <2>1, Zenon
      <3>2. ch[c].mode = "request" BY <1>8, <2>1, Zenon DEF ByRequestOnly, CanTransfer
      <3>3. stack' # s
        <4>1. PICK f \in MdecFrames : stack' = Push(f, s) BY <1>2, <3>1, CallIn
        <4>2. Len(Push(f, s)) = Len(s) + 1 /\ Len(s) \in Nat BY PushIndex
        <4>3. Push(f, s) # s BY <4>2
        <4> QED BY <4>1, <4>3
      <3>4. (\A g \in Range(s) : Moves(g) => g.ch # c) /\ ~Unhalting(s) BY <3>3, NotNoted
      <3>5. Fine(Call(ch, c, s), ch, owed, remaining, unhalt_event)
        BY <1>2, <1>7, <3>2, <3>4, FineCall
      <3> QED BY <3>1, <3>5, Zenon
    <2>2. CASE ~(chan[c].request # level /\ CanTransfer(ch, c, FALSE))
      <3>1. stack' = s BY <1>3, <2>2, Zenon
      <3> QED BY <1>7, <3>1
    <2> QED BY <2>1, <2>2
  <1> QED BY <1>3, <1>8, <1>9, Zenon DEF NotNested

(* The first half of mdec_update_status.                                   *)
LEMMA ExactStatusIn ==
  ASSUME IndM, IndE, UpdateStatusIn
  PROVE  IndE'
  <1> DEFINE s == Push(StatusOut, Tail(stack))
             level == enableIn /\ Space >= Burst
  <1>1. /\ TopIs("status") /\ SetRequest(In, level, s) /\ NoteNesting(In, s)
        /\ owed' = owed /\ remaining' = remaining /\ unhalt_event' = unhalt_event
    BY Zenon DEF UpdateStatusIn, dmaRest
  <1>2. stack # <<>> /\ Head(stack).op = "status" BY <1>1, Zenon DEF TopIs
  <1>3. ~Moves(Head(stack)) /\ Head(stack).op \notin Sweeps BY <1>2 DEF Moves, Sweeps
  <1>4. /\ Tail(stack) \in Seq(MdecFrames)
        /\ ~nested => Fine(Tail(stack), chan, owed, remaining, unhalt_event)
    BY <1>2, <1>3, ExactTop
  <1>5. StatusOut \in MdecFrames /\ ~Moves(StatusOut) /\ StatusOut.op \notin Sweeps
    BY DecoderFrames
  <1>6. s \in Seq(MdecFrames) BY <1>4, <1>5, PushCall
  <1>7. ~nested => Fine(s, chan, owed, remaining, unhalt_event) BY <1>4, <1>5, FinePush
  <1>8. level \in BOOLEAN BY Sizes
  <1> HIDE DEF s, level
  <1> QED BY <1>1, <1>6, <1>7, <1>8, MdecFacts, ExactRequest

(* The second half of mdec_update_status.                                  *)
LEMMA ExactStatusOut ==
  ASSUME IndM, IndE, UpdateStatusOut
  PROVE  IndE'
  <1> DEFINE level == enableOut /\ outSize > 0
  <1>1. /\ TopIs("statusOut") /\ SetRequest(Out, level, Tail(stack))
        /\ NoteNesting(Out, Tail(stack))
        /\ owed' = owed /\ remaining' = remaining /\ unhalt_event' = unhalt_event
    BY Zenon DEF UpdateStatusOut, dmaRest
  <1>2. stack # <<>> /\ Head(stack).op = "statusOut" BY <1>1, Zenon DEF TopIs
  <1>3. ~Moves(Head(stack)) /\ Head(stack).op \notin Sweeps BY <1>2 DEF Moves, Sweeps
  <1>4. /\ Tail(stack) \in Seq(MdecFrames)
        /\ ~nested => Fine(Tail(stack), chan, owed, remaining, unhalt_event)
    BY <1>2, <1>3, ExactTop
  <1>5. level \in BOOLEAN BY Sizes
  <1> HIDE DEF level
  <1> QED BY <1>1, <1>4, <1>5, MdecFacts, ExactRequest

-----------------------------------------------------------------------------
(* Transfers that stop                                                   *)

(* Under a transfer in the sweep of an unhalt event there is the sweep.    *)
LEMMA UnderMoves ==
  ASSUME NEW s \in Seq(MdecFrames), s # <<>>, Ordered(s), Moves(Head(s))
  PROVE  LET t == Tail(s) IN
         /\ Unhalting(t) <=> Unhalting(s)
         /\ Unhalting(s) => t # <<>> /\ Len(t) = 1 /\ Head(t).op \in Sweeps
  <1> DEFINE t == Tail(s)
  <1>1. t \in Seq(MdecFrames) BY TopCall
  <1>2. Unhalting(s) => t # <<>> /\ Len(t) = 1 /\ Head(t).op \in Sweeps
    <2> SUFFICES ASSUME Unhalting(s) PROVE t # <<>> /\ Len(t) = 1 /\ Head(t).op \in Sweeps OBVIOUS
    <2>1. Len(s) = 2 BY HeadAlone
    <2>2. t # <<>> /\ Len(t) = 1
      <3>1. Len(t) = Len(s) - 1 /\ (t = <<>> <=> Len(s) = 1) BY PopIndex
      <3> QED BY <2>1, <3>1
    <2>3. Unhalting(t) BY <2>2, UnhaltingPop
    <2> HIDE DEF t
    <2>4. t[1] = Head(t) BY <1>1, <2>2, PopIndex
    <2>5. Head(t).op = "unhalt" BY <2>2, <2>3, <2>4, Zenon DEF Unhalting
    <2> QED BY <2>2, <2>5 DEF Sweeps
  <1>3. Unhalting(t) <=> Unhalting(s) BY <1>2, UnhaltingPop
  <1> QED BY <1>2, <1>3

(* A transfer returns, with what is left in the register: its sweep goes   *)
(* on, or ends with it.                                                    *)
LEMMA TransferReturns ==
  ASSUME IndM, NotNested, NEW c \in Channel, NEW result \in BOOLEAN,
         stack # <<>>, Moves(Head(stack)), Head(stack).ch = c,
         \A d \in Channel : d # c => chan'[d] = chan[d] /\ owed'[d] = owed[d],
         Count(chan'[c].blocks) = owed'[c], chan'[c].busy => chan'[c].mode = "request",
         NEW s, s = ReturnFrom(stack, result)
  PROVE  /\ Ordered(s) /\ Counted(s, chan', owed') /\ ByRequestOnly(chan')
         /\ result => (Unhalting(s) <=> Unhalting(stack))
         /\ ~result => ~Unhalting(s)
  <1> DEFINE t == Tail(stack)
  <1>1. stack \in Seq(MdecFrames) /\ t \in Seq(MdecFrames) BY TopFrame DEF IndM, InRange
  <1>2. Ordered(stack) /\ Counted(stack, chan, owed) /\ ByRequestOnly(chan)
    BY DEF NotNested, Fine
  <1>3. CountedBut(c, t, chan, owed) BY <1>1, <1>2, LayAside
  <1>4. CountedBut(c, t, chan', owed') BY <1>3, OthersSame
  <1>5. Counted(t, chan', owed') BY <1>4, PutBack
  <1>6. Ordered(t) BY <1>1, <1>2, OrderedPop
  <1>7. ByRequestOnly(chan')
    <2> SUFFICES ASSUME NEW d \in Channel, chan'[d].busy PROVE chan'[d].mode = "request"
      BY DEF ByRequestOnly
    <2>1. CASE d = c BY <2>1
    <2>2. CASE d # c
      <3>1. chan'[d] = chan[d] BY <2>2
      <3>2. chan[d].busy BY <3>1
      <3>3. chan[d].mode = "request" BY <1>2, <3>2, Zenon DEF ByRequestOnly
      <3> QED BY <3>1, <3>3
    <2> QED BY <2>1, <2>2
  <1>8. /\ Unhalting(stack) => t # <<>> /\ Head(t).op \in Sweeps
        /\ Unhalting(t) <=> Unhalting(stack)
    BY <1>1, <1>2, UnderMoves
  <1>9. ReturnFrom(stack, result) =
           IF ~result /\ t # <<>> /\ Head(t).op \in Sweeps THEN Tail(t) ELSE t
    BY Zenon DEF ReturnFrom
  <1> HIDE DEF t
  <1>10. CASE ~result /\ t # <<>> /\ Head(t).op \in Sweeps
    <2>1. Tail(t) = <<>> BY <1>1, <1>6, <1>10, SweepAlone
    <2>2. s = Tail(t) BY <1>9, <1>10
    <2>3. ~Moves(Head(t)) BY <1>10 DEF Moves, Sweeps
    <2>4. Ordered(Tail(t)) BY <1>1, <1>6, <1>10, OrderedPop
    <2>5. Counted(Tail(t), chan', owed') BY <1>1, <1>5, <1>10, <2>3, CountedPop
    <2>6. ~Unhalting(Tail(t)) BY <2>1 DEF Unhalting
    <2> QED BY <1>7, <1>10, <2>2, <2>4, <2>5, <2>6
  <1>11. CASE ~(~result /\ t # <<>> /\ Head(t).op \in Sweeps)
    <2>1. s = t BY <1>9, <1>11
    <2>2. ~result => ~Unhalting(t) BY <1>8, <1>11
    <2> QED BY <1>5, <1>6, <1>7, <1>8, <2>1, <2>2
  <1> QED BY <1>10, <1>11

(* A transfer that does not end a sweep returns.                           *)
LEMMA ExactReturns ==
  ASSUME IndM, NotNested, NEW c \in Channel, stack # <<>>, Moves(Head(stack)), Head(stack).ch = c,
         \A d \in Channel : d # c => chan'[d] = chan[d] /\ owed'[d] = owed[d],
         Count(chan'[c].blocks) = owed'[c], chan'[c].busy => chan'[c].mode = "request",
         owed' \in [Channel -> Int], stack' = ReturnFrom(stack, TRUE),
         remaining' = remaining, unhalt_event' = unhalt_event
  PROVE  NotNested'
  <1> DEFINE s == ReturnFrom(stack, TRUE)
  <1>1. /\ Ordered(s) /\ Counted(s, chan', owed') /\ ByRequestOnly(chan')
        /\ Unhalting(s) <=> Unhalting(stack)
    <2>1. TRUE \in BOOLEAN OBVIOUS
    <2>2. s = ReturnFrom(stack, TRUE) OBVIOUS
    <2> HIDE DEF s
    <2> QED BY <2>1, <2>2, TransferReturns, Zenon
  <1>2. HaltsMatch(stack, remaining, unhalt_event) BY DEF NotNested, Fine
  <1> HIDE DEF s
  <1>3. HaltsMatch(s, remaining, unhalt_event) BY <1>1, <1>2, HaltsSame
  <1>4. Fine(s, chan', owed', remaining', unhalt_event') BY <1>1, <1>3, Zenon DEF Fine
  <1>5. stack' = s BY DEF s
  <1> QED BY <1>1, <1>4, <1>5, Zenon DEF NotNested

(* The transfer that has the turn knows what is left.                      *)
LEMMA MovesTop ==
  ASSUME IndM, NotNested, stack # <<>>, Head(stack).op \in {"first", "loop"}
  PROVE  /\ Moves(Head(stack)) /\ Knows(Head(stack), chan, owed) /\ Head(stack).ch \in Channel
         /\ chan[Head(stack).ch].mode = "request" /\ Head(stack).left = owed[Head(stack).ch]
         /\ Head(stack).left \in 0..Full /\ (Head(stack).op = "first" => Head(stack).left >= 1)
  <1>1. stack \in Seq(MdecFrames) BY DEF IndM, InRange
  <1>2. Ordered(stack) /\ Counted(stack, chan, owed) BY DEF NotNested, Fine
  <1>3. Moves(Head(stack)) BY Zenon DEF Moves
  <1>4. Knows(Head(stack), chan, owed) BY <1>1, <1>2, <1>3, LayAside
  <1> QED BY <1>3, <1>4, Zenon DEF Knows

(* What is stored when a transfer stops with blocks left.                  *)
LEMMA ProgressExact ==
  ASSUME IndM, NotNested, stack # <<>>, Head(stack).op \in {"first", "loop"}, Head(stack).left >= 1,
         NEW c, c = Head(stack).ch
  PROVE  LET ch == StoreProgress(c) IN
         /\ c \in Channel /\ ch \in [Channel -> Control] /\ Count(ch[c].blocks) = owed[c]
         /\ ch[c].mode = "request" /\ \A d \in Channel : d # c => ch[d] = chan[d]
  <1>1. /\ c \in Channel /\ chan[c].mode = "request" /\ Head(stack).left = owed[c]
        /\ Head(stack).left \in 0..Full
    BY MovesTop
  <1> DEFINE left == Head(stack).left
             x == left % Full
             ch == [chan EXCEPT ![c].blocks = x]
  <1>2. Full \in Nat BY DmaFacts
  <1>3. left \in 1..Full BY <1>1, <1>2
  <1>4. x \in 0..Full - 1 /\ Count(x) = left BY <1>3, CountLeft
  <1>5. StoreProgress(c) = ch BY <1>1, Zenon DEF StoreProgress
  <1>6. chan \in [Channel -> Control] BY DEF IndM, InRange
  <1> HIDE DEF x
  <1>7. /\ ch \in [Channel -> Control] /\ ch[c].mode = chan[c].mode /\ ch[c].blocks = x
        /\ \A d \in Channel : d # c => ch[d] = chan[d]
    BY <1>1, <1>4, <1>6, SetBlocks
  <1> HIDE DEF ch
  <1>8. Count(ch[c].blocks) = owed[c] BY <1>1, <1>4, <1>7, Zenon DEF left
  <1> QED BY <1>1, <1>5, <1>7, <1>8, Zenon

(* At a block there are blocks left.                                       *)
LEMMA BlockLeft ==
  ASSUME IndM, NotNested, AtBlock
  PROVE  /\ stack # <<>> /\ Head(stack).op \in {"first", "loop"} /\ Head(stack).left >= 1
  <1>1. stack # <<>> /\ Head(stack).op \in {"first", "loop"} BY BlockTop
  <1>2. Head(stack).left \in 0..Full /\ (Head(stack).op = "first" => Head(stack).left >= 1)
    BY <1>1, MovesTop
  <1>3. Head(stack).op = "first" \/ Head(stack).left > 0 BY Zenon DEF AtBlock, TopIs
  <1>4. Full \in Nat BY DmaFacts
  <1> QED BY <1>1, <1>2, <1>3, <1>4

(* A bus error.                                                            *)
LEMMA ExactBusError ==
  ASSUME IndM, NotNested, BusError
  PROVE  NotNested'
  <1>1. PICK c \in Channel :
          /\ AtBlock /\ c = Head(stack).ch
          /\ chan' = [StoreProgress(c) EXCEPT ![c].busy = FALSE]
          /\ stack' = ReturnFrom(stack, TRUE) /\ owed' = owed
          /\ remaining' = remaining /\ unhalt_event' = unhalt_event
    BY Zenon DEF BusError
  <1>2. stack # <<>> /\ Head(stack).op \in {"first", "loop"} /\ Head(stack).left >= 1
    BY <1>1, BlockLeft
  <1> DEFINE s == StoreProgress(c)
             ch == [s EXCEPT ![c].busy = FALSE]
  <1>3. /\ s \in [Channel -> Control] /\ Count(s[c].blocks) = owed[c] /\ s[c].mode = "request"
        /\ \A d \in Channel : d # c => s[d] = chan[d]
    BY <1>1, <1>2, ProgressExact
  <1>4. chan' = ch BY <1>1, Zenon
  <1> HIDE DEF s
  <1>5. /\ ch[c].mode = s[c].mode /\ ch[c].blocks = s[c].blocks
        /\ \A d \in Channel : d # c => ch[d] = s[d]
    BY <1>3, SetBusy
  <1> HIDE DEF ch
  <1>6. /\ Count(chan'[c].blocks) = owed'[c] /\ chan'[c].mode = "request"
        /\ \A d \in Channel : d # c => chan'[d] = chan[d] /\ owed'[d] = owed[d]
    BY <1>1, <1>3, <1>4, <1>5, Zenon
  <1>7. Moves(Head(stack)) BY <1>2, Zenon DEF Moves
  <1>8. owed' \in [Channel -> Int] BY <1>1 DEF NotNested
  <1> QED BY <1>1, <1>2, <1>6, <1>7, <1>8, ExactReturns

(* The device does not want more.                                          *)
LEMMA ExactRequestDropped ==
  ASSUME IndM, NotNested, RequestDropped
  PROVE  NotNested'
  <1>1. PICK c \in Channel :
          /\ Looping(c) /\ Head(stack).left > 0 /\ chan' = StoreProgress(c)
          /\ stack' = ReturnFrom(stack, TRUE) /\ owed' = owed
          /\ remaining' = remaining /\ unhalt_event' = unhalt_event
    BY Zenon DEF RequestDropped
  <1>2. stack # <<>> /\ Head(stack).op \in {"first", "loop"} /\ Head(stack).ch = c
    BY <1>1, LoopTop
  <1>3. Head(stack).left >= 1
    <2>1. Head(stack).left \in 0..Full /\ Full \in Nat BY <1>2, MovesTop, DmaFacts
    <2> QED BY <1>1, <2>1
  <1>4. /\ Count(chan'[c].blocks) = owed[c] /\ chan'[c].mode = "request"
        /\ \A d \in Channel : d # c => chan'[d] = chan[d]
    BY <1>1, <1>2, <1>3, ProgressExact
  <1>5. /\ Count(chan'[c].blocks) = owed'[c]
        /\ \A d \in Channel : d # c => chan'[d] = chan[d] /\ owed'[d] = owed[d]
    BY <1>1, <1>4, Zenon
  <1>6. Moves(Head(stack)) BY <1>2, Zenon DEF Moves
  <1>7. owed' \in [Channel -> Int] BY <1>1 DEF NotNested
  <1> QED BY <1>1, <1>2, <1>4, <1>5, <1>6, <1>7, ExactReturns

(* Everything is moved.                                                    *)
LEMMA ExactComplete ==
  ASSUME IndM, NotNested, Complete
  PROVE  NotNested'
  <1>1. PICK c \in Channel :
          /\ Looping(c)
          /\ chan' = [chan EXCEPT ![c].busy = FALSE,
                                  ![c].blocks = IF chan[c].mode = "request" THEN 0 ELSE @]
          /\ owed' = (IF chan[c].mode = "request" THEN [owed EXCEPT ![c] = Full] ELSE owed)
          /\ stack' = ReturnFrom(stack, TRUE)
          /\ remaining' = remaining /\ unhalt_event' = unhalt_event
    BY Zenon DEF Complete
  <1>2. stack # <<>> /\ Head(stack).op \in {"first", "loop"} /\ Head(stack).ch = c
    BY <1>1, LoopTop
  <1>3. chan[c].mode = "request" BY <1>2, MovesTop
  <1> DEFINE s == [chan EXCEPT ![c].busy = FALSE]
             x == 0
             ch == [s EXCEPT ![c].blocks = x]
  <1>4. chan \in [Channel -> Control] BY DEF IndM, InRange
  <1>5. chan' = ch BY <1>1, <1>3, Zenon
  <1>6. /\ s \in [Channel -> Control] /\ s[c].mode = chan[c].mode
        /\ s[c].busy = FALSE /\ \A d \in Channel : d # c => s[d] = chan[d]
    BY <1>4, SetBusy
  <1>7. x \in 0..Full - 1 BY DmaFacts
  <1> HIDE DEF s
  <1>8. /\ ch[c].busy = s[c].busy /\ ch[c].mode = s[c].mode /\ ch[c].blocks = x
        /\ \A d \in Channel : d # c => ch[d] = s[d]
    BY <1>6, <1>7, SetBlocks
  <1> HIDE DEF ch
  <1>9. owed' = [owed EXCEPT ![c] = Full] BY <1>1, <1>3
  <1>10. owed \in [Channel -> Int] /\ Full \in Int BY DmaFacts DEF NotNested
  <1>11. /\ owed' \in [Channel -> Int] /\ owed'[c] = Full
         /\ \A d \in Channel : d # c => owed'[d] = owed[d]
    BY <1>9, <1>10
  <1>12. Count(x) = Full BY DEF Count
  <1> HIDE DEF x
  <1>13. /\ Count(chan'[c].blocks) = owed'[c] /\ chan'[c].mode = "request"
         /\ \A d \in Channel : d # c => chan'[d] = chan[d] /\ owed'[d] = owed[d]
    BY <1>3, <1>5, <1>6, <1>8, <1>11, <1>12, Zenon
  <1>14. Moves(Head(stack)) BY <1>2, Zenon DEF Moves
  <1> QED BY <1>1, <1>2, <1>11, <1>13, <1>14, ExactReturns

(* The slice is over: the sweep ends, and from now on there is a halt.     *)
LEMMA ExactSliceOver ==
  ASSUME IndM, NotNested, SliceOver
  PROVE  NotNested'
  <1>1. PICK c \in Channel :
          /\ Looping(c) /\ Head(stack).left > 0 /\ chan' = StoreProgress(c)
          /\ IF chan[c].mode = "list" \/ ~Halted THEN HaltTransfer(HaltTicks)
             ELSE remaining' = remaining /\ unhalt_event' = unhalt_event
          /\ stack' = ReturnFrom(stack, FALSE) /\ owed' = owed
    BY Zenon DEF SliceOver
  <1>2. stack # <<>> /\ Head(stack).op \in {"first", "loop"} /\ Head(stack).ch = c
    BY <1>1, LoopTop
  <1>3. Head(stack).left \in 0..Full /\ Full \in Nat /\ chan[c].mode = "request"
    BY <1>2, MovesTop, DmaFacts
  <1>4. Head(stack).left >= 1 BY <1>1, <1>3
  <1>5. /\ Count(chan'[c].blocks) = owed[c] /\ chan'[c].mode = "request"
        /\ \A d \in Channel : d # c => chan'[d] = chan[d]
    BY <1>1, <1>2, <1>4, ProgressExact
  <1>6. Moves(Head(stack)) BY <1>2, Zenon DEF Moves
  <1> DEFINE s == ReturnFrom(stack, FALSE)
  <1>7. Ordered(s) /\ Counted(s, chan', owed') /\ ByRequestOnly(chan') /\ ~Unhalting(s)
    <2>1. /\ \A d \in Channel : d # c => chan'[d] = chan[d] /\ owed'[d] = owed[d]
          /\ Count(chan'[c].blocks) = owed'[c]
      BY <1>1, <1>5, Zenon
    <2>2. FALSE \in BOOLEAN OBVIOUS
    <2>3. s = ReturnFrom(stack, FALSE) OBVIOUS
    <2> HIDE DEF s
    <2> QED BY <1>2, <1>5, <1>6, <2>1, <2>2, <2>3, TransferReturns, Zenon
  <1>8. stack' = s BY <1>1
  <1> HIDE DEF s
  <1>9. HaltsMatch(stack, remaining, unhalt_event) BY DEF NotNested, Fine
  <1>10. HaltsMatch(s, remaining', unhalt_event')
    <2>1. CASE Halted
      <3>1. ~Unhalting(stack) BY <1>9, <2>1, Zenon DEF HaltsMatch, Halted
      <3>2. HaltsMatch(s, remaining, unhalt_event) BY <1>7, <1>9, <3>1, HaltsSame
      <3>3. remaining' = remaining /\ unhalt_event' = unhalt_event BY <1>1, <1>3, <2>1, Zenon
      <3> QED BY <3>2, <3>3, Zenon
    <2>2. CASE ~Halted
      <3> DEFINE r == remaining + HaltTicks
      <3>1. remaining' = r /\ unhalt_event' = After(r) BY <1>1, <2>2, Zenon DEF HaltTransfer
      <3>2. remaining \in Nat BY <1>9 DEF HaltsMatch
      <3>3. r \in Nat /\ r \in Int /\ r > 0 /\ r <= r BY <3>2, DmaFacts
      <3> HIDE DEF r
      <3>4. After(r) \in [active : BOOLEAN, ticks : Int] /\ After(r).active = TRUE /\ After(r).ticks = r
        BY <3>3 DEF After
      <3>5. HaltsMatch(s, r, After(r)) BY <1>7, <3>3, <3>4 DEF HaltsMatch
      <3> QED BY <3>1, <3>5, Zenon
    <2> QED BY <2>1, <2>2
  <1>11. owed' = owed /\ owed \in [Channel -> Int] BY <1>1 DEF NotNested
  <1>12. Fine(s, chan', owed', remaining', unhalt_event') BY <1>7, <1>10, Zenon DEF Fine
  <1> QED BY <1>7, <1>8, <1>11, <1>12, Zenon DEF NotNested

-----------------------------------------------------------------------------
(* Blocks and sweeps                                                     *)

(* A block of a transfer by request calls its device.                      *)
LEMMA ExactBlock ==
  ASSUME IndM, NotNested, abandoned = NothingUndone, NEW last \in BOOLEAN, NEW slice \in Slices, Block(last, slice)
  PROVE  NotNested'
  <1> DEFINE f == Head(stack)
             t == Tail(stack)
             ticks == IF f.op = "first" THEN slice ELSE f.slice
  <1>1. PICK c \in Channel :
          /\ AtBlock /\ c = f.ch
          /\ LET left == IF chan[c].mode = "list" /\ ~last THEN f.left ELSE f.left - 1
             IN stack' = Push(Frame("device", c, 0), Push(Loop(c, left, ticks - 1), t))
          /\ owed' = IF chan[c].mode = "request" /\ c \notin abandoned.repeating
                     THEN [owed EXCEPT ![c] = @ - 1] ELSE owed
          /\ chan' = chan /\ remaining' = remaining /\ unhalt_event' = unhalt_event
    BY Zenon DEF Block
  <1>2. stack # <<>> /\ f.op \in {"first", "loop"} /\ f.left >= 1 BY <1>1, BlockLeft
  <1>3. /\ Moves(f) /\ chan[c].mode = "request" /\ f.left = owed[c] /\ f.left \in 0..Full
    BY <1>1, <1>2, MovesTop
  <1>4. stack \in Seq(MdecFrames) /\ f \in MdecFrames /\ t \in Seq(MdecFrames)
    BY <1>2, TopFrame DEF IndM, InRange
  <1>5. /\ Ordered(stack) /\ Counted(stack, chan, owed) /\ HaltsMatch(stack, remaining, unhalt_event)
        /\ owed \in [Channel -> Int] /\ ByRequestOnly(chan)
    BY DEF NotNested, Fine
  <1> DEFINE left == f.left - 1
             g == Loop(c, left, ticks - 1)
             d == Frame("device", c, 0)
  <1>6. stack' = Push(d, Push(g, t)) BY <1>1, <1>3, Zenon
  <1>7. /\ owed' \in [Channel -> Int] /\ owed'[c] = left
        /\ \A i \in Channel : i # c => owed'[i] = owed[i]
    <2>1. owed' = [owed EXCEPT ![c] = @ - 1]
      <3>1. c \notin abandoned.repeating BY DEF NothingUndone
      <3> QED BY <1>1, <1>3, <3>1
    <2>2. owed[c] \in Int BY <1>5
    <2>3. owed[c] - 1 = left /\ left \in Int BY <1>3, <2>2
    <2> QED BY <1>5, <2>1, <2>3
  <1>8. left \in 0..Full
    <2>1. Full \in Nat BY DmaFacts
    <2> QED BY <1>2, <1>3, <2>1
  <1>9. c \in Nat /\ ticks - 1 \in Int /\ left \in Int
    <2>1. f.slice \in Int BY <1>4 DEF MdecFrames
    <2>2. slice \in Nat BY DmaFacts
    <2> QED BY <1>8, <2>1, <2>2, DmaFacts
  <1>10. g \in MdecFrames /\ g.op = "loop" /\ g.ch = c /\ g.left = left
    BY <1>9 DEF Loop, MdecFrames
  <1>11. d \in MdecFrames /\ d.op = "device" BY <1>9 DEF Frame, MdecFrames
  <1>12. CountedBut(c, t, chan, owed)
    BY <1>1, <1>2, <1>3, <1>4, <1>5, LayAside
  <1>13. /\ Unhalting(t) <=> Unhalting(stack)
         /\ Unhalting(stack) => t # <<>> /\ Len(t) = 1
    BY <1>2, <1>3, <1>4, <1>5, UnderMoves
  <1>14. \A h \in Range(t) : Moves(h) => h.ch # c
    BY <1>1, <1>2, <1>3, <1>4, <1>5, HeadAlone
  <1>15. Ordered(t) BY <1>2, <1>4, <1>5, OrderedPop
  <1> HIDE DEF f, t, left, g, d
  <1>16. CountedBut(c, t, chan, owed')
    <2>1. \A i \in Channel : i # c => chan[i] = chan[i] /\ owed'[i] = owed[i] BY <1>7
    <2> QED BY <1>12, <2>1, OthersSame
  <1>17. Moves(g) /\ g.op \notin Sweeps /\ g.op # "unhalt" BY <1>10 DEF Moves, Sweeps
  <1>18. Knows(g, chan, owed')
    <2>1. g.op # "first" BY <1>10
    <2>2. g.left = owed'[c] /\ g.left \in 0..Full BY <1>7, <1>8, <1>10
    <2> QED BY <1>3, <1>10, <2>1, <2>2, Zenon DEF Knows
  <1>19. Counted(Push(g, t), chan, owed') BY <1>4, <1>10, <1>16, <1>17, <1>18, GoOn
  <1>20. Ordered(Push(g, t)) BY <1>4, <1>10, <1>13, <1>14, <1>15, <1>17, OrderedPush
  <1>21. Unhalting(Push(g, t)) <=> Unhalting(stack)
    <2>1. Unhalting(Push(g, t)) <=> IF t = <<>> THEN g.op = "unhalt" ELSE Unhalting(t)
      BY <1>4, <1>10, UnhaltingPush
    <2> QED BY <1>13, <1>17, <2>1
  <1>22. HaltsMatch(Push(g, t), remaining, unhalt_event) BY <1>5, <1>21, HaltsSame
  <1>23. Fine(Push(g, t), chan, owed', remaining, unhalt_event)
    BY <1>19, <1>20, <1>22, Zenon DEF Fine
  <1>24. ~Moves(d) /\ d.op \notin Sweeps BY <1>11 DEF Moves, Sweeps
  <1>25. Push(g, t) \in Seq(MdecFrames) BY <1>4, <1>10, PushCall
  <1>26. Fine(Push(d, Push(g, t)), chan, owed', remaining, unhalt_event)
    BY <1>11, <1>23, <1>24, <1>25, FinePush
  <1>27. Fine(stack', chan', owed', remaining', unhalt_event')
    BY <1>1, <1>6, <1>26, Zenon
  <1>28. ByRequestOnly(chan') BY <1>1, <1>5, Zenon
  <1> QED BY <1>7, <1>27, <1>28, Zenon DEF NotNested

(* A sweep that has the turn is all there is.                              *)
LEMMA SweepFine ==
  ASSUME IndM, NotNested, TopIs("unhalt") \/ TopIs("dpcr")
  PROVE  /\ stack \in Seq(MdecFrames) /\ Head(stack) \in MdecFrames /\ Tail(stack) = <<>>
         /\ Ordered(<<>>) /\ Counted(<<>>, chan, owed) /\ Head(stack).op \in Sweeps
         /\ HaltsMatch(stack, remaining, unhalt_event)
         /\ Unhalting(stack) <=> Head(stack).op = "unhalt"
  <1>1. stack # <<>> /\ Head(stack).op \in Sweeps BY SweepTop
  <1>2. stack \in Seq(MdecFrames) /\ Head(stack) \in MdecFrames BY <1>1, TopFrame DEF IndM, InRange
  <1>3. /\ Ordered(stack) /\ Counted(stack, chan, owed) /\ HaltsMatch(stack, remaining, unhalt_event)
    BY DEF NotNested, Fine
  <1>4. Tail(stack) = <<>> /\ (Unhalting(stack) <=> Head(stack).op = "unhalt")
    BY <1>1, <1>2, <1>3, SweepAlone
  <1>5. ~Moves(Head(stack)) BY <1>1 DEF Moves, Sweeps
  <1>6. Ordered(Tail(stack)) BY <1>1, <1>2, <1>3, OrderedPop
  <1>7. Counted(Tail(stack), chan, owed) BY <1>1, <1>2, <1>3, <1>5, CountedPop
  <1>8. Ordered(<<>>) /\ Counted(<<>>, chan, owed) BY <1>4, <1>6, <1>7, Zenon
  <1> QED BY <1>1, <1>2, <1>3, <1>4, <1>8

(* A sweep on its own.                                                     *)
LEMMA SweepAlive ==
  ASSUME NEW ch, NEW ow, NEW f \in MdecFrames, f.op \in Sweeps, Ordered(<<>>), Counted(<<>>, ch, ow)
  PROVE  /\ Push(f, <<>>) \in Seq(MdecFrames) /\ Range(Push(f, <<>>)) = {f} /\ ~Moves(f)
         /\ Ordered(Push(f, <<>>)) /\ Counted(Push(f, <<>>), ch, ow) /\ Len(Push(f, <<>>)) = 1
         /\ Unhalting(Push(f, <<>>)) <=> f.op = "unhalt"
  <1>1. ~Moves(f) BY DEF Moves, Sweeps
  <1>2. <<>> \in Seq(MdecFrames) /\ Range(<<>>) = {} BY NoCall
  <1>3. Push(f, <<>>) \in Seq(MdecFrames) /\ Range(Push(f, <<>>)) = {f}
    <2>1. Push(f, <<>>) \in Seq(MdecFrames) /\ Range(Push(f, <<>>)) = {f} \cup Range(<<>>)
      BY <1>2, PushCall
    <2> QED BY <1>2, <2>1
  <1>4. Ordered(Push(f, <<>>)) BY <1>1, <1>2, OrderedPush
  <1>5. Counted(Push(f, <<>>), ch, ow) BY <1>1, <1>2, CountedPush
  <1>6. Len(Push(f, <<>>)) = 1
    <2>1. Len(Push(f, <<>>)) = Len(<<>>) + 1 BY <1>2, PushIndex
    <2> QED BY <2>1
  <1>7. Unhalting(Push(f, <<>>)) <=> f.op = "unhalt" BY <1>2, UnhaltingPush
  <1> QED BY <1>1, <1>3, <1>4, <1>5, <1>6, <1>7

(* A sweep starts a channel.                                               *)
LEMMA ExactSweepNext ==
  ASSUME IndM, NotNested, SweepNext
  PROVE  NotNested'
  <1> DEFINE f == Head(stack)
  <1>1. PICK c \in Waiting(f.ch) :
          /\ TopIs("unhalt") \/ TopIs("dpcr")
          /\ stack' = Call(chan, c, Push(Frame(f.op, c + 1, 0), Tail(stack)))
          /\ chan' = chan /\ owed' = owed /\ remaining' = remaining /\ unhalt_event' = unhalt_event
    BY Zenon DEF SweepNext
  <1>2. /\ Tail(stack) = <<>> /\ Ordered(<<>>) /\ Counted(<<>>, chan, owed) /\ f.op \in Sweeps
        /\ HaltsMatch(stack, remaining, unhalt_event)
        /\ Unhalting(stack) <=> f.op = "unhalt"
    BY <1>1, SweepFine
  <1>3. c \in Channel /\ CanTransfer(chan, c, FALSE) BY DEF Waiting
  <1>4. chan[c].mode = "request" BY <1>3, Zenon DEF NotNested, ByRequestOnly, CanTransfer
  <1> DEFINE g == Frame(f.op, c + 1, 0)
  <1>5. g \in MdecFrames /\ g.op = f.op
    <2>1. c + 1 \in Nat /\ 0 \in Int BY <1>3, DmaFacts
    <2>2. f.op \in {"first", "device", "unhalt", "dpcr"} BY <1>2 DEF Sweeps
    <2>3. LET h == Frame(f.op, c + 1, 0) IN h \in MdecFrames /\ h.op = f.op BY <2>1, <2>2, FrameIn
    <2> QED BY <2>3
  <1>6. stack' = Call(chan, c, Push(g, <<>>)) BY <1>1, <1>2, Zenon
  <1> HIDE DEF f, g
  <1> DEFINE s == Push(g, <<>>)
  <1>7. g.op \in Sweeps BY <1>2, <1>5
  <1>8. /\ s \in Seq(MdecFrames) /\ Range(s) = {g} /\ ~Moves(g) /\ Len(s) = 1
        /\ Ordered(s) /\ Counted(s, chan, owed) /\ (Unhalting(s) <=> g.op = "unhalt")
    BY <1>2, <1>5, <1>7, SweepAlive
  <1> HIDE DEF s
  <1>9. Unhalting(s) <=> Unhalting(stack) BY <1>2, <1>5, <1>8
  <1>10. HaltsMatch(s, remaining, unhalt_event) BY <1>2, <1>9, HaltsSame
  <1>11. Fine(s, chan, owed, remaining, unhalt_event) BY <1>8, <1>10, Zenon DEF Fine
  <1>12. chan \in [Channel -> Control] BY DEF IndM, InRange
  <1>13. \A h \in Range(s) : Moves(h) => h.ch # c BY <1>8
  <1>14. Fine(Call(chan, c, s), chan, owed, remaining, unhalt_event)
    BY <1>3, <1>4, <1>8, <1>11, <1>12, <1>13, FineCall
  <1>15. stack' = Call(chan, c, s) BY <1>6 DEF s
  <1>16. Fine(stack', chan', owed', remaining', unhalt_event') BY <1>1, <1>14, <1>15, Zenon
  <1> QED BY <1>1, <1>16, Zenon DEF NotNested

(* A sweep ends.                                                           *)
LEMMA ExactSweepEnd ==
  ASSUME IndM, NotNested, SweepEnd
  PROVE  NotNested'
  <1>1. /\ TopIs("unhalt") \/ TopIs("dpcr")
        /\ remaining' = IF TopIs("unhalt") THEN 0 ELSE remaining
        /\ stack' = Tail(stack)
        /\ chan' = chan /\ owed' = owed /\ unhalt_event' = unhalt_event
    BY Zenon DEF SweepEnd
  <1>2. /\ Tail(stack) = <<>> /\ Ordered(<<>>) /\ Counted(<<>>, chan, owed)
        /\ HaltsMatch(stack, remaining, unhalt_event)
        /\ Unhalting(stack) <=> Head(stack).op = "unhalt"
    BY <1>1, SweepFine
  <1>3. ~Unhalting(<<>>) BY DEF Unhalting
  <1>4. HaltsMatch(<<>>, remaining', unhalt_event)
    <2>1. CASE TopIs("unhalt")
      <3>1. Unhalting(stack) BY <1>2, <2>1 DEF TopIs
      <3>2. ~unhalt_event.active /\ unhalt_event.ticks = 0
        BY <1>2, <3>1, Zenon DEF HaltsMatch
      <3>3. remaining' = 0 BY <1>1, <2>1
      <3>4. unhalt_event \in [active : BOOLEAN, ticks : Int] BY <1>2 DEF HaltsMatch
      <3> QED BY <1>3, <3>2, <3>3, <3>4 DEF HaltsMatch
    <2>2. CASE ~TopIs("unhalt")
      <3>1. ~Unhalting(stack) BY <1>1, <1>2, <2>2 DEF TopIs
      <3>2. HaltsMatch(<<>>, remaining, unhalt_event) BY <1>2, <1>3, <3>1, HaltsSame
      <3>3. remaining' = remaining BY <1>1, <2>2
      <3> QED BY <3>2, <3>3, Zenon
    <2> QED BY <2>1, <2>2
  <1>5. stack' = <<>> BY <1>1, <1>2
  <1>6. Fine(stack', chan', owed', remaining', unhalt_event')
    BY <1>1, <1>2, <1>4, <1>5, Zenon DEF Fine
  <1> QED BY <1>1, <1>6, Zenon DEF NotNested

(* Every step of the DMA within a call.                                    *)
LEMMA ExactTransfer ==
  ASSUME IndM, IndE, abandoned = NothingUndone, mdec' = mdec, Transfer
  PROVE  IndE'
  <1>1. nested' = nested BY SameMdec
  <1> SUFFICES ASSUME ~nested PROVE NotNested' BY <1>1, Zenon DEF IndE
  <1>2. NotNested BY DEF IndE
  <1>3. CASE \E last \in BOOLEAN, slice \in Slices : Block(last, slice) BY <1>2, <1>3, ExactBlock
  <1> QED BY <1>2, <1>3, ExactBusError, ExactComplete, ExactRequestDropped, ExactSliceOver,
             ExactSweepNext, ExactSweepEnd, NoOtc, Zenon DEF Transfer

-----------------------------------------------------------------------------
(* Between calls                                                         *)

(* Between calls every register says what is left.                         *)
LEMMA CountsAtRest ==
  ASSUME NEW ch, NEW ow
  PROVE  Counted(<<>>, ch, ow) <=> \A d \in Channel : Count(ch[d].blocks) = ow[d]
  <1>1. Range(<<>>) = {} BY NoCall
  <1>2. \A f \in Range(<<>>) : FALSE BY <1>1
  <1> QED BY <1>2, Zenon DEF Counted

(* Between calls.                                                          *)
LEMMA ExactAtRest ==
  ASSUME NotNested, Resting
  PROVE  /\ stack = <<>> /\ Ordered(<<>>) /\ Counted(<<>>, chan, owed)
         /\ \A d \in Channel : Count(chan[d].blocks) = owed[d]
         /\ HaltsMatch(<<>>, remaining, unhalt_event) /\ ~Unhalting(<<>>)
         /\ Fine(<<>>, chan, owed, remaining, unhalt_event)
         /\ owed \in [Channel -> Int] /\ ByRequestOnly(chan)
  <1>1. stack = <<>> BY DEF Resting
  <1>2. Fine(<<>>, chan, owed, remaining, unhalt_event) BY <1>1, Zenon DEF NotNested
  <1>3. ~Unhalting(<<>>) BY DEF Unhalting
  <1>4. Ordered(<<>>) /\ Counted(<<>>, chan, owed) /\ HaltsMatch(<<>>, remaining, unhalt_event)
    BY <1>2, Zenon DEF Fine
  <1>5. \A d \in Channel : Count(chan[d].blocks) = owed[d] BY <1>4, CountsAtRest
  <1> QED BY <1>1, <1>2, <1>3, <1>4, <1>5, Zenon DEF NotNested

(* The decoder is called by the program or its event.                      *)
LEMMA ExactCalled ==
  ASSUME IndM, IndE, Resting, SameDma, NEW f \in {Execute, Status}, stack' = <<f>>
  PROVE  IndE'
  <1>1. stack' = Push(f, <<>>) BY DEF Push
  <1>2. <<>> \in Seq(MdecFrames) BY NoCall
  <1>3. ~nested => Fine(<<>>, chan, owed, remaining, unhalt_event) BY ExactAtRest, Zenon DEF IndE
  <1> QED BY <1>1, <1>2, <1>3, ExactDecoder

(* The registers of the decoder that leave the DMA alone, and its event.   *)
LEMMA ExactData ==
  ASSUME IndM, IndE, WriteData \/ ReadData \/ CopyOut
  PROVE  IndE'
  <1>1. Resting /\ SameDma BY Zenon DEF WriteData, ReadData, CopyOut, CopyOutBlock
  <1>2. stack' = <<>> \/ stack' = <<Execute>> \/ stack' = <<Status>>
    BY Zenon DEF WriteData, ReadData, CopyOut, CopyOutBlock
  <1>3. Execute \in {Execute, Status} /\ Status \in {Execute, Status} OBVIOUS
  <1>4. CASE stack' = <<>>
    <2>1. /\ chan' = chan /\ owed' = owed /\ remaining' = remaining
          /\ unhalt_event' = unhalt_event /\ nested' = nested
      BY <1>1, Zenon DEF SameDma, dmaRest
    <2>2. stack' = stack BY <1>1, <1>4, Zenon DEF Resting
    <2> QED BY <2>1, <2>2, Zenon DEF IndE, NotNested
  <1> QED BY <1>1, <1>2, <1>3, <1>4, ExactCalled, Zenon

(* The control register changes requests only.                             *)
LEMMA ControlKeeps ==
  ASSUME chan \in [Channel -> Control], NEW reset, NEW in, NEW out, WriteControl(reset, in, out)
  PROVE  \A c \in Channel : /\ chan'[c].busy = chan[c].busy /\ chan'[c].mode = chan[c].mode
                            /\ chan'[c].blocks = chan[c].blocks
  <1> DEFINE half == [chan EXCEPT ![In].request = FALSE]
             ch == [half EXCEPT ![Out].request = FALSE]
  <1>2. CASE reset
    <2>1. /\ half \in [Channel -> Control] /\ half[In].busy = chan[In].busy
          /\ half[In].mode = chan[In].mode /\ half[In].blocks = chan[In].blocks
          /\ \A d \in Channel : d # In => half[d] = chan[d]
      BY MdecFacts, SetRequestBit
    <2>2. chan' = ch BY <1>2, Zenon DEF WriteControl
    <2> HIDE DEF half
    <2>3. /\ ch[Out].busy = half[Out].busy /\ ch[Out].mode = half[Out].mode
          /\ ch[Out].blocks = half[Out].blocks
          /\ \A d \in Channel : d # Out => ch[d] = half[d]
      BY <2>1, MdecFacts, SetRequestBit
    <2> HIDE DEF ch
    <2> QED BY <2>1, <2>2, <2>3, MdecFacts, Zenon
  <1>3. CASE ~reset BY <1>3, Zenon DEF WriteControl
  <1> QED BY <1>2, <1>3

(* The control register.                                                   *)
LEMMA ExactControl ==
  ASSUME chan \in [Channel -> Control], IndE, NEW reset, NEW in, NEW out, WriteControl(reset, in, out)
  PROVE  IndE'
  <1>1. /\ Resting /\ nested' = nested /\ stack' = <<Execute>> /\ owed' = owed
        /\ remaining' = remaining /\ unhalt_event' = unhalt_event
    BY Zenon DEF WriteControl, dmaRest
  <1> SUFFICES ASSUME ~nested PROVE NotNested' BY <1>1, Zenon DEF IndE
  <1>2. /\ Ordered(<<>>) /\ Counted(<<>>, chan, owed) /\ owed \in [Channel -> Int]
        /\ HaltsMatch(<<>>, remaining, unhalt_event) /\ ByRequestOnly(chan)
    BY <1>1, ExactAtRest, Zenon DEF IndE
  <1>3. \A c \in Channel : /\ chan'[c].busy = chan[c].busy /\ chan'[c].mode = chan[c].mode
                           /\ chan'[c].blocks = chan[c].blocks
    BY ControlKeeps
  <1>4. Counted(<<>>, chan', owed) BY <1>2, <1>3, CountsSame
  <1>5. Fine(<<>>, chan', owed, remaining, unhalt_event) BY <1>2, <1>4, Zenon DEF Fine
  <1>6. Execute \in {Execute, Status, StatusOut} OBVIOUS
  <1>7. Execute \in MdecFrames /\ ~Moves(Execute) /\ Execute.op \notin Sweeps
    BY <1>6, DecoderFrames
  <1>8. Fine(Push(Execute, <<>>), chan', owed, remaining, unhalt_event)
    BY <1>5, <1>7, NoCall, FinePush
  <1>9. stack' = Push(Execute, <<>>) BY <1>1 DEF Push
  <1>10. Fine(stack', chan', owed', remaining', unhalt_event') BY <1>1, <1>8, <1>9, Zenon
  <1>11. owed' \in [Channel -> Int] /\ ByRequestOnly(chan')
    BY <1>1, <1>2, <1>3, Zenon DEF ByRequestOnly
  <1> QED BY <1>10, <1>11, Zenon DEF NotNested

(* A sweep starts.                                                         *)
LEMMA ExactSweepStarts ==
  ASSUME NotNested, Resting, chan' = chan, owed' = owed, NEW op \in Sweeps,
         stack' = <<Frame(op, 0, 0)>>,
         \A s : (Unhalting(s) <=> op = "unhalt") => HaltsMatch(s, remaining', unhalt_event')
  PROVE  NotNested'
  <1> DEFINE f == Frame(op, 0, 0)
  <1>1. op \in {"first", "device", "unhalt", "dpcr"} /\ 0 \in Nat /\ 0 \in Int
    BY DEF Sweeps
  <1>2. f \in MdecFrames /\ f.op = op BY <1>1, FrameIn
  <1>3. stack' = Push(f, <<>>) BY DEF Push
  <1> HIDE DEF f
  <1>4. Ordered(<<>>) /\ Counted(<<>>, chan, owed) /\ owed \in [Channel -> Int] /\ ByRequestOnly(chan)
    BY ExactAtRest
  <1>5. /\ Ordered(Push(f, <<>>)) /\ Counted(Push(f, <<>>), chan, owed)
        /\ Unhalting(Push(f, <<>>)) <=> f.op = "unhalt"
    BY <1>2, <1>4, SweepAlive
  <1>6. HaltsMatch(Push(f, <<>>), remaining', unhalt_event') BY <1>2, <1>5
  <1>7. Fine(stack', chan', owed', remaining', unhalt_event')
    BY <1>3, <1>5, <1>6, Zenon DEF Fine
  <1> QED BY <1>4, <1>7, Zenon DEF NotNested

(* The end of a halt: the ticks of later halts are left for the sweep.     *)
LEMMA ExactUnhalt ==
  ASSUME IndM, IndE, Unhalt, mdec' = mdec
  PROVE  IndE'
  <1>1. /\ Resting /\ chan' = chan /\ owed' = owed /\ unhalt_event' = NoEvent
        /\ remaining' = remaining - unhalt_event.ticks /\ stack' = <<Frame("unhalt", 0, 0)>>
    BY Zenon DEF Unhalt
  <1>2. nested' = nested BY SameMdec
  <1> SUFFICES ASSUME ~nested PROVE NotNested' BY <1>2, Zenon DEF IndE
  <1>3. NotNested BY DEF IndE
  <1>4. HaltsMatch(<<>>, remaining, unhalt_event) /\ ~Unhalting(<<>>) BY <1>1, <1>3, ExactAtRest
  <1>5. remaining' \in Nat
    <2>1. remaining \in Nat /\ unhalt_event.ticks \in Int /\ unhalt_event.ticks <= remaining
      BY <1>4 DEF HaltsMatch
    <2> QED BY <1>1, <2>1
  <1>6. \A s : (Unhalting(s) <=> "unhalt" = "unhalt") => HaltsMatch(s, remaining', unhalt_event')
    <2> SUFFICES ASSUME NEW s, Unhalting(s) PROVE HaltsMatch(s, remaining', unhalt_event') OBVIOUS
    <2> QED BY <1>1, <1>5, IdleFacts DEF HaltsMatch
  <1>7. "unhalt" \in Sweeps BY DEF Sweeps
  <1> QED BY <1>1, <1>3, <1>6, <1>7, ExactSweepStarts

(* The channels are enabled.                                               *)
LEMMA ExactDpcr ==
  ASSUME IndM, IndE, WriteDpcr(Channel), mdec' = mdec
  PROVE  IndE'
  <1>1. /\ Resting /\ chan' = chan /\ owed' = owed /\ unhalt_event' = unhalt_event
        /\ remaining' = remaining /\ stack' = <<Frame("dpcr", 0, 0)>>
    BY Zenon DEF WriteDpcr
  <1>2. nested' = nested BY SameMdec
  <1> SUFFICES ASSUME ~nested PROVE NotNested' BY <1>2, Zenon DEF IndE
  <1>3. NotNested BY DEF IndE
  <1>4. HaltsMatch(<<>>, remaining, unhalt_event) /\ ~Unhalting(<<>>) BY <1>1, <1>3, ExactAtRest
  <1>5. \A s : (Unhalting(s) <=> "dpcr" = "unhalt") => HaltsMatch(s, remaining', unhalt_event')
    <2> SUFFICES ASSUME NEW s, ~Unhalting(s) PROVE HaltsMatch(s, remaining', unhalt_event') OBVIOUS
    <2>1. HaltsMatch(s, remaining, unhalt_event) BY <1>4, HaltsSame
    <2> QED BY <1>1, <2>1, Zenon
  <1>6. "dpcr" \in Sweeps BY DEF Sweeps
  <1> QED BY <1>1, <1>3, <1>5, <1>6, ExactSweepStarts

-----------------------------------------------------------------------------
(* Exact counts and halts                                                *)

(* A channel is started.                                                   *)
LEMMA ExactStartChannel ==
  ASSUME IndM, IndE, NEW c \in {In, Out}, ~chan[c].busy,
         WriteChannelControl(c, TRUE, "request", 0, FALSE), mdec' = mdec
  PROVE  IndE'
  <1> DEFINE c1 == [chan EXCEPT ![c].busy = TRUE]
             ch == [c1 EXCEPT ![c].mode = "request"]
             starts == CanTransfer(ch, c, ~chan[c].busy /\ TRUE)
             chopped == "request" = "manual" /\ 0 > 1
  <1>1. /\ Resting /\ chan' = ch /\ owed' = owed
        /\ stack' = IF starts THEN Call(ch, c, stack) ELSE stack
        /\ remaining' = remaining /\ unhalt_event' = unhalt_event
    <2>1. /\ Resting /\ chan' = ch /\ owed' = owed
          /\ stack' = IF starts /\ ~chopped THEN Call(ch, c, stack) ELSE stack
          /\ IF starts /\ chopped THEN HaltTransfer(0)
             ELSE NoteStart /\ remaining' = remaining /\ unhalt_event' = unhalt_event
      BY Zenon DEF WriteChannelControl
    <2>2. ~chopped OBVIOUS
    <2> HIDE DEF chopped, starts, ch
    <2> QED BY <2>1, <2>2, Zenon
  <1>2. nested' = nested BY SameMdec
  <1> SUFFICES ASSUME ~nested PROVE NotNested' BY <1>2, Zenon DEF IndE
  <1>3. /\ stack = <<>> /\ Ordered(<<>>) /\ \A d \in Channel : Count(chan[d].blocks) = owed[d]
        /\ HaltsMatch(<<>>, remaining, unhalt_event) /\ ~Unhalting(<<>>)
        /\ owed \in [Channel -> Int] /\ ByRequestOnly(chan)
    BY <1>1, ExactAtRest, Zenon DEF IndE
  <1>4. chan \in [Channel -> Control] /\ c \in Channel BY <1>1, BetweenCalls, MdecFacts
  <1>5. /\ c1 \in [Channel -> Control] /\ c1[c].blocks = chan[c].blocks
        /\ \A d \in Channel : d # c => c1[d] = chan[d]
    BY <1>4, SetBusy
  <1> HIDE DEF c1
  <1>6. /\ ch \in [Channel -> Control] /\ ch[c].blocks = c1[c].blocks
        /\ ch[c].mode = "request" /\ \A d \in Channel : d # c => ch[d] = c1[d]
    <2>1. "request" \in Modes BY DEF Modes
    <2> QED BY <1>4, <1>5, <2>1, SetMode
  <1> HIDE DEF ch, starts
  <1>7. \A d \in Channel : /\ ch[d].blocks = chan[d].blocks
                           /\ d # c => ch[d] = chan[d]
    BY <1>5, <1>6, Zenon
  <1>8. \A d \in Channel : Count(ch[d].blocks) = owed[d] BY <1>3, <1>7, Zenon
  <1>9. Counted(<<>>, ch, owed) BY <1>8, CountsAtRest
  <1>10. Fine(<<>>, ch, owed, remaining, unhalt_event) BY <1>3, <1>9, Zenon DEF Fine
  <1>11. <<>> \in Seq(MdecFrames) /\ \A g \in Range(<<>>) : Moves(g) => g.ch # c BY NoCall
  <1>12. Fine(Call(ch, c, <<>>), ch, owed, remaining, unhalt_event)
    BY <1>3, <1>4, <1>6, <1>10, <1>11, FineCall
  <1>13. Fine(stack', chan', owed', remaining', unhalt_event')
    BY <1>1, <1>3, <1>10, <1>12, Zenon
  <1>14. ByRequestOnly(ch)
    <2> SUFFICES ASSUME NEW d \in Channel, ch[d].busy PROVE ch[d].mode = "request"
      BY DEF ByRequestOnly
    <2>1. CASE d = c BY <1>6, <2>1
    <2>2. CASE d # c
      <3>1. ch[d] = chan[d] BY <1>7, <2>2
      <3>2. chan[d].busy BY <3>1
      <3> QED BY <1>3, <3>1, <3>2, Zenon DEF ByRequestOnly
    <2> QED BY <2>1, <2>2
  <1>15. owed' \in [Channel -> Int] /\ ByRequestOnly(chan') BY <1>1, <1>3, <1>14, Zenon
  <1> QED BY <1>13, <1>15, Zenon DEF NotNested

(* Everything idle: as at the start and after a reset.                     *)
LEMMA IdleExact ==
  ASSUME stack = <<>>, chan = [c \in Channel |-> Idle], owed = [c \in Channel |-> Full],
         remaining = 0, unhalt_event = NoEvent
  PROVE  IndE
  <1>1. \A d \in Channel : chan[d] = Idle /\ owed[d] = Full OBVIOUS
  <1>2. Idle.busy = FALSE /\ Count(Idle.blocks) = Full BY IdleFacts
  <1>3. \A d \in Channel : Count(chan[d].blocks) = owed[d] BY <1>1, <1>2, Zenon
  <1>4. Counted(<<>>, chan, owed) BY <1>3, CountsAtRest
  <1>5. ~Unhalting(<<>>) BY DEF Unhalting
  <1>6. Ordered(<<>>)
    <2>1. \A i \in 1..Len(<<>>) : FALSE OBVIOUS
    <2> QED BY <1>5, <2>1, Zenon DEF Ordered
  <1>7. HaltsMatch(<<>>, remaining, unhalt_event) BY <1>5, IdleFacts DEF HaltsMatch
  <1>8. Fine(stack, chan, owed, remaining, unhalt_event) BY <1>4, <1>6, <1>7, Zenon DEF Fine
  <1>9. owed \in [Channel -> Int] BY IdleFacts
  <1>10. ByRequestOnly(chan) BY <1>1, <1>2, Zenon DEF ByRequestOnly
  <1> QED BY <1>8, <1>9, <1>10, Zenon DEF IndE, NotNested

(* It holds at the start.                                                  *)
LEMMA ExactInit == InitM => IndE
  <1> SUFFICES ASSUME InitM PROVE IndE OBVIOUS
  <1>1. /\ stack = <<>> /\ chan = [c \in Channel |-> Idle] /\ owed = [c \in Channel |-> Full]
        /\ remaining = 0 /\ unhalt_event = NoEvent
    BY Zenon DEF InitM, Init
  <1> QED BY <1>1, IdleExact

(* The machine is reset.                                                   *)
LEMMA ExactReset ==
  ASSUME ResetM
  PROVE  IndE'
  <1>1. /\ stack' = <<>> /\ chan' = [c \in Channel |-> Idle] /\ owed' = [c \in Channel |-> Full]
        /\ remaining' = 0 /\ unhalt_event' = NoEvent
    BY Zenon DEF ResetM, Reset, Resting
  <1>2. (/\ stack = <<>> /\ chan = [c \in Channel |-> Idle] /\ owed = [c \in Channel |-> Full]
         /\ remaining = 0 /\ unhalt_event = NoEvent
         => IndE)'
    BY IdleExact, PTL
  <1> QED BY <1>1, <1>2

(* Nothing changes.                                                        *)
LEMMA ExactStutter ==
  ASSUME IndE, UNCHANGED allVars
  PROVE  IndE'
  <1>1. /\ chan' = chan /\ stack' = stack /\ owed' = owed /\ remaining' = remaining
        /\ unhalt_event' = unhalt_event /\ nested' = nested
    BY Zenon DEF allVars, vars, mdec
  <1>2. NotNested' <=> NotNested BY <1>1, Zenon DEF NotNested
  <1> QED BY <1>1, <1>2, Zenon DEF IndE

(* Every step of a stream keeps counts and halts exact.                    *)
LEMMA ExactInductive == StreamOk /\ IndE /\ [NextM]_allVars => IndE'
  <1> SUFFICES ASSUME StreamOk, IndE, [NextM]_allVars PROVE IndE' OBVIOUS
  <1>1. CASE ~misused
    <2>1. IndM /\ abandoned = NothingUndone BY <1>1, Zenon DEF StreamOk
    <2>2. CASE Transfer /\ UNCHANGED mdec BY <2>1, <2>2, ExactTransfer
    <2>3. CASE Decoder
      BY <2>1, <2>3, ExactStatusIn, ExactStatusOut, ExactDevice, ExactExecute, Zenon DEF Decoder
    <2>4. CASE CopyOut BY <2>1, <2>4, ExactData
    <2>5. CASE UnhaltM BY <2>1, <2>5, ExactUnhalt, Zenon DEF UnhaltM
    <2>6. CASE StartM
      BY <2>1, <2>6, ExactStartChannel, ExactDpcr, Zenon DEF StartM, StartChannels
    <2>7. CASE MdecProgram
      <3>1. chan \in [Channel -> Control] BY <2>1, Zenon DEF IndM, InRange
      <3> QED BY <2>1, <2>7, <3>1, ExactData, ExactControl, Zenon DEF MdecProgram
    <2>8. CASE ResetM BY <2>8, ExactReset
    <2>9. CASE UNCHANGED allVars BY <2>9, ExactStutter
    <2> QED BY <2>2, <2>3, <2>4, <2>5, <2>6, <2>7, <2>8, <2>9, Zenon DEF NextM, Calls
  <1>2. CASE misused
    <2>1. stack = <<>> /\ chan \in [Channel -> Control] BY <1>2, Zenon DEF StreamOk, Kept
    <2>2. CASE NextM
      <3>1. CASE ResetM BY <3>1, ExactReset
      <3>2. ASSUME NEW in \in BOOLEAN, NEW out \in BOOLEAN, WriteControl(TRUE, in, out)
            PROVE  IndE'
        BY <2>1, <3>2, ExactControl
      <3> QED BY <1>2, <2>1, <2>2, <3>1, <3>2, OnlyReset
    <2>3. CASE UNCHANGED allVars BY <2>3, ExactStutter
    <2> QED BY <2>2, <2>3
  <1> QED BY <1>1, <1>2

(* What it says while nothing is in progress.                              *)
LEMMA Exactly == IndE => ExactUnlessNested
  <1> SUFFICES ASSUME IndE, ~nested PROVE HaltMatchesEvent /\ BlocksAreExact
    BY Zenon DEF ExactUnlessNested
  <1>1. NotNested BY DEF IndE
  <1>2. Resting => /\ (remaining > 0 <=> Halted) /\ unhalt_event.ticks <= remaining
                   /\ \A c \in Channel : Count(chan[c].blocks) = owed[c]
    BY <1>1, ExactAtRest, Zenon DEF HaltsMatch, Halted
  <1> QED BY <1>2, Zenon DEF HaltMatchesEvent, BlocksAreExact

(* The block counts in the registers and the ticks of the halts stay exact *)
(* however transfers of MDECin and MDECout nest in each other, whoever     *)
(* stops them, with two exceptions: a transfer that starts again within    *)
(* itself, and one that is stopped within the sweep of an unhalt event     *)
(* without having been started by it (dma_transfer_channel,                *)
(* dma_unhalt_transfer, mdec_update_status).                               *)
THEOREM StreamsAreExact == SpecM => []ExactUnlessNested
  <1>1. StreamOk /\ IndE /\ [NextM]_allVars => (StreamOk /\ IndE)'
    BY StreamInductive, ExactInductive
  <1>2. InitM => StreamOk /\ IndE BY StreamInit, ExactInit
  <1> QED BY <1>1, <1>2, Exactly, PTL DEF SpecM
=============================================================================
