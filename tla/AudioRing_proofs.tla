-------------------------- MODULE AudioRing_proofs --------------------------
(***************************************************************************)
(* Proofs about the ring buffer between the emulator and the sound device, *)
(* for any chunk, any sizes of the buffer and any requests of the device.  *)
(***************************************************************************)
EXTENDS AudioRing, SequenceTheorems, TLAPS

-----------------------------------------------------------------------------
(* Arithmetic of positions.                                                *)

(* get_buffered_frames without the remainder.                              *)
LEMMA BufferedIs ==
  ASSUME NEW s \in Nat \ {0}, NEW r \in 0..(s - 1), NEW w \in 0..(s - 1)
  PROVE  /\ (w + s - r) % s = IF w >= r THEN w - r ELSE w - r + s
         /\ (w + s - r) % s \in 0..(s - 1)
<1>1. w + s - r \in 0..(2 * s - 1)
  OBVIOUS
<1> QED
  BY <1>1

(* Moving the reader by no more than what is buffered.                     *)
LEMMA ReaderMoves ==
  ASSUME NEW s \in Nat \ {0}, NEW r \in 0..(s - 1), NEW w \in 0..(s - 1),
         NEW n \in 0..((w + s - r) % s)
  PROVE  /\ (r + n) % s \in 0..(s - 1)
         /\ (w + s - ((r + n) % s)) % s = ((w + s - r) % s) - n
<1> DEFINE b == (w + s - r) % s
           q == (r + n) % s
<1>1. b = (IF w >= r THEN w - r ELSE w - r + s) /\ b \in 0..(s - 1)
  BY BufferedIs
<1>2. r + n \in 0..(2 * s - 1)
  BY <1>1
<1>3. q = IF r + n < s THEN r + n ELSE r + n - s
  BY <1>2
<1>4. q \in 0..(s - 1)
  BY <1>2, <1>3
<1>5. (w + s - q) % s = IF w >= q THEN w - q ELSE w - q + s
  <2> HIDE DEF q
  <2> QED
    BY <1>4, BufferedIs
<1> QED
  BY <1>1, <1>3, <1>4, <1>5

(* Moving the writer by less than what is free.                            *)
LEMMA WriterMoves ==
  ASSUME NEW s \in Nat \ {0}, NEW r \in 0..(s - 1), NEW w \in 0..(s - 1),
         NEW n \in Nat, n < s - ((w + s - r) % s)
  PROVE  /\ (w + n) % s \in 0..(s - 1)
         /\ (((w + n) % s) + s - r) % s = ((w + s - r) % s) + n
<1> DEFINE b == (w + s - r) % s
           q == (w + n) % s
<1>1. b = (IF w >= r THEN w - r ELSE w - r + s) /\ b \in 0..(s - 1)
  BY BufferedIs
<1>2. w + n \in 0..(2 * s - 1)
  BY <1>1
<1>3. q = IF w + n < s THEN w + n ELSE w + n - s
  BY <1>2
<1>4. q \in 0..(s - 1)
  BY <1>2, <1>3
<1>5. (q + s - r) % s = IF q >= r THEN q - r ELSE q - r + s
  <2> HIDE DEF q
  <2> QED
    BY <1>4, BufferedIs
<1> QED
  BY <1>1, <1>3, <1>4, <1>5

(* The two positions, from each other.                                     *)
LEMMA BufferedBetween ==
  ASSUME NEW s \in Nat \ {0}, NEW r \in 0..(s - 1), NEW w \in 0..(s - 1)
  PROVE  /\ (r + ((w + s - r) % s)) % s = w
         /\ w = r => (w + s - r) % s = 0
<1> DEFINE b == (w + s - r) % s
<1>1. b = (IF w >= r THEN w - r ELSE w - r + s) /\ b \in 0..(s - 1)
  BY BufferedIs
<1> HIDE DEF b
<1>2. (r + b) % s = IF r + b < s THEN r + b ELSE r + b - s
  BY <1>1
<1> QED
  BY <1>1, <1>2 DEF b

-----------------------------------------------------------------------------
(* The invariant.                                                          *)

(* What either thread has found out stays inside the ring.                 *)
Progress ==
  /\ next \in 0..(Frames - 1) /\ raced \in BOOLEAN
  /\ prod \in [pc : {"idle", "copy", "drop", "snap"}, at : 0..(size - 1), n : 0..Chunk]
  /\ cons \in [pc : {"idle", "found", "copy"}, at : 0..(size - 1), n : 0..(size - 1)]
  /\ prod.pc = "idle" => prod = Idle
  /\ cons.pc = "idle" => cons = Idle
  /\ prod.pc \in {"copy", "drop"} => prod.n >= 1
  /\ cons.pc # "idle" => cons.n >= 1

(* Unless they raced, what each thread has found out still holds: the      *)
(* other has only given it more frames or more room.                       *)
Claims ==
  /\ prod.pc = "copy" => prod.at = wpos /\ prod.n < size - Buffered
  /\ prod.pc = "drop" => prod.at = rpos
  /\ prod.pc = "snap" => prod.at = rpos
  /\ cons.pc # "idle" => cons.n <= Buffered
  /\ cons.pc = "copy" => cons.at = rpos

IndInv == TypeOK /\ Progress /\ (~raced => Claims)

(* The buffer holds at least one frame.                                    *)
LEMMA SizeBounds ==
  ASSUME NEW s \in Sizes
  PROVE  s \in Nat \ {0} /\ Chunk \in Nat \ {0}
BY SizeAssumption

LEMMA InitIndInv == Init => IndInv
<1> SUFFICES ASSUME Init PROVE IndInv
  OBVIOUS
<1>1. size \in Nat \ {0} /\ Chunk \in Nat \ {0} /\ Frames \in Nat \ {0}
  BY SizeBounds, BoundAssumption DEF Init
<1>2. buf \in [0..(size - 1) -> 0..(Frames - 1)]
  BY <1>1 DEF Init
<1> QED
  BY <1>1, <1>2 DEF Init, Idle, IndInv, TypeOK, Progress, Claims

(* Each thread's copy stays within what it found, so the copies are apart. *)
LEMMA ClaimsApart == IndInv => RingIsShared
<1> SUFFICES ASSUME IndInv, ~raced, prod.pc = "copy", cons.pc \in {"found", "copy"},
                    NEW c \in Cells(prod.at, prod.n),
                    c \in Cells(IF cons.pc = "copy" THEN cons.at ELSE rpos, cons.n)
             PROVE  FALSE
  BY DEF IndInv, RingIsShared, CopiesApart
<1>1. /\ size \in Nat \ {0} /\ rpos \in 0..(size - 1) /\ wpos \in 0..(size - 1)
      /\ prod.n \in Nat /\ cons.n \in Nat
  BY SizeBounds DEF IndInv, TypeOK
<1>2. /\ prod.at = wpos /\ prod.n < size - Buffered /\ cons.n <= Buffered
      /\ (IF cons.pc = "copy" THEN cons.at ELSE rpos) = rpos
  BY DEF IndInv, Claims
<1>3. PICK i \in 0..(prod.n - 1) : c = (wpos + i) % size
  BY <1>2 DEF Cells
<1>4. PICK j \in 0..(cons.n - 1) : c = (rpos + j) % size
  BY <1>2 DEF Cells
<1>5. /\ Buffered = IF wpos >= rpos THEN wpos - rpos ELSE wpos - rpos + size
      /\ Buffered \in 0..(size - 1)
  BY <1>1, BufferedIs DEF Buffered
<1>6. wpos + i \in 0..(2 * size - 1) /\ rpos + j \in 0..(2 * size - 1)
  BY <1>1, <1>2, <1>5
<1>7. c = IF wpos + i < size THEN wpos + i ELSE wpos + i - size
  BY <1>1, <1>3, <1>6
<1>8. c = IF rpos + j < size THEN rpos + j ELSE rpos + j - size
  BY <1>1, <1>4, <1>6
<1> QED
  BY <1>1, <1>2, <1>5, <1>7, <1>8

-----------------------------------------------------------------------------
(* Each step keeps it.                                                     *)

(* What the ring's type says, with the sizes.                              *)
LEMMA RingFacts ==
  ASSUME IndInv
  PROVE  /\ size \in Nat \ {0} /\ Chunk \in Nat \ {0}
         /\ rpos \in 0..(size - 1) /\ wpos \in 0..(size - 1)
         /\ Buffered \in 0..(size - 1) /\ Idle \in [pc : {"idle"}, at : 0..(size - 1), n : 0..0]
         /\ Idle.pc = "idle" /\ Idle.at = 0 /\ Idle.n = 0
<1>1. /\ size \in Nat \ {0} /\ Chunk \in Nat \ {0}
      /\ rpos \in 0..(size - 1) /\ wpos \in 0..(size - 1)
  BY SizeBounds DEF IndInv, TypeOK
<1>2. Buffered \in 0..(size - 1)
  BY <1>1, BufferedIs DEF Buffered
<1> QED
  BY <1>1, <1>2 DEF Idle

(* A step that moves no position and allocates nothing.                    *)
LEMMA RingKept ==
  ASSUME IndInv, UNCHANGED ring,
         filling' \in BOOLEAN, paused' \in BOOLEAN, time' \in BOOLEAN, Progress',
         ~raced' => Claims'
  PROVE  IndInv'
<1>1. prod' \in [pc : {"idle", "copy", "drop", "snap"}, at : 0..(size - 1), n : 0..Chunk]
  BY DEF Progress, ring
<1>2. cons' \in [pc : {"idle", "found", "copy"}, at : 0..(size - 1), n : 0..(size - 1)]
  BY DEF Progress, ring
<1> QED
  BY <1>1, <1>2 DEF IndInv, TypeOK, ring

LEMMA BeginReadStep ==
  ASSUME IndInv, NEW n \in Requests, BeginRead(n) PROVE IndInv'
<1>1. /\ UNCHANGED ring /\ UNCHANGED <<time, paused, prod, next, raced>>
      /\ size' = size /\ rpos' = rpos /\ wpos' = wpos
      /\ filling' \in BOOLEAN
  BY DEF BeginRead, ring
<1>2. Buffered \in 0..(size - 1) /\ size \in Nat \ {0} /\ n \in Nat \ {0} /\ Buffered' = Buffered
  BY RingFacts, SizeAssumption, <1>1 DEF Buffered
<1>3. Answer(n) \in 0..Buffered
  BY <1>2 DEF Answer, Least
<1>4. cons' = Idle \/ (cons'.pc = "found" /\ cons'.at = 0 /\ cons'.n = Answer(n) /\ Answer(n) # 0
                        /\ cons' = [pc |-> "found", at |-> 0, n |-> Answer(n)])
  BY DEF BeginRead
<1>5. /\ cons' \in [pc : {"idle", "found", "copy"}, at : 0..(size - 1), n : 0..(size - 1)]
      /\ cons'.pc = "idle" => cons' = Idle
      /\ cons'.pc # "idle" => cons'.n >= 1 /\ cons'.n <= Buffered
      /\ cons'.pc # "copy"
  BY <1>2, <1>3, <1>4 DEF Idle
<1>6. Progress'
  BY <1>1, <1>5 DEF IndInv, Progress
<1>7. ~raced' => Claims'
  BY <1>1, <1>2, <1>5 DEF IndInv, Claims
<1> QED
  BY <1>1, <1>6, <1>7, RingKept DEF IndInv, TypeOK

LEMMA LoadRposStep ==
  ASSUME IndInv, LoadRpos PROVE IndInv'
<1>1. /\ UNCHANGED ring /\ UNCHANGED <<time, filling, paused, prod, next, raced>>
      /\ size' = size /\ rpos' = rpos /\ wpos' = wpos /\ Buffered' = Buffered
      /\ cons.pc = "found" /\ cons' = [cons EXCEPT !.pc = "copy", !.at = rpos]
  BY DEF LoadRpos, ring, Buffered
<1>2. rpos \in 0..(size - 1)
  BY RingFacts
<1>3. /\ cons' \in [pc : {"idle", "found", "copy"}, at : 0..(size - 1), n : 0..(size - 1)]
      /\ cons'.pc = "copy" /\ cons'.at = rpos /\ cons'.n = cons.n
  BY <1>1, <1>2 DEF IndInv, Progress
<1>4. Progress'
  BY <1>1, <1>3 DEF IndInv, Progress
<1>5. ~raced' => Claims'
  BY <1>1, <1>3 DEF IndInv, Claims
<1> QED
  BY <1>1, <1>4, <1>5, RingKept DEF IndInv, TypeOK

LEMMA BeginWriteStep ==
  ASSUME IndInv, NEW n \in 1..Chunk, BeginWrite(n) PROVE IndInv'
<1>1. /\ UNCHANGED ring /\ UNCHANGED <<time, filling, paused, cons, next, raced>>
      /\ size' = size /\ rpos' = rpos /\ wpos' = wpos /\ Buffered' = Buffered
  BY DEF BeginWrite, ring, Buffered
<1>2. /\ rpos \in 0..(size - 1) /\ wpos \in 0..(size - 1) /\ Buffered \in 0..(size - 1)
      /\ size \in Nat \ {0} /\ Chunk \in Nat \ {0}
  BY RingFacts
<1>3. \/ n < size - Buffered /\ prod' = [pc |-> "copy", at |-> wpos, n |-> n]
      \/ prod' = [pc |-> "drop", at |-> rpos, n |-> n]
  BY <1>2 DEF BeginWrite, Fits
<1>4. /\ prod' \in [pc : {"idle", "copy", "drop", "snap"}, at : 0..(size - 1), n : 0..Chunk]
      /\ prod'.pc \in {"copy", "drop"} /\ prod'.n >= 1
      /\ prod'.pc = "copy" => prod'.at = wpos /\ prod'.n < size - Buffered
      /\ prod'.pc = "drop" => prod'.at = rpos
  BY <1>2, <1>3
<1>5. Progress'
  BY <1>1, <1>4 DEF IndInv, Progress
<1>6. ~raced' => Claims'
  BY <1>1, <1>4 DEF IndInv, Claims
<1> QED
  BY <1>1, <1>5, <1>6, RingKept DEF IndInv, TypeOK

(* The emulator's thread between two chunks.                               *)
LEMMA ControlStep ==
  ASSUME IndInv, BeginEmpty \/ Pause \/ Resume \/ ChangeStretch \/ UNCHANGED vars PROVE IndInv'
<1>1. /\ UNCHANGED ring /\ UNCHANGED <<cons, next, raced>>
      /\ size' = size /\ rpos' = rpos /\ wpos' = wpos /\ Buffered' = Buffered
      /\ filling' = filling /\ paused' \in BOOLEAN /\ time' \in BOOLEAN
      /\ prod' = prod \/ prod' = [pc |-> "snap", at |-> rpos, n |-> 0]
  BY DEF BeginEmpty, Pause, Resume, ChangeStretch, vars, ring, Buffered, IndInv, TypeOK
<1>2. rpos \in 0..(size - 1) /\ Chunk \in Nat
  BY RingFacts
<1>3. Progress'
  BY <1>1, <1>2 DEF IndInv, Progress
<1>4. ~raced' => Claims'
  BY <1>1, <1>2 DEF IndInv, Claims
<1> QED
  BY <1>1, <1>3, <1>4, RingKept DEF IndInv, TypeOK

(* The callback gives its frames back, whatever the emulator did meanwhile.*)
LEMMA EndReadStep ==
  ASSUME IndInv, EndRead PROVE IndInv'
<1>1. /\ UNCHANGED <<size, buf, wpos, time, filling, paused, prod, next>>
      /\ cons.pc = "copy" /\ cons' = Idle
      /\ rpos' = (cons.at + cons.n) % size
      /\ raced' = (raced \/ prod.pc \in {"drop", "snap"})
  BY DEF EndRead
<1>2. /\ rpos \in 0..(size - 1) /\ wpos \in 0..(size - 1) /\ Buffered \in 0..(size - 1)
      /\ size \in Nat \ {0}
      /\ Idle \in [pc : {"idle"}, at : 0..(size - 1), n : 0..0]
      /\ Idle.pc = "idle" /\ Idle.at = 0 /\ Idle.n = 0
  BY RingFacts
<1>3. rpos' \in 0..(size - 1)
  BY <1>1, <1>2 DEF IndInv, Progress
<1>4. TypeOK'
  BY <1>1, <1>2, <1>3 DEF IndInv, TypeOK
<1>5. Progress'
  BY <1>1, <1>2 DEF IndInv, Progress, Idle
<1>6. ASSUME ~raced' PROVE Claims'
  <2>1. /\ Claims /\ prod.pc \notin {"drop", "snap"}
        /\ cons.at = rpos /\ cons.n \in 0..Buffered
    <3>1. Claims /\ ~raced /\ prod.pc \notin {"drop", "snap"}
      BY <1>1, <1>6 DEF IndInv, Progress
    <3>2. cons.at = rpos /\ cons.n <= Buffered
      BY <1>1, <3>1 DEF Claims
    <3>3. cons.n \in Nat
      BY <1>2 DEF IndInv, Progress
    <3> QED
      BY <1>2, <3>1, <3>2, <3>3
  <2>2. Buffered' = Buffered - cons.n
    <3>1. cons.n \in 0..((wpos + size - rpos) % size)
      BY <2>1 DEF Buffered
    <3>2. (wpos + size - ((rpos + cons.n) % size)) % size = ((wpos + size - rpos) % size) - cons.n
      <4> DEFINE n == cons.n
      <4>1. n \in 0..((wpos + size - rpos) % size)
        BY <3>1
      <4> HIDE DEF n
      <4>2. (wpos + size - ((rpos + n) % size)) % size = ((wpos + size - rpos) % size) - n
        BY ONLY <1>2, <4>1, ReaderMoves
      <4> QED
        BY <4>2 DEF n
    <3> QED
      BY <1>1, <2>1, <3>2 DEF Buffered
  <2>3. cons.n \in Nat /\ Buffered' <= Buffered
    BY <1>2, <2>1, <2>2
  <2>4. prod'.pc = "copy" => prod'.at = wpos' /\ prod'.n < size' - Buffered'
    <3> SUFFICES ASSUME prod.pc = "copy" PROVE prod.at = wpos /\ prod.n < size - Buffered'
      BY <1>1
    <3>1. prod.n \in Nat /\ Chunk \in Nat
      BY RingFacts DEF IndInv, Progress
    <3> QED
      BY <1>2, <2>1, <2>2, <2>3, <3>1 DEF Claims
  <2> QED
    BY <1>1, <2>1, <2>4 DEF Claims, Idle
<1> QED
  BY <1>4, <1>5, <1>6 DEF IndInv

(* Old frames make room.                                                   *)
LEMMA OverrunStep ==
  ASSUME IndInv, Overrun PROVE IndInv'
<1>1. /\ UNCHANGED <<size, buf, wpos, time, filling, paused, cons, next>>
      /\ prod.pc = "drop" /\ prod' = [prod EXCEPT !.pc = "copy", !.at = wpos]
      /\ rpos' = (prod.at + 2 * Chunk) % size
      /\ raced' = (raced \/ cons # Idle \/ Buffered < 2 * Chunk)
  BY DEF Overrun
<1>2. /\ rpos \in 0..(size - 1) /\ wpos \in 0..(size - 1) /\ Buffered \in 0..(size - 1)
      /\ size \in Nat \ {0} /\ Chunk \in Nat \ {0}
      /\ prod.at \in 0..(size - 1) /\ prod.n \in 0..Chunk
  BY RingFacts DEF IndInv, Progress
<1>3. rpos' \in 0..(size - 1)
  BY <1>1, <1>2
<1>4. /\ prod' \in [pc : {"idle", "copy", "drop", "snap"}, at : 0..(size - 1), n : 0..Chunk]
      /\ prod'.pc = "copy" /\ prod'.at = wpos /\ prod'.n = prod.n
  BY <1>1, <1>2 DEF IndInv, Progress
<1>5. TypeOK'
  BY <1>1, <1>3, <1>4 DEF IndInv, TypeOK
<1>6. Progress'
  BY <1>1, <1>4 DEF IndInv, Progress
<1>7. ASSUME ~raced' PROVE Claims'
  <2>1. prod.at = rpos /\ ~(Buffered < 2 * Chunk) /\ cons = Idle
    BY <1>1, <1>7 DEF IndInv, Claims
  <2>2. 2 * Chunk \in 0..Buffered
    BY <1>2, <2>1
  <2>3. Buffered' = Buffered - 2 * Chunk
    <3>1. 2 * Chunk \in 0..((wpos + size - rpos) % size)
      BY <2>2 DEF Buffered
    <3>2. (wpos + size - ((rpos + 2 * Chunk) % size)) % size
            = ((wpos + size - rpos) % size) - 2 * Chunk
      BY ONLY <1>2, <3>1, ReaderMoves
    <3> QED
      BY <1>1, <2>1, <3>2 DEF Buffered
  <2>4. prod.n < size - Buffered'
    BY <1>2, <2>3
  <2> QED
    BY <1>1, <1>4, <2>1, <2>4 DEF Claims, Idle
<1> QED
  BY <1>5, <1>6, <1>7 DEF IndInv

(* Frames are handed over.                                                 *)
LEMMA EndWriteStep ==
  ASSUME IndInv, EndWrite PROVE IndInv'
<1>1. /\ UNCHANGED <<size, rpos, time, filling, paused, cons, raced>>
      /\ prod.pc = "copy" /\ prod' = Idle
      /\ wpos' = (prod.at + prod.n) % size
      /\ next' = (next + prod.n) % Frames
  BY DEF EndWrite
<1>2. /\ rpos \in 0..(size - 1) /\ wpos \in 0..(size - 1) /\ Buffered \in 0..(size - 1)
      /\ size \in Nat \ {0} /\ Chunk \in Nat \ {0} /\ Frames \in Nat \ {0}
      /\ prod.at \in 0..(size - 1) /\ prod.n \in 0..Chunk /\ next \in 0..(Frames - 1)
      /\ Idle \in [pc : {"idle"}, at : 0..(size - 1), n : 0..0]
      /\ Idle.pc = "idle" /\ Idle.at = 0 /\ Idle.n = 0
  BY RingFacts, BoundAssumption DEF IndInv, Progress
<1>3. wpos' \in 0..(size - 1) /\ next' \in 0..(Frames - 1)
  BY <1>1, <1>2
<1>4. buf' \in [0..(size - 1) -> 0..(Frames - 1)]
  <2>1. buf' = [i \in 0..(size - 1) |->
                  LET k == (i + size - prod.at) % size
                  IN IF k < prod.n THEN (next + k) % Frames ELSE buf[i]]
    BY DEF EndWrite
  <2>2. ASSUME NEW i \in 0..(size - 1)
        PROVE  (next + ((i + size - prod.at) % size)) % Frames \in 0..(Frames - 1)
    <3> DEFINE k == (i + size - prod.at) % size
    <3>1. k \in Nat
      BY <1>2
    <3> HIDE DEF k
    <3>2. (next + k) % Frames \in 0..(Frames - 1)
      BY <1>2, <3>1
    <3> QED
      BY <3>2 DEF k
  <2>3. buf \in [0..(size - 1) -> 0..(Frames - 1)]
    BY DEF IndInv, TypeOK
  <2> QED
    BY <2>1, <2>2, <2>3
<1>5. TypeOK'
  <2>1. size' \in Sizes /\ buf' \in [0..(size' - 1) -> 0..(Frames - 1)]
    BY <1>1, <1>4 DEF IndInv, TypeOK
  <2>2. prod'.pc \in {"idle", "copy", "drop", "snap"} /\ prod'.n \in 0..Chunk
    BY <1>1, <1>2
  <2> QED
    BY <1>1, <1>3, <2>1, <2>2 DEF IndInv, TypeOK
<1>6. Progress'
  BY <1>1, <1>2, <1>3 DEF IndInv, Progress, Idle
<1>7. ASSUME ~raced' PROVE Claims'
  <2>1. prod.at = wpos /\ prod.n < size - Buffered /\ prod.n \in Nat
    BY <1>1, <1>2, <1>7 DEF IndInv, Claims
  <2>2. Buffered' = Buffered + prod.n
    <3>1. prod.n \in Nat /\ prod.n < size - ((wpos + size - rpos) % size)
      BY <2>1 DEF Buffered
    <3>2. (((wpos + prod.n) % size) + size - rpos) % size
            = ((wpos + size - rpos) % size) + prod.n
      <4> DEFINE n == prod.n
      <4>1. n \in Nat /\ n < size - ((wpos + size - rpos) % size)
        BY <3>1
      <4> HIDE DEF n
      <4>2. (((wpos + n) % size) + size - rpos) % size = ((wpos + size - rpos) % size) + n
        BY ONLY <1>2, <4>1, WriterMoves
      <4> QED
        BY <4>2 DEF n
    <3> QED
      BY <1>1, <2>1, <3>2 DEF Buffered
  <2>3. cons.pc # "idle" => cons.n <= Buffered'
    <3>1. cons.n \in Nat
      BY <1>2 DEF IndInv, Progress
    <3> QED
      BY <1>1, <1>2, <1>7, <2>1, <2>2, <3>1 DEF IndInv, Claims
  <2> QED
    BY <1>1, <1>7, <2>3 DEF IndInv, Claims, Idle
<1> QED
  BY <1>5, <1>6, <1>7 DEF IndInv

(* The ring is emptied.                                                    *)
LEMMA EndEmptyStep ==
  ASSUME IndInv, EndEmpty PROVE IndInv'
<1>1. /\ UNCHANGED <<size, buf, rpos, time, filling, paused, cons, next>>
      /\ prod.pc = "snap" /\ prod' = Idle /\ wpos' = prod.at
      /\ raced' = (raced \/ cons # Idle)
  BY DEF EndEmpty
<1>2. prod.at \in 0..(size - 1) /\ Idle \in [pc : {"idle"}, at : 0..(size - 1), n : 0..0]
      /\ Idle.pc = "idle" /\ Idle.at = 0 /\ Idle.n = 0 /\ Chunk \in Nat
  BY RingFacts DEF IndInv, Progress
<1>3. TypeOK'
  BY <1>1, <1>2 DEF IndInv, TypeOK
<1>4. Progress'
  BY <1>1, <1>2 DEF IndInv, Progress, Idle
<1>5. ~raced' => Claims'
  <2> SUFFICES ASSUME ~raced' PROVE Claims'
    OBVIOUS
  <2>1. cons' = Idle /\ prod' = Idle /\ Idle.pc = "idle"
    BY <1>1, <1>2
  <2> QED
    BY <2>1 DEF Claims
<1> QED
  BY <1>3, <1>4, <1>5 DEF IndInv

(* The ring is allocated anew, with both threads out of it.                *)
LEMMA ReallocateStep ==
  ASSUME IndInv, Reallocate PROVE IndInv'
<1>1. /\ UNCHANGED <<filling, paused, prod, cons, next, raced>>
      /\ prod.pc = "idle" /\ cons = Idle
      /\ rpos' = 0 /\ wpos' = 0
  BY DEF Reallocate, Changes, Stopped
<1>2. PICK s \in Sizes, t \in BOOLEAN :
         size' = s /\ time' = t /\ buf' = [i \in 0..(s - 1) |-> 0]
  BY DEF Reallocate
<1>3. s \in Nat \ {0} /\ Chunk \in Nat \ {0} /\ Frames \in Nat \ {0}
  BY SizeBounds, BoundAssumption
<1>4. prod = Idle /\ Idle \in [pc : {"idle"}, at : 0..(s - 1), n : 0..0]
  BY <1>1, <1>3 DEF IndInv, Progress, Idle
<1>5. buf' \in [0..(s - 1) -> 0..(Frames - 1)]
  BY <1>2, <1>3
<1>6. TypeOK'
  BY <1>1, <1>2, <1>3, <1>4, <1>5 DEF IndInv, TypeOK
<1>7. Progress'
  BY <1>1, <1>2, <1>3, <1>4 DEF IndInv, Progress, Idle
<1>8. Claims'
  BY <1>1, <1>4 DEF Claims, Idle
<1> QED
  BY <1>6, <1>7, <1>8 DEF IndInv

LEMMA NextStep == IndInv /\ [Next]_vars => IndInv'
<1> SUFFICES ASSUME IndInv, [Next]_vars PROVE IndInv'
  OBVIOUS
<1> QED
  BY BeginReadStep, LoadRposStep, EndReadStep, BeginWriteStep, OverrunStep, EndWriteStep,
     EndEmptyStep, ReallocateStep, ControlStep DEF Next

(* Positions and counts fit the ring, and the two threads, which share no  *)
(* lock, never touch the same cell unless the emulator moved a position    *)
(* under the callback or discarded more frames than there were.            *)
THEOREM SharedSafely == Spec => []RingIsShared
<1>1. Spec => []IndInv
  BY InitIndInv, NextStep, PTL DEF Spec
<1> QED
  BY <1>1, ClaimsApart, PTL

-----------------------------------------------------------------------------
(* What a stretch of the ring holds.                                       *)

(* The frames the buffer holds.                                            *)
Sample == 0..(Frames - 1)

(* The n frames of a buffer of s cells from cell r on.                     *)
Content(b, r, n, s) == [i \in 1..n |-> b[(r + i - 1) % s]]

LEMMA ContentSeq ==
  ASSUME NEW s \in Nat \ {0}, NEW b \in [0..(s - 1) -> Sample], NEW r \in 0..(s - 1), NEW n \in Nat
  PROVE  /\ Content(b, r, n, s) \in Seq(Sample) /\ Len(Content(b, r, n, s)) = n
         /\ DOMAIN Content(b, r, n, s) = 1..n
         /\ \A i \in 1..n : Content(b, r, n, s)[i] = b[(r + i - 1) % s]
<1>1. ASSUME NEW i \in 1..n PROVE b[(r + i - 1) % s] \in Sample
  <2>1. (r + i - 1) % s \in 0..(s - 1)
    OBVIOUS
  <2> QED
    BY <2>1
<1>2. Content(b, r, n, s) \in [1..n -> Sample]
  BY <1>1 DEF Content
<1>3. Content(b, r, n, s) \in Seq(Sample)
  BY <1>2, SeqDef
<1> QED
  BY <1>2, <1>3 DEF Content

(* Taking frames off the front.                                            *)
LEMMA ContentSplits ==
  ASSUME NEW s \in Nat \ {0}, NEW b \in [0..(s - 1) -> Sample], NEW r \in 0..(s - 1),
         NEW n \in 0..(s - 1), NEW k \in 0..n
  PROVE  /\ SubSeq(Content(b, r, n, s), 1, k) = Content(b, r, k, s)
         /\ SubSeq(Content(b, r, n, s), k + 1, n) = Content(b, (r + k) % s, n - k, s)
<1> DEFINE all == Content(b, r, n, s)
           front == Content(b, r, k, s)
           q == (r + k) % s
           rest == Content(b, q, n - k, s)
<1>0. n \in Nat /\ k \in Nat
  OBVIOUS
<1>1. /\ all \in Seq(Sample) /\ Len(all) = n
      /\ \A i \in 1..n : all[i] = b[(r + i - 1) % s] /\ all[i] \in Sample
  <2>1. /\ all \in Seq(Sample) /\ Len(all) = n
        /\ \A i \in 1..n : all[i] = b[(r + i - 1) % s]
    BY <1>0, ContentSeq
  <2> HIDE DEF all
  <2>2. \A i \in 1..n : all[i] \in Sample
    BY <2>1, ElementOfSeq
  <2> QED
    BY <2>1, <2>2
<1>2. /\ front \in Seq(Sample) /\ Len(front) = k
      /\ \A i \in 1..k : front[i] = b[(r + i - 1) % s]
  BY <1>0, ContentSeq
<1>3. q \in 0..(s - 1) /\ n - k \in Nat
  OBVIOUS
<1>4. /\ rest \in Seq(Sample) /\ Len(rest) = n - k
      /\ \A i \in 1..(n - k) : rest[i] = b[(q + i - 1) % s]
  <2> HIDE DEF q
  <2> QED
    BY <1>3, ContentSeq
<1>5. ASSUME NEW i \in 1..(n - k) PROVE (q + i - 1) % s = (r + (k + i) - 1) % s
  OBVIOUS
<1> HIDE DEF all, front, rest, q
<1>6. SubSeq(all, 1, k) = front
  <2>1. /\ SubSeq(all, 1, k) \in Seq(Sample) /\ Len(SubSeq(all, 1, k)) = k
        /\ \A i \in 1..k : SubSeq(all, 1, k)[i] = all[i]
    <3>1. \A i \in 1..k : all[i] \in Sample
      BY <1>1
    <3> QED
      BY <3>1, SubSeqProperties
  <2>2. \A i \in 1..k : SubSeq(all, 1, k)[i] = front[i]
    BY <1>1, <1>2, <2>1
  <2> QED
    BY <1>2, <2>1, <2>2, SeqEqual
<1>7. SubSeq(all, k + 1, n) = rest
  <2>1. /\ SubSeq(all, k + 1, n) \in Seq(Sample) /\ Len(SubSeq(all, k + 1, n)) = n - k
        /\ \A i \in 1..(n - k) : SubSeq(all, k + 1, n)[i] = all[k + i]
    <3>1. \A i \in (k + 1)..n : all[i] \in Sample
      BY <1>1
    <3> QED
      BY <3>1, SubSeqProperties
  <2>2. ASSUME NEW i \in 1..(n - k) PROVE SubSeq(all, k + 1, n)[i] = rest[i]
    <3>1. k + i \in 1..n /\ all[k + i] = b[(r + (k + i) - 1) % s]
      BY <1>1
    <3> QED
      BY <1>4, <1>5, <2>1, <3>1
  <2> QED
    BY <1>4, <2>1, <2>2, SeqEqual
<1> QED
  BY <1>6, <1>7 DEF all, front, rest, q

(* Which cell the i-th frame from r on is in, and how far it is from w.    *)
Cell(r, i, s) == (r + i - 1) % s
Ahead(x, w, s) == (x + s - w) % s

(* The cell of the i-th frame is the writer's from the first new one on.   *)
LEMMA CellWritten ==
  ASSUME NEW s \in Nat \ {0}, NEW r \in 0..(s - 1), NEW m \in 0..(s - 1), NEW w \in 0..(s - 1),
         NEW n \in Nat, m + n < s, w = (r + m) % s, NEW i \in 1..(m + n)
  PROVE  /\ Cell(r, i, s) \in 0..(s - 1)
         /\ i <= m => ~(Ahead(Cell(r, i, s), w, s) < n)
         /\ i > m => Ahead(Cell(r, i, s), w, s) + 1 = i - m /\ Ahead(Cell(r, i, s), w, s) < n
<1> DEFINE x == Cell(r, i, s)
           k == Ahead(x, w, s)
<1>1. x = (IF r + i - 1 < s THEN r + i - 1 ELSE r + i - 1 - s) /\ x \in 0..(s - 1)
  BY DEF Cell
<1>2. w = IF r + m < s THEN r + m ELSE r + m - s
  OBVIOUS
<1> HIDE DEF x
<1>3. k = (IF x >= w THEN x - w ELSE x - w + s) /\ k \in 0..(s - 1)
  BY <1>1 DEF Ahead
<1> HIDE DEF k
<1>4. i <= m => ~(k < n)
  BY <1>1, <1>2, <1>3
<1>5. i > m => k + 1 = i - m /\ k < n
  BY <1>1, <1>2, <1>3
<1> QED
  BY <1>1, <1>4, <1>5 DEF x, k

(* The n cells from w on are overwritten.                                  *)
Overwritten(c, b, w, n, new, s) ==
  \A i \in 0..(s - 1) : c[i] = IF Ahead(i, w, s) < n THEN new[Ahead(i, w, s) + 1] ELSE b[i]

(* c is b with n frames written at w, right behind the m frames from r on.  *)
Grows(b, c, r, m, w, n, new, s) ==
  /\ s \in Nat \ {0} /\ b \in [0..(s - 1) -> Sample] /\ c \in [0..(s - 1) -> Sample]
  /\ r \in 0..(s - 1) /\ m \in 0..(s - 1) /\ w \in 0..(s - 1)
  /\ n \in Nat /\ m + n < s /\ new \in [1..n -> Sample] /\ w = (r + m) % s
  /\ Overwritten(c, b, w, n, new, s)

(* They are then the last of the m + n frames from r on.                    *)
LEMMA ContentGrows ==
  ASSUME NEW b, NEW c, NEW r, NEW m, NEW w, NEW n, NEW new, NEW s,
         Grows(b, c, r, m, w, n, new, s)
  PROVE  Content(c, r, m + n, s) = Content(b, r, m, s) \o new
<1> USE DEF Grows
<1> DEFINE old == Content(b, r, m, s)
           all == Content(c, r, m + n, s)
<1>0. m \in Nat
  OBVIOUS
<1>1. /\ old \in Seq(Sample) /\ Len(old) = m
      /\ \A i \in 1..m : old[i] = b[(r + i - 1) % s]
  BY <1>0, ContentSeq
<1>2. /\ all \in Seq(Sample) /\ Len(all) = m + n
      /\ \A i \in 1..(m + n) : all[i] = c[(r + i - 1) % s]
  <2>1. m + n \in Nat
    OBVIOUS
  <2> QED
    BY <2>1, ContentSeq
<1> HIDE DEF old, all
<1>3. new \in Seq(Sample) /\ Len(new) = n
  BY SeqDef
<1>4. /\ old \o new \in Seq(Sample) /\ Len(old \o new) = m + n
      /\ \A i \in 1..(m + n) : (old \o new)[i] = IF i <= m THEN old[i] ELSE new[i - m]
  <2>1. /\ old \o new \in Seq(Sample) /\ Len(old \o new) = Len(old) + Len(new)
        /\ \A i \in 1..(Len(old) + Len(new)) :
             (old \o new)[i] = IF i <= Len(old) THEN old[i] ELSE new[i - Len(old)]
    BY <1>1, <1>3, ConcatProperties
  <2> QED
    BY <1>1, <1>3, <2>1
<1>5. ASSUME NEW i \in 1..(m + n) PROVE all[i] = (old \o new)[i]
  <2> DEFINE x == Cell(r, i, s)
             k == Ahead(x, w, s)
  <2>1. x \in 0..(s - 1) /\ (i <= m => ~(k < n)) /\ (i > m => k + 1 = i - m /\ k < n)
    BY CellWritten
  <2>2. c[x] = IF k < n THEN new[k + 1] ELSE b[x]
    BY <2>1 DEF Overwritten
  <2>3. all[i] = c[x]
    BY <1>2 DEF Cell
  <2>4. i <= m => old[i] = b[x]
    BY <1>1 DEF Cell
  <2>5. (old \o new)[i] = IF i <= m THEN old[i] ELSE new[i - m]
    BY <1>4
  <2>6. i <= m \/ i > m
    OBVIOUS
  <2> HIDE DEF x, k
  <2> QED
    BY <2>1, <2>2, <2>3, <2>4, <2>5, <2>6
<1> QED
  BY <1>2, <1>4, <1>5, SeqEqual DEF old, all

-----------------------------------------------------------------------------
(* Every step is one of the queue's.                                       *)

QueueStep == [~raced' => Queue!Next]_<<Waiting, heard>>

(* The queue is the stretch between the two positions.                     *)
LEMMA WaitingIs ==
  /\ Waiting = Content(buf, rpos, Buffered, size)
  /\ Waiting' = Content(buf', rpos', Buffered', size')
BY DEF Waiting, Content

(* No frames.                                                              *)
LEMMA ContentEmpty ==
  ASSUME NEW b, NEW r, NEW s PROVE Content(b, r, 0, s) = <<>>
BY DEF Content

LEMMA QueueInit == Init => Queue!Init
<1> SUFFICES ASSUME Init PROVE Waiting = <<>> /\ heard = <<>>
  BY DEF Queue!Init
<1>1. size \in Nat \ {0} /\ rpos = 0 /\ wpos = 0
  BY SizeBounds DEF Init
<1>2. Buffered = 0
  BY <1>1, BufferedIs DEF Buffered
<1> QED
  BY <1>2, WaitingIs, ContentEmpty DEF Init

(* A step that moves nothing is no step, or a question of the device.      *)
LEMMA NoFramesMove ==
  ASSUME UNCHANGED ring, heard' = heard \/ heard' = <<>> PROVE QueueStep
<1>1. UNCHANGED <<size, buf, rpos, wpos>> /\ Buffered' = Buffered
  BY DEF ring, Buffered
<1>2. Waiting' = Waiting
  BY <1>1, WaitingIs
<1>3. CASE heard' = heard
  BY <1>2, <1>3 DEF QueueStep
<1>4. CASE heard' = <<>>
  BY <1>2, <1>4 DEF QueueStep, Queue!Next, Queue!Ask
<1> QED
  BY <1>3, <1>4

(* The buffer's facts a copy needs.                                        *)
LEMMA CopyFacts ==
  ASSUME IndInv
  PROVE  /\ size \in Nat \ {0} /\ Chunk \in Nat \ {0}
         /\ rpos \in 0..(size - 1) /\ wpos \in 0..(size - 1)
         /\ Buffered \in 0..(size - 1) /\ Buffered \in Nat
         /\ buf \in [0..(size - 1) -> Sample]
         /\ Waiting \in Seq(Sample) /\ Len(Waiting) = Buffered
<1>1. /\ size \in Nat \ {0} /\ Chunk \in Nat \ {0}
      /\ rpos \in 0..(size - 1) /\ wpos \in 0..(size - 1)
      /\ Buffered \in 0..(size - 1)
      /\ buf \in [0..(size - 1) -> Sample]
  BY RingFacts DEF IndInv, TypeOK, Sample
<1>2. Buffered \in Nat
  BY <1>1
<1>3. /\ Content(buf, rpos, Buffered, size) \in Seq(Sample)
      /\ Len(Content(buf, rpos, Buffered, size)) = Buffered
  BY <1>1, <1>2, ContentSeq
<1> QED
  BY <1>1, <1>2, <1>3, WaitingIs

LEMMA ReadHears == ASSUME IndInv, EndRead PROVE QueueStep
<1> SUFFICES ASSUME ~raced' PROVE Queue!Hear
  BY DEF QueueStep, Queue!Next
<1> DEFINE n == cons.n
<1>1. /\ size' = size /\ buf' = buf /\ wpos' = wpos /\ ~raced /\ cons.pc = "copy"
      /\ heard' = [i \in 1..n |-> buf[(cons.at + i - 1) % size]]
      /\ rpos' = (cons.at + n) % size
  BY DEF EndRead, IndInv, Progress
<1>2. /\ size \in Nat \ {0} /\ rpos \in 0..(size - 1) /\ wpos \in 0..(size - 1)
      /\ Buffered \in 0..(size - 1) /\ buf \in [0..(size - 1) -> Sample]
      /\ Len(Waiting) = Buffered
  BY CopyFacts
<1>3. cons.at = rpos /\ n \in 1..Buffered /\ n \in 0..Buffered
  <2>1. cons.at = rpos /\ n <= Buffered /\ n >= 1
    BY <1>1 DEF IndInv, Claims, Progress
  <2>2. n \in Nat
    BY <1>2 DEF IndInv, Progress
  <2> HIDE DEF n
  <2> QED
    BY <1>2, <2>1, <2>2
<1> HIDE DEF n
<1>4. Buffered' = Buffered - n
  <2>1. n \in 0..((wpos + size - rpos) % size)
    BY <1>3 DEF Buffered
  <2>2. (wpos + size - ((rpos + n) % size)) % size = ((wpos + size - rpos) % size) - n
    BY ONLY <1>2, <2>1, ReaderMoves
  <2> QED
    BY <1>1, <1>3, <2>2 DEF Buffered
<1>5. heard' = Content(buf, rpos, n, size)
  BY <1>1, <1>3 DEF Content
<1>6. Waiting' = Content(buf, (rpos + n) % size, Buffered - n, size)
  BY <1>1, <1>3, <1>4, WaitingIs
<1>7. /\ SubSeq(Content(buf, rpos, Buffered, size), 1, n) = Content(buf, rpos, n, size)
      /\ SubSeq(Content(buf, rpos, Buffered, size), n + 1, Buffered)
           = Content(buf, (rpos + n) % size, Buffered - n, size)
  <2>1. size \in Nat \ {0}
    BY <1>2
  <2>2. buf \in [0..(size - 1) -> Sample]
    BY <1>2
  <2>3. rpos \in 0..(size - 1)
    BY <1>2
  <2>4. Buffered \in 0..(size - 1)
    BY <1>2
  <2>5. n \in 0..Buffered
    BY <1>3
  <2> QED
    BY ONLY <2>1, <2>2, <2>3, <2>4, <2>5, ContentSplits, Zenon
<1>8. heard' = SubSeq(Waiting, 1, n) /\ Waiting' = SubSeq(Waiting, n + 1, Len(Waiting))
  BY <1>2, <1>5, <1>6, <1>7, WaitingIs
<1> QED
  BY <1>2, <1>3, <1>8 DEF Queue!Hear

LEMMA OverrunMakesRoom == ASSUME IndInv, Overrun PROVE QueueStep
<1> SUFFICES ASSUME ~raced' PROVE Queue!MakeRoom
  BY DEF QueueStep, Queue!Next
<1> DEFINE n == 2 * Chunk
<1>1. /\ size' = size /\ buf' = buf /\ wpos' = wpos /\ heard' = heard /\ ~raced
      /\ prod.pc = "drop" /\ rpos' = (prod.at + n) % size
  BY DEF Overrun, IndInv, Progress
<1>2. /\ size \in Nat \ {0} /\ Chunk \in Nat \ {0}
      /\ rpos \in 0..(size - 1) /\ wpos \in 0..(size - 1)
      /\ Buffered \in 0..(size - 1) /\ buf \in [0..(size - 1) -> Sample]
      /\ Len(Waiting) = Buffered
  BY CopyFacts
<1>3. prod.at = rpos /\ n \in 0..Buffered /\ Buffered >= n
  <2>1. prod.at = rpos /\ ~(Buffered < 2 * Chunk)
    BY <1>1 DEF IndInv, Claims, Overrun
  <2> QED
    BY <1>2, <2>1
<1> HIDE DEF n
<1>4. Buffered' = Buffered - n
  <2>1. n \in 0..((wpos + size - rpos) % size)
    BY <1>3 DEF Buffered
  <2>2. (wpos + size - ((rpos + n) % size)) % size = ((wpos + size - rpos) % size) - n
    BY ONLY <1>2, <2>1, ReaderMoves
  <2> QED
    BY <1>1, <1>3, <2>2 DEF Buffered
<1>5. Waiting' = Content(buf, (rpos + n) % size, Buffered - n, size)
  BY <1>1, <1>3, <1>4, WaitingIs
<1>6. SubSeq(Content(buf, rpos, Buffered, size), n + 1, Buffered)
        = Content(buf, (rpos + n) % size, Buffered - n, size)
  <2>1. size \in Nat \ {0}
    BY <1>2
  <2>2. buf \in [0..(size - 1) -> Sample]
    BY <1>2
  <2>3. rpos \in 0..(size - 1)
    BY <1>2
  <2>4. Buffered \in 0..(size - 1)
    BY <1>2
  <2>5. n \in 0..Buffered
    BY <1>3
  <2> QED
    BY ONLY <2>1, <2>2, <2>3, <2>4, <2>5, ContentSplits, Zenon
<1>7. Waiting' = SubSeq(Waiting, n + 1, Len(Waiting))
  BY <1>2, <1>5, <1>6, WaitingIs
<1> QED
  BY <1>1, <1>2, <1>3, <1>7 DEF Queue!MakeRoom, n

LEMMA WriteQueues == ASSUME IndInv, EndWrite PROVE QueueStep
<1> SUFFICES ASSUME ~raced' PROVE Queue!Write
  BY DEF QueueStep, Queue!Next
<1> DEFINE n == prod.n
           new == [j \in 1..n |-> (next + (j - 1)) % Frames]
<1>1. /\ size' = size /\ rpos' = rpos /\ heard' = heard /\ ~raced /\ prod.pc = "copy"
      /\ wpos' = (prod.at + n) % size
      /\ buf' = [i \in 0..(size - 1) |->
                   IF Ahead(i, prod.at, size) < n THEN (next + Ahead(i, prod.at, size)) % Frames
                   ELSE buf[i]]
  BY DEF EndWrite, Ahead
<1>2. /\ size \in Nat \ {0} /\ Chunk \in Nat \ {0} /\ Frames \in Nat \ {0}
      /\ rpos \in 0..(size - 1) /\ wpos \in 0..(size - 1)
      /\ Buffered \in 0..(size - 1) /\ Buffered \in Nat /\ buf \in [0..(size - 1) -> Sample]
      /\ next \in 0..(Frames - 1)
  BY CopyFacts, BoundAssumption DEF IndInv, Progress
<1>3. prod.at = wpos /\ n \in 1..Chunk /\ n \in Nat /\ n < size - Buffered
  <2>1. prod.at = wpos /\ n < size - Buffered /\ n >= 1 /\ n \in 0..Chunk
    BY <1>1 DEF IndInv, Claims, Progress
  <2> HIDE DEF n
  <2> QED
    BY <1>2, <2>1
<1> HIDE DEF n
<1>4. Buffered' = Buffered + n
  <2>1. n \in Nat /\ n < size - ((wpos + size - rpos) % size)
    BY <1>3 DEF Buffered
  <2>2. (((wpos + n) % size) + size - rpos) % size = ((wpos + size - rpos) % size) + n
    BY ONLY <1>2, <2>1, WriterMoves
  <2> QED
    BY <1>1, <1>3, <2>2 DEF Buffered
<1>5. wpos = (rpos + Buffered) % size
  BY <1>2, BufferedBetween DEF Buffered
<1>6. new \in [1..n -> Sample]
  BY <1>2, <1>3 DEF Sample
<1>7. buf' \in [0..(size - 1) -> Sample]
  BY EndWriteStep, <1>1 DEF IndInv, TypeOK, Sample
<1>8. Overwritten(buf', buf, wpos, n, new, size)
  <2> SUFFICES ASSUME NEW i \in 0..(size - 1)
               PROVE  buf'[i] = IF Ahead(i, wpos, size) < n THEN new[Ahead(i, wpos, size) + 1]
                                ELSE buf[i]
    BY DEF Overwritten
  <2> DEFINE k == Ahead(i, wpos, size)
  <2>1. k \in Nat
    BY <1>2 DEF Ahead
  <2>2. buf'[i] = IF k < n THEN (next + k) % Frames ELSE buf[i]
    BY <1>1, <1>3
  <2> HIDE DEF k
  <2>3. k < n => new[k + 1] = (next + k) % Frames
    <3>1. k < n => k + 1 \in 1..n /\ (k + 1) - 1 = k
      BY <1>3, <2>1
    <3> QED
      BY <3>1
  <2> QED
    BY <2>2, <2>3 DEF k
<1> HIDE DEF new
<1>9. Content(buf', rpos, Buffered + n, size) = Content(buf, rpos, Buffered, size) \o new
  <2>1. Buffered + n < size
    BY <1>2, <1>3
  <2>2. Grows(buf, buf', rpos, Buffered, wpos, n, new, size)
    BY <1>2, <1>3, <1>5, <1>6, <1>7, <1>8, <2>1 DEF Grows
  <2> QED
    BY <2>2, ContentGrows, SMT
<1>10. Waiting' = Waiting \o new
  BY <1>1, <1>4, <1>9, WaitingIs
<1> QED
  BY <1>1, <1>3, <1>6, <1>10 DEF Queue!Write, Sample

LEMMA EmptyingEmpties == ASSUME IndInv, EndEmpty \/ Reallocate PROVE QueueStep
<1> SUFFICES ASSUME ~raced' PROVE Queue!Empty
  BY DEF QueueStep, Queue!Next
<1>1. heard' = heard
  BY DEF EndEmpty, Reallocate
<1>2. size' \in Nat \ {0} /\ rpos' \in 0..(size' - 1) /\ wpos' = rpos'
  <2>1. CASE EndEmpty
    <3>1. size' = size /\ rpos' = rpos /\ wpos' = prod.at /\ prod.pc = "snap" /\ ~raced
      BY <2>1 DEF EndEmpty, IndInv, Progress
    <3> QED
      BY <3>1, CopyFacts DEF IndInv, Claims
  <2>2. CASE Reallocate
    <3>1. size' \in Sizes /\ rpos' = 0 /\ wpos' = 0
      BY <2>2 DEF Reallocate
    <3> QED
      BY <3>1, SizeBounds
  <2> QED
    BY <2>1, <2>2
<1>3. Buffered' = 0
  BY <1>2, BufferedBetween DEF Buffered
<1>4. Waiting' = <<>>
  BY <1>3, WaitingIs, ContentEmpty
<1> QED
  BY <1>1, <1>4 DEF Queue!Empty

LEMMA NextIsQueueStep == IndInv /\ [Next]_vars => QueueStep
<1> SUFFICES ASSUME IndInv, [Next]_vars PROVE QueueStep
  OBVIOUS
<1>1. ASSUME NEW n \in Requests, BeginRead(n) PROVE QueueStep
  BY <1>1, NoFramesMove DEF BeginRead
<1>2. ASSUME NEW n \in 1..Chunk, BeginWrite(n) PROVE QueueStep
  BY <1>2, NoFramesMove DEF BeginWrite
<1>3. CASE LoadRpos
  BY <1>3, NoFramesMove DEF LoadRpos
<1>4. CASE BeginEmpty \/ Pause \/ Resume \/ ChangeStretch
  BY <1>4, NoFramesMove DEF BeginEmpty, Pause, Resume, ChangeStretch
<1>5. CASE UNCHANGED vars
  BY <1>5, NoFramesMove DEF vars, ring
<1> QED
  BY <1>1, <1>2, <1>3, <1>4, <1>5, ReadHears, OverrunMakesRoom, WriteQueues, EmptyingEmpties
     DEF Next

(* The ring is a queue of frames at every interleaving of the two threads, *)
(* as long as the emulator has not moved a position during a callback nor  *)
(* discarded more frames than there were.                                  *)
THEOREM RingIsQueue == Spec => ImplementsQueue
<1>1. Spec => []IndInv
  BY InitIndInv, NextStep, PTL DEF Spec
<1>2. Spec => Queue!Init
  BY QueueInit, PTL DEF Spec
<1>3. Spec => [][~raced' => Queue!Next]_<<Waiting, heard>>
  BY <1>1, NextIsQueueStep, PTL DEF Spec, QueueStep
<1> QED
  BY <1>2, <1>3, PTL DEF ImplementsQueue

=============================================================================
