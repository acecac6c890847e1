------------------------------ MODULE AudioRing ------------------------------
(***************************************************************************)
(* The ring buffer between the emulator and the sound device               *)
(* (src/util/audio/core_audio_stream.c).  Two threads and no lock: the     *)
(* emulator's writes chunks at wpos, the device's callback reads at rpos,  *)
(* and each decides from one look at both positions.                       *)
(*                                                                         *)
(* A callback, a write, a drop of old frames and an emptying are each two  *)
(* steps or three, cut where a position is loaded or stored; the frames    *)
(* are moved with the store that ends the copy, and CopiesApart says that  *)
(* no other moment would do.  Loads and stores are sequentially consistent *)
(* (the loads of the positions are relaxed in the code: on x86 that is the *)
(* same).  SoundTouch hands back 1 to Chunk frames at a time for a chunk   *)
(* (TIME, RESAMPLE), without it whole chunks are written (OFF): both are   *)
(* writes of 1 to Chunk frames.  Volume, resampling of a short answer and  *)
(* the stretcher's tempo are left out.                                     *)
(*                                                                         *)
(* A ring is one chunk or more.  It is made for a stretch mode (16 times   *)
(* buffer_ms for TIME, twice for RESAMPLE, once for OFF), kept when only   *)
(* the mode changes, and may be too small for the two chunks that an       *)
(* overrun discards.                                                       *)
(*                                                                         *)
(* Stopping the device waits for its callback and cannot fail while the    *)
(* device is open (sdl_audio_stream.c).                                    *)
(***************************************************************************)
EXTENDS Integers, Sequences

CONSTANTS
  Chunk,       \* CHUNK_SIZE
  TimeShare,   \* 400: the share of the ring that ends the wait after an
  PlainShare,  \* 32:    underrun, stretching time and not
  Sizes,       \* buffer_size, in frames
  Requests,    \* num_frames of a callback
  Frames,      \* bound: frames are numbered modulo this
  MaxChanges   \* bound: emptyings, pauses and changes of parameters

ASSUME SizeAssumption ==
  /\ Chunk \in Nat \ {0} /\ TimeShare \in Nat \ {0} /\ PlainShare \in Nat \ {0}
  /\ Sizes \subseteq Nat /\ \A s \in Sizes : s >= Chunk
  /\ Requests \subseteq Nat \ {0}
ASSUME BoundAssumption == Frames \in Nat \ {0} /\ MaxChanges \in Nat

VARIABLES
  size,     \* buffer_size, 0 when nothing is allocated
  buf,      \* buffer
  rpos,     \* next frame to be heard
  wpos,     \* next frame to be written
  time,     \* stretch_mode is AUDIO_STRETCH_MODE_TIME
  filling,  \* the callback waits for frames after an underrun
  paused,   \* the device is stopped
  prod,     \* emulator: what it is doing, from which position, frames
  cons,     \* callback: the same
  heard,    \* history: frames of the last callback
  next,     \* number of the next frame written
  raced,    \* history: a position was moved under the callback or past the other
  changes   \* bound on the control operations

vars == <<size, buf, rpos, wpos, time, filling, paused, prod, cons, heard, next, raced, changes>>
ring == <<size, buf, rpos, wpos>>

Least(a, b) == IF a < b THEN a ELSE b
Idle == [pc |-> "idle", at |-> 0, n |-> 0]

(* get_buffered_frames: an empty ring and never a full one.                *)
Buffered == (wpos + size - rpos) % size

(* n cells from one, around the end.                                       *)
Cells(from, n) == {(from + i) % size : i \in 0..(n - 1)}

Init ==
  /\ size \in Sizes /\ buf = [i \in 0..(size - 1) |-> 0]
  /\ rpos = 0 /\ wpos = 0
  /\ time \in BOOLEAN /\ filling = FALSE /\ paused = FALSE
  /\ prod = Idle /\ cons = Idle
  /\ heard = <<>> /\ next = 0 /\ raced = FALSE /\ changes = 0

-----------------------------------------------------------------------------
(* The callback.                                                           *)

(* get_aligned_buffer_size, and to_fill: by default, two chunks of 552.    *)
Aligned(n) == ((n + Chunk - 1) \div Chunk) * Chunk
ToFill(s, stretched) == Aligned(s \div (IF stretched THEN TimeShare ELSE PlainShare))

(* Mutant: the wait after an underrun is for more than the ring can hold.  *)
FilledNever(available) == available >= size
Filled(available) == available >= ToFill(size, time)

(* Mutant: an answer may take one frame more than there is.                *)
AnswerMore(n) == Least(n, Buffered + 1)
Answer(n) == Least(n, Buffered)

(* The positions are looked at once.  After an underrun it waits.  Storing *)
(* rpos between the emulator's load and store of it is a race.             *)
BeginRead(n) ==
  /\ cons.pc = "idle" /\ ~paused
  /\ LET waits == filling /\ ~Filled(Buffered)
         take  == IF waits THEN 0 ELSE Answer(n)
     IN /\ filling' = (waits \/ Buffered < n)
        /\ cons' = IF take = 0 THEN Idle ELSE [pc |-> "found", at |-> 0, n |-> take]
  /\ heard' = <<>>
  /\ UNCHANGED <<ring, time, paused, prod, next, raced, changes>>

LoadRpos ==
  /\ cons.pc = "found"
  /\ cons' = [cons EXCEPT !.pc = "copy", !.at = rpos]
  /\ UNCHANGED <<ring, time, filling, paused, prod, heard, next, raced, changes>>

EndRead ==
  /\ cons.pc = "copy"
  /\ heard' = [i \in 1..cons.n |-> buf[(cons.at + i - 1) % size]]
  /\ rpos' = (cons.at + cons.n) % size
  /\ cons' = Idle
  /\ raced' = (raced \/ prod.pc \in {"drop", "snap"})
  /\ UNCHANGED <<size, buf, wpos, time, filling, paused, prod, next, changes>>

-----------------------------------------------------------------------------
(* The emulator.                                                           *)

(* Mutant: the last free cell is written too, and the ring looks empty.    *)
FitsExactly(n) == size - Buffered >= n
Fits(n) == size - Buffered > n

(* internal_write_frames, from end_write with a full chunk or of what      *)
(* SoundTouch makes of it.  Frames that find no room are dropped, or drop  *)
(* older ones if time is stretched.                                        *)
BeginWrite(n) ==
  /\ prod.pc = "idle" /\ ~paused
  /\ \/ /\ Fits(n)
        /\ prod' = [pc |-> "copy", at |-> wpos, n |-> n]
     \/ /\ ~Fits(n) /\ time
        /\ prod' = [pc |-> "drop", at |-> rpos, n |-> n]
  /\ UNCHANGED <<ring, time, filling, paused, cons, heard, next, raced, changes>>

(* stretch_overrun stores the callback's position, two chunks on.  A ring  *)
(* of one or two chunks has fewer frames: there rpos comes past wpos, or   *)
(* back to where it was, and the write goes over frames not heard.         *)
Overrun ==
  /\ prod.pc = "drop"
  /\ rpos' = (prod.at + 2 * Chunk) % size
  /\ prod' = [prod EXCEPT !.pc = "copy", !.at = wpos]
  /\ raced' = (raced \/ cons # Idle \/ Buffered < 2 * Chunk)
  /\ UNCHANGED <<size, buf, wpos, time, filling, paused, cons, heard, next, changes>>

EndWrite ==
  /\ prod.pc = "copy"
  /\ buf' = [i \in 0..(size - 1) |->
               LET k == (i + size - prod.at) % size
               IN IF k < prod.n THEN (next + k) % Frames ELSE buf[i]]
  /\ wpos' = (prod.at + prod.n) % size
  /\ next' = (next + prod.n) % Frames
  /\ prod' = Idle
  /\ UNCHANGED <<size, rpos, time, filling, paused, cons, heard, raced, changes>>

-----------------------------------------------------------------------------
(* Control, by the emulator's thread.                                      *)

Changes == prod.pc = "idle" /\ changes < MaxChanges /\ changes' = changes + 1

BeginEmpty ==
  /\ Changes
  /\ prod' = [pc |-> "snap", at |-> rpos, n |-> 0]
  /\ UNCHANGED <<ring, time, filling, paused, cons, heard, next, raced>>

(* empty_buffer: the callback must not have come between.                  *)
EndEmpty ==
  /\ prod.pc = "snap"
  /\ wpos' = prod.at
  /\ prod' = Idle
  /\ raced' = (raced \/ cons # Idle)
  /\ UNCHANGED <<size, buf, rpos, time, filling, paused, cons, heard, next, changes>>

(* audio_stream_stop has come back.                                        *)
Stopped == cons = Idle

(* set_paused; the emulator's frames are thrown away meanwhile.            *)
Pause ==
  /\ Changes
  /\ ~paused /\ Stopped
  /\ paused' = TRUE
  /\ UNCHANGED <<ring, time, filling, prod, cons, heard, next, raced>>

Resume ==
  /\ paused /\ prod.pc = "idle"
  /\ paused' = FALSE
  /\ UNCHANGED <<ring, time, filling, prod, cons, heard, next, raced, changes>>

(* update_parameters with another buffer_ms, and set_stretch_mode: the     *)
(* device is stopped and started again around the new buffer.              *)
Reallocate ==
  /\ Changes
  /\ Stopped
  /\ \E s \in Sizes, t \in BOOLEAN :
       /\ <<s, t>> # <<size, time>>
       /\ size' = s /\ time' = t
       /\ buf' = [i \in 0..(s - 1) |-> 0]
  /\ rpos' = 0 /\ wpos' = 0
  /\ UNCHANGED <<filling, paused, prod, cons, heard, next, raced>>

(* update_parameters with another stretch mode keeps the buffer, and the   *)
(* device runs on.                                                         *)
ChangeStretch ==
  /\ Changes
  /\ time' = ~time
  /\ UNCHANGED <<ring, filling, paused, prod, cons, heard, next, raced>>

Next ==
  \/ \E n \in Requests : BeginRead(n)
  \/ LoadRpos
  \/ EndRead
  \/ \E n \in 1..Chunk : BeginWrite(n)
  \/ Overrun
  \/ EndWrite
  \/ BeginEmpty
  \/ EndEmpty
  \/ Pause
  \/ Resume
  \/ Reallocate
  \/ ChangeStretch

(* Both threads go on, and the emulator keeps making sound.                *)
Spec ==
  /\ Init /\ [][Next]_vars
  /\ WF_vars(\E n \in 1..Chunk : BeginWrite(n)) /\ WF_vars(Overrun)
  /\ WF_vars(EndWrite) /\ WF_vars(EndEmpty)
  /\ WF_vars(\E n \in Requests : BeginRead(n)) /\ WF_vars(LoadRpos) /\ WF_vars(EndRead)

-----------------------------------------------------------------------------
(* Properties.                                                             *)

(* Positions are cells of the ring and counts fit it, races or not: what a *)
(* race leaves is never read or written outside the buffer.                *)
TypeOK ==
  /\ size \in Sizes /\ buf \in [0..(size - 1) -> 0..(Frames - 1)]
  /\ rpos \in 0..(size - 1) /\ wpos \in 0..(size - 1)
  /\ prod.pc \in {"idle", "copy", "drop", "snap"} /\ cons.pc \in {"idle", "found", "copy"}
  /\ prod.n \in 0..Chunk /\ cons.n \in 0..(size - 1) /\ cons.at \in 0..(size - 1)
  /\ filling \in BOOLEAN /\ paused \in BOOLEAN /\ time \in BOOLEAN

(* The two threads copy at the same time and never touch the same cell     *)
(* (internal_write_frames, read_frames), as long as the emulator has not   *)
(* moved a position under the callback, nor an overrun discarded more      *)
(* frames than there were.                                                 *)
CopiesApart ==
  ~raced /\ prod.pc = "copy" /\ cons.pc \in {"found", "copy"} =>
    Cells(prod.at, prod.n)
      \intersect Cells(IF cons.pc = "copy" THEN cons.at ELSE rpos, cons.n) = {}

(* The positions stay in the ring and the two copies apart: TypeOK,        *)
(* CopiesApart.                                                            *)
RingIsShared ==
  /\ TypeOK
  /\ CopiesApart

Waiting == [i \in 1..Buffered |-> buf[(rpos + i - 1) % size]]
Queue == INSTANCE AudioQueue WITH Frame <- 0..(Frames - 1), queue <- Waiting

(* The ring is the queue AudioQueue promises, at every interleaving of the *)
(* two threads, until the emulator drops or empties during a callback, or  *)
(* discards two chunks of a ring that has fewer frames: then rpos or wpos  *)
(* is stored from a value that is no longer the other thread's, or past    *)
(* it, and what is left in the ring is anything.                           *)
ImplementsQueue == Queue!Init /\ [][~raced' => Queue!Next]_<<Waiting, heard>>

(* Silence after an underrun ends, whatever raced before: the waiting      *)
(* callback sees to_fill frames in time and frames are heard, if the       *)
(* device is not stopped (filling, in read_frames).  Excepted are a ring   *)
(* of one chunk, which has no room for a whole one, and those of two and   *)
(* three, which an overrun can empty for every callback.                   *)
SoundComesBack == <>[](~paused /\ size > 3 * Chunk) => []<>(heard # <<>>)
=============================================================================
