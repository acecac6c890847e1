--------------------------- MODULE CdromAsyncReader ---------------------------
(***************************************************************************)
(* The background sector reader of src/core/cdrom/cdrom_async_reader.c:    *)
(* the core thread queues reads, waits for them and swaps discs while a    *)
(* worker seeks and reads ahead into a ring of sector buffers.             *)
(*                                                                         *)
(* The worker holds the mutex except while it uses the disc; the core      *)
(* thread's fast paths touch the atomics without it.  Steps that are       *)
(* atomic here are those the other thread cannot observe half done: code   *)
(* under the mutex, and single atomic accesses outside it.                 *)
(***************************************************************************)
EXTENDS Integers

CONSTANTS Disc,      \* disc images
          Length,    \* sectors of a disc; sector Length is past the lead-out
          Bad,       \* sectors whose read fails
          Cap,       \* readahead_count given to start_thread
          CountMod,  \* stands for the 2^32 at which buffer_count wraps
          None,      \* no disc, no thread, no answer
          Calls      \* what callers do beyond the disciplined use, see MayCall

ASSUME NoneAssumption == None \notin Disc \cup Int \cup {"cpu", "worker"}
ASSUME SizeAssumption == /\ Length \in Nat \ {0} /\ Bad \subseteq 0..(Length - 1)
                         /\ Cap \in Nat \ {0} /\ CountMod \in Nat /\ CountMod > Cap
ASSUME CallsAssumption == Calls \subseteq {"requeue", "rewait", "eject"}

VARIABLES
  media,      \* the image, or None
  position,   \* cd_image_get_position_on_disc(media)
  holder,     \* who holds the mutex
  nextPosition, nextPositionSet, shutdown, isReading, canReadahead, seekError,
  slots, front, back, count,    \* buffers, buffer_front, _back, _count
  threaded,   \* thread_started
  worker,     \* [pc, lba, ok, slot]: where the worker is, and its locals
  cpu,        \* [pc, lba, n]: the same for the core thread
  asleep,     \* the core thread waits on notify_read_complete_cv
  asked, reply,  \* history: the last sector queued; what the wait for it returned
  requests       \* history: 0, 1 or more (2) reads queued since a disc came in

ring == <<slots, front, back, count>>
request == <<nextPosition, nextPositionSet>>
flags == <<shutdown, isReading, canReadahead, seekError>>
disc == <<media, position>>
history == <<asked, reply, requests>>
vars == <<disc, holder, request, flags, ring, threaded, worker, cpu, asleep, history>>

LBA == 0..Length
Readable(l) == l < Length /\ l \notin Bad
CanSeek(l) == media # None /\ (position = l \/ l < Length)

Unanswered == "pending"
NoData == <<None, 0>>
EmptySlot == [lba |-> 0, ok |-> FALSE, data |-> NoData]

CpuPCs == {"idle", "compare", "advance", "consume", "refill", "kick", "request",
           "peek", "await", "uncachedWait", "uncached", "cancel", "swap",
           "idleWait", "precache", "stop", "join", "boot"}
WorkerPCs == {"start", "check", "block", "sleep", "wake", "top", "begin", "seek",
              "seeked", "fill", "read", "readDone", "filled", "exited"}

Pending == asked # None /\ reply = Unanswered

(***************************************************************************)
(* The disciplined use: a read is waited for before the next is queued or  *)
(* the disc changes, and a wait that failed is not repeated.  cdrom.c      *)
(* breaks each rule: cdrom_begin_seeking queues over an earlier seek       *)
(* ("requeue"), cdrom_get_next_sector_to_be_read waits for a read that     *)
(* cdrom_complete_seek waits for again ("rewait"), and cdrom_remove_media  *)
(* may find a read in flight ("eject").                                    *)
(***************************************************************************)
MayQueue == "requeue" \in Calls \/ ~Pending
MayWait == asked # None /\ ("rewait" \in Calls \/ reply # "failed")
MayChange == "eject" \in Calls \/ ~Pending

-----------------------------------------------------------------------------
(* The condition variables.  A signal reaches a worker that sleeps, a      *)
(* broadcast the core thread if it sleeps; neither is remembered.          *)
SignalWorker == worker' = IF worker.pc = "sleep" THEN [worker EXCEPT !.pc = "wake"] ELSE worker
WakeCpu == asleep' = FALSE

EmptyBuffers == front' = 0 /\ back' = 0 /\ count' = 0 /\ UNCHANGED slots

CpuGoes(pc) == cpu' = [cpu EXCEPT !.pc = pc]
WorkerGoes(pc) == worker' = [worker EXCEPT !.pc = pc]

-----------------------------------------------------------------------------
(* cdrom_async_reader_queue_read_sector                                    *)

(* cdrom_async_reader_read_sector_non_threaded                             *)
ReadNonThreaded(l) ==
  LET ok == CanSeek(l)
      got == ok /\ Readable(l)
  IN  /\ front' = 0 /\ back' = 0
      /\ count' = IF ok THEN 1 ELSE 0
      /\ seekError' = ~ok
      /\ position' = IF got THEN l + 1 ELSE IF ok THEN l ELSE position
      /\ slots' = IF ok THEN [slots EXCEPT ![0] =
                    [lba |-> l, ok |-> got, data |-> IF got THEN <<media, l>> ELSE slots[0].data]]
                  ELSE slots
      /\ CpuGoes("idle")
      /\ UNCHANGED <<shutdown, isReading, canReadahead>>

QueueReadSector(l) ==
  /\ asked' = l /\ reply' = Unanswered
  /\ requests' = IF requests = 0 THEN 1 ELSE 2
  /\ IF threaded
     THEN /\ cpu' = [pc |-> IF count > 0 THEN "compare" ELSE "request", lba |-> l, n |-> count]
          /\ UNCHANGED <<ring, flags, position>>
     ELSE ReadNonThreaded(l)
  /\ UNCHANGED <<media, holder, request, threaded, worker, asleep>>

Queue == /\ cpu.pc = "idle" /\ media # None /\ MayQueue
         /\ \E l \in LBA : QueueReadSector(l)

(* The unlocked fast path: skip, readahead hit, or miss.                   *)
CompareFront ==
  LET next == (front + 1) % Cap
  IN  /\ cpu.pc = "compare"
      /\ cpu' = IF slots[front].lba = cpu.lba THEN [cpu EXCEPT !.pc = "idle"]
                ELSE IF cpu.n > 1 /\ slots[next].lba = cpu.lba
                     THEN [cpu EXCEPT !.pc = "advance", !.n = next]
                     ELSE [cpu EXCEPT !.pc = "request"]
      /\ UNCHANGED <<disc, holder, request, flags, ring, threaded, worker, asleep, history>>

AdvanceFront == /\ cpu.pc = "advance" /\ CpuGoes("consume") /\ front' = cpu.n
                /\ UNCHANGED <<disc, holder, request, flags, slots, back, count, threaded,
                               worker, asleep, history>>

ConsumeFront == /\ cpu.pc = "consume" /\ CpuGoes("refill") /\ count' = (count - 1) % CountMod
                /\ UNCHANGED <<disc, holder, request, flags, slots, front, back, threaded,
                               worker, asleep, history>>

AllowReadahead == /\ cpu.pc = "refill" /\ CpuGoes("kick") /\ canReadahead' = TRUE
                  /\ UNCHANGED <<disc, holder, request, shutdown, isReading, seekError, ring,
                                 threaded, worker, asleep, history>>

KickWorker == /\ cpu.pc = "kick" /\ CpuGoes("idle") /\ SignalWorker
              /\ UNCHANGED <<disc, holder, request, flags, ring, threaded, asleep, history>>

(* The miss: leave the request under the mutex.                            *)
RequestSeek == /\ cpu.pc = "request" /\ holder = None /\ CpuGoes("idle")
               /\ nextPositionSet' = TRUE /\ nextPosition' = cpu.lba
               /\ SignalWorker
               /\ UNCHANGED <<disc, holder, flags, ring, threaded, asleep, history>>

-----------------------------------------------------------------------------
(* cdrom_async_reader_wait_for_read_to_complete                            *)

Return(ok) == reply' = (IF ok THEN "ok" ELSE "failed") /\ CpuGoes("idle")

(* Mutant: the unlocked test forgets the pending request.                  *)
WaitIgnoresRequest ==
  /\ cpu.pc = "idle" /\ MayWait
  /\ CpuGoes("peek")
  /\ UNCHANGED <<disc, holder, request, flags, ring, threaded, worker, asleep, history>>

WaitForRead ==
  /\ cpu.pc = "idle" /\ MayWait
  /\ CpuGoes(IF nextPositionSet THEN "await" ELSE "peek")
  /\ UNCHANGED <<disc, holder, request, flags, ring, threaded, worker, asleep, history>>

(* The second half of the unlocked test.                                   *)
PeekCount ==
  /\ cpu.pc = "peek"
  /\ IF count > 0 THEN Return(slots[front].ok) ELSE CpuGoes("await") /\ UNCHANGED reply
  /\ UNCHANGED <<disc, holder, request, flags, ring, threaded, worker, asleep, asked, requests>>

Await ==
  /\ cpu.pc = "await" /\ ~asleep /\ holder = None
  /\ IF (count > 0 \/ seekError) /\ ~nextPositionSet
     THEN /\ Return(~seekError /\ slots[front].ok)
          /\ seekError' = FALSE
          /\ UNCHANGED asleep
     ELSE asleep' = TRUE /\ UNCHANGED <<cpu, seekError, reply>>
  /\ UNCHANGED <<disc, holder, request, shutdown, isReading, canReadahead, ring, threaded,
                 worker, asked, requests>>

-----------------------------------------------------------------------------
(* The core thread's other calls that use the disc.                        *)

(* cdrom_async_reader_read_sector_uncached: read with the mutex held, then *)
(* put the position back.                                                  *)
ReadUncached ==
  /\ cpu.pc = "idle" /\ media # None
  /\ \E l \in LBA : cpu' = [cpu EXCEPT !.pc = IF threaded THEN "uncachedWait" ELSE "uncached",
                                       !.lba = l]
  /\ UNCHANGED <<disc, holder, request, flags, ring, threaded, worker, asleep, history>>

(* Mutant: the read does not wait for the worker's.                        *)
LockUncachedAtOnce ==
  /\ cpu.pc = "uncachedWait" /\ ~asleep /\ holder = None
  /\ holder' = "cpu" /\ CpuGoes("uncached")
  /\ UNCHANGED <<disc, request, flags, ring, threaded, worker, asleep, history>>

LockUncached ==
  /\ cpu.pc = "uncachedWait" /\ ~asleep /\ holder = None
  /\ IF isReading THEN asleep' = TRUE /\ UNCHANGED <<holder, cpu>>
                  ELSE holder' = "cpu" /\ CpuGoes("uncached") /\ UNCHANGED asleep
  /\ UNCHANGED <<disc, request, flags, ring, threaded, worker, history>>

Uncached ==
  LET l == cpu.lba
      after == IF ~CanSeek(l) THEN position ELSE IF Readable(l) THEN l + 1 ELSE l
      back_ == threaded /\ position < Length       \* the seek to prev_lba succeeds
  IN  /\ cpu.pc = "uncached"
      /\ position' = IF back_ THEN position ELSE after
      /\ canReadahead' = IF threaded /\ ~back_ THEN FALSE ELSE canReadahead
      /\ holder' = None
      /\ CpuGoes("idle")
      /\ UNCHANGED <<media, request, shutdown, isReading, seekError, ring, threaded, worker,
                     asleep, history>>

(* cdrom_async_reader_set_media and _remove_media; lba 1 marks an insert.  *)
ChangeMedia ==
  /\ cpu.pc = "idle" /\ MayChange
  /\ \E insert \in {0, 1} :
       /\ insert = 1 \/ media # None
       /\ cpu' = [pc |-> IF threaded THEN "cancel" ELSE "swap", lba |-> insert, n |-> 0]
  /\ asked' = None /\ reply' = Unanswered
  /\ UNCHANGED <<disc, holder, request, flags, ring, threaded, worker, asleep, requests>>

(* cdrom_async_reader_cancel_readahead                                     *)
CancelReadahead ==
  /\ cpu.pc = "cancel" /\ ~asleep /\ holder = None
  /\ IF isReading
     THEN asleep' = TRUE /\ UNCHANGED <<canReadahead, ring, cpu>>
     ELSE canReadahead' = FALSE /\ EmptyBuffers /\ CpuGoes("swap") /\ UNCHANGED asleep
  /\ UNCHANGED <<disc, holder, request, shutdown, isReading, seekError, threaded, worker, history>>

(* The pointer changes after the mutex was released.                       *)
SwapMedia ==
  /\ cpu.pc = "swap" /\ CpuGoes("idle")
  /\ position' = 0
  /\ requests' = 0
  /\ IF cpu.lba = 1
     THEN (\E d \in Disc : media' = d) /\ EmptyBuffers /\ seekError' = FALSE
     ELSE media' = None /\ UNCHANGED <<ring, seekError>>
  /\ UNCHANGED <<holder, request, shutdown, isReading, canReadahead, threaded, worker, asleep,
                 asked, reply>>

(* cdrom_async_reader_precache.  It is called for a disc that has just     *)
(* been inserted, at boot after a state load has queued its first read.    *)
Precache == /\ cpu.pc = "idle" /\ media # None /\ requests < 2
            /\ CpuGoes(IF threaded THEN "idleWait" ELSE "precache")
            /\ UNCHANGED <<disc, holder, request, flags, ring, threaded, worker, asleep, history>>

(* cdrom_async_reader_wait_for_idle                                        *)
WaitForIdle ==
  /\ cpu.pc = "idleWait" /\ ~asleep /\ holder = None
  /\ IF isReading \/ nextPositionSet THEN asleep' = TRUE /\ UNCHANGED cpu
                                     ELSE CpuGoes("precache") /\ UNCHANGED asleep
  /\ UNCHANGED <<disc, holder, request, flags, ring, threaded, worker, history>>

PrecacheMedia == /\ cpu.pc = "precache" /\ holder = None /\ CpuGoes("idle")
                 /\ UNCHANGED <<disc, holder, request, flags, ring, threaded, worker, asleep, history>>

(* cdrom_shutdown: cdrom_async_reader_stop_thread, then the reader goes.   *)
(* It comes at any time, whatever is queued.                               *)
Shutdown ==
  /\ cpu.pc = "idle"
  /\ CpuGoes(IF threaded THEN "stop" ELSE "boot")
  /\ asked' = None /\ reply' = Unanswered
  /\ UNCHANGED <<disc, holder, request, flags, ring, threaded, worker, asleep, requests>>

StopThread ==
  /\ cpu.pc = "stop" /\ holder = None
  /\ shutdown' = TRUE /\ SignalWorker /\ CpuGoes("join")
  /\ UNCHANGED <<disc, holder, request, isReading, canReadahead, seekError, ring, threaded,
                 asleep, history>>

JoinThread ==
  /\ cpu.pc = "join" /\ worker.pc = "exited"
  /\ EmptyBuffers /\ threaded' = FALSE /\ CpuGoes("boot")
  /\ UNCHANGED <<disc, holder, request, flags, worker, asleep, history>>

-----------------------------------------------------------------------------
(* cdrom_async_reader_worker_thread_entry                                  *)

(* Taking the mutex at the start, and again when a cond_wait returns.      *)
TakeLock ==
  /\ worker.pc \in {"start", "wake"} /\ holder = None
  /\ holder' = "worker" /\ WorkerGoes("check")
  /\ UNCHANGED <<disc, request, flags, ring, threaded, cpu, asleep, history>>

(* The condition of the outer loop, then the test of shutdown_flag.        *)
CheckWork ==
  /\ worker.pc = "check"
  /\ IF shutdown THEN WorkerGoes("exited") /\ holder' = None
     ELSE /\ WorkerGoes(IF nextPositionSet \/ canReadahead THEN "top" ELSE "block")
          /\ UNCHANGED holder
  /\ UNCHANGED <<disc, request, flags, ring, threaded, cpu, asleep, history>>

(* A signal sent between the test and this step finds nobody asleep.       *)
Block ==
  /\ worker.pc = "block"
  /\ WorkerGoes("sleep") /\ holder' = None
  /\ UNCHANGED <<disc, request, flags, ring, threaded, cpu, asleep, history>>

(* A seek discards the buffers before it clears the request.               *)
TopOfLoop ==
  /\ worker.pc = "top"
  /\ IF nextPositionSet
     THEN worker' = [worker EXCEPT !.pc = "begin", !.lba = nextPosition] /\ EmptyBuffers
     ELSE WorkerGoes(IF canReadahead THEN "fill" ELSE "check") /\ UNCHANGED ring
  /\ UNCHANGED <<disc, holder, request, flags, threaded, cpu, asleep, history>>

BeginSeek ==
  /\ worker.pc = "begin" /\ WorkerGoes("seek")
  /\ nextPositionSet' = FALSE /\ seekError' = FALSE /\ isReading' = TRUE
  /\ holder' = None
  /\ UNCHANGED <<disc, nextPosition, shutdown, canReadahead, ring, threaded, cpu, asleep, history>>

(* The disc is used without the mutex.                                     *)
Seek ==
  LET ok == CanSeek(worker.lba)
  IN  /\ worker.pc = "seek"
      /\ worker' = [worker EXCEPT !.pc = "seeked", !.ok = ok]
      /\ position' = IF ok THEN worker.lba ELSE position
      /\ UNCHANGED <<media, holder, request, flags, ring, threaded, cpu, asleep, history>>

(* Mutant: a failed seek is tried again instead of reported.               *)
EndSeekRetries ==
  /\ worker.pc = "seeked" /\ holder = None
  /\ holder' = "worker" /\ isReading' = FALSE
  /\ IF nextPositionSet \/ ~worker.ok
     THEN WorkerGoes("top") /\ nextPositionSet' = TRUE /\ UNCHANGED canReadahead
     ELSE WorkerGoes("fill") /\ canReadahead' = TRUE /\ UNCHANGED nextPositionSet
  /\ UNCHANGED <<disc, nextPosition, shutdown, seekError, ring, threaded, cpu, asleep, history>>

(* A newer request aborts this one; a failed seek answers the wait.        *)
EndSeek ==
  /\ worker.pc = "seeked" /\ holder = None
  /\ holder' = "worker" /\ isReading' = FALSE
  /\ IF nextPositionSet
     THEN WorkerGoes("top") /\ UNCHANGED <<seekError, canReadahead, asleep>>
     ELSE IF ~worker.ok
     THEN WorkerGoes("check") /\ seekError' = TRUE /\ WakeCpu /\ UNCHANGED canReadahead
     ELSE WorkerGoes("fill") /\ canReadahead' = TRUE /\ UNCHANGED <<seekError, asleep>>
  /\ UNCHANGED <<disc, request, shutdown, ring, threaded, cpu, history>>

(* cdrom_async_reader_read_sector_into_buffer up to its unlock, for as     *)
(* long as there is space and no new request.                              *)
FillBuffer ==
  /\ worker.pc = "fill"
  /\ IF count < Cap /\ ~nextPositionSet
     THEN /\ slots' = [slots EXCEPT ![back].lba = position]
          /\ back' = (back + 1) % Cap
          /\ isReading' = TRUE /\ holder' = None
          /\ worker' = [worker EXCEPT !.pc = "read", !.slot = back]
     ELSE WorkerGoes("filled") /\ UNCHANGED <<slots, back, isReading, holder>>
  /\ UNCHANGED <<disc, request, shutdown, canReadahead, seekError, front, count, threaded, cpu,
                 asleep, history>>

ReadSector ==
  LET ok == media # None /\ Readable(position)
  IN  /\ worker.pc = "read" /\ WorkerGoes("readDone")
      /\ slots' = [slots EXCEPT ![worker.slot].ok = ok,
                                ![worker.slot].data = IF ok THEN <<media, position>> ELSE @]
      /\ position' = IF ok THEN position + 1 ELSE position
      /\ UNCHANGED <<media, holder, request, flags, front, back, count, threaded, cpu, asleep,
                     history>>

EndRead ==
  /\ worker.pc = "readDone" /\ holder = None
  /\ holder' = "worker" /\ isReading' = FALSE
  /\ count' = (count + 1) % CountMod
  /\ WakeCpu /\ WorkerGoes("fill")
  /\ UNCHANGED <<disc, request, shutdown, canReadahead, seekError, slots, front, back, threaded,
                 cpu, history>>

(* A hit that sets can_readahead between the last test of buffer_count and *)
(* this store is forgotten until the next hit.                             *)
EndReadahead ==
  /\ worker.pc = "filled" /\ WorkerGoes("check") /\ canReadahead' = FALSE
  /\ UNCHANGED <<disc, holder, request, shutdown, isReading, seekError, ring, threaded, cpu,
                 asleep, history>>

-----------------------------------------------------------------------------
(* cdrom_initialize (cdrom_async_reader_init; start_thread if readahead is *)
(* wanted) and the disc the machine boots with.                            *)
NewWorker == [pc |-> "start", lba |-> 0, ok |-> FALSE, slot |-> 0]
NewCpu == [pc |-> "idle", lba |-> 0, n |-> 0]
NewSlots == [i \in 0..(Cap - 1) |-> EmptySlot]

Init ==
  /\ media \in Disc \cup {None} /\ position = 0
  /\ holder = None
  /\ nextPosition = 0 /\ nextPositionSet = FALSE
  /\ threaded \in BOOLEAN /\ shutdown = ~threaded
  /\ isReading = FALSE /\ canReadahead = FALSE /\ seekError = FALSE
  /\ slots = NewSlots /\ front = 0 /\ back = 0 /\ count = 0
  /\ worker = [NewWorker EXCEPT !.pc = IF threaded THEN "start" ELSE "exited"]
  /\ cpu = NewCpu /\ asleep = FALSE
  /\ asked = None /\ reply = Unanswered /\ requests = 0

(* The next machine.                                                       *)
Boot ==
  /\ cpu.pc = "boot"
  /\ media' \in Disc \cup {None} /\ position' = 0
  /\ holder' = None
  /\ nextPosition' = 0 /\ nextPositionSet' = FALSE
  /\ threaded' \in BOOLEAN /\ shutdown' = ~threaded'
  /\ isReading' = FALSE /\ canReadahead' = FALSE /\ seekError' = FALSE
  /\ slots' = NewSlots /\ front' = 0 /\ back' = 0 /\ count' = 0
  /\ worker' = [NewWorker EXCEPT !.pc = IF threaded' THEN "start" ELSE "exited"]
  /\ cpu' = NewCpu /\ asleep' = FALSE
  /\ asked' = None /\ reply' = Unanswered /\ requests' = 0

WorkerStep == \/ TakeLock \/ CheckWork \/ Block \/ TopOfLoop \/ BeginSeek \/ Seek \/ EndSeek
              \/ FillBuffer \/ ReadSector \/ EndRead \/ EndReadahead

(* A step inside a call, which the core thread takes when it can.          *)
CallStep == \/ CompareFront \/ AdvanceFront \/ ConsumeFront \/ AllowReadahead \/ KickWorker
            \/ RequestSeek \/ PeekCount \/ Await \/ LockUncached \/ Uncached
            \/ CancelReadahead \/ SwapMedia \/ WaitForIdle \/ PrecacheMedia
            \/ StopThread \/ JoinThread \/ Boot

Call == Queue \/ WaitForRead \/ ReadUncached \/ ChangeMedia \/ Precache \/ Shutdown

Next == WorkerStep \/ CallStep \/ Call

Spec == Init /\ [][Next]_vars
FairSpec == Spec /\ WF_vars(WorkerStep) /\ WF_vars(CallStep)

-----------------------------------------------------------------------------
Slot == [lba : LBA, ok : BOOLEAN, data : {NoData} \cup (Disc \X LBA)]

(* Every variable stays in its range; in particular buffer_count does not  *)
(* wrap and position does not leave the disc.                              *)
TypeOK ==
  /\ media \in Disc \cup {None} /\ position \in LBA
  /\ holder \in {None, "cpu", "worker"}
  /\ nextPosition \in LBA /\ nextPositionSet \in BOOLEAN
  /\ shutdown \in BOOLEAN /\ isReading \in BOOLEAN
  /\ canReadahead \in BOOLEAN /\ seekError \in BOOLEAN
  /\ slots \in [0..(Cap - 1) -> Slot]
  /\ front \in 0..(Cap - 1) /\ back \in 0..(Cap - 1) /\ count \in 0..Cap
  /\ threaded \in BOOLEAN
  /\ worker \in [pc : WorkerPCs, lba : LBA, ok : BOOLEAN, slot : 0..(Cap - 1)]
  /\ cpu \in [pc : CpuPCs, lba : LBA, n : 0..Cap] /\ asleep \in BOOLEAN
  /\ asked \in LBA \cup {None} /\ reply \in {Unanswered, "ok", "failed"}
  /\ requests \in 0..2

(* Only one thread uses the image at a time, and the worker never uses one *)
(* that was taken away (cdrom_async_reader.c:395, "Prevent it from doing   *)
(* any more when it re-acquires the lock").                                *)
MediaExclusive ==
  worker.pc \in {"seek", "read"} =>
    media # None /\ cpu.pc \notin {"uncached", "swap", "precache"}

(* A buffered sector is what its label says, of the disc that is in: no    *)
(* readahead, uncached read or swap mixes positions or discs.  Between the *)
(* two stores of a hit buffer_count still counts the sector given up.      *)
Buffered == IF cpu.pc = "consume" THEN count - 1 ELSE count
BufferedSectorsMatch ==
  cpu.pc # "swap" => \A k \in 0..(Buffered - 1) :
    LET s == slots[(front + k) % Cap]
    IN  /\ media # None => (s.ok <=> Readable(s.lba))
        /\ media # None /\ s.ok => s.data = <<media, s.lba>>

(* The disc has one user and the buffers are its sectors: variables in     *)
(* range, MediaExclusive, BufferedSectorsMatch.                            *)
BuffersBelongToDisc ==
  /\ TypeOK
  /\ MediaExclusive
  /\ BufferedSectorsMatch

(* cdrom_async_reader.h: the wait "blocks until the most recently queued   *)
(* sector read completes; returns the read result".  The sector stays in   *)
(* the front buffer until the next call that moves it.  A sector past the  *)
(* lead-out is left out: its seek fails, and the worker goes on to read    *)
(* ahead from the old position if a hit had allowed it.                    *)
LatestReadAnswered ==
  reply # Unanswered /\ asked < Length =>
    /\ reply = "ok" <=> Readable(asked)
    /\ reply = "ok" => slots[front].lba = asked /\ slots[front].data = <<media, asked>>

(* Every call returns: no wakeup that matters is lost, nobody waits for    *)
(* somebody who waits.                                                     *)
CallsReturn == (cpu.pc # "idle") ~> (cpu.pc = "idle")

=============================================================================
