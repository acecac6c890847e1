----------------------- MODULE CdromAsyncReader_proofs -----------------------
(***************************************************************************)
(* Proofs about the background sector reader, for any discs, sizes and     *)
(* buffers.  First, the disc image has one user at a time, for any use of  *)
(* it that does not change the disc while a read is in flight.  Then, on   *)
(* top of that, what the buffers hold and what a wait returns, for callers *)
(* who also do not queue a read over an earlier one.                       *)
(***************************************************************************)
EXTENDS CdromAsyncReader, TLAPS

(* What steps compute from, as far as the proof needs it: buffer_count may *)
(* wrap.                                                                   *)
Shapes ==
  /\ worker \in [pc : WorkerPCs, lba : Int, ok : BOOLEAN, slot : Int]
  /\ cpu \in [pc : CpuPCs, lba : Int, n : Int]
  /\ position \in Int /\ nextPosition \in Int /\ front \in Int /\ back \in Int /\ count \in Int
  /\ requests \in 0..2
  /\ nextPositionSet \in BOOLEAN /\ shutdown \in BOOLEAN /\ isReading \in BOOLEAN
  /\ canReadahead \in BOOLEAN /\ seekError \in BOOLEAN /\ threaded \in BOOLEAN
  /\ asleep \in BOOLEAN

WorkerHolds == worker.pc \in {"check", "block", "top", "begin", "fill", "filled"}
WorkerReads == worker.pc \in {"seek", "seeked", "read", "readDone"}
WorkerRests == worker.pc \in {"start", "check", "block", "sleep", "wake", "exited"}

(* The mutex, and is_reading while it is given up around a use of the disc.*)
Locks ==
  /\ holder = "worker" <=> WorkerHolds
  /\ holder = "cpu" <=> cpu.pc = "uncached" /\ threaded
  /\ holder \in {None, "cpu", "worker"}
  /\ isReading <=> WorkerReads
  /\ ~threaded => worker.pc = "exited"
  /\ cpu.pc = "uncachedWait" => threaded
  /\ cpu.pc = "uncached" /\ threaded => ~isReading

(* Nothing for the worker to do, and it is not doing anything.             *)
Quiet == ~nextPositionSet /\ ~canReadahead /\ WorkerRests

(* When the worker has been made to stop, and when it has not begun.       *)
Stopped ==
  threaded /\ (cpu.pc \in {"swap", "precache"} \/ requests = 0 \/ media = None) => Quiet

(* Until the second read is queued there is no hit, which alone makes the  *)
(* worker read ahead without a seek.                                       *)
FirstReads ==
  /\ threaded /\ requests < 2 /\ canReadahead
       => worker.pc \in {"fill", "read", "readDone", "filled"}
  /\ threaded /\ (requests = 0 \/ cpu.pc = "swap") => count = 0
  /\ cpu.pc \in {"idleWait", "precache"} => requests < 2
  /\ cpu.pc \in {"compare", "advance", "consume", "refill", "kick"} => media # None /\ requests = 2
  /\ cpu.pc = "request" => media # None /\ requests >= 1

(* A request that the worker has not seen is of a read not yet answered.   *)
Requests ==
  /\ nextPositionSet /\ threaded => Pending \/ cpu.pc \in {"stop", "join"}
  /\ cpu.pc \in {"compare", "request"} => Pending
  /\ cpu.pc = "peek" => ~nextPositionSet
  /\ cpu.pc \in {"cancel", "swap"} => asked = None

IndInv == Shapes /\ Locks /\ Stopped /\ FirstReads /\ Requests

(* The constants, as the steps use them.                                   *)
LEMMA NoneDistinct == None # "worker" /\ None # "cpu"
BY NoneAssumption

(* buffer_front, buffer_back and buffer_count stay integers.               *)
LEMMA Wrapping == \A i \in Int : (i % Cap) \in Int /\ (i % CountMod) \in Int
BY SizeAssumption

-----------------------------------------------------------------------------
(* The worker's steps.                                                    *)

(* The worker takes the mutex when nobody holds it.                        *)
LEMMA TakeLockStep == ASSUME IndInv, TakeLock PROVE IndInv'
<1>1. /\ UNCHANGED <<cpu, media, threaded, history, nextPositionSet, nextPosition,
                      shutdown, isReading, canReadahead, seekError, front, back, count,
                      position>>
      /\ asleep' \in BOOLEAN
      /\ worker' \in [pc : WorkerPCs, lba : Int, ok : BOOLEAN, slot : Int]
      /\ worker.pc \in {"start", "wake"} /\ worker'.pc = "check"
      /\ holder = None /\ holder' = "worker"
  BY DEF TakeLock, WorkerGoes, disc, flags, history, request, ring, IndInv, Shapes, CpuPCs,
       WorkerPCs
<1>2. Shapes'
  BY <1>1 DEF IndInv, Shapes, history
<1>3. Locks'
  BY <1>1, NoneDistinct DEF IndInv, Locks, Shapes, WorkerHolds, WorkerReads
<1>4. Stopped'
  BY <1>1, NoneDistinct
     DEF IndInv, Shapes, Locks, Stopped, FirstReads, Requests, Quiet, WorkerHolds,
         WorkerReads, WorkerRests, WorkerPCs, Pending, history
<1>5. FirstReads'
  BY <1>1
     DEF IndInv, Shapes, Locks, Stopped, FirstReads, Quiet, WorkerHolds, WorkerReads,
         WorkerRests, WorkerPCs, history
<1>6. Requests'
  BY <1>1 DEF IndInv, Shapes, FirstReads, Requests, Pending, history
<1> QED
  BY <1>2, <1>3, <1>4, <1>5, <1>6 DEF IndInv

(* Sleeping and stopping keep the worker at rest.                          *)
LEMMA CheckWorkStep == ASSUME IndInv, CheckWork PROVE IndInv'
<1>1. /\ UNCHANGED <<cpu, media, threaded, history, nextPositionSet, nextPosition,
                      shutdown, isReading, canReadahead, seekError, front, back, count,
                      position>>
      /\ asleep' \in BOOLEAN
      /\ worker' \in [pc : WorkerPCs, lba : Int, ok : BOOLEAN, slot : Int]
      /\ worker.pc = "check"
      /\ \/ worker'.pc = "exited" /\ holder' = None
         \/ worker'.pc = "top" /\ holder' = holder /\ (nextPositionSet \/ canReadahead)
         \/ worker'.pc = "block" /\ holder' = holder
  BY DEF CheckWork, WorkerGoes, disc, flags, history, request, ring, IndInv, Shapes, CpuPCs,
       WorkerPCs
<1>2. Shapes'
  BY <1>1 DEF IndInv, Shapes, history
<1>3. Locks'
  BY <1>1, NoneDistinct DEF IndInv, Locks, Shapes, WorkerHolds, WorkerReads
<1>4. Stopped'
  BY <1>1, NoneDistinct
     DEF IndInv, Shapes, Locks, Stopped, FirstReads, Requests, Quiet, WorkerHolds,
         WorkerReads, WorkerRests, WorkerPCs, Pending, history
<1>5. FirstReads'
  BY <1>1
     DEF IndInv, Shapes, Locks, Stopped, FirstReads, Quiet, WorkerHolds, WorkerReads,
         WorkerRests, WorkerPCs, history
<1>6. Requests'
  BY <1>1 DEF IndInv, Shapes, FirstReads, Requests, Pending, history
<1> QED
  BY <1>2, <1>3, <1>4, <1>5, <1>6 DEF IndInv

(* Giving up the mutex to sleep.                                           *)
LEMMA BlockStep == ASSUME IndInv, Block PROVE IndInv'
<1>1. /\ UNCHANGED <<cpu, media, threaded, history, nextPositionSet, nextPosition,
                      shutdown, isReading, canReadahead, seekError, front, back, count,
                      position>>
      /\ asleep' \in BOOLEAN
      /\ worker' \in [pc : WorkerPCs, lba : Int, ok : BOOLEAN, slot : Int]
      /\ worker.pc = "block" /\ worker'.pc = "sleep" /\ holder' = None
  BY DEF Block, WorkerGoes, disc, flags, history, request, ring, IndInv, Shapes, CpuPCs, WorkerPCs
<1>2. Shapes'
  BY <1>1 DEF IndInv, Shapes, history
<1>3. Locks'
  BY <1>1, NoneDistinct DEF IndInv, Locks, Shapes, WorkerHolds, WorkerReads
<1>4. Stopped'
  BY <1>1, NoneDistinct
     DEF IndInv, Shapes, Locks, Stopped, FirstReads, Requests, Quiet, WorkerHolds,
         WorkerReads, WorkerRests, WorkerPCs, Pending, history
<1>5. FirstReads'
  BY <1>1
     DEF IndInv, Shapes, Locks, Stopped, FirstReads, Quiet, WorkerHolds, WorkerReads,
         WorkerRests, WorkerPCs, history
<1>6. Requests'
  BY <1>1 DEF IndInv, Shapes, FirstReads, Requests, Pending, history
<1> QED
  BY <1>2, <1>3, <1>4, <1>5, <1>6 DEF IndInv

(* The worker stirs only for a request or readahead.                       *)
LEMMA TopOfLoopStep == ASSUME IndInv, TopOfLoop PROVE IndInv'
<1>1. /\ UNCHANGED <<cpu, media, threaded, history, nextPositionSet, nextPosition,
                      shutdown, isReading, canReadahead, seekError, position, holder>>
      /\ asleep' \in BOOLEAN
      /\ worker' \in [pc : WorkerPCs, lba : Int, ok : BOOLEAN, slot : Int]
      /\ worker.pc = "top"
      /\ front' \in Int /\ back' \in Int
      /\ count' = count \/ count' = 0
      /\ \/ worker'.pc = "begin" /\ nextPositionSet
         \/ worker'.pc = "fill" /\ canReadahead
         \/ worker'.pc = "check" /\ ~nextPositionSet /\ ~canReadahead
  <2>1. CASE nextPositionSet
    <3>1. /\ worker' = [worker EXCEPT !.pc = "begin", !.lba = nextPosition]
          /\ front' = 0 /\ back' = 0 /\ count' = 0 /\ worker.pc = "top"
      BY <2>1 DEF TopOfLoop, EmptyBuffers
    <3>2. worker' \in [pc : WorkerPCs, lba : Int, ok : BOOLEAN, slot : Int] /\ worker'.pc = "begin"
      BY <3>1 DEF IndInv, Shapes, WorkerPCs
    <3> QED
      BY <2>1, <3>1, <3>2 DEF TopOfLoop, disc, flags, history, request, IndInv, Shapes
  <2>2. CASE ~nextPositionSet
    BY <2>2
       DEF TopOfLoop, EmptyBuffers, WorkerGoes, disc, flags, history, request, ring,
           IndInv, Shapes, CpuPCs, WorkerPCs
  <2> QED
    BY <2>1, <2>2
<1>2. Shapes'
  BY <1>1 DEF IndInv, Shapes, history
<1>3. Locks'
  BY <1>1, NoneDistinct DEF IndInv, Locks, Shapes, WorkerHolds, WorkerReads
<1>4. Stopped'
  BY <1>1, NoneDistinct
     DEF IndInv, Shapes, Locks, Stopped, FirstReads, Requests, Quiet, WorkerHolds,
         WorkerReads, WorkerRests, WorkerPCs, Pending, history
<1>5. FirstReads'
  BY <1>1
     DEF IndInv, Shapes, Locks, Stopped, FirstReads, Quiet, WorkerHolds, WorkerReads,
         WorkerRests, WorkerPCs, history
<1>6. Requests'
  BY <1>1 DEF IndInv, Shapes, FirstReads, Requests, Pending, history
<1> QED
  BY <1>2, <1>3, <1>4, <1>5, <1>6 DEF IndInv

(* is_reading goes up as the mutex is given up.                            *)
LEMMA BeginSeekStep == ASSUME IndInv, BeginSeek PROVE IndInv'
<1>1. /\ UNCHANGED <<cpu, media, threaded, history, nextPosition, shutdown, canReadahead,
                      front, back, count, position>>
      /\ asleep' \in BOOLEAN
      /\ worker' \in [pc : WorkerPCs, lba : Int, ok : BOOLEAN, slot : Int]
      /\ worker.pc = "begin" /\ worker'.pc = "seek"
      /\ nextPositionSet' = FALSE /\ seekError' \in BOOLEAN /\ isReading' = TRUE /\ holder' = None
  BY DEF BeginSeek, WorkerGoes, disc, history, ring, IndInv, Shapes, CpuPCs, WorkerPCs
<1>2. Shapes'
  BY <1>1 DEF IndInv, Shapes, history
<1>3. Locks'
  BY <1>1, NoneDistinct DEF IndInv, Locks, Shapes, WorkerHolds, WorkerReads
<1>4. Stopped'
  BY <1>1, NoneDistinct
     DEF IndInv, Shapes, Locks, Stopped, FirstReads, Requests, Quiet, WorkerHolds,
         WorkerReads, WorkerRests, WorkerPCs, Pending, history
<1>5. FirstReads'
  BY <1>1
     DEF IndInv, Shapes, Locks, Stopped, FirstReads, Quiet, WorkerHolds, WorkerReads,
         WorkerRests, WorkerPCs, history
<1>6. Requests'
  BY <1>1 DEF IndInv, Shapes, FirstReads, Requests, Pending, history
<1> QED
  BY <1>2, <1>3, <1>4, <1>5, <1>6 DEF IndInv

(* The worker moves the disc's position, and nothing a lock guards.        *)
LEMMA SeekStep == ASSUME IndInv, Seek PROVE IndInv'
<1>1. /\ UNCHANGED <<cpu, media, threaded, history, nextPositionSet, nextPosition,
                      shutdown, isReading, canReadahead, seekError, front, back, count,
                      holder>>
      /\ asleep' \in BOOLEAN
      /\ worker' \in [pc : WorkerPCs, lba : Int, ok : BOOLEAN, slot : Int]
      /\ worker.pc = "seek" /\ worker'.pc = "seeked"
      /\ position' \in Int
  BY DEF Seek, CanSeek, flags, history, request, ring, IndInv, Shapes, CpuPCs, WorkerPCs
<1>2. Shapes'
  BY <1>1 DEF IndInv, Shapes, history
<1>3. Locks'
  BY <1>1, NoneDistinct DEF IndInv, Locks, Shapes, WorkerHolds, WorkerReads
<1>4. Stopped'
  BY <1>1, NoneDistinct
     DEF IndInv, Shapes, Locks, Stopped, FirstReads, Requests, Quiet, WorkerHolds,
         WorkerReads, WorkerRests, WorkerPCs, Pending, history
<1>5. FirstReads'
  BY <1>1
     DEF IndInv, Shapes, Locks, Stopped, FirstReads, Quiet, WorkerHolds, WorkerReads,
         WorkerRests, WorkerPCs, history
<1>6. Requests'
  BY <1>1 DEF IndInv, Shapes, FirstReads, Requests, Pending, history
<1> QED
  BY <1>2, <1>3, <1>4, <1>5, <1>6 DEF IndInv

(* is_reading goes down as the mutex is taken again.                       *)
LEMMA EndSeekStep == ASSUME IndInv, EndSeek PROVE IndInv'
<1>1. /\ UNCHANGED <<cpu, media, threaded, history, nextPositionSet, nextPosition,
                      shutdown, front, back, count, position>>
      /\ asleep' \in BOOLEAN
      /\ worker' \in [pc : WorkerPCs, lba : Int, ok : BOOLEAN, slot : Int]
      /\ worker.pc = "seeked"
      /\ holder' = "worker" /\ isReading' = FALSE
      /\ seekError' \in BOOLEAN
      /\ \/ worker'.pc \in {"top", "check"} /\ canReadahead' = canReadahead
         \/ worker'.pc = "fill" /\ canReadahead' = TRUE
      /\ holder = None
  BY DEF EndSeek, WakeCpu, WorkerGoes, disc, history, request, ring, IndInv, Shapes, CpuPCs,
       WorkerPCs
<1>2. Shapes'
  BY <1>1 DEF IndInv, Shapes, history
<1>3. Locks'
  BY <1>1, NoneDistinct DEF IndInv, Locks, Shapes, WorkerHolds, WorkerReads
<1>4. Stopped'
  BY <1>1, NoneDistinct
     DEF IndInv, Shapes, Locks, Stopped, FirstReads, Requests, Quiet, WorkerHolds,
         WorkerReads, WorkerRests, WorkerPCs, Pending, history
<1>5. FirstReads'
  BY <1>1
     DEF IndInv, Shapes, Locks, Stopped, FirstReads, Quiet, WorkerHolds, WorkerReads,
         WorkerRests, WorkerPCs, history
<1>6. Requests'
  BY <1>1 DEF IndInv, Shapes, FirstReads, Requests, Pending, history
<1> QED
  BY <1>2, <1>3, <1>4, <1>5, <1>6 DEF IndInv

(* The same pair around a read: the first half,                            *)
LEMMA FillBufferStep == ASSUME IndInv, FillBuffer PROVE IndInv'
<1>1. /\ UNCHANGED <<cpu, media, threaded, history, nextPositionSet, nextPosition,
                      shutdown, canReadahead, seekError, front, count, position>>
      /\ asleep' \in BOOLEAN
      /\ worker' \in [pc : WorkerPCs, lba : Int, ok : BOOLEAN, slot : Int]
      /\ worker.pc = "fill"
      /\ back' \in Int
      /\ \/ worker'.pc = "read" /\ isReading' = TRUE /\ holder' = None
         \/ worker'.pc = "filled" /\ isReading' = isReading /\ holder' = holder
  <2>1. CASE count < Cap /\ ~nextPositionSet
    <3>1. back' \in Int /\ back \in Int
      BY <2>1, Wrapping DEF FillBuffer, IndInv, Shapes
    <3> QED
      BY <2>1, <3>1
         DEF FillBuffer, WorkerGoes, disc, history, request, IndInv, Shapes, CpuPCs,
             WorkerPCs
  <2>2. CASE ~(count < Cap /\ ~nextPositionSet)
    BY <2>2
       DEF FillBuffer, WorkerGoes, disc, history, request, IndInv, Shapes, CpuPCs,
           WorkerPCs
  <2> QED
    BY <2>1, <2>2
<1>2. Shapes'
  BY <1>1 DEF IndInv, Shapes, history
<1>3. Locks'
  BY <1>1, NoneDistinct DEF IndInv, Locks, Shapes, WorkerHolds, WorkerReads
<1>4. Stopped'
  BY <1>1, NoneDistinct
     DEF IndInv, Shapes, Locks, Stopped, FirstReads, Requests, Quiet, WorkerHolds,
         WorkerReads, WorkerRests, WorkerPCs, Pending, history
<1>5. FirstReads'
  BY <1>1
     DEF IndInv, Shapes, Locks, Stopped, FirstReads, Quiet, WorkerHolds, WorkerReads,
         WorkerRests, WorkerPCs, history
<1>6. Requests'
  BY <1>1 DEF IndInv, Shapes, FirstReads, Requests, Pending, history
<1> QED
  BY <1>2, <1>3, <1>4, <1>5, <1>6 DEF IndInv

(* the read itself,                                                        *)
LEMMA ReadSectorStep == ASSUME IndInv, ReadSector PROVE IndInv'
BY NoneDistinct, Wrapping
   DEF ReadSector, WorkerGoes, flags, history, request, IndInv, Shapes, Locks, Stopped,
       FirstReads, Requests, Quiet, WorkerHolds, WorkerReads, WorkerRests, Pending,
       CpuPCs, WorkerPCs

(* and the second half.                                                    *)
LEMMA EndReadStep == ASSUME IndInv, EndRead PROVE IndInv'
<1>1. /\ UNCHANGED <<cpu, media, threaded, history, nextPositionSet, nextPosition,
                      shutdown, canReadahead, seekError, front, back, position>>
      /\ asleep' \in BOOLEAN
      /\ worker' \in [pc : WorkerPCs, lba : Int, ok : BOOLEAN, slot : Int]
      /\ worker.pc = "readDone" /\ worker'.pc = "fill"
      /\ holder = None /\ holder' = "worker" /\ isReading' = FALSE
      /\ count' \in Int
  <2>1. count' \in Int
    BY Wrapping DEF EndRead, IndInv, Shapes
  <2>2. worker' \in [pc : WorkerPCs, lba : Int, ok : BOOLEAN, slot : Int] /\ worker'.pc = "fill"
    BY DEF EndRead, WorkerGoes, IndInv, Shapes, WorkerPCs
  <2> QED
    BY <2>1, <2>2 DEF EndRead, WakeCpu, disc, history, request
<1>2. Shapes'
  BY <1>1 DEF IndInv, Shapes, history
<1>3. Locks'
  BY <1>1, NoneDistinct DEF IndInv, Locks, Shapes, WorkerHolds, WorkerReads
<1>4. Stopped'
  BY <1>1, NoneDistinct
     DEF IndInv, Shapes, Locks, Stopped, FirstReads, Requests, Quiet, WorkerHolds,
         WorkerReads, WorkerRests, WorkerPCs, Pending, history
<1>5. FirstReads'
  BY <1>1
     DEF IndInv, Shapes, Locks, Stopped, FirstReads, Quiet, WorkerHolds, WorkerReads,
         WorkerRests, WorkerPCs, history
<1>6. Requests'
  BY <1>1 DEF IndInv, Shapes, FirstReads, Requests, Pending, history
<1> QED
  BY <1>2, <1>3, <1>4, <1>5, <1>6 DEF IndInv

(* A full buffer ends the readahead before the worker rests.               *)
LEMMA EndReadaheadStep == ASSUME IndInv, EndReadahead PROVE IndInv'
BY NoneDistinct, Wrapping
   DEF EndReadahead, WorkerGoes, disc, history, request, ring, IndInv, Shapes, Locks,
       Stopped, FirstReads, Requests, Quiet, WorkerHolds, WorkerReads, WorkerRests,
       Pending, CpuPCs, WorkerPCs

-----------------------------------------------------------------------------
(* The core thread's steps inside a call.                                  *)

(* A hit needs a filled buffer, so an earlier read of this disc.           *)
LEMMA CompareFrontStep == ASSUME IndInv, CompareFront PROVE IndInv'
<1>1. /\ UNCHANGED <<worker, threaded, nextPositionSet, nextPosition, shutdown, isReading,
                      canReadahead, seekError, front, back, count, position, holder,
                      media, history>>
      /\ asleep' \in BOOLEAN
      /\ cpu' \in [pc : CpuPCs, lba : Int, n : Int]
      /\ cpu.pc = "compare"
      /\ cpu'.pc \in {"idle", "advance", "request"}
  <2> DEFINE next == (front + 1) % Cap
  <2>1. next \in Int
    BY Wrapping DEF IndInv, Shapes
  <2>2. \/ cpu' = [cpu EXCEPT !.pc = "idle"]
        \/ cpu' = [cpu EXCEPT !.pc = "advance", !.n = next]
        \/ cpu' = [cpu EXCEPT !.pc = "request"]
    BY DEF CompareFront
  <2> HIDE DEF next
  <2>3. cpu' \in [pc : CpuPCs, lba : Int, n : Int] /\ cpu'.pc \in {"idle", "advance", "request"}
    BY <2>1, <2>2 DEF IndInv, Shapes, CpuPCs, WorkerPCs
  <2> QED
    BY <2>3
       DEF CompareFront, disc, flags, history, request, ring, IndInv, Shapes, CpuPCs,
           WorkerPCs
<1>2. Shapes'
  BY <1>1 DEF IndInv, Shapes, history
<1>3. Locks'
  BY <1>1, NoneDistinct DEF IndInv, Locks, Shapes, WorkerHolds, WorkerReads
<1>4. Stopped'
  BY <1>1, NoneDistinct
     DEF IndInv, Shapes, Locks, Stopped, FirstReads, Requests, Quiet, WorkerHolds,
         WorkerReads, WorkerRests, WorkerPCs, Pending, history
<1>5. FirstReads'
  BY <1>1
     DEF IndInv, Shapes, Locks, Stopped, FirstReads, Quiet, WorkerHolds, WorkerReads,
         WorkerRests, WorkerPCs, history
<1>6. Requests'
  BY <1>1 DEF IndInv, Shapes, FirstReads, Requests, Pending, history
<1> QED
  BY <1>2, <1>3, <1>4, <1>5, <1>6 DEF IndInv

(* The two stores of a hit change the ring alone.                          *)
LEMMA AdvanceFrontStep == ASSUME IndInv, AdvanceFront PROVE IndInv'
BY NoneDistinct, Wrapping
   DEF AdvanceFront, CpuGoes, disc, flags, history, request, IndInv, Shapes, Locks,
       Stopped, FirstReads, Requests, Quiet, WorkerHolds, WorkerReads, WorkerRests,
       Pending, CpuPCs, WorkerPCs

(* The second of them.                                                     *)
LEMMA ConsumeFrontStep == ASSUME IndInv, ConsumeFront PROVE IndInv'
BY NoneDistinct, Wrapping
   DEF ConsumeFront, CpuGoes, disc, flags, history, request, IndInv, Shapes, Locks,
       Stopped, FirstReads, Requests, Quiet, WorkerHolds, WorkerReads, WorkerRests,
       Pending, CpuPCs, WorkerPCs

(* The one store that lets the worker read without a request.              *)
LEMMA AllowReadaheadStep == ASSUME IndInv, AllowReadahead PROVE IndInv'
BY NoneDistinct, Wrapping
   DEF AllowReadahead, CpuGoes, disc, history, request, ring, IndInv, Shapes, Locks,
       Stopped, FirstReads, Requests, Quiet, WorkerHolds, WorkerReads, WorkerRests,
       Pending, CpuPCs, WorkerPCs

(* A signal wakes the worker and changes nothing else.                     *)
LEMMA KickWorkerStep == ASSUME IndInv, KickWorker PROVE IndInv'
BY NoneDistinct, Wrapping
   DEF KickWorker, CpuGoes, SignalWorker, disc, flags, history, request, ring, IndInv,
       Shapes, Locks, Stopped, FirstReads, Requests, Quiet, WorkerHolds, WorkerReads,
       WorkerRests, Pending, CpuPCs, WorkerPCs

(* The request is of the read that was just queued.                        *)
LEMMA RequestSeekStep == ASSUME IndInv, RequestSeek PROVE IndInv'
BY NoneDistinct, Wrapping
   DEF RequestSeek, CpuGoes, SignalWorker, disc, flags, history, request, ring, IndInv,
       Shapes, Locks, Stopped, FirstReads, Requests, Quiet, WorkerHolds, WorkerReads,
       WorkerRests, Pending, CpuPCs, WorkerPCs

(* The unlocked answer: nothing was requested.                             *)
LEMMA PeekCountStep == ASSUME IndInv, PeekCount PROVE IndInv'
<1>1. /\ UNCHANGED <<worker, threaded, nextPositionSet, nextPosition, shutdown, isReading,
                      canReadahead, seekError, front, back, count, position, holder,
                      media, requests, asked>>
      /\ asleep' \in BOOLEAN
      /\ cpu' \in [pc : CpuPCs, lba : Int, n : Int]
      /\ cpu.pc = "peek"
      /\ \/ cpu'.pc = "idle"
         \/ cpu'.pc = "await" /\ reply' = reply
  BY DEF PeekCount, CpuGoes, Return, disc, flags, request, ring, IndInv, Shapes, CpuPCs, WorkerPCs
<1>2. Shapes'
  BY <1>1 DEF IndInv, Shapes, history
<1>3. Locks'
  BY <1>1, NoneDistinct DEF IndInv, Locks, Shapes, WorkerHolds, WorkerReads
<1>4. Stopped'
  BY <1>1, NoneDistinct
     DEF IndInv, Shapes, Locks, Stopped, FirstReads, Requests, Quiet, WorkerHolds,
         WorkerReads, WorkerRests, WorkerPCs, Pending, history
<1>5. FirstReads'
  BY <1>1
     DEF IndInv, Shapes, Locks, Stopped, FirstReads, Quiet, WorkerHolds, WorkerReads,
         WorkerRests, WorkerPCs, history
<1>6. Requests'
  BY <1>1 DEF IndInv, Shapes, FirstReads, Requests, Pending, history
<1> QED
  BY <1>2, <1>3, <1>4, <1>5, <1>6 DEF IndInv

(* The locked answer: the worker has seen the request.                     *)
LEMMA AwaitStep == ASSUME IndInv, Await PROVE IndInv'
<1>1. /\ UNCHANGED <<worker, threaded, nextPositionSet, nextPosition, shutdown, isReading,
                      canReadahead, front, back, count, position, holder, media, requests,
                      asked>>
      /\ asleep' \in BOOLEAN
      /\ cpu' \in [pc : CpuPCs, lba : Int, n : Int]
      /\ seekError' \in BOOLEAN
      /\ cpu.pc = "await"
      /\ \/ cpu'.pc = "idle" /\ ~nextPositionSet
         \/ cpu'.pc = "await" /\ reply' = reply
  BY DEF Await, CpuGoes, Return, disc, request, ring, IndInv, Shapes, CpuPCs, WorkerPCs
<1>2. Shapes'
  BY <1>1 DEF IndInv, Shapes, history
<1>3. Locks'
  BY <1>1, NoneDistinct DEF IndInv, Locks, Shapes, WorkerHolds, WorkerReads
<1>4. Stopped'
  BY <1>1, NoneDistinct
     DEF IndInv, Shapes, Locks, Stopped, FirstReads, Requests, Quiet, WorkerHolds,
         WorkerReads, WorkerRests, WorkerPCs, Pending, history
<1>5. FirstReads'
  BY <1>1
     DEF IndInv, Shapes, Locks, Stopped, FirstReads, Quiet, WorkerHolds, WorkerReads,
         WorkerRests, WorkerPCs, history
<1>6. Requests'
  BY <1>1 DEF IndInv, Shapes, FirstReads, Requests, Pending, history
<1> QED
  BY <1>2, <1>3, <1>4, <1>5, <1>6 DEF IndInv

(* The uncached read keeps the mutex, and waits for is_reading.            *)
LEMMA LockUncachedStep == ASSUME IndInv, LockUncached PROVE IndInv'
<1>1. /\ UNCHANGED <<worker, threaded, nextPositionSet, nextPosition, shutdown, isReading,
                      canReadahead, seekError, front, back, count, position, media,
                      history>>
      /\ asleep' \in BOOLEAN
      /\ cpu' \in [pc : CpuPCs, lba : Int, n : Int]
      /\ cpu.pc = "uncachedWait" /\ holder = None
      /\ \/ cpu' = cpu /\ holder' = holder
         \/ cpu'.pc = "uncached" /\ holder' = "cpu" /\ ~isReading
  BY DEF LockUncached, CpuGoes, disc, flags, history, request, ring, IndInv, Shapes, CpuPCs,
       WorkerPCs
<1>2. Shapes'
  BY <1>1 DEF IndInv, Shapes, history
<1>3. Locks'
  BY <1>1, NoneDistinct DEF IndInv, Locks, Shapes, WorkerHolds, WorkerReads
<1>4. Stopped'
  BY <1>1, NoneDistinct
     DEF IndInv, Shapes, Locks, Stopped, FirstReads, Requests, Quiet, WorkerHolds,
         WorkerReads, WorkerRests, WorkerPCs, Pending, history
<1>5. FirstReads'
  BY <1>1
     DEF IndInv, Shapes, Locks, Stopped, FirstReads, Quiet, WorkerHolds, WorkerReads,
         WorkerRests, WorkerPCs, history
<1>6. Requests'
  BY <1>1 DEF IndInv, Shapes, FirstReads, Requests, Pending, history
<1> QED
  BY <1>2, <1>3, <1>4, <1>5, <1>6 DEF IndInv

(* It gives the mutex up.                                                  *)
LEMMA UncachedStep == ASSUME IndInv, Uncached PROVE IndInv'
<1>1. /\ UNCHANGED <<worker, threaded, nextPositionSet, nextPosition, shutdown, isReading,
                      seekError, front, back, count, media, history>>
      /\ asleep' \in BOOLEAN
      /\ cpu' \in [pc : CpuPCs, lba : Int, n : Int]
      /\ cpu.pc = "uncached" /\ cpu'.pc = "idle"
      /\ position' \in Int /\ holder' = None
      /\ canReadahead' = canReadahead \/ canReadahead' = FALSE
  BY DEF Uncached, CpuGoes, history, request, ring, IndInv, Shapes, CpuPCs, WorkerPCs
<1>2. Shapes'
  BY <1>1 DEF IndInv, Shapes, history
<1>3. Locks'
  BY <1>1, NoneDistinct DEF IndInv, Locks, Shapes, WorkerHolds, WorkerReads
<1>4. Stopped'
  BY <1>1, NoneDistinct
     DEF IndInv, Shapes, Locks, Stopped, FirstReads, Requests, Quiet, WorkerHolds,
         WorkerReads, WorkerRests, WorkerPCs, Pending, history
<1>5. FirstReads'
  BY <1>1
     DEF IndInv, Shapes, Locks, Stopped, FirstReads, Quiet, WorkerHolds, WorkerReads,
         WorkerRests, WorkerPCs, history
<1>6. Requests'
  BY <1>1 DEF IndInv, Shapes, FirstReads, Requests, Pending, history
<1> QED
  BY <1>2, <1>3, <1>4, <1>5, <1>6 DEF IndInv

(* A change of disc finds no request, waits for the worker, and stops it.  *)
LEMMA CancelReadaheadStep == ASSUME IndInv, CancelReadahead PROVE IndInv'
<1>1. /\ UNCHANGED <<worker, threaded, nextPositionSet, nextPosition, shutdown, isReading,
                      seekError, position, holder, media, history>>
      /\ asleep' \in BOOLEAN
      /\ cpu' \in [pc : CpuPCs, lba : Int, n : Int]
      /\ cpu.pc = "cancel" /\ holder = None
      /\ front' \in Int /\ back' \in Int
      /\ \/ cpu' = cpu /\ canReadahead' = canReadahead /\ count' = count
         \/ cpu'.pc = "swap" /\ ~isReading /\ canReadahead' = FALSE /\ count' = 0
  <2>1. CASE isReading
    BY <2>1
       DEF CancelReadahead, CpuGoes, EmptyBuffers, disc, history, request, ring, IndInv,
           Shapes, CpuPCs, WorkerPCs
  <2>2. CASE ~isReading
    BY <2>2
       DEF CancelReadahead, CpuGoes, EmptyBuffers, disc, history, request, ring, IndInv,
           Shapes, CpuPCs, WorkerPCs
  <2> QED
    BY <2>1, <2>2
<1>2. Shapes'
  <2>1. count' \in Int
    BY <1>1 DEF IndInv, Shapes
  <2>2. canReadahead' \in BOOLEAN
    BY <1>1 DEF IndInv, Shapes
  <2> QED
    BY <1>1, <2>1, <2>2 DEF IndInv, Shapes, history
<1>3. Locks'
  BY <1>1, NoneDistinct DEF IndInv, Locks, Shapes, WorkerHolds, WorkerReads
<1>4. Stopped'
  BY <1>1, NoneDistinct
     DEF IndInv, Shapes, Locks, Stopped, FirstReads, Requests, Quiet, WorkerHolds,
         WorkerReads, WorkerRests, WorkerPCs, Pending, history
<1>5. FirstReads'
  BY <1>1
     DEF IndInv, Shapes, Locks, Stopped, FirstReads, Quiet, WorkerHolds, WorkerReads,
         WorkerRests, WorkerPCs, history
<1>6. Requests'
  BY <1>1 DEF IndInv, Shapes, FirstReads, Requests, Pending, history
<1> QED
  BY <1>2, <1>3, <1>4, <1>5, <1>6 DEF IndInv

(* The new disc: nothing queued, nothing for the worker to do.             *)
LEMMA SwapMediaStep == ASSUME IndInv, SwapMedia PROVE IndInv'
<1>1. /\ UNCHANGED <<worker, threaded, nextPositionSet, nextPosition, shutdown, isReading,
                      canReadahead, holder, asked, reply>>
      /\ asleep' \in BOOLEAN
      /\ cpu' \in [pc : CpuPCs, lba : Int, n : Int]
      /\ requests' = 0
      /\ cpu.pc = "swap" /\ cpu'.pc = "idle"
      /\ front' \in Int /\ back' \in Int /\ position' \in Int /\ seekError' \in BOOLEAN
      /\ count' = count \/ count' = 0
  <2>0. cpu' \in [pc : CpuPCs, lba : Int, n : Int] /\ cpu.pc = "swap" /\ cpu'.pc = "idle"
    BY DEF SwapMedia, CpuGoes, IndInv, Shapes, CpuPCs
  <2>1. /\ worker' = worker /\ threaded' = threaded /\ asleep' = asleep
        /\ nextPositionSet' = nextPositionSet /\ nextPosition' = nextPosition
        /\ shutdown' = shutdown /\ isReading' = isReading /\ canReadahead' = canReadahead
        /\ holder' = holder /\ asked' = asked /\ reply' = reply
        /\ position' = 0 /\ requests' = 0
    BY DEF SwapMedia, request
  <2>2. \/ front' = 0 /\ back' = 0 /\ count' = 0 /\ seekError' = FALSE
        \/ front' = front /\ back' = back /\ count' = count /\ seekError' = seekError
    BY DEF SwapMedia, EmptyBuffers, ring
  <2>3. front' \in Int /\ back' \in Int
    BY <2>2 DEF IndInv, Shapes
  <2>4. seekError' \in BOOLEAN
    BY <2>2 DEF IndInv, Shapes
  <2>5. asleep' \in BOOLEAN /\ position' \in Int
    BY <2>1 DEF IndInv, Shapes
  <2>6. count' = count \/ count' = 0
    BY <2>2
  <2> QED
    BY <2>0, <2>1, <2>3, <2>4, <2>5, <2>6
<1>2. Shapes'
  BY <1>1 DEF IndInv, Shapes, history
<1>3. Locks'
  BY <1>1, NoneDistinct DEF IndInv, Locks, Shapes, WorkerHolds, WorkerReads
<1>4. Stopped'
  BY <1>1, NoneDistinct
     DEF IndInv, Shapes, Locks, Stopped, FirstReads, Requests, Quiet, WorkerHolds,
         WorkerReads, WorkerRests, WorkerPCs, Pending, history
<1>5. FirstReads'
  BY <1>1
     DEF IndInv, Shapes, Locks, Stopped, FirstReads, Quiet, WorkerHolds, WorkerReads,
         WorkerRests, WorkerPCs, history
<1>6. Requests'
  BY <1>1 DEF IndInv, Shapes, FirstReads, Requests, Pending, history
<1> QED
  BY <1>2, <1>3, <1>4, <1>5, <1>6 DEF IndInv

(* Precaching waits for is_reading and the request.                        *)
LEMMA WaitForIdleStep == ASSUME IndInv, WaitForIdle PROVE IndInv'
<1>1. /\ UNCHANGED <<worker, threaded, nextPositionSet, nextPosition, shutdown, isReading,
                      canReadahead, seekError, front, back, count, position, holder,
                      media, history>>
      /\ asleep' \in BOOLEAN
      /\ cpu' \in [pc : CpuPCs, lba : Int, n : Int]
      /\ cpu.pc = "idleWait" /\ holder = None
      /\ \/ cpu' = cpu
         \/ cpu'.pc = "precache" /\ ~isReading /\ ~nextPositionSet
  BY DEF WaitForIdle, CpuGoes, disc, flags, history, request, ring, IndInv, Shapes, CpuPCs,
       WorkerPCs
<1>2. Shapes'
  BY <1>1 DEF IndInv, Shapes, history
<1>3. Locks'
  BY <1>1, NoneDistinct DEF IndInv, Locks, Shapes, WorkerHolds, WorkerReads
<1>4. Stopped'
  BY <1>1, NoneDistinct
     DEF IndInv, Shapes, Locks, Stopped, FirstReads, Requests, Quiet, WorkerHolds,
         WorkerReads, WorkerRests, WorkerPCs, Pending, history
<1>5. FirstReads'
  BY <1>1
     DEF IndInv, Shapes, Locks, Stopped, FirstReads, Quiet, WorkerHolds, WorkerReads,
         WorkerRests, WorkerPCs, history
<1>6. Requests'
  BY <1>1 DEF IndInv, Shapes, FirstReads, Requests, Pending, history
<1> QED
  BY <1>2, <1>3, <1>4, <1>5, <1>6 DEF IndInv

(* It changes nothing the model keeps.                                     *)
LEMMA PrecacheMediaStep == ASSUME IndInv, PrecacheMedia PROVE IndInv'
BY NoneDistinct, Wrapping
   DEF PrecacheMedia, CpuGoes, disc, flags, history, request, ring, IndInv, Shapes, Locks,
       Stopped, FirstReads, Requests, Quiet, WorkerHolds, WorkerReads, WorkerRests,
       Pending, CpuPCs, WorkerPCs

(* The worker is told to stop, with whatever is still requested.           *)
LEMMA StopThreadStep == ASSUME IndInv, StopThread PROVE IndInv'
BY NoneDistinct, Wrapping
   DEF StopThread, CpuGoes, SignalWorker, disc, history, request, ring, IndInv, Shapes,
       Locks, Stopped, FirstReads, Requests, Quiet, WorkerHolds, WorkerReads, WorkerRests,
       Pending, CpuPCs, WorkerPCs

(* The worker is gone.                                                     *)
LEMMA JoinThreadStep == ASSUME IndInv, JoinThread PROVE IndInv'
<1>1. /\ UNCHANGED <<worker, asleep, media, history, nextPositionSet, nextPosition,
                      shutdown, isReading, canReadahead, seekError, position, holder>>
      /\ threaded' = FALSE
      /\ cpu' \in [pc : CpuPCs, lba : Int, n : Int]
      /\ cpu.pc = "join" /\ cpu'.pc = "boot" /\ worker.pc = "exited"
      /\ front' \in Int /\ back' \in Int /\ count' \in Int
  BY DEF JoinThread, CpuGoes, EmptyBuffers, disc, flags, history, request, IndInv, Shapes, CpuPCs,
       WorkerPCs
<1>2. Shapes'
  BY <1>1 DEF IndInv, Shapes, history
<1>3. Locks'
  BY <1>1, NoneDistinct DEF IndInv, Locks, Shapes, WorkerHolds, WorkerReads
<1>4. Stopped'
  BY <1>1, NoneDistinct
     DEF IndInv, Shapes, Locks, Stopped, FirstReads, Requests, Quiet, WorkerHolds,
         WorkerReads, WorkerRests, WorkerPCs, Pending, history
<1>5. FirstReads'
  BY <1>1
     DEF IndInv, Shapes, Locks, Stopped, FirstReads, Quiet, WorkerHolds, WorkerReads,
         WorkerRests, WorkerPCs, history
<1>6. Requests'
  BY <1>1 DEF IndInv, Shapes, FirstReads, Requests, Pending, history
<1> QED
  BY <1>2, <1>3, <1>4, <1>5, <1>6 DEF IndInv

(* The next machine is as the first.                                       *)
LEMMA BootStep == ASSUME IndInv, Boot PROVE IndInv'
<1>1. /\ worker' \in [pc : WorkerPCs, lba : Int, ok : BOOLEAN, slot : Int]
      /\ cpu' \in [pc : CpuPCs, lba : Int, n : Int]
      /\ cpu'.pc = "idle" /\ worker'.pc = IF threaded' THEN "start" ELSE "exited"
      /\ position' = 0 /\ nextPosition' = 0 /\ front' = 0 /\ back' = 0 /\ count' = 0 /\ requests' = 0
      /\ nextPositionSet' = FALSE /\ isReading' = FALSE /\ canReadahead' = FALSE /\ seekError' = FALSE
      /\ asleep' = FALSE /\ shutdown' \in BOOLEAN /\ threaded' \in BOOLEAN /\ holder' = None
  <2> DEFINE p == IF threaded' THEN "start" ELSE "exited"
  <2>1. p \in WorkerPCs /\ worker' = [NewWorker EXCEPT !.pc = p]
    BY DEF Boot, WorkerPCs
  <2>2. NewWorker \in [pc : WorkerPCs, lba : Int, ok : BOOLEAN, slot : Int]
    BY DEF NewWorker, WorkerPCs
  <2> HIDE DEF p
  <2>3. worker' \in [pc : WorkerPCs, lba : Int, ok : BOOLEAN, slot : Int] /\ worker'.pc = p
    BY <2>1, <2>2
  <2>4. threaded' \in BOOLEAN /\ shutdown' \in BOOLEAN
    BY DEF Boot
  <2> QED
    BY <2>3, <2>4 DEF Boot, NewCpu, CpuPCs, p
<1>2. Shapes'
  <2>1. requests' \in 0..2 /\ position' \in Int /\ nextPosition' \in Int /\ front' \in Int
        /\ back' \in Int /\ count' \in Int
    BY <1>1
  <2>2. nextPositionSet' \in BOOLEAN /\ isReading' \in BOOLEAN /\ canReadahead' \in BOOLEAN
        /\ seekError' \in BOOLEAN /\ asleep' \in BOOLEAN
    BY <1>1
  <2> QED
    BY <1>1, <2>1, <2>2 DEF Shapes
<1>3. Locks'
  BY <1>1, NoneDistinct DEF IndInv, Locks, Shapes, WorkerHolds, WorkerReads
<1>4. Stopped'
  BY <1>1, NoneDistinct
     DEF IndInv, Shapes, Locks, Stopped, FirstReads, Requests, Quiet, WorkerHolds,
         WorkerReads, WorkerRests, WorkerPCs, Pending, history
<1>5. FirstReads'
  BY <1>1
     DEF IndInv, Shapes, Locks, Stopped, FirstReads, Quiet, WorkerHolds, WorkerReads,
         WorkerRests, WorkerPCs, history
<1>6. Requests'
  BY <1>1 DEF IndInv, Shapes, FirstReads, Requests, Pending, history
<1> QED
  BY <1>2, <1>3, <1>4, <1>5, <1>6 DEF IndInv

-----------------------------------------------------------------------------
(* The calls.                                                              *)

(* A queued read leaves the disc to the worker, or does it all itself.     *)
LEMMA QueueStep == ASSUME IndInv, Queue PROVE IndInv'
<1>1. /\ UNCHANGED <<worker, threaded, nextPositionSet, nextPosition, shutdown, isReading,
                      canReadahead, holder, media>>
      /\ asleep' \in BOOLEAN
      /\ cpu' \in [pc : CpuPCs, lba : Int, n : Int]
      /\ cpu.pc = "idle"
      /\ media # None
      /\ asked' # None /\ reply' = Unanswered
      /\ requests' = IF requests = 0 THEN 1 ELSE 2
      /\ position' \in Int /\ front' \in Int /\ back' \in Int /\ count' \in Int /\ seekError' \in BOOLEAN
      /\ \/ threaded /\ count' = count /\ cpu'.pc = IF count > 0 THEN "compare" ELSE "request"
         \/ ~threaded /\ cpu'.pc = "idle"
  <2>1. PICK l \in LBA : QueueReadSector(l)
    BY DEF Queue
  <2>2. l \in Int /\ l # None
    BY NoneAssumption, SizeAssumption DEF LBA
  <2>3. CASE threaded
    <3> DEFINE p == IF count > 0 THEN "compare" ELSE "request"
    <3>1. p \in CpuPCs /\ cpu' = [pc |-> p, lba |-> l, n |-> count]
      BY <2>1, <2>3 DEF QueueReadSector, CpuPCs
    <3> HIDE DEF p
    <3>2. cpu' \in [pc : CpuPCs, lba : Int, n : Int] /\ cpu'.pc = p
      BY <2>2, <3>1 DEF IndInv, Shapes
    <3> QED
      BY <2>1, <2>2, <2>3, <3>2
         DEF Queue, QueueReadSector, ring, flags, request, IndInv, Shapes, p
  <2>4. CASE ~threaded
    <3>1. /\ cpu' = [cpu EXCEPT !.pc = "idle"] /\ front' = 0 /\ back' = 0 /\ count' \in Int
          /\ UNCHANGED <<shutdown, isReading, canReadahead>>
      BY <2>1, <2>4 DEF QueueReadSector, ReadNonThreaded, CpuGoes
    <3>2. seekError' \in BOOLEAN
      BY <2>1, <2>4 DEF QueueReadSector, ReadNonThreaded, CanSeek
    <3>3. position' \in Int
      BY <2>1, <2>2, <2>4 DEF QueueReadSector, ReadNonThreaded, IndInv, Shapes
    <3>4. cpu' \in [pc : CpuPCs, lba : Int, n : Int] /\ cpu'.pc = "idle"
      BY <3>1 DEF IndInv, Shapes, CpuPCs, WorkerPCs
    <3> QED
      BY <2>1, <2>2, <2>4, <3>1, <3>2, <3>3, <3>4
         DEF Queue, QueueReadSector, request, IndInv, Shapes
  <2> QED
    BY <2>3, <2>4 DEF IndInv, Shapes
<1>2. Shapes'
  BY <1>1 DEF IndInv, Shapes, history
<1>3. Locks'
  BY <1>1, NoneDistinct DEF IndInv, Locks, Shapes, WorkerHolds, WorkerReads
<1>4. Stopped'
  BY <1>1, NoneDistinct
     DEF IndInv, Shapes, Locks, Stopped, FirstReads, Requests, Quiet, WorkerHolds,
         WorkerReads, WorkerRests, WorkerPCs, Pending, history
<1>5. FirstReads'
  BY <1>1
     DEF IndInv, Shapes, Locks, Stopped, FirstReads, Quiet, WorkerHolds, WorkerReads,
         WorkerRests, WorkerPCs, history
<1>6. Requests'
  BY <1>1 DEF IndInv, Shapes, FirstReads, Requests, Pending, history
<1> QED
  BY <1>2, <1>3, <1>4, <1>5, <1>6 DEF IndInv

(* The first half of the unlocked test.                                    *)
LEMMA WaitForReadStep == ASSUME IndInv, WaitForRead PROVE IndInv'
BY NoneDistinct, Wrapping
   DEF WaitForRead, CpuGoes, disc, flags, history, request, ring, IndInv, Shapes, Locks,
       Stopped, FirstReads, Requests, Quiet, WorkerHolds, WorkerReads, WorkerRests,
       Pending, CpuPCs, WorkerPCs

(* The uncached read begins.                                               *)
LEMMA ReadUncachedStep == ASSUME IndInv, ReadUncached PROVE IndInv'
<1>1. /\ UNCHANGED <<worker, threaded, nextPositionSet, nextPosition, shutdown, isReading,
                      canReadahead, seekError, front, back, count, position, holder,
                      media, history>>
      /\ asleep' \in BOOLEAN
      /\ cpu' \in [pc : CpuPCs, lba : Int, n : Int]
      /\ cpu.pc = "idle" /\ cpu'.pc = IF threaded THEN "uncachedWait" ELSE "uncached"
  <2> DEFINE p == IF threaded THEN "uncachedWait" ELSE "uncached"
  <2>1. PICK l \in LBA : cpu' = [cpu EXCEPT !.pc = p, !.lba = l]
    BY DEF ReadUncached
  <2>2. p \in CpuPCs /\ l \in Int
    BY SizeAssumption DEF CpuPCs, LBA
  <2> HIDE DEF p
  <2>3. cpu' \in [pc : CpuPCs, lba : Int, n : Int] /\ cpu'.pc = p
    BY <2>1, <2>2 DEF IndInv, Shapes
  <2> QED
    BY <2>3
       DEF ReadUncached, LBA, disc, flags, history, request, ring, IndInv, Shapes, CpuPCs,
           WorkerPCs, p
<1>2. Shapes'
  BY <1>1 DEF IndInv, Shapes, history
<1>3. Locks'
  BY <1>1, NoneDistinct DEF IndInv, Locks, Shapes, WorkerHolds, WorkerReads
<1>4. Stopped'
  BY <1>1, NoneDistinct
     DEF IndInv, Shapes, Locks, Stopped, FirstReads, Requests, Quiet, WorkerHolds,
         WorkerReads, WorkerRests, WorkerPCs, Pending, history
<1>5. FirstReads'
  BY <1>1
     DEF IndInv, Shapes, Locks, Stopped, FirstReads, Quiet, WorkerHolds, WorkerReads,
         WorkerRests, WorkerPCs, history
<1>6. Requests'
  BY <1>1 DEF IndInv, Shapes, FirstReads, Requests, Pending, history
<1> QED
  BY <1>2, <1>3, <1>4, <1>5, <1>6 DEF IndInv

(* The disc is changed when every wait has returned.                       *)
LEMMA ChangeMediaStep == ASSUME IndInv, "eject" \notin Calls, ChangeMedia PROVE IndInv'
<1>1. /\ UNCHANGED <<worker, threaded, nextPositionSet, nextPosition, shutdown, isReading,
                      canReadahead, seekError, front, back, count, position, holder,
                      media, requests>>
      /\ asleep' \in BOOLEAN
      /\ cpu' \in [pc : CpuPCs, lba : Int, n : Int]
      /\ cpu.pc = "idle" /\ cpu'.pc = IF threaded THEN "cancel" ELSE "swap"
      /\ ~Pending
      /\ asked' = None /\ reply' = Unanswered
  BY DEF ChangeMedia, MayChange, disc, flags, request, ring, IndInv, Shapes, CpuPCs, WorkerPCs
<1>2. Shapes'
  BY <1>1 DEF IndInv, Shapes, history
<1>3. Locks'
  BY <1>1, NoneDistinct DEF IndInv, Locks, Shapes, WorkerHolds, WorkerReads
<1>4. Stopped'
  BY <1>1, NoneDistinct
     DEF IndInv, Shapes, Locks, Stopped, FirstReads, Requests, Quiet, WorkerHolds,
         WorkerReads, WorkerRests, WorkerPCs, Pending, history
<1>5. FirstReads'
  BY <1>1
     DEF IndInv, Shapes, Locks, Stopped, FirstReads, Quiet, WorkerHolds, WorkerReads,
         WorkerRests, WorkerPCs, history
<1>6. Requests'
  BY <1>1 DEF IndInv, Shapes, FirstReads, Requests, Pending, history
<1> QED
  BY <1>2, <1>3, <1>4, <1>5, <1>6 DEF IndInv

(* Precaching begins, for a disc just inserted.                            *)
LEMMA PrecacheStep == ASSUME IndInv, Precache PROVE IndInv'
BY NoneDistinct, Wrapping
   DEF Precache, CpuGoes, disc, flags, history, request, ring, IndInv, Shapes, Locks,
       Stopped, FirstReads, Requests, Quiet, WorkerHolds, WorkerReads, WorkerRests,
       Pending, CpuPCs, WorkerPCs

(* The machine goes, whatever is queued.                                   *)
LEMMA ShutdownStep == ASSUME IndInv, Shutdown PROVE IndInv'
BY NoneDistinct, Wrapping
   DEF Shutdown, CpuGoes, disc, flags, request, ring, IndInv, Shapes, Locks, Stopped,
       FirstReads, Requests, Quiet, WorkerHolds, WorkerReads, WorkerRests, Pending,
       CpuPCs, WorkerPCs

-----------------------------------------------------------------------------
(* The first machine, whose worker thread has been started or not.         *)
LEMMA InitIndInv == Init => IndInv
<1> SUFFICES ASSUME Init PROVE IndInv
  OBVIOUS
<1> DEFINE p == IF threaded THEN "start" ELSE "exited"
<1>1. p \in WorkerPCs /\ worker = [NewWorker EXCEPT !.pc = p]
  BY DEF Init, WorkerPCs
<1>2. NewWorker \in [pc : WorkerPCs, lba : Int, ok : BOOLEAN, slot : Int]
  BY DEF NewWorker, WorkerPCs
<1>3. cpu \in [pc : CpuPCs, lba : Int, n : Int] /\ cpu.pc = "idle"
  BY DEF Init, NewCpu, CpuPCs
<1> HIDE DEF p
<1>4. worker \in [pc : WorkerPCs, lba : Int, ok : BOOLEAN, slot : Int] /\ worker.pc = p
  BY <1>1, <1>2
<1>5. Shapes
  <2>1. position \in Int /\ nextPosition \in Int /\ front \in Int /\ back \in Int /\ count \in Int
        /\ requests \in 0..2
    BY DEF Init
  <2>2. nextPositionSet \in BOOLEAN /\ shutdown \in BOOLEAN /\ isReading \in BOOLEAN
        /\ canReadahead \in BOOLEAN /\ seekError \in BOOLEAN /\ threaded \in BOOLEAN
        /\ asleep \in BOOLEAN
    BY DEF Init
  <2> QED
    BY <1>3, <1>4, <2>1, <2>2 DEF Shapes
<1>6. Locks
  BY <1>3, <1>4, NoneDistinct DEF Init, Locks, WorkerHolds, WorkerReads, p
<1>7. Stopped /\ FirstReads /\ Requests
  BY <1>3, <1>4 DEF Init, Stopped, FirstReads, Requests, Quiet, WorkerRests, p
<1> QED
  BY <1>5, <1>6, <1>7 DEF IndInv

(* Every step of either thread keeps the invariant, as long as the disc is *)
(* not changed over a read whose wait has not returned.                    *)
LEMMA NextStep == ASSUME "eject" \notin Calls, IndInv, [Next]_vars PROVE IndInv'
<1>1. CASE WorkerStep
  <2>1. CASE TakeLock
    BY <2>1, TakeLockStep
  <2>2. CASE CheckWork
    BY <2>2, CheckWorkStep
  <2>3. CASE Block
    BY <2>3, BlockStep
  <2>4. CASE TopOfLoop
    BY <2>4, TopOfLoopStep
  <2>5. CASE BeginSeek
    BY <2>5, BeginSeekStep
  <2>6. CASE Seek
    BY <2>6, SeekStep
  <2>7. CASE EndSeek
    BY <2>7, EndSeekStep
  <2>8. CASE FillBuffer
    BY <2>8, FillBufferStep
  <2>9. CASE ReadSector
    BY <2>9, ReadSectorStep
  <2>10. CASE EndRead
    BY <2>10, EndReadStep
  <2>11. CASE EndReadahead
    BY <2>11, EndReadaheadStep
  <2> QED
    BY <1>1, <2>1, <2>2, <2>3, <2>4, <2>5, <2>6, <2>7, <2>8, <2>9, <2>10, <2>11 DEF
       WorkerStep
<1>2. CASE CallStep
  <2>1. CASE CompareFront
    BY <2>1, CompareFrontStep
  <2>2. CASE AdvanceFront
    BY <2>2, AdvanceFrontStep
  <2>3. CASE ConsumeFront
    BY <2>3, ConsumeFrontStep
  <2>4. CASE AllowReadahead
    BY <2>4, AllowReadaheadStep
  <2>5. CASE KickWorker
    BY <2>5, KickWorkerStep
  <2>6. CASE RequestSeek
    BY <2>6, RequestSeekStep
  <2>7. CASE PeekCount
    BY <2>7, PeekCountStep
  <2>8. CASE Await
    BY <2>8, AwaitStep
  <2>9. CASE LockUncached
    BY <2>9, LockUncachedStep
  <2>10. CASE Uncached
    BY <2>10, UncachedStep
  <2>11. CASE CancelReadahead
    BY <2>11, CancelReadaheadStep
  <2>12. CASE SwapMedia
    BY <2>12, SwapMediaStep
  <2>13. CASE WaitForIdle
    BY <2>13, WaitForIdleStep
  <2>14. CASE PrecacheMedia
    BY <2>14, PrecacheMediaStep
  <2>15. CASE StopThread
    BY <2>15, StopThreadStep
  <2>16. CASE JoinThread
    BY <2>16, JoinThreadStep
  <2>17. CASE Boot
    BY <2>17, BootStep
  <2> QED
    BY <1>2, <2>1, <2>2, <2>3, <2>4, <2>5, <2>6, <2>7, <2>8, <2>9, <2>10, <2>11, <2>12,
       <2>13, <2>14, <2>15, <2>16, <2>17 DEF CallStep
<1>3. CASE Call
  <2>1. CASE Queue
    BY <2>1, QueueStep
  <2>2. CASE WaitForRead
    BY <2>2, WaitForReadStep
  <2>3. CASE ReadUncached
    BY <2>3, ReadUncachedStep
  <2>4. CASE ChangeMedia
    BY <2>4, ChangeMediaStep
  <2>5. CASE Precache
    BY <2>5, PrecacheStep
  <2>6. CASE Shutdown
    BY <2>6, ShutdownStep
  <2> QED
    BY <1>3, <2>1, <2>2, <2>3, <2>4, <2>5, <2>6 DEF Call
<1>4. CASE UNCHANGED vars
  <2>1. UNCHANGED <<media, holder, threaded, worker, cpu, asleep>>
    BY <1>4 DEF vars, disc
  <2>2. UNCHANGED <<position, nextPosition, nextPositionSet, front, back, count>>
    BY <1>4 DEF vars, disc, request, ring
  <2>3. UNCHANGED <<shutdown, isReading, canReadahead, seekError, asked, reply, requests>>
    BY <1>4 DEF vars, flags, history
  <2> QED
    BY <2>1, <2>2, <2>3
       DEF IndInv, Shapes, Locks, Stopped, FirstReads, Requests, Quiet, WorkerHolds,
           WorkerReads, WorkerRests, Pending
<1> QED
  BY <1>1, <1>2, <1>3, <1>4 DEF Next

(* A worker that uses the disc has is_reading set, which keeps the uncached *)
(* read out, and has something to do, which a stopped worker has not.       *)
LEMMA Exclusive == IndInv => MediaExclusive
<1> SUFFICES ASSUME IndInv, worker.pc \in {"seek", "read"}
             PROVE  media # None /\ cpu.pc \notin {"uncached", "swap", "precache"}
  BY DEF MediaExclusive
<1>1. threaded /\ isReading
  BY DEF IndInv, Locks, WorkerReads
<1>2. ~Quiet
  BY DEF Quiet, WorkerRests
<1> QED
  BY <1>1, <1>2 DEF IndInv, Stopped, Locks

(* The disc image has one user at a time and the worker never uses one that *)
(* was taken away: for any discs, sizes and buffers, over machines shut     *)
(* down and booted, queueing over earlier seeks and waiting again for a     *)
(* read that failed, if only the disc is not changed over a read.           *)
THEOREM DiscHasOneUser == "eject" \notin Calls => (Spec => []MediaExclusive)
<1> SUFFICES ASSUME "eject" \notin Calls PROVE Spec => []MediaExclusive
  OBVIOUS
<1>1. Init => IndInv
  BY InitIndInv
<1>2. IndInv /\ [Next]_vars => IndInv'
  BY NextStep
<1>3. IndInv => MediaExclusive
  BY Exclusive
<1> QED
  BY <1>1, <1>2, <1>3, PTL DEF Spec

-----------------------------------------------------------------------------
(* The ring.                                                               *)

(* The kth buffer from f on.                                               *)
At(f, k) == (f + k) % Cap

(* What % is.                                                              *)
LEMMA Quotient ==
  ASSUME NEW a \in Nat, NEW m \in Nat \ {0}
  PROVE  \E q \in Nat, r \in 0..(m - 1) : a = q * m + r /\ a % m = r
OBVIOUS

(* There is only one such remainder.                                       *)
LEMMA QuotientUnique ==
  ASSUME NEW q \in Nat, NEW m \in Nat \ {0}, NEW r \in 0..(m - 1)
  PROVE  (q * m + r) % m = r
OBVIOUS

(* A place in the ring.                                                    *)
LEMMA AtIn ==
  ASSUME NEW f \in 0..(Cap - 1), NEW k \in Nat
  PROVE  At(f, k) \in 0..(Cap - 1)
BY SizeAssumption DEF At

(* It begins at the front.                                                 *)
LEMMA AtZero ==
  ASSUME NEW f \in 0..(Cap - 1)
  PROVE  At(f, 0) = f
BY SizeAssumption DEF At

(* A remainder may be taken before going on.                               *)
LEMMA ModNext ==
  ASSUME NEW a \in Nat, NEW m \in Nat \ {0}, NEW k \in Nat
  PROVE  ((a % m) + k) % m = (a + k) % m
<1>1. PICK q \in Nat, r \in 0..(m - 1) : a = q * m + r /\ a % m = r
  BY Quotient
<1>2. PICK p \in Nat, s \in 0..(m - 1) : r + k = p * m + s /\ (r + k) % m = s
  <2>1. r + k \in Nat
    OBVIOUS
  <2> QED
    BY <2>1, Quotient
<1>3. a + k = (q + p) * m + s /\ q + p \in Nat
  BY <1>1, <1>2
<1>4. (a + k) % m = s
  BY <1>3, QuotientUnique
<1> QED
  BY <1>1, <1>2, <1>4

(* Places are counted on from any of them.                                 *)
LEMMA AtNext ==
  ASSUME NEW f \in 0..(Cap - 1), NEW k \in Nat
  PROVE  /\ At(At(f, 1), k) = At(f, k + 1)
         /\ (At(f, k) + 1) % Cap = At(f, k + 1)
<1>1. Cap \in Nat \ {0} /\ f \in Nat /\ f + 1 \in Nat /\ f + k \in Nat
      /\ (f + 1) + k = f + (k + 1) /\ (f + k) + 1 = f + (k + 1)
  BY SizeAssumption
<1>2. (((f + 1) % Cap) + k) % Cap = ((f + 1) + k) % Cap
  BY <1>1, ModNext
<1>3. (((f + k) % Cap) + 1) % Cap = ((f + k) + 1) % Cap
  BY <1>1, ModNext
<1> QED
  BY <1>1, <1>2, <1>3 DEF At

(* Fewer than Cap places on, they do not meet.                             *)
LEMMA AtDistinct ==
  ASSUME NEW f \in 0..(Cap - 1), NEW i \in 0..(Cap - 1), NEW j \in 0..(Cap - 1), i # j
  PROVE  At(f, i) # At(f, j)
<1>1. Cap \in Nat \ {0}
  BY SizeAssumption
<1>2. \A k \in 0..(Cap - 1) : At(f, k) = IF f + k < Cap THEN f + k ELSE (f + k) - Cap
  <2> SUFFICES ASSUME NEW k \in 0..(Cap - 1)
               PROVE  At(f, k) = IF f + k < Cap THEN f + k ELSE (f + k) - Cap
    OBVIOUS
  <2>1. CASE f + k < Cap
    <3>1. f + k \in 0..(Cap - 1) /\ f + k = 0 * Cap + (f + k)
      BY <1>1, <2>1
    <3>2. (f + k) % Cap = f + k
      BY <1>1, <3>1, QuotientUnique
    <3> QED
      BY <2>1, <3>2 DEF At
  <2>2. CASE ~(f + k < Cap)
    <3>1. (f + k) - Cap \in 0..(Cap - 1) /\ f + k = 1 * Cap + ((f + k) - Cap)
      BY <1>1, <2>2
    <3>2. (f + k) % Cap = (f + k) - Cap
      BY <1>1, <3>1, QuotientUnique
    <3> QED
      BY <2>2, <3>2 DEF At
  <2> QED
    BY <2>1, <2>2
<1> QED
  BY <1>1, <1>2

-----------------------------------------------------------------------------
(* What the buffers hold and the caller is told.                           *)

Reading == worker.pc \in {"read", "readDone"}
Seeking == worker.pc \in {"begin", "seek", "seeked"}
Hitting == cpu.pc \in {"compare", "advance", "consume", "refill", "kick", "request"}
Leaving == cpu.pc \in {"stop", "join", "boot"}

(* The full ranges.                                                        *)
Types ==
  /\ media \in Disc \cup {None} /\ position \in LBA /\ nextPosition \in LBA
  /\ slots \in [0..(Cap - 1) -> Slot]
  /\ front \in 0..(Cap - 1) /\ back \in 0..(Cap - 1) /\ count \in 0..Cap
  /\ worker \in [pc : WorkerPCs, lba : LBA, ok : BOOLEAN, slot : 0..(Cap - 1)]
  /\ cpu \in [pc : CpuPCs, lba : LBA, n : 0..Cap]
  /\ asked \in LBA \cup {None} /\ reply \in {Unanswered, "ok", "failed"}

(* The buffers in use go from buffer_front to buffer_back, the one that    *)
(* the worker reads into being the last, whichever of the two stores of a  *)
(* hit has been made.                                                      *)
Ring ==
  /\ Reading => count < Cap /\ worker.slot = At(front, Buffered)
  /\ threaded => back = At(front, Buffered + IF Reading THEN 1 ELSE 0)
  /\ cpu.pc = "compare" => 1 <= cpu.n /\ cpu.n <= count
  /\ cpu.pc = "advance" => cpu.n = At(front, 1) /\ count > 1
  /\ cpu.pc = "consume" => count > 1
  /\ ~threaded => count <= 1 /\ front = 0

(* The worker seeks for a read that is not answered, and never while the   *)
(* core thread looks at the front buffer.                                  *)
Course ==
  /\ Hitting => threaded /\ ~nextPositionSet /\ ~Seeking /\ Pending
  /\ Seeking => count = 0 /\ (Pending \/ Leaving)
  /\ worker.pc = "begin" => nextPositionSet
  /\ worker.pc \in {"seek", "seeked"} => ~seekError
  /\ Leaving \/ cpu.pc \in {"cancel", "swap"} => asked = None
  /\ asked # None => media # None
  /\ asked = None => reply = Unanswered
  /\ ~threaded /\ nextPositionSet => Leaving
  /\ cpu.pc \in {"peek", "await"} => asked # None

Belongs(m, s) == m # None => /\ s.ok <=> Readable(s.lba)
                             /\ s.ok => s.data = <<m, s.lba>>

(* Every buffer in use belongs to the disc; so does the one being read, as *)
(* soon as it has been.                                                    *)
Contents ==
  /\ cpu.pc # "swap" => \A k \in 0..(Buffered - 1) : Belongs(media, slots[At(front, k)])
  /\ worker.pc = "read" => slots[worker.slot].lba = position
  /\ worker.pc = "readDone" => Belongs(media, slots[worker.slot])

(* Nothing is left to seek for.                                            *)
Settled == ~nextPositionSet /\ ~Seeking /\ cpu.pc \notin {"compare", "advance", "request"}

(* Where the sector last queued is, from its request to its reply.         *)
Answers ==
  asked # None /\ asked < Length =>
    /\ nextPositionSet => nextPosition = asked
    /\ cpu.pc \in {"compare", "advance", "request"} => cpu.lba = asked
    /\ cpu.pc = "advance" => slots[cpu.n].lba = asked
    /\ Seeking => worker.lba = asked
    /\ worker.pc = "seeked" => worker.ok /\ position = asked
    /\ Settled => /\ \/ count > 0 /\ slots[front].lba = asked
                     \/ count = 0 /\ worker.pc = "fill" /\ position = asked
                     \/ count = 0 /\ Reading /\ slots[front].lba = asked
                  /\ count = 0 \/ cpu.pc = "await" => ~seekError
    /\ reply # Unanswered => count > 0 /\ (reply = "ok" <=> slots[front].ok)

Served == Types /\ Ring /\ Course /\ Contents /\ Answers

WorkerKinds == [pc : WorkerPCs, lba : LBA, ok : BOOLEAN, slot : 0..(Cap - 1)]
CpuKinds == [pc : CpuPCs, lba : LBA, n : 0..Cap]

Apart == {"start", "check", "block", "sleep", "wake", "top", "filled", "exited"}
Plain == {"idle", "refill", "kick", "peek", "await", "uncachedWait", "uncached", "idleWait",
          "precache", "stop", "join"}

(* A step that moves neither sectors nor requests.                         *)
LEMMA Aside ==
  ASSUME IndInv, Served,
         UNCHANGED <<front, back, count, slots, media, position, threaded, asked, reply,
                     nextPosition, nextPositionSet, seekError>>,
         \/ worker' = worker
         \/ /\ worker.pc \in Apart \/ (worker.pc = "fill" /\ (count > 0 \/ nextPositionSet))
            /\ worker'.pc \in Apart \cup {"fill"} /\ worker' \in WorkerKinds,
         \/ cpu' = cpu
         \/ /\ cpu.pc \in Plain /\ cpu'.pc \in Plain /\ cpu' \in CpuKinds
            /\ cpu'.pc \in {"refill", "kick"} => cpu.pc \in {"refill", "kick"}
            /\ cpu'.pc \in {"stop", "join"} <=> cpu.pc \in {"stop", "join"}
            /\ cpu'.pc = "await" => nextPositionSet \/ count = 0 \/ cpu.pc = "await"
            /\ cpu'.pc \in {"peek", "await"} => asked # None
  PROVE  Served'
<1>1. Types'
  BY DEF Served, Types, WorkerKinds, CpuKinds
<1>2. Reading' <=> Reading
  BY DEF Reading, Apart
<1>3. Seeking' <=> Seeking
  BY DEF Seeking, Apart
<1>4. /\ cpu'.pc = "consume" <=> cpu.pc = "consume"
      /\ cpu'.pc \in {"compare", "advance", "request"} => cpu' = cpu
      /\ cpu'.pc = "swap" <=> cpu.pc = "swap"
      /\ cpu'.pc \in {"cancel", "swap"} <=> cpu.pc \in {"cancel", "swap"}
  BY DEF Plain
<1>5. (Hitting' => Hitting) /\ (Leaving' <=> Leaving)
  BY DEF Hitting, Leaving, Plain
<1>6. Buffered' = Buffered
  BY <1>4 DEF Buffered
<1>7. Pending' <=> Pending
  BY DEF Pending
<1>8. \/ worker' = worker
      \/ /\ worker.pc \in Apart \/ (worker.pc = "fill" /\ (count > 0 \/ nextPositionSet))
         /\ worker'.pc \in Apart \cup {"fill"}
  OBVIOUS
<1>9. Ring'
  <2>1. Reading => worker' = worker
    BY <1>8 DEF Reading, Apart
  <2>2. cpu'.pc \in {"compare", "advance", "consume"} => cpu' = cpu
    BY DEF Plain
  <2> QED
    BY <1>2, <1>6, <2>1, <2>2 DEF Served, Ring
<1>10. Course'
  BY <1>3, <1>4, <1>5, <1>7, <1>8 DEF Served, Course, Apart
<1>11. Contents'
  <2>1. cpu'.pc # "swap" => \A k \in 0..(Buffered' - 1) : Belongs(media', slots'[At(front', k)])
    BY <1>4, <1>6 DEF Served, Contents
  <2>2. worker'.pc \in {"read", "readDone"} => worker' = worker
    BY <1>8 DEF Apart
  <2> QED
    BY <2>1, <2>2 DEF Served, Contents
<1>12. Answers'
  <2>1. Settled' <=> Settled
    BY <1>3 DEF Settled, Plain
  <2>2. worker'.pc = "seeked" \/ Reading' \/ Seeking' => worker' = worker
    BY <1>8 DEF Apart, Reading, Seeking
  <2>3. worker.pc = "fill" => worker' = worker \/ count > 0 \/ ~Settled
    BY <1>8 DEF Apart, Settled
  <2> QED
    BY <1>2, <1>3, <1>4, <2>1, <2>2, <2>3 DEF Served, Answers, Settled, Types
<1> QED
  BY <1>1, <1>9, <1>10, <1>11, <1>12 DEF Served
(* The worker takes the mutex;                                             *)
LEMMA TakeLockServed == ASSUME IndInv, Served, TakeLock PROVE Served'
<1>1. worker \in WorkerKinds /\ cpu \in CpuKinds
  BY DEF Served, Types, WorkerKinds, CpuKinds
<1> QED
  BY <1>1, Aside
     DEF TakeLock, WorkerGoes, Apart, Plain, WorkerKinds, CpuKinds, WorkerPCs,
         CpuPCs, disc, request, flags, ring, history

(* finds nothing to do, or something;                                      *)
LEMMA CheckWorkServed == ASSUME IndInv, Served, CheckWork PROVE Served'
<1>1. worker \in WorkerKinds /\ cpu \in CpuKinds
  BY DEF Served, Types, WorkerKinds, CpuKinds
<1> QED
  BY <1>1, Aside
     DEF CheckWork, WorkerGoes, Apart, Plain, WorkerKinds, CpuKinds, WorkerPCs,
         CpuPCs, disc, request, flags, ring, history

(* sleeps.                                                                 *)
LEMMA BlockServed == ASSUME IndInv, Served, Block PROVE Served'
<1>1. worker \in WorkerKinds /\ cpu \in CpuKinds
  BY DEF Served, Types, WorkerKinds, CpuKinds
<1> QED
  BY <1>1, Aside
     DEF Block, WorkerGoes, Apart, Plain, WorkerKinds, CpuKinds, WorkerPCs,
         CpuPCs, disc, request, flags, ring, history

(* A hit sets can_readahead;                                               *)
LEMMA AllowReadaheadServed == ASSUME IndInv, Served, AllowReadahead PROVE Served'
<1>1. worker \in WorkerKinds /\ cpu \in CpuKinds
  BY DEF Served, Types, WorkerKinds, CpuKinds
<1> QED
  BY <1>1, Aside
     DEF AllowReadahead, CpuGoes, Apart, Plain, WorkerKinds, CpuKinds, WorkerPCs,
         CpuPCs, disc, request, flags, ring, history

(* the signal wakes the worker, if it sleeps.                              *)
LEMMA KickWorkerServed == ASSUME IndInv, Served, KickWorker PROVE Served'
<1>1. worker \in WorkerKinds /\ cpu \in CpuKinds
  BY DEF Served, Types, WorkerKinds, CpuKinds
<1> QED
  BY <1>1, Aside
     DEF KickWorker, CpuGoes, SignalWorker, Apart, Plain, WorkerKinds, CpuKinds, WorkerPCs,
         CpuPCs, disc, request, flags, ring, history

(* An uncached read takes the mutex.                                       *)
LEMMA LockUncachedServed == ASSUME IndInv, Served, LockUncached PROVE Served'
<1>1. worker \in WorkerKinds /\ cpu \in CpuKinds
  BY DEF Served, Types, WorkerKinds, CpuKinds
<1> QED
  BY <1>1, Aside
     DEF LockUncached, CpuGoes, Apart, Plain, WorkerKinds, CpuKinds, WorkerPCs,
         CpuPCs, disc, request, flags, ring, history

(* Precaching waits for the worker                                         *)
LEMMA WaitForIdleServed == ASSUME IndInv, Served, WaitForIdle PROVE Served'
<1>1. worker \in WorkerKinds /\ cpu \in CpuKinds
  BY DEF Served, Types, WorkerKinds, CpuKinds
<1> QED
  BY <1>1, Aside
     DEF WaitForIdle, CpuGoes, Apart, Plain, WorkerKinds, CpuKinds, WorkerPCs,
         CpuPCs, disc, request, flags, ring, history

(* and is done.                                                            *)
LEMMA PrecacheMediaServed == ASSUME IndInv, Served, PrecacheMedia PROVE Served'
<1>1. worker \in WorkerKinds /\ cpu \in CpuKinds
  BY DEF Served, Types, WorkerKinds, CpuKinds
<1> QED
  BY <1>1, Aside
     DEF PrecacheMedia, CpuGoes, Apart, Plain, WorkerKinds, CpuKinds, WorkerPCs,
         CpuPCs, disc, request, flags, ring, history

(* The worker is told to stop.                                             *)
LEMMA StopThreadServed == ASSUME IndInv, Served, StopThread PROVE Served'
<1>1. worker \in WorkerKinds /\ cpu \in CpuKinds
  BY DEF Served, Types, WorkerKinds, CpuKinds
<1> QED
  BY <1>1, Aside
     DEF StopThread, CpuGoes, SignalWorker, Apart, Plain, WorkerKinds, CpuKinds, WorkerPCs,
         CpuPCs, disc, request, flags, ring, history

(* Readahead ends.                                                         *)
LEMMA EndReadaheadServed == ASSUME IndInv, Served, EndReadahead PROVE Served'
<1>1. worker \in WorkerKinds /\ cpu \in CpuKinds
  BY DEF Served, Types, WorkerKinds, CpuKinds
<1> QED
  BY <1>1, Aside
     DEF EndReadahead, WorkerGoes, Apart, Plain, WorkerKinds, CpuKinds, WorkerPCs,
         CpuPCs, disc, request, flags, ring, history

(* Precaching begins.                                                      *)
LEMMA PrecacheServed == ASSUME IndInv, Served, Precache PROVE Served'
<1>1. worker \in WorkerKinds /\ cpu \in CpuKinds
  BY DEF Served, Types, WorkerKinds, CpuKinds
<1> QED
  BY <1>1, Aside
     DEF Precache, CpuGoes, Apart, Plain, WorkerKinds, CpuKinds, WorkerPCs,
         CpuPCs, disc, request, flags, ring, history

(* An uncached read begins.                                                *)
LEMMA ReadUncachedServed == ASSUME IndInv, Served, ReadUncached PROVE Served'
<1>1. worker \in WorkerKinds /\ cpu \in CpuKinds
  BY DEF Served, Types, WorkerKinds, CpuKinds
<1> QED
  BY <1>1, Aside
     DEF ReadUncached, CpuGoes, Apart, Plain, WorkerKinds, CpuKinds, WorkerPCs,
         CpuPCs, disc, request, flags, ring, history

(* So does a wait, for a read that was queued.                             *)
LEMMA WaitForReadServed == ASSUME IndInv, Served, WaitForRead PROVE Served'
<1>1. worker \in WorkerKinds /\ cpu \in CpuKinds
  BY DEF Served, Types, WorkerKinds, CpuKinds
<1> QED
  BY <1>1, Aside
     DEF WaitForRead, CpuGoes, MayWait, Apart, Plain, WorkerKinds, CpuKinds, WorkerPCs,
         CpuPCs, disc, request, flags, ring, history


(* A seek throws the buffers away.                                         *)
LEMMA TopOfLoopServed == ASSUME IndInv, Served, TopOfLoop PROVE Served'
<1>0. worker \in WorkerKinds /\ cpu \in CpuKinds
  BY DEF Served, Types, WorkerKinds, CpuKinds
<1>1. CASE ~nextPositionSet
  BY <1>0, <1>1, Aside
     DEF TopOfLoop, WorkerGoes, Apart, Plain, WorkerKinds, CpuKinds, WorkerPCs, CpuPCs, disc,
         request, flags, ring, history
<1>2. CASE nextPositionSet
  <2>1. /\ front' = 0 /\ back' = 0 /\ count' = 0
        /\ worker'.pc = "begin" /\ worker'.lba = nextPosition /\ worker' \in WorkerKinds
    BY <1>0, <1>2 DEF TopOfLoop, EmptyBuffers, WorkerKinds, WorkerPCs, Served, Types
  <2>2. UNCHANGED <<media, position, nextPosition, nextPositionSet, slots, threaded, cpu,
                    asked, reply, seekError>>
    BY <1>2 DEF TopOfLoop, EmptyBuffers, disc, request, flags, history
  <2>3. ~Hitting /\ threaded /\ worker.pc = "top" /\ (Pending \/ Leaving)
    BY <1>2 DEF TopOfLoop, Served, Course, IndInv, Locks, Requests, Leaving
  <2>4. Types'
    BY <2>1, <2>2, SizeAssumption DEF Served, Types, WorkerKinds
  <2>5. ~Hitting' /\ ~Reading' /\ Seeking' /\ Buffered' = 0 /\ (Pending' \/ Leaving')
    BY <2>1, <2>2, <2>3 DEF Hitting, Reading, Seeking, Buffered, Pending, Leaving
  <2>6. Ring'
    BY <2>1, <2>2, <2>3, <2>5, AtZero, SizeAssumption DEF Ring, Hitting
  <2>7. Course'
    BY <1>2, <2>1, <2>2, <2>3, <2>5 DEF Served, Course, Hitting, Leaving
  <2>8. Contents'
    BY <2>1, <2>2, <2>5 DEF Contents
  <2>9. Answers'
    BY <1>2, <2>1, <2>2, <2>3, <2>5
       DEF Served, Answers, Settled, Hitting, Course, Pending, Leaving, Seeking
  <2> QED
    BY <2>4, <2>6, <2>7, <2>8, <2>9 DEF Served
<1> QED
  BY <1>1, <1>2

(* The seek is under way: its sector is the one asked for.                 *)
LEMMA BeginSeekServed == ASSUME IndInv, Served, BeginSeek PROVE Served'
<1>1. /\ worker'.pc = "seek" /\ worker'.lba = worker.lba /\ worker' \in WorkerKinds
      /\ worker.pc = "begin" /\ nextPositionSet' = FALSE /\ seekError' = FALSE
  <2>1. worker \in WorkerKinds
    BY DEF Served, Types, WorkerKinds
  <2> QED
    BY <2>1 DEF BeginSeek, WorkerGoes, WorkerKinds, WorkerPCs
<1>2. UNCHANGED <<media, position, nextPosition, slots, front, back, count, threaded, cpu,
                  asked, reply>>
  BY DEF BeginSeek, disc, ring, history
<1>3. ~Hitting /\ count = 0 /\ (Pending \/ Leaving) /\ Seeking
  BY <1>1 DEF Served, Course, Seeking
<1>4. ~Hitting' /\ ~Reading' /\ ~Reading /\ Seeking' /\ Buffered' = Buffered /\ Buffered = 0
      /\ (Pending' \/ Leaving')
  BY <1>1, <1>2, <1>3 DEF Hitting, Reading, Seeking, Buffered, Pending, Leaving
<1>5. Types'
  BY <1>1, <1>2 DEF Served, Types, WorkerKinds
<1>6. Ring'
  BY <1>1, <1>2, <1>4 DEF Served, Ring, Hitting
<1>7. Course'
  BY <1>1, <1>2, <1>3, <1>4 DEF Served, Course, Hitting, Leaving
<1>8. Contents'
  BY <1>1, <1>2, <1>4 DEF Contents
<1>9. Answers'
  BY <1>1, <1>2, <1>3, <1>4 DEF Served, Answers, Settled, Hitting, Course, Pending, Leaving
<1> QED
  BY <1>5, <1>6, <1>7, <1>8, <1>9 DEF Served

(* A seek to a sector of the disc succeeds.                                *)
LEMMA SeekServed == ASSUME IndInv, Served, Seek PROVE Served'
<1>1. /\ worker'.pc = "seeked" /\ worker'.lba = worker.lba /\ worker' \in WorkerKinds
      /\ worker.pc = "seek" /\ worker'.ok = CanSeek(worker.lba)
      /\ position' = IF CanSeek(worker.lba) THEN worker.lba ELSE position
  <2>1. worker \in WorkerKinds /\ CanSeek(worker.lba) \in BOOLEAN
    BY DEF Served, Types, WorkerKinds, CanSeek
  <2> QED
    BY <2>1 DEF Seek, WorkerKinds, WorkerPCs
<1>2. UNCHANGED <<media, nextPosition, nextPositionSet, seekError, slots, front, back, count,
                  threaded, cpu, asked, reply>>
  BY DEF Seek, request, flags, ring, history
<1>3. ~Hitting /\ count = 0 /\ (Pending \/ Leaving) /\ Seeking /\ ~seekError
  BY <1>1 DEF Served, Course, Seeking
<1>4. ~Hitting' /\ ~Reading' /\ ~Reading /\ Seeking' /\ Buffered' = Buffered /\ Buffered = 0
      /\ (Pending' \/ Leaving')
  BY <1>1, <1>2, <1>3 DEF Hitting, Reading, Seeking, Buffered, Pending, Leaving
<1>5. Types'
  BY <1>1, <1>2 DEF Served, Types, WorkerKinds
<1>6. Ring'
  BY <1>1, <1>2, <1>4 DEF Served, Ring, Hitting
<1>7. Course'
  BY <1>1, <1>2, <1>3, <1>4 DEF Served, Course, Hitting, Leaving
<1>8. Contents'
  BY <1>1, <1>2, <1>4 DEF Contents
<1>9. asked # None /\ asked < Length => CanSeek(asked) /\ worker.lba = asked
  BY <1>1, <1>3 DEF Served, Answers, Course, CanSeek
<1>10. Answers'
  BY <1>1, <1>2, <1>3, <1>4, <1>9 DEF Served, Answers, Settled, Hitting, Course, Pending, Leaving
<1> QED
  BY <1>5, <1>6, <1>7, <1>8, <1>10 DEF Served

(* What it leads to: the request that came in, the error, or a read where  *)
(* it went.                                                                *)
LEMMA EndSeekServed == ASSUME IndInv, Served, EndSeek PROVE Served'
<1>1. /\ worker.pc = "seeked" /\ worker' \in WorkerKinds
      /\ \/ worker'.pc = "top" /\ nextPositionSet /\ seekError' = seekError
         \/ worker'.pc = "check" /\ ~worker.ok
         \/ worker'.pc = "fill" /\ ~nextPositionSet /\ seekError' = seekError
  <2>1. worker \in WorkerKinds
    BY DEF Served, Types, WorkerKinds
  <2>2. CASE nextPositionSet
    BY <2>1, <2>2 DEF EndSeek, WorkerGoes, WorkerKinds, WorkerPCs
  <2>3. CASE ~nextPositionSet /\ ~worker.ok
    BY <2>1, <2>3 DEF EndSeek, WorkerGoes, WorkerKinds, WorkerPCs
  <2>4. CASE ~nextPositionSet /\ worker.ok
    BY <2>1, <2>4 DEF EndSeek, WorkerGoes, WorkerKinds, WorkerPCs
  <2> QED
    BY <2>2, <2>3, <2>4
<1>2. UNCHANGED <<media, position, nextPosition, nextPositionSet, slots, front, back, count,
                  threaded, cpu, asked, reply>>
  BY DEF EndSeek, disc, request, ring, history
<1>3. ~Hitting /\ count = 0 /\ (Pending \/ Leaving) /\ Seeking /\ ~seekError
  BY <1>1 DEF Served, Course, Seeking
<1>4. ~Hitting' /\ ~Reading' /\ ~Reading /\ ~Seeking' /\ Buffered' = Buffered /\ Buffered = 0
      /\ (Pending' \/ Leaving')
  BY <1>1, <1>2, <1>3 DEF Hitting, Reading, Seeking, Buffered, Pending, Leaving
<1>5. Types'
  BY <1>1, <1>2 DEF Served, Types, WorkerKinds
<1>6. Ring'
  BY <1>1, <1>2, <1>4 DEF Served, Ring, Hitting
<1>7. Course'
  BY <1>1, <1>2, <1>3, <1>4 DEF Served, Course, Hitting, Leaving, Seeking
<1>8. Contents'
  BY <1>1, <1>2, <1>4 DEF Contents
<1>9. asked # None /\ asked < Length => worker.ok /\ position = asked
  BY <1>1 DEF Served, Answers
<1>10. Answers'
  BY <1>1, <1>2, <1>3, <1>4, <1>9 DEF Served, Answers, Settled, Hitting, Course, Pending, Leaving
<1> QED
  BY <1>5, <1>6, <1>7, <1>8, <1>10 DEF Served

(* The buffers in use are fewer than all while there is one to read into.  *)
LEMMA InUse ==
  ASSUME Served
  PROVE  /\ Buffered \in 0..count
         /\ count > 0 => Buffered > 0
         /\ cpu.pc # "consume" => Buffered = count
BY DEF Served, Types, Ring, Buffered

(* The buffer to read into is none of them.                                *)
LEMMA BackIsFree ==
  ASSUME Served, count < Cap
  PROVE  /\ \A k \in 0..(Buffered - 1) : At(front, k) # At(front, Buffered)
         /\ count > 0 => front # At(front, Buffered)
<1>1. Buffered \in 0..(Cap - 1) /\ front \in 0..(Cap - 1) /\ Cap \in Nat \ {0}
      /\ (count > 0 => Buffered > 0)
  BY InUse, SizeAssumption DEF Served, Types
<1>2. \A k \in 0..(Buffered - 1) : At(front, k) # At(front, Buffered)
  <2> SUFFICES ASSUME NEW k \in 0..(Buffered - 1) PROVE At(front, k) # At(front, Buffered)
    OBVIOUS
  <2>1. k \in 0..(Cap - 1) /\ k # Buffered
    BY <1>1
  <2> QED
    BY <1>1, <2>1, AtDistinct
<1>3. At(front, 0) = front
  BY <1>1, AtZero
<1> QED
  BY <1>1, <1>2, <1>3

(* A buffer is taken for the next sector.                                  *)
LEMMA FillBufferServed == ASSUME IndInv, Served, FillBuffer PROVE Served'
<1>0. worker \in WorkerKinds /\ count \in 0..Cap /\ Cap \in Nat \ {0}
  BY SizeAssumption DEF Served, Types, WorkerKinds
<1>1. CASE ~(count < Cap /\ ~nextPositionSet)
  <2>1. count > 0 \/ nextPositionSet
    BY <1>0, <1>1
  <2>2. worker'.pc = "filled" /\ worker.pc = "fill" /\ worker' \in WorkerKinds
    BY <1>0, <1>1 DEF FillBuffer, WorkerGoes, WorkerKinds, WorkerPCs
  <2>3. UNCHANGED <<front, back, count, slots, media, position, threaded, asked, reply,
                    nextPosition, nextPositionSet, seekError, cpu>>
    BY <1>1 DEF FillBuffer, disc, request, history
  <2> QED
    BY <2>1, <2>2, <2>3, Aside DEF Apart
<1>2. CASE count < Cap /\ ~nextPositionSet
  <2>1. /\ worker'.pc = "read" /\ worker'.slot = back /\ worker' \in WorkerKinds
        /\ worker.pc = "fill" /\ back' = (back + 1) % Cap
        /\ slots' = [slots EXCEPT ![back].lba = position]
    <3>1. back \in 0..(Cap - 1)
      BY DEF Served, Types
    <3> QED
      BY <1>0, <1>2, <3>1 DEF FillBuffer, WorkerKinds, WorkerPCs
  <2>2. UNCHANGED <<media, position, nextPosition, nextPositionSet, seekError, front, count,
                    threaded, cpu, asked, reply>>
    BY <1>2 DEF FillBuffer, disc, request, history
  <2>3. threaded /\ ~Reading /\ Reading' /\ ~Seeking /\ ~Seeking' /\ Buffered' = Buffered
        /\ (Hitting' <=> Hitting) /\ (Leaving' <=> Leaving) /\ (Pending' <=> Pending)
        /\ (Settled' <=> Settled)
    BY <2>1, <2>2
       DEF Reading, Seeking, Hitting, Leaving, Pending, Buffered, Settled, IndInv, Locks
  <2>4. back = At(front, Buffered) /\ back' = At(front, Buffered + 1) /\ Buffered \in Nat
        /\ front \in 0..(Cap - 1)
    <3>1. back = At(front, Buffered) /\ Buffered \in Nat /\ front \in 0..(Cap - 1)
      BY <2>3, InUse DEF Served, Ring, Types
    <3> QED
      BY <2>1, <3>1, AtNext
  <2>5. /\ slots' \in [0..(Cap - 1) -> Slot]
        /\ slots'[back].lba = position
        /\ \A i \in 0..(Cap - 1) : i # back => slots'[i] = slots[i]
    <3>1. slots \in [0..(Cap - 1) -> Slot] /\ position \in LBA /\ back \in 0..(Cap - 1)
      BY DEF Served, Types
    <3>2. [slots[back] EXCEPT !.lba = position] \in Slot
          /\ [slots[back] EXCEPT !.lba = position].lba = position
      <4>1. slots[back] \in Slot
        BY <3>1
      <4> QED
        BY <3>1, <4>1 DEF Slot
    <3> QED
      BY <2>1, <3>1, <3>2
  <2>6. Types'
    <3>1. back' \in 0..(Cap - 1)
      BY <2>4, AtIn
    <3> QED
      BY <2>1, <2>2, <2>5, <3>1 DEF Served, Types, WorkerKinds
  <2>7. Ring'
    BY <1>2, <2>1, <2>2, <2>3, <2>4 DEF Served, Ring
  <2>8. Course'
    BY <2>1, <2>2, <2>3 DEF Served, Course
  <2>9. \A k \in 0..(Buffered - 1) : At(front, k) # back
    BY <1>2, <2>4, BackIsFree
  <2>10. Contents'
    <3> SUFFICES ASSUME cpu.pc # "swap", NEW k \in 0..(Buffered - 1)
                 PROVE  Belongs(media, slots'[At(front, k)])
      BY <2>1, <2>2, <2>3, <2>5 DEF Contents
    <3>1. At(front, k) \in 0..(Cap - 1)
      <4>1. k \in Nat
        BY <2>4
      <4> QED
        BY <2>4, <4>1, AtIn
    <3>2. slots'[At(front, k)] = slots[At(front, k)]
      BY <2>5, <2>9, <3>1
    <3> QED
      BY <3>2 DEF Served, Contents
  <2>11. count > 0 => slots'[front] = slots[front]
    BY <1>2, <2>4, <2>5, BackIsFree
  <2>12. cpu.pc = "advance" => slots'[cpu.n] = slots[cpu.n]
    <3> SUFFICES ASSUME cpu.pc = "advance" PROVE slots'[cpu.n] = slots[cpu.n]
      OBVIOUS
    <3>1. cpu.n = At(front, 1) /\ Buffered = count /\ count > 1
      BY InUse DEF Served, Ring
    <3>2. 1 \in 0..(Buffered - 1) /\ 1 \in Nat
      BY <1>0, <3>1
    <3>3. At(front, 1) # back /\ At(front, 1) \in 0..(Cap - 1)
      BY <2>4, <2>9, <3>2, AtIn
    <3> QED
      BY <2>5, <3>1, <3>3
  <2>13. count = 0 => back = front
    <3>1. count = 0 => Buffered = 0
      BY InUse
    <3> QED
      BY <2>4, <3>1, AtZero
  <2>14. Answers'
    BY <1>0, <2>1, <2>2, <2>3, <2>5, <2>11, <2>12, <2>13 DEF Served, Answers
  <2> QED
    BY <2>6, <2>7, <2>8, <2>10, <2>14 DEF Served
<1> QED
  BY <1>1, <1>2

(* Its sector is read into it.                                             *)
LEMMA ReadSectorServed == ASSUME IndInv, Served, ReadSector PROVE Served'
<1> DEFINE slot == worker.slot
           ok == media # None /\ Readable(position)
           got == IF ok THEN <<media, position>> ELSE slots[slot].data
<1>1. worker \in WorkerKinds /\ slots \in [0..(Cap - 1) -> Slot] /\ slot \in 0..(Cap - 1)
      /\ position \in LBA /\ front \in 0..(Cap - 1) /\ ok \in BOOLEAN /\ slots[slot] \in Slot
  BY DEF Served, Types, WorkerKinds
<1>2. /\ worker'.pc = "readDone" /\ worker'.slot = slot /\ worker' \in WorkerKinds
      /\ worker.pc = "read"
  BY <1>1 DEF ReadSector, WorkerGoes, WorkerKinds, WorkerPCs
<1>3. /\ slots' = [slots EXCEPT ![slot].ok = ok, ![slot].data = got]
      /\ position' = IF ok THEN position + 1 ELSE position
  BY <1>1, Zenon DEF ReadSector
<1>4. UNCHANGED <<media, nextPosition, nextPositionSet, seekError, front, back, count, threaded,
                  cpu, asked, reply>>
  BY DEF ReadSector, request, flags, history
<1>5. Reading /\ Reading' /\ ~Seeking /\ ~Seeking' /\ Buffered' = Buffered
      /\ (Hitting' <=> Hitting) /\ (Leaving' <=> Leaving) /\ (Pending' <=> Pending)
      /\ (Settled' <=> Settled)
  BY <1>2, <1>4 DEF Reading, Seeking, Hitting, Leaving, Pending, Buffered, Settled
<1>6. slot = At(front, Buffered) /\ count < Cap /\ slots[slot].lba = position
  BY <1>2, <1>5 DEF Served, Ring, Contents
<1>7. got \in {NoData} \cup (Disc \X LBA)
  BY <1>1 DEF Served, Types, Slot
<1>8. position' \in LBA
  BY <1>1, <1>3, SizeAssumption DEF Readable, LBA
<1> HIDE DEF slot, ok, got
<1>9. /\ slots' \in [0..(Cap - 1) -> Slot]
      /\ slots'[slot].lba = position /\ slots'[slot].ok = ok /\ slots'[slot].data = got
      /\ \A i \in 0..(Cap - 1) : i # slot => slots'[i] = slots[i]
  <2> DEFINE new == [[slots[slot] EXCEPT !.ok = ok] EXCEPT !.data = got]
  <2>1. new \in Slot /\ new.lba = position /\ new.ok = ok /\ new.data = got
    BY <1>1, <1>6, <1>7 DEF Slot
  <2> DEFINE half == [slots EXCEPT ![slot].ok = ok]
  <2>2. slots' = [half EXCEPT ![slot].data = got]
    BY <1>3, Zenon
  <2>3. half[slot] = [slots[slot] EXCEPT !.ok = ok] /\ half \in [0..(Cap - 1) -> Slot]
        /\ \A i \in 0..(Cap - 1) : i # slot => half[i] = slots[i]
    <3>1. [slots[slot] EXCEPT !.ok = ok] \in Slot
      BY <1>1 DEF Slot
    <3> QED
      BY <1>1, <3>1
  <2> HIDE DEF half
  <2>4. slots' = [half EXCEPT ![slot] = new]
    BY <2>2, <2>3, Zenon
  <2> HIDE DEF new
  <2> QED
    BY <1>1, <2>1, <2>3, <2>4
<1>10. Types'
  BY <1>2, <1>4, <1>8, <1>9 DEF Served, Types, WorkerKinds
<1>11. Ring'
  BY <1>2, <1>4, <1>5 DEF Served, Ring, slot
<1>12. Course'
  BY <1>2, <1>4, <1>5 DEF Served, Course
<1>13. \A k \in 0..(Buffered - 1) : At(front, k) # slot
  BY <1>6, BackIsFree
<1>14. Contents'
  <2>1. Belongs(media, slots'[slot])
    BY <1>9 DEF Belongs, ok, got
  <2> SUFFICES ASSUME cpu.pc # "swap", NEW k \in 0..(Buffered - 1)
               PROVE  Belongs(media, slots'[At(front, k)])
    BY <1>2, <1>4, <1>5, <2>1 DEF Contents
  <2>3. At(front, k) \in 0..(Cap - 1)
    <3>1. k \in Nat
      BY InUse DEF Served, Types
    <3> QED
      BY <1>1, <3>1, AtIn
  <2>4. slots'[At(front, k)] = slots[At(front, k)]
    BY <1>9, <1>13, <2>3
  <2> QED
    BY <2>4 DEF Served, Contents
<1>15. count > 0 => slots'[front] = slots[front]
  BY <1>1, <1>6, <1>9, BackIsFree
<1>16. \A i \in 0..(Cap - 1) : slots'[i].lba = slots[i].lba
  BY <1>6, <1>9
<1>17. cpu.pc = "advance" => cpu.n \in 0..(Cap - 1)
  <2>1. 1 \in Nat
    OBVIOUS
  <2> QED
    BY <1>1, <2>1, AtIn DEF Served, Ring
<1>18. Answers'
  BY <1>1, <1>2, <1>4, <1>5, <1>15, <1>16, <1>17 DEF Served, Answers
<1> QED
  BY <1>10, <1>11, <1>12, <1>14, <1>18 DEF Served

(* It is counted.                                                          *)
LEMMA EndReadServed == ASSUME IndInv, Served, EndRead PROVE Served'
<1>1. /\ worker'.pc = "fill" /\ worker' \in WorkerKinds /\ worker'.slot = worker.slot
      /\ worker.pc = "readDone"
  <2>1. worker \in WorkerKinds
    BY DEF Served, Types, WorkerKinds
  <2> QED
    BY <2>1 DEF EndRead, WorkerGoes, WorkerKinds, WorkerPCs
<1>2. UNCHANGED <<media, position, nextPosition, nextPositionSet, seekError, slots, front, back,
                  threaded, cpu, asked, reply>>
  BY DEF EndRead, disc, request, history
<1>3. Reading /\ ~Reading' /\ ~Seeking /\ ~Seeking'
      /\ (Hitting' <=> Hitting) /\ (Leaving' <=> Leaving) /\ (Pending' <=> Pending)
      /\ (Settled' <=> Settled) /\ threaded
  BY <1>1, <1>2
     DEF Reading, Seeking, Hitting, Leaving, Pending, Settled, IndInv, Locks, WorkerReads
<1>4. count \in 0..Cap /\ Cap \in Nat /\ CountMod \in Nat /\ CountMod > Cap /\ count < Cap
      /\ worker.slot = At(front, Buffered)
  BY <1>3, SizeAssumption DEF Served, Types, Ring
<1>5. count' = count + 1
  <2>1. count' = (count + 1) % CountMod
    BY DEF EndRead
  <2>2. count + 1 = 0 * CountMod + (count + 1) /\ count + 1 \in 0..(CountMod - 1)
        /\ CountMod \in Nat \ {0}
    BY <1>4
  <2> QED
    BY <2>1, <2>2, QuotientUnique
<1>6. Buffered' = Buffered + 1 /\ Buffered \in Nat
  BY <1>2, <1>4, <1>5 DEF Buffered, Served, Ring
<1>7. Types'
  BY <1>1, <1>2, <1>4, <1>5 DEF Served, Types, WorkerKinds
<1>8. Ring'
  <2>1. back' = At(front', Buffered')
    BY <1>2, <1>3, <1>6 DEF Served, Ring
  <2>2. Buffered' = Buffered' + 0
    BY <1>6
  <2> QED
    BY <1>2, <1>3, <1>4, <1>5, <2>1, <2>2 DEF Served, Ring, Types
<1>9. Course'
  BY <1>1, <1>2, <1>3 DEF Served, Course
<1>10. Contents'
  <2> SUFFICES ASSUME cpu.pc # "swap", NEW k \in 0..Buffered
               PROVE  Belongs(media, slots[At(front, k)])
    BY <1>1, <1>2, <1>6 DEF Contents
  <2>1. CASE k = Buffered
    BY <1>1, <1>4, <2>1 DEF Served, Contents
  <2>2. CASE k # Buffered
    <3>1. k \in 0..(Buffered - 1)
      BY <1>6, <2>2
    <3> QED
      BY <3>1 DEF Served, Contents
  <2> QED
    BY <2>1, <2>2
<1>11. Answers'
  BY <1>1, <1>2, <1>3, <1>4, <1>5 DEF Served, Answers
<1> QED
  BY <1>7, <1>8, <1>9, <1>10, <1>11 DEF Served

-----------------------------------------------------------------------------
(* The core thread.                                                        *)

(* A skip, a hit, a miss: the request is carried on.                       *)
LEMMA CompareFrontServed == ASSUME IndInv, Served, CompareFront PROVE Served'
<1> DEFINE next == (front + 1) % Cap
<1>0. cpu \in CpuKinds /\ front \in 0..(Cap - 1) /\ count \in 0..Cap /\ next = At(front, 1)
      /\ next \in 0..(Cap - 1) /\ Cap \in Nat
  <2>1. front \in 0..(Cap - 1) /\ 1 \in Nat
    BY DEF Served, Types
  <2> QED
    BY <2>1, AtIn, SizeAssumption DEF Served, Types, CpuKinds, At
<1> HIDE DEF next
<1>1. /\ cpu.pc = "compare" /\ cpu' \in CpuKinds /\ cpu'.lba = cpu.lba
      /\ \/ cpu'.pc = "idle" /\ slots[front].lba = cpu.lba
         \/ cpu'.pc = "advance" /\ cpu'.n = next /\ cpu.n > 1 /\ slots[next].lba = cpu.lba
         \/ cpu'.pc = "request"
  <2>1. CASE slots[front].lba = cpu.lba
    BY <1>0, <2>1 DEF CompareFront, CpuKinds, CpuPCs
  <2>2. CASE slots[front].lba # cpu.lba /\ cpu.n > 1 /\ slots[next].lba = cpu.lba
    <3>1. next \in 0..Cap
      BY <1>0
    <3>2. cpu' = [cpu EXCEPT !.pc = "advance", !.n = next]
      BY <2>2 DEF CompareFront, next
    <3>3. cpu.pc = "compare"
      BY DEF CompareFront
    <3> QED
      BY <1>0, <2>2, <3>1, <3>2, <3>3 DEF CpuKinds, CpuPCs
  <2>3. CASE slots[front].lba # cpu.lba /\ ~(cpu.n > 1 /\ slots[next].lba = cpu.lba)
    BY <1>0, <2>3 DEF CompareFront, CpuKinds, CpuPCs, next
  <2> QED
    BY <2>1, <2>2, <2>3
<1>2. UNCHANGED <<media, position, nextPosition, nextPositionSet, seekError, slots, front, back,
                  count, threaded, worker, asked, reply>>
  BY DEF CompareFront, disc, request, flags, ring, history
<1>3. /\ Hitting /\ 1 <= cpu.n /\ cpu.n <= count /\ Pending /\ ~Seeking /\ threaded
      /\ ~nextPositionSet
  BY <1>1 DEF Hitting, Served, Course, Ring
<1>4. /\ Reading' <=> Reading
      /\ Seeking' <=> Seeking
      /\ ~Leaving' /\ Pending' /\ Buffered' = Buffered /\ Buffered = count
  BY <1>1, <1>2, <1>3 DEF Reading, Seeking, Leaving, Pending, Buffered
<1>5. Types'
  BY <1>1, <1>2 DEF Served, Types, CpuKinds
<1>6. Ring'
  <2>1. cpu'.pc = "advance" => cpu'.n = At(front, 1) /\ count > 1
    BY <1>0, <1>1, <1>3, SizeAssumption DEF CpuKinds
  <2> QED
    BY <1>1, <1>2, <1>3, <1>4, <2>1 DEF Served, Ring
<1>7. Course'
  BY <1>1, <1>2, <1>3, <1>4 DEF Served, Course
<1>8. Contents'
  BY <1>1, <1>2, <1>4 DEF Served, Contents
<1>9. Answers'
  BY <1>0, <1>1, <1>2, <1>3, <1>4 DEF Served, Answers, Settled, Pending, CpuKinds
<1> QED
  BY <1>5, <1>6, <1>7, <1>8, <1>9 DEF Served

(* A hit gives the front buffer up, first by where the front is,           *)
LEMMA AdvanceFrontServed == ASSUME IndInv, Served, AdvanceFront PROVE Served'
<1>0. cpu \in CpuKinds /\ front \in 0..(Cap - 1) /\ count \in 0..Cap /\ Cap \in Nat
  BY SizeAssumption DEF Served, Types, CpuKinds
<1>1. /\ cpu.pc = "advance" /\ cpu' \in CpuKinds /\ cpu'.lba = cpu.lba /\ cpu'.pc = "consume"
      /\ front' = cpu.n /\ cpu.n = At(front, 1) /\ count > 1
  BY <1>0 DEF AdvanceFront, CpuGoes, CpuKinds, CpuPCs, Served, Ring
<1>2. UNCHANGED <<media, position, nextPosition, nextPositionSet, seekError, slots, back,
                  count, threaded, worker, asked, reply>>
  BY DEF AdvanceFront, disc, request, flags, history
<1>3. /\ Hitting /\ Hitting' /\ Pending /\ ~Seeking /\ threaded /\ ~nextPositionSet
  BY <1>1 DEF Hitting, Served, Course
<1>4. /\ Reading' <=> Reading
      /\ Seeking' <=> Seeking
      /\ ~Leaving' /\ Pending' /\ Buffered' = count - 1 /\ Buffered = count
  BY <1>1, <1>2, <1>3 DEF Reading, Seeking, Leaving, Pending, Buffered
<1>5. front' \in 0..(Cap - 1) /\ \A k \in Nat : At(front', k) = At(front, k + 1)
  <2>1. 1 \in Nat
    OBVIOUS
  <2> QED
    BY <1>0, <1>1, <2>1, AtIn, AtNext
<1>6. Types'
  BY <1>1, <1>2, <1>5 DEF Served, Types, CpuKinds
<1>7. Ring'
  <2>1. count - 1 \in Nat /\ (count - 1) + 1 = count /\ count \in Nat
    BY <1>0, <1>1
  <2>2. At(front', count - 1) = At(front, count) /\ At(front', count) = At(front, count + 1)
    <3>1. At(front', count - 1) = At(front, (count - 1) + 1)
      BY <1>5, <2>1
    <3>2. At(front', count) = At(front, count + 1)
      BY <1>5, <2>1
    <3> QED
      BY <2>1, <3>1, <3>2
  <2>3. count' = count
    BY <1>2
  <2>4. Reading' => count' < Cap /\ worker'.slot = At(front', Buffered')
    BY <1>2, <1>4, <2>2 DEF Served, Ring
  <2>5. threaded' => back' = At(front', Buffered' + IF Reading' THEN 1 ELSE 0)
    <3>1. CASE Reading
      BY <1>2, <1>4, <2>1, <2>2, <3>1 DEF Served, Ring
    <3>2. CASE ~Reading
      BY <1>2, <1>4, <2>1, <2>2, <3>2 DEF Served, Ring
    <3> QED
      BY <3>1, <3>2
  <2> QED
    BY <1>1, <1>2, <1>3, <2>3, <2>4, <2>5 DEF Ring
<1>8. Course'
  BY <1>1, <1>2, <1>3, <1>4 DEF Served, Course
<1>9. Contents'
  <2> SUFFICES ASSUME NEW k \in 0..(count - 2) PROVE Belongs(media, slots[At(front', k)])
    <3>1. Buffered' - 1 = count - 2
      BY <1>0, <1>4
    <3> QED
      BY <1>1, <1>2, <1>4, <3>1 DEF Served, Contents
  <2>1. k \in Nat /\ k + 1 \in 0..(Buffered - 1)
    BY <1>0, <1>4
  <2>2. Belongs(media, slots[At(front, k + 1)])
    BY <1>1, <2>1 DEF Served, Contents
  <2> QED
    BY <1>5, <2>1, <2>2
<1>10. Answers'
  BY <1>0, <1>1, <1>2, <1>3, <1>4 DEF Served, Answers, Settled, Pending
<1> QED
  BY <1>6, <1>7, <1>8, <1>9, <1>10 DEF Served

(* then by how many there are.                                             *)
LEMMA ConsumeFrontServed == ASSUME IndInv, Served, ConsumeFront PROVE Served'
<1>0. cpu \in CpuKinds /\ count \in 0..Cap /\ Cap \in Nat /\ CountMod \in Nat /\ Cap < CountMod
  BY SizeAssumption DEF Served, Types, CpuKinds
<1>1. /\ cpu.pc = "consume" /\ cpu' \in CpuKinds /\ cpu'.lba = cpu.lba /\ cpu'.pc = "refill"
      /\ count > 1
  BY <1>0 DEF ConsumeFront, CpuGoes, CpuKinds, CpuPCs, Served, Ring
<1>2. UNCHANGED <<media, position, nextPosition, nextPositionSet, seekError, slots, back,
                  front, threaded, worker, asked, reply>>
  BY DEF ConsumeFront, disc, request, flags, history
<1>3. /\ Hitting /\ Hitting' /\ Pending /\ ~Seeking /\ threaded /\ ~nextPositionSet
  BY <1>1 DEF Hitting, Served, Course
<1>4. count' = count - 1
  <2>1. count - 1 = 0 * CountMod + (count - 1) /\ count - 1 \in 0..(CountMod - 1)
        /\ CountMod \in Nat \ {0}
    BY <1>0, <1>1
  <2> QED
    BY <2>1, QuotientUnique DEF ConsumeFront
<1>5. /\ Reading' <=> Reading
      /\ Seeking' <=> Seeking
      /\ ~Leaving' /\ Pending' /\ Buffered' = Buffered
  BY <1>1, <1>2, <1>3, <1>4 DEF Reading, Seeking, Leaving, Pending, Buffered
<1>6. Types'
  BY <1>0, <1>1, <1>2, <1>4 DEF Served, Types, CpuKinds
<1>7. Ring'
  BY <1>0, <1>1, <1>2, <1>3, <1>4, <1>5 DEF Served, Ring
<1>8. Course'
  BY <1>1, <1>2, <1>3, <1>5 DEF Served, Course
<1>9. Contents'
  BY <1>1, <1>2, <1>5 DEF Served, Contents
<1>10. Answers'
  <2>1. count > 0 /\ count' > 0 /\ count # 0 /\ count' # 0
    BY <1>0, <1>1, <1>4
  <2> QED
    BY <1>1, <1>2, <1>3, <1>5, <2>1 DEF Served, Answers, Settled, Pending
<1> QED
  BY <1>6, <1>7, <1>8, <1>9, <1>10 DEF Served

(* A miss leaves the request, and the worker is told.                      *)
LEMMA RequestSeekServed == ASSUME IndInv, Served, RequestSeek PROVE Served'
<1>0. cpu \in CpuKinds /\ worker \in WorkerKinds
  BY DEF Served, Types, CpuKinds, WorkerKinds
<1>1. /\ cpu.pc = "request" /\ cpu' \in CpuKinds /\ cpu'.pc = "idle"
      /\ nextPositionSet' = TRUE /\ nextPosition' = cpu.lba
  BY <1>0 DEF RequestSeek, CpuGoes, CpuKinds, CpuPCs
<1>2. UNCHANGED <<media, position, seekError, slots, back, front, count, threaded, asked, reply>>
  BY DEF RequestSeek, disc, flags, ring, history
<1>3. worker' \in WorkerKinds
      /\ (worker' = worker \/ (worker.pc = "sleep" /\ worker'.pc = "wake"))
  BY <1>0 DEF RequestSeek, SignalWorker, WorkerKinds, WorkerPCs
<1>4. /\ ~Hitting' /\ Pending /\ ~Seeking /\ threaded /\ ~nextPositionSet
  BY <1>1 DEF Hitting, Served, Course
<1>5. /\ Reading' <=> Reading
      /\ Seeking' <=> Seeking
      /\ ~Leaving' /\ Pending' /\ Buffered' = Buffered /\ ~Settled'
      /\ (worker'.pc = "readDone" => worker' = worker)
      /\ (worker'.pc = "read" => worker' = worker)
      /\ (Reading => worker' = worker)
  BY <1>1, <1>2, <1>3, <1>4 DEF Reading, Seeking, Leaving, Pending, Buffered, Settled
<1>6. Types'
  BY <1>0, <1>1, <1>2, <1>3 DEF Served, Types, CpuKinds, WorkerKinds
<1>7. Ring'
  BY <1>1, <1>2, <1>4, <1>5 DEF Served, Ring
<1>8. Course'
  BY <1>1, <1>2, <1>4, <1>5 DEF Served, Course, Seeking
<1>9. Contents'
  BY <1>1, <1>2, <1>5 DEF Served, Contents
<1>10. Answers'
  BY <1>1, <1>2, <1>4, <1>5 DEF Served, Answers, Pending, Seeking
<1> QED
  BY <1>6, <1>7, <1>8, <1>9, <1>10 DEF Served

(* A wait returns the front buffer's result,                               *)
LEMMA PeekCountServed == ASSUME IndInv, Served, PeekCount PROVE Served'
<1>0. cpu \in CpuKinds /\ count \in 0..Cap /\ Cap \in Nat
  BY SizeAssumption DEF Served, Types, CpuKinds
<1>1. /\ cpu.pc = "peek" /\ cpu' \in CpuKinds
      /\ \/ cpu'.pc = "idle" /\ count > 0 /\ reply' = IF slots[front].ok THEN "ok" ELSE "failed"
         \/ cpu'.pc = "await" /\ count = 0 /\ reply' = reply
  <2>1. CASE count > 0
    BY <1>0, <2>1 DEF PeekCount, Return, CpuGoes, CpuKinds, CpuPCs
  <2>2. CASE ~(count > 0)
    BY <1>0, <2>2 DEF PeekCount, CpuGoes, CpuKinds, CpuPCs
  <2> QED
    BY <2>1, <2>2
<1>2. UNCHANGED <<media, position, nextPosition, nextPositionSet, seekError, slots, back, front,
                  count, threaded, worker, asked>>
  BY DEF PeekCount, disc, request, flags, ring
<1>3. ~Hitting' /\ ~Leaving /\ ~Leaving' /\ asked # None /\ (count > 0 => ~Seeking)
  BY <1>0, <1>1 DEF Hitting, Leaving, Served, Course
<1>4. /\ Reading' <=> Reading
      /\ Seeking' <=> Seeking
      /\ Buffered' = Buffered
      /\ Settled' <=> Settled
      /\ count > 0 \/ (Pending' <=> Pending)
  BY <1>1, <1>2, <1>3 DEF Reading, Seeking, Leaving, Pending, Buffered, Settled
<1>5. Types'
  BY <1>0, <1>1, <1>2 DEF Served, Types, CpuKinds
<1>6. Ring'
  BY <1>1, <1>2, <1>4 DEF Served, Ring
<1>7. Course'
  BY <1>1, <1>2, <1>3, <1>4 DEF Served, Course
<1>8. Contents'
  BY <1>1, <1>2, <1>4 DEF Served, Contents
<1>9. Answers'
  BY <1>0, <1>1, <1>2, <1>3, <1>4 DEF Served, Answers, Unanswered
<1> QED
  BY <1>5, <1>6, <1>7, <1>8, <1>9 DEF Served

(* or an error of the seek.                                                *)
LEMMA AwaitServed == ASSUME IndInv, Served, Await PROVE Served'
<1>0. cpu \in CpuKinds /\ count \in 0..Cap /\ Cap \in Nat
  BY SizeAssumption DEF Served, Types, CpuKinds
<1>1. CASE ~((count > 0 \/ seekError) /\ ~nextPositionSet)
  BY <1>1, Aside DEF Await, disc, request, ring
<1>2. CASE (count > 0 \/ seekError) /\ ~nextPositionSet
  <2>1. /\ cpu.pc = "await" /\ cpu' \in CpuKinds /\ cpu'.pc = "idle" /\ seekError' = FALSE
        /\ reply' = IF ~seekError /\ slots[front].ok THEN "ok" ELSE "failed"
    BY <1>0, <1>2 DEF Await, Return, CpuGoes, CpuKinds, CpuPCs
  <2>2. UNCHANGED <<media, position, nextPosition, nextPositionSet, slots, back, front,
                    count, threaded, worker, asked>>
    BY DEF Await, disc, request, ring
  <2>3. ~Hitting' /\ ~Leaving /\ ~Leaving' /\ asked # None /\ ~Seeking /\ Settled
    BY <1>0, <1>2, <2>1 DEF Hitting, Leaving, Served, Course, Seeking, Settled
  <2>4. /\ Reading' <=> Reading
        /\ ~Seeking' /\ Buffered' = Buffered
        /\ Settled'
    BY <2>1, <2>2, <2>3 DEF Reading, Seeking, Buffered, Settled
  <2>5. Types'
    BY <1>0, <2>1, <2>2 DEF Served, Types, CpuKinds
  <2>6. Ring'
    BY <2>1, <2>2, <2>4 DEF Served, Ring
  <2>7. Course'
    BY <2>1, <2>2, <2>3, <2>4 DEF Served, Course, Seeking
  <2>8. Contents'
    BY <2>1, <2>2, <2>4 DEF Served, Contents
  <2>9. Answers'
    BY <1>0, <1>2, <2>1, <2>2, <2>3, <2>4 DEF Served, Answers, Unanswered, Seeking
  <2> QED
    BY <2>5, <2>6, <2>7, <2>8, <2>9 DEF Served
<1> QED
  BY <1>1, <1>2

(* With the mutex and no read under way, the worker is nowhere that the    *)
(* position matters to it.                                                 *)
LEMMA UncachedServed == ASSUME IndInv, Served, Uncached PROVE Served'
<1>0. cpu \in CpuKinds /\ cpu.pc = "uncached"
  BY DEF Served, Types, CpuKinds, Uncached
<1>1. cpu' \in CpuKinds /\ cpu'.pc = "idle"
  BY <1>0 DEF Uncached, CpuGoes, CpuKinds, CpuPCs
<1>2. UNCHANGED <<media, nextPosition, nextPositionSet, seekError, slots, back, front,
                  count, threaded, worker, asked, reply>>
  BY DEF Uncached, request, ring, history
<1>3. worker.pc \notin {"fill", "seek", "seeked", "read", "readDone"}
  BY <1>0, NoneDistinct DEF IndInv, Locks, WorkerHolds, WorkerReads
<1>4. position' \in LBA
  <2>1. position \in LBA /\ cpu.lba \in LBA
    BY <1>0 DEF Served, Types, CpuKinds
  <2>2. Readable(cpu.lba) => cpu.lba + 1 \in LBA
    BY <2>1, SizeAssumption DEF Readable, LBA
  <2> QED
    BY <2>1, <2>2 DEF Uncached
<1>5. /\ Reading' <=> Reading
      /\ Seeking' <=> Seeking
      /\ ~Hitting' /\ ~Hitting /\ ~Leaving' /\ ~Leaving /\ Buffered' = Buffered
      /\ Settled' <=> Settled
      /\ Pending' <=> Pending
  BY <1>0, <1>1, <1>2 DEF Reading, Seeking, Hitting, Leaving, Buffered, Settled, Pending
<1>6. Types'
  BY <1>1, <1>2, <1>4 DEF Served, Types, CpuKinds
<1>7. Ring'
  BY <1>1, <1>2, <1>5 DEF Served, Ring
<1>8. Course'
  BY <1>1, <1>2, <1>5 DEF Served, Course
<1>9. Contents'
  BY <1>0, <1>1, <1>2, <1>3, <1>5 DEF Served, Contents
<1>10. Answers'
  BY <1>0, <1>1, <1>2, <1>3, <1>5 DEF Served, Answers, Settled
<1> QED
  BY <1>6, <1>7, <1>8, <1>9, <1>10 DEF Served

(* A change of discs empties the buffers of a reader at rest               *)
LEMMA CancelReadaheadServed == ASSUME IndInv, Served, CancelReadahead PROVE Served'
<1>0. cpu \in CpuKinds /\ cpu.pc = "cancel"
  BY DEF Served, Types, CpuKinds, CancelReadahead
<1>1. CASE isReading
  BY <1>1, Aside DEF CancelReadahead, disc, request, ring, history
<1>2. CASE ~isReading
  <2>1. /\ cpu' \in CpuKinds /\ cpu'.pc = "swap" /\ front' = 0 /\ back' = 0 /\ count' = 0
    BY <1>0, <1>2 DEF CancelReadahead, CpuGoes, EmptyBuffers, CpuKinds, CpuPCs
  <2>2. UNCHANGED <<media, position, nextPosition, nextPositionSet, seekError, slots, threaded,
                    worker, asked, reply>>
    BY <1>2 DEF CancelReadahead, EmptyBuffers, disc, request, history
  <2>3. /\ ~Reading /\ ~Reading' /\ ~Hitting' /\ ~Leaving' /\ ~Leaving /\ asked = None
        /\ Seeking' <=> Seeking
        /\ Pending' <=> Pending
        /\ Buffered' = 0
    BY <1>0, <1>2, <2>1, <2>2
       DEF Reading, Hitting, Leaving, Seeking, Pending, Buffered, IndInv, Locks, WorkerReads,
           Served, Course
  <2>4. Types'
    BY <2>1, <2>2, SizeAssumption DEF Served, Types, CpuKinds
  <2>5. Ring'
    BY <2>1, <2>2, <2>3, AtZero, SizeAssumption DEF Ring
  <2>6. Course'
    BY <2>1, <2>2, <2>3 DEF Served, Course
  <2>7. Contents'
    BY <2>1, <2>3 DEF Contents, Reading
  <2>8. Answers'
    BY <2>2, <2>3 DEF Answers
  <2> QED
    BY <2>4, <2>5, <2>6, <2>7, <2>8 DEF Served
<1> QED
  BY <1>1, <1>2

(* that does not read when the disc goes.                                  *)
LEMMA SwapMediaServed == ASSUME IndInv, Served, SwapMedia PROVE Served'
<1>0. cpu \in CpuKinds /\ cpu.pc = "swap" /\ worker \in WorkerKinds
  BY DEF Served, Types, CpuKinds, WorkerKinds, SwapMedia
<1>1. cpu' \in CpuKinds /\ cpu'.pc = "idle" /\ position' = 0
  BY <1>0 DEF SwapMedia, CpuGoes, CpuKinds, CpuPCs
<1>2. UNCHANGED <<nextPosition, nextPositionSet, slots, threaded, worker, asked, reply>>
  BY DEF SwapMedia, EmptyBuffers, request, ring
<1>3. \/ /\ front' = 0 /\ back' = 0 /\ count' = 0 /\ seekError' = FALSE
         /\ media' \in Disc
      \/ front' = front /\ back' = back /\ count' = count /\ seekError' = seekError /\ media' = None
  BY DEF SwapMedia, EmptyBuffers, ring
<1>4. ~Reading /\ ~Seeking /\ asked = None
  <2>1. WorkerRests
    BY <1>0 DEF IndInv, Stopped, Quiet, Locks, WorkerRests
  <2> QED
    BY <1>0, <2>1 DEF WorkerRests, Reading, Seeking, Served, Course
<1>5. ~Reading' /\ ~Seeking' /\ ~Hitting' /\ ~Leaving' /\ ~Leaving /\ Buffered' = count'
      /\ Buffered = count
  BY <1>0, <1>1, <1>2, <1>4 DEF Reading, Hitting, Leaving, Seeking, Buffered
<1>6. Types'
  BY <1>1, <1>2, <1>3, SizeAssumption DEF Served, Types, CpuKinds, LBA
<1>7. Ring'
  <2>1. At(0, 0) = 0
    BY AtZero, SizeAssumption
  <2>2. 0 + 0 = 0
    OBVIOUS
  <2>3. threaded' => back' = At(front', Buffered' + 0)
    BY <1>2, <1>3, <1>4, <1>5, <2>1, <2>2 DEF Served, Ring
  <2>4. ~threaded' => count' <= 1 /\ front' = 0
    BY <1>2, <1>3 DEF Served, Ring
  <2> QED
    BY <1>1, <1>5, <2>3, <2>4 DEF Ring
<1>8. Course'
  BY <1>1, <1>2, <1>4, <1>5 DEF Served, Course, Seeking
<1>9. Contents'
  <2>1. worker'.pc \notin {"read", "readDone"}
    BY <1>5 DEF Reading
  <2>2. \A k \in 0..(Buffered' - 1) : Belongs(media', slots'[At(front', k)])
    BY <1>3, <1>5 DEF Belongs
  <2> QED
    BY <2>1, <2>2 DEF Contents
<1>10. Answers'
  BY <1>2, <1>4 DEF Answers
<1> QED
  BY <1>6, <1>7, <1>8, <1>9, <1>10 DEF Served

(* Nothing is read any more when the thread has gone.                      *)
LEMMA JoinThreadServed == ASSUME IndInv, Served, JoinThread PROVE Served'
<1>0. cpu \in CpuKinds /\ cpu.pc = "join"
  BY DEF Served, Types, CpuKinds, JoinThread
<1>1. cpu' \in CpuKinds /\ cpu'.pc = "boot"
  BY <1>0 DEF JoinThread, CpuGoes, CpuKinds, CpuPCs
<1>2. UNCHANGED <<media, position, nextPosition, nextPositionSet, seekError, slots, worker, asked,
                  reply>>
  BY DEF JoinThread, EmptyBuffers, disc, request, flags, history
<1>3. /\ worker.pc = "exited" /\ threaded' = FALSE /\ front' = 0 /\ back' = 0 /\ count' = 0
      /\ asked = None
  BY <1>0 DEF JoinThread, EmptyBuffers, Served, Course, Leaving
<1>4. ~Reading' /\ ~Seeking' /\ ~Hitting' /\ Leaving' /\ Buffered' = 0
  BY <1>1, <1>2, <1>3 DEF Reading, Hitting, Leaving, Seeking, Buffered
<1>5. Types'
  BY <1>1, <1>2, <1>3, SizeAssumption DEF Served, Types, CpuKinds
<1>6. Ring'
  BY <1>1, <1>3, <1>4, AtZero, SizeAssumption DEF Ring
<1>7. Course'
  BY <1>1, <1>2, <1>3, <1>4 DEF Served, Course, Seeking
<1>8. Contents'
  BY <1>4 DEF Contents, Reading
<1>9. Answers'
  BY <1>2, <1>3 DEF Answers
<1> QED
  BY <1>5, <1>6, <1>7, <1>8, <1>9 DEF Served

(* The disc is changed when every wait has returned.                       *)
LEMMA ChangeMediaServed ==
  ASSUME IndInv, Served, "eject" \notin Calls, ChangeMedia PROVE Served'
<1>1. cpu.pc = "idle" /\ cpu' \in CpuKinds /\ cpu'.pc \in {"cancel", "swap"}
      /\ asked' = None /\ reply' = Unanswered /\ ~Pending
  BY SizeAssumption DEF ChangeMedia, MayChange, CpuKinds, CpuPCs, LBA
<1>2. UNCHANGED <<media, position, nextPosition, nextPositionSet, seekError, slots, back, front,
                  count, threaded, worker>>
  BY DEF ChangeMedia, disc, request, flags, ring
<1>3. ~Seeking /\ ~Leaving /\ ~Leaving' /\ ~Hitting' /\ Buffered' = Buffered
  BY <1>1, <1>2 DEF Served, Course, Leaving, Hitting, Buffered
<1>4. ~Seeking'
      /\ (Reading' <=> Reading)
  BY <1>2, <1>3 DEF Seeking, Reading
<1>5. Types'
  BY <1>1, <1>2 DEF Served, Types, CpuKinds
<1>6. Ring'
  BY <1>1, <1>2, <1>3, <1>4 DEF Served, Ring
<1>7. Course'
  BY <1>1, <1>2, <1>3, <1>4 DEF Served, Course, Seeking
<1>8. Contents'
  BY <1>1, <1>2, <1>3 DEF Served, Contents
<1>9. Answers'
  BY <1>1 DEF Answers
<1> QED
  BY <1>5, <1>6, <1>7, <1>8, <1>9 DEF Served

(* The machine goes, whatever is queued.                                   *)
LEMMA ShutdownServed == ASSUME IndInv, Served, Shutdown PROVE Served'
<1>0. cpu \in CpuKinds
  BY DEF Served, Types, CpuKinds
<1>1. cpu.pc = "idle" /\ cpu' \in CpuKinds /\ cpu'.pc \in {"stop", "boot"}
      /\ asked' = None /\ reply' = Unanswered
  BY <1>0 DEF Shutdown, CpuGoes, CpuKinds, CpuPCs
<1>2. UNCHANGED <<media, position, nextPosition, nextPositionSet, seekError, slots, back, front,
                  count, threaded, worker>>
  BY DEF Shutdown, disc, request, flags, ring
<1>3. /\ ~Leaving /\ Leaving' /\ ~Hitting' /\ Buffered' = Buffered
      /\ Seeking' <=> Seeking
      /\ Reading' <=> Reading
  BY <1>1, <1>2 DEF Leaving, Hitting, Buffered, Seeking, Reading
<1>4. Types'
  BY <1>1, <1>2 DEF Served, Types, CpuKinds
<1>5. Ring'
  BY <1>1, <1>2, <1>3 DEF Served, Ring
<1>6. Course'
  BY <1>1, <1>2, <1>3 DEF Served, Course
<1>7. Contents'
  BY <1>1, <1>2, <1>3 DEF Served, Contents
<1>8. Answers'
  BY <1>1 DEF Answers
<1> QED
  BY <1>4, <1>5, <1>6, <1>7, <1>8 DEF Served

(* Without the thread a read is done at once, into the one buffer.         *)
LEMMA ReadNonThreadedServed ==
  ASSUME IndInv, Served, "requeue" \notin Calls, NEW l \in LBA, ~threaded, cpu.pc = "idle",
         media # None, MayQueue, QueueReadSector(l)
  PROVE  Served'
<1> DEFINE ok == CanSeek(l)
           got == ok /\ Readable(l)
           read == [lba |-> l, ok |-> got,
                    data |-> IF got THEN <<media, l>> ELSE slots[0].data]
<1>1. /\ front' = 0 /\ back' = 0 /\ count' = (IF ok THEN 1 ELSE 0) /\ seekError' = ~ok
      /\ position' = IF got THEN l + 1 ELSE IF ok THEN l ELSE position
      /\ slots' = IF ok THEN [slots EXCEPT ![0] = read] ELSE slots
      /\ cpu' = [cpu EXCEPT !.pc = "idle"] /\ asked' = l /\ reply' = Unanswered
  BY DEF QueueReadSector, ReadNonThreaded, CpuGoes
<1>2. UNCHANGED <<media, nextPosition, nextPositionSet, threaded, worker>>
  BY DEF QueueReadSector, request
<1>3. cpu' = cpu
  BY <1>1 DEF Served, Types
<1>4. /\ cpu \in CpuKinds /\ position \in LBA /\ media \in Disc /\ 0 \in 0..(Cap - 1)
      /\ slots \in [0..(Cap - 1) -> Slot] /\ ok \in BOOLEAN /\ got \in BOOLEAN /\ Length \in Nat
      /\ l \in 0..Length
  BY SizeAssumption DEF Served, Types, CpuKinds, CanSeek, Readable, LBA
<1>5. read \in Slot /\ read.lba = l /\ read.ok = got /\ (got => read.data = <<media, l>>)
  <2>1. slots[0].data \in {NoData} \cup (Disc \X LBA)
    BY <1>4 DEF Slot
  <2>2. (IF got THEN <<media, l>> ELSE slots[0].data) \in {NoData} \cup (Disc \X LBA)
    BY <1>4, <2>1
  <2> QED
    BY <1>4, <2>2 DEF Slot
<1>6. position' \in LBA
  BY <1>1, <1>4 DEF Readable, LBA
<1>7. asked' # None
  <2>1. l \in Int
    BY <1>4
  <2> QED
    BY <1>1, <2>1, NoneAssumption
<1>8. (l < Length => ok) /\ (got <=> ok /\ Readable(l)) /\ (Readable(l) => l < Length)
  BY <1>4 DEF CanSeek, Readable
<1> HIDE DEF ok, got, read
<1>9. slots' \in [0..(Cap - 1) -> Slot] /\ (ok => slots'[0] = read)
  BY <1>1, <1>4, <1>5
<1>10. ~Reading /\ ~Seeking /\ ~Leaving /\ worker.pc = "exited" /\ ~nextPositionSet
  BY DEF IndInv, Locks, Reading, Seeking, Leaving, Served, Course
<1>11. /\ ~Reading' /\ ~Seeking' /\ ~Leaving' /\ ~Hitting' /\ Pending' /\ Buffered' = count'
       /\ cpu'.pc = "idle"
  BY <1>1, <1>2, <1>3, <1>7, <1>10 DEF Reading, Seeking, Leaving, Hitting, Pending, Buffered
<1>12. Types'
  BY <1>1, <1>2, <1>3, <1>4, <1>6, <1>9, SizeAssumption DEF Served, Types, LBA
<1>13. Ring'
  BY <1>1, <1>2, <1>11 DEF Ring
<1>14. Course'
  BY <1>2, <1>7, <1>10, <1>11 DEF Course
<1>15. Contents'
  <2> SUFFICES ASSUME NEW k \in 0..(count' - 1) PROVE Belongs(media, slots'[At(0, k)])
    BY <1>1, <1>2, <1>10, <1>11 DEF Contents
  <2>1. ok /\ k = 0
    BY <1>1
  <2>2. At(0, 0) = 0
    BY AtZero, SizeAssumption
  <2> QED
    BY <1>5, <1>8, <1>9, <2>1, <2>2 DEF Belongs
<1>16. Answers'
  BY <1>1, <1>2, <1>5, <1>8, <1>9, <1>10, <1>11 DEF Answers, Settled
<1> QED
  BY <1>12, <1>13, <1>14, <1>15, <1>16 DEF Served

(* With it the read is queued when the one before has been answered.       *)
LEMMA QueueServed == ASSUME IndInv, Served, "requeue" \notin Calls, Queue PROVE Served'
<1>0. PICK l \in LBA : QueueReadSector(l)
  BY DEF Queue
<1>1. cpu.pc = "idle" /\ media # None /\ MayQueue /\ ~Pending
  BY DEF Queue, MayQueue
<1>2. CASE ~threaded
  BY <1>0, <1>1, <1>2, ReadNonThreadedServed
<1>3. CASE threaded
  <2>1. /\ cpu' = [pc |-> IF count > 0 THEN "compare" ELSE "request", lba |-> l, n |-> count]
        /\ asked' = l /\ reply' = Unanswered
        /\ UNCHANGED <<media, position, nextPosition, nextPositionSet, seekError, slots, back,
                       front, count, threaded, worker>>
    BY <1>0, <1>3 DEF QueueReadSector, ring, flags, request
  <2>2. l \in Int /\ l # None /\ count \in 0..Cap
    BY NoneAssumption, SizeAssumption DEF LBA, Served, Types
  <2>3. /\ cpu' \in CpuKinds /\ cpu'.lba = l /\ cpu'.n = count
        /\ cpu'.pc = IF count > 0 THEN "compare" ELSE "request"
    BY <2>1, <2>2 DEF CpuKinds, CpuPCs
  <2>4. ~nextPositionSet /\ ~Seeking /\ ~Leaving
    BY <1>1, <1>3 DEF IndInv, Requests, Served, Course, Leaving
  <2>5. /\ ~Seeking' /\ ~Leaving' /\ Pending' /\ Buffered' = Buffered /\ ~Settled'
        /\ Reading' <=> Reading
    BY <1>1, <2>1, <2>2, <2>3, <2>4
       DEF Reading, Seeking, Leaving, Hitting, Pending, Buffered, Settled
  <2>6. Types'
    BY <2>1, <2>3 DEF Served, Types, CpuKinds
  <2>7. Ring'
    BY <1>3, <2>1, <2>2, <2>3, <2>5, SizeAssumption DEF Served, Ring
  <2>8. Course'
    BY <1>1, <1>3, <2>1, <2>2, <2>3, <2>4, <2>5 DEF Served, Course, Seeking, Hitting
  <2>9. Contents'
    BY <1>1, <2>1, <2>3, <2>5 DEF Served, Contents
  <2>10. Answers'
    BY <2>1, <2>3, <2>4, <2>5 DEF Answers, Seeking
  <2> QED
    BY <2>6, <2>7, <2>8, <2>9, <2>10 DEF Served
<1> QED
  BY <1>2, <1>3

(* A machine that boots, the first or the next.                            *)
LEMMA NewSlotsBelong == NewSlots \in [0..(Cap - 1) -> Slot]
<1>1. EmptySlot \in Slot
  BY SizeAssumption DEF EmptySlot, Slot, LBA
<1> QED
  BY <1>1 DEF NewSlots

(* Nothing is buffered and nothing asked.                                  *)
LEMMA InitServed == Init => Served
<1> SUFFICES ASSUME Init PROVE Served
  OBVIOUS
<1> DEFINE p == IF threaded THEN "start" ELSE "exited"
<1>1. p \in WorkerPCs /\ p \in {"start", "exited"} /\ worker = [NewWorker EXCEPT !.pc = p]
  BY DEF Init, WorkerPCs
<1>2. NewWorker \in WorkerKinds
  BY SizeAssumption DEF NewWorker, WorkerPCs, WorkerKinds, LBA
<1> HIDE DEF p
<1>3. worker \in WorkerKinds /\ worker.pc = p
  BY <1>1, <1>2 DEF WorkerKinds
<1>4. cpu \in CpuKinds /\ cpu.pc = "idle"
  BY SizeAssumption DEF Init, NewCpu, CpuPCs, CpuKinds, LBA
<1>5. /\ media \in Disc \cup {None} /\ position = 0 /\ nextPosition = 0
      /\ nextPositionSet = FALSE /\ seekError = FALSE /\ slots = NewSlots
      /\ front = 0 /\ back = 0 /\ count = 0
      /\ asked = None /\ reply = Unanswered
  BY DEF Init
<1>6. ~Reading /\ ~Seeking /\ ~Hitting /\ Buffered = 0
  BY <1>1, <1>3, <1>4, <1>5 DEF Reading, Seeking, Hitting, Buffered
<1>7. Types
  BY <1>3, <1>4, <1>5, NewSlotsBelong, SizeAssumption DEF Types, WorkerKinds, CpuKinds, LBA
<1>8. Ring
  BY <1>4, <1>5, <1>6, AtZero, SizeAssumption DEF Ring
<1>9. Course
  BY <1>4, <1>5, <1>6 DEF Course, Leaving, Seeking
<1>10. Contents
  BY <1>5, <1>6 DEF Contents, Reading
<1>11. Answers
  BY <1>5 DEF Answers
<1> QED
  BY <1>7, <1>8, <1>9, <1>10, <1>11 DEF Served

(* So for the next machine.                                                *)
LEMMA BootServed == Boot => Served'
<1> SUFFICES ASSUME Boot PROVE Served'
  OBVIOUS
<1>1. PICK p \in {"start", "exited"} : worker' = [NewWorker EXCEPT !.pc = p]
  BY DEF Boot
<1>2. NewWorker \in WorkerKinds
  BY SizeAssumption DEF NewWorker, WorkerPCs, WorkerKinds, LBA
<1>3. worker' \in WorkerKinds /\ worker'.pc = p
  BY <1>1, <1>2 DEF WorkerKinds, WorkerPCs
<1>4. cpu' \in CpuKinds /\ cpu'.pc = "idle"
  BY SizeAssumption DEF Boot, NewCpu, CpuPCs, CpuKinds, LBA
<1>5. /\ media' \in Disc \cup {None} /\ position' = 0 /\ nextPosition' = 0
      /\ nextPositionSet' = FALSE /\ seekError' = FALSE /\ slots' = NewSlots
      /\ front' = 0 /\ back' = 0 /\ count' = 0
      /\ asked' = None /\ reply' = Unanswered
  BY DEF Boot
<1>6. ~Reading' /\ ~Seeking' /\ ~Hitting' /\ Buffered' = 0
  BY <1>1, <1>3, <1>4, <1>5 DEF Reading, Seeking, Hitting, Buffered
<1>7. Types'
  BY <1>3, <1>4, <1>5, NewSlotsBelong, SizeAssumption DEF Types, WorkerKinds, CpuKinds, LBA
<1>8. Ring'
  BY <1>4, <1>5, <1>6, AtZero, SizeAssumption DEF Ring
<1>9. Course'
  BY <1>4, <1>5, <1>6 DEF Course, Leaving, Seeking
<1>10. Contents'
  BY <1>5, <1>6 DEF Contents, Reading
<1>11. Answers'
  BY <1>5 DEF Answers
<1> QED
  BY <1>7, <1>8, <1>9, <1>10, <1>11 DEF Served

-----------------------------------------------------------------------------
(* Every step of either thread keeps the buffers and the answers right, as *)
(* long as a read is waited for before the next is queued and before the   *)
(* disc changes.                                                           *)
LEMMA NextServed ==
  ASSUME "requeue" \notin Calls, "eject" \notin Calls, IndInv, Served, [Next]_vars
  PROVE  Served'
<1>1. CASE WorkerStep
  <2>1. CASE TakeLock
    BY <2>1, TakeLockServed
  <2>2. CASE CheckWork
    BY <2>2, CheckWorkServed
  <2>3. CASE Block
    BY <2>3, BlockServed
  <2>4. CASE TopOfLoop
    BY <2>4, TopOfLoopServed
  <2>5. CASE BeginSeek
    BY <2>5, BeginSeekServed
  <2>6. CASE Seek
    BY <2>6, SeekServed
  <2>7. CASE EndSeek
    BY <2>7, EndSeekServed
  <2>8. CASE FillBuffer
    BY <2>8, FillBufferServed
  <2>9. CASE ReadSector
    BY <2>9, ReadSectorServed
  <2>10. CASE EndRead
    BY <2>10, EndReadServed
  <2>11. CASE EndReadahead
    BY <2>11, EndReadaheadServed
  <2> QED
    BY <1>1, <2>1, <2>2, <2>3, <2>4, <2>5, <2>6, <2>7, <2>8, <2>9, <2>10, <2>11 DEF
       WorkerStep
<1>2. CASE CallStep
  <2>1. CASE CompareFront
    BY <2>1, CompareFrontServed
  <2>2. CASE AdvanceFront
    BY <2>2, AdvanceFrontServed
  <2>3. CASE ConsumeFront
    BY <2>3, ConsumeFrontServed
  <2>4. CASE AllowReadahead
    BY <2>4, AllowReadaheadServed
  <2>5. CASE KickWorker
    BY <2>5, KickWorkerServed
  <2>6. CASE RequestSeek
    BY <2>6, RequestSeekServed
  <2>7. CASE PeekCount
    BY <2>7, PeekCountServed
  <2>8. CASE Await
    BY <2>8, AwaitServed
  <2>9. CASE LockUncached
    BY <2>9, LockUncachedServed
  <2>10. CASE Uncached
    BY <2>10, UncachedServed
  <2>11. CASE CancelReadahead
    BY <2>11, CancelReadaheadServed
  <2>12. CASE SwapMedia
    BY <2>12, SwapMediaServed
  <2>13. CASE WaitForIdle
    BY <2>13, WaitForIdleServed
  <2>14. CASE PrecacheMedia
    BY <2>14, PrecacheMediaServed
  <2>15. CASE StopThread
    BY <2>15, StopThreadServed
  <2>16. CASE JoinThread
    BY <2>16, JoinThreadServed
  <2>17. CASE Boot
    BY <2>17, BootServed
  <2> QED
    BY <1>2, <2>1, <2>2, <2>3, <2>4, <2>5, <2>6, <2>7, <2>8, <2>9, <2>10, <2>11, <2>12,
       <2>13, <2>14, <2>15, <2>16, <2>17 DEF CallStep
<1>3. CASE Call
  <2>1. CASE Queue
    BY <2>1, QueueServed
  <2>2. CASE WaitForRead
    BY <2>2, WaitForReadServed
  <2>3. CASE ReadUncached
    BY <2>3, ReadUncachedServed
  <2>4. CASE ChangeMedia
    BY <2>4, ChangeMediaServed
  <2>5. CASE Precache
    BY <2>5, PrecacheServed
  <2>6. CASE Shutdown
    BY <2>6, ShutdownServed
  <2> QED
    BY <1>3, <2>1, <2>2, <2>3, <2>4, <2>5, <2>6 DEF Call
<1>4. CASE UNCHANGED vars
  <2>1. UNCHANGED <<front, back, count, slots, media, position, threaded, asked, reply,
                    nextPosition, nextPositionSet, seekError, worker, cpu>>
    BY <1>4 DEF vars, disc, request, flags, ring, history
  <2> QED
    BY <2>1, Aside
<1> QED
  BY <1>1, <1>2, <1>3, <1>4 DEF Next

(* What is buffered belongs to the disc that is in.                        *)
LEMMA ServedBelongs == IndInv /\ Served => BuffersBelongToDisc
<1> SUFFICES ASSUME IndInv, Served PROVE BuffersBelongToDisc
  OBVIOUS
<1>1. TypeOK
  BY DEF IndInv, Shapes, Locks, Served, Types, TypeOK
<1>2. BufferedSectorsMatch
  BY DEF Served, Contents, Belongs, At, BufferedSectorsMatch
<1> QED
  BY <1>1, <1>2, Exclusive DEF BuffersBelongToDisc

(* An answer is about the front buffer: nothing is left to seek for, since *)
(* who is answered is not waiting.                                         *)
LEMMA ServedAnswers == IndInv /\ Served => LatestReadAnswered
<1> SUFFICES ASSUME IndInv, Served, reply # Unanswered, asked < Length
             PROVE  /\ reply = "ok" <=> Readable(asked)
                    /\ reply = "ok" => /\ slots[front].lba = asked
                                       /\ slots[front].data = <<media, asked>>
  BY DEF LatestReadAnswered
<1>1. asked # None /\ media # None /\ ~Leaving /\ cpu.pc # "swap" /\ ~Pending
  BY DEF Served, Course, Pending
<1>2. ~Hitting /\ ~Seeking /\ ~nextPositionSet
  BY <1>1 DEF Served, Course, IndInv, Requests, Leaving
<1>3. Settled /\ cpu.pc # "consume"
  BY <1>2 DEF Settled, Hitting
<1>4. count > 0 /\ count # 0 /\ slots[front].lba = asked /\ (reply = "ok" <=> slots[front].ok)
  BY <1>1, <1>3 DEF Served, Answers
<1>5. Belongs(media, slots[front])
  <2>1. 0 \in 0..(Buffered - 1) /\ front \in 0..(Cap - 1)
    BY <1>3, <1>4 DEF Buffered, Served, Types
  <2>2. Belongs(media, slots[At(front, 0)])
    BY <1>1, <2>1 DEF Served, Contents
  <2> QED
    BY <2>1, <2>2, AtZero
<1> QED
  BY <1>1, <1>4, <1>5 DEF Belongs

(* Both invariants, for whoever keeps the two rules; a wait that failed    *)
(* may be repeated.                                                        *)
LEMMA Serving ==
  "requeue" \notin Calls /\ "eject" \notin Calls => (Spec => [](IndInv /\ Served))
<1> SUFFICES ASSUME "requeue" \notin Calls, "eject" \notin Calls
             PROVE  Spec => [](IndInv /\ Served)
  OBVIOUS
<1>1. Init => IndInv /\ Served
  BY InitIndInv, InitServed
<1>2. (IndInv /\ Served) /\ [Next]_vars => (IndInv /\ Served)'
  BY NextStep, NextServed
<1> QED
  BY <1>1, <1>2, PTL DEF Spec

(* The image has one user at a time and every buffer that counts is a      *)
(* sector of the disc that is in, labelled as what it is, for any discs,   *)
(* sizes and rings: no readahead, hit, seek, uncached read or swap mixes   *)
(* positions or discs, if a read is waited for before the next is queued   *)
(* and before the disc changes.                                            *)
THEOREM BuffersBelong ==
  "requeue" \notin Calls /\ "eject" \notin Calls => (Spec => []BuffersBelongToDisc)
<1> SUFFICES ASSUME "requeue" \notin Calls, "eject" \notin Calls
             PROVE  Spec => []BuffersBelongToDisc
  OBVIOUS
<1>1. IndInv /\ Served => BuffersBelongToDisc
  BY ServedBelongs
<1>2. Spec => [](IndInv /\ Served)
  BY Serving
<1> QED
  BY <1>1, <1>2, PTL

(* The same callers are told about the sector they asked for, and find it  *)
(* in front.                                                               *)
THEOREM LatestAnswered ==
  "requeue" \notin Calls /\ "eject" \notin Calls => (Spec => []LatestReadAnswered)
<1> SUFFICES ASSUME "requeue" \notin Calls, "eject" \notin Calls
             PROVE  Spec => []LatestReadAnswered
  OBVIOUS
<1>1. IndInv /\ Served => LatestReadAnswered
  BY ServedAnswers
<1>2. Spec => [](IndInv /\ Served)
  BY Serving
<1> QED
  BY <1>1, <1>2, PTL

=============================================================================
