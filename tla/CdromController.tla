--------------------------- MODULE CdromController ---------------------------
(***************************************************************************)
(* The CD-ROM controller, src/core/cdrom/cdrom.c: commands, their second   *)
(* responses, the drive, and the interrupts they share.                    *)
(*                                                                         *)
(* The controller is one record, cd, and each function of the code is a    *)
(* function of it, so that a handler reads as the calls it makes, the      *)
(* first one innermost.  active is the set of its four timing events that  *)
(* are scheduled; when they are due is left out, so any of them may be     *)
(* next.  What the disc holds, where the head is and what the settings say *)
(* are choices.  Commands of the same shape stand for one another:         *)
(* "simple" is any that only answers, "getid" also stands for the reading  *)
(* of the table of contents.                                               *)
(*                                                                         *)
(* Of the ring of sector buffers there remain the one the program reads    *)
(* (rbuf) and the one written last (wbuf), which may be the same.          *)
(***************************************************************************)
EXTENDS Integers, FiniteSets

CONSTANTS
  Commands,   \* bound: the commands the program writes
  Loads,      \* bound: what loading does to the async interrupt event: the
              \* machine replaced has it as it was ("same"), "on" or "off"
  Swaps       \* bound: whether the disc is changed, BOOLEAN or {FALSE}

Command == {"simple", "setloc", "setmode", "getid", "seek", "readt", "read",
            "play", "pause", "stop", "init", "motoron"}

ASSUME CdromAssumption ==
  /\ Commands \subseteq Command
  /\ Loads \subseteq {"same", "on", "off"}
  /\ Swaps \subseteq BOOLEAN

VARIABLES
  cd,      \* the controller
  hasty    \* ghost: something was done that may lock commands and interrupts
           \* up, see Run

vars == <<cd, hasty>>

None == "none"
DATA_READY == 1
COMPLETE == 2
ACK == 3
DATA_END == 4
ERROR == 5

Drives == {"idle", "shell", "seekLogical", "seekPhysical", "seekImplicit",
           "reading", "playing", "session", "spinup", "speed"}
Events == {"command", "second", "drive", "async"}
Buffer == {"empty", "unread", "part"}

Controller ==
  [command : Command \cup {None},            \* command
   second : {None, "getid", "init", "stat"}, \* command_second_response
   drive : Drives,                           \* drive_state
   active : SUBSET Events,
   flag : 0..5,                              \* interrupt_flag_register
   pending : 0..5,                           \* pending_async_interrupt
   fifo : 0..2,                              \* responses in async_response_fifo
   recent : BOOLEAN,                         \* the last acknowledgement is recent
   media : BOOLEAN, motor : BOOLEAN, seeking : BOOLEAN,
   setloc : BOOLEAN, readAfter : BOOLEAN, playAfter : BOOLEAN,
   rbuf : Buffer, wbuf : Buffer, same : BOOLEAN,
   failed : BOOLEAN]                         \* an Assert has stopped the program

CanRead(s) == s.drive # "shell" /\ s.media
IsSeeking(s) == s.drive \in {"seekLogical", "seekPhysical", "seekImplicit"}
IsReading(s) == s.drive \in {"reading", "playing"}

On(s, e) == [s EXCEPT !.active = @ \cup {e}]
Off(s, e) == [s EXCEPT !.active = @ \ {e}]

-----------------------------------------------------------------------------
(* Interrupts *)

(* cdrom_update_command_event                                              *)
UpdateCommandEvent(s) ==
  IF s.command = None \/ s.flag # 0 \/ s.pending # 0
  THEN Off(s, "command") ELSE On(s, "command")

(* cdrom_clear_async_interrupt                                             *)
ClearAsync(s) == Off([s EXCEPT !.pending = 0, !.fifo = 0], "async")

(* cdrom_deliver_async_interrupt, the callback of the async event, with    *)
(* its Assert.  Data is handed over with its interrupt.                    *)
Deliver(s) ==
  IF s.flag # 0 THEN On(s, "async")
  ELSE IF s.pending = 0 THEN [s EXCEPT !.failed = TRUE]
  ELSE LET handed == IF s.pending = DATA_READY THEN [s EXCEPT !.rbuf = s.wbuf, !.same = TRUE]
                                               ELSE s
       IN UpdateCommandEvent(Off([handed EXCEPT !.flag = s.pending, !.pending = 0, !.fifo = 0],
                                 "async"))

(* cdrom_queue_deliver_async_interrupt                                     *)
QueueDeliver(s) == IF s.recent THEN On(s, "async") ELSE Deliver(s)

(* Mutant: a response that is not delivered stays in the FIFO.             *)
SetAsyncKeepsFifo(s, interrupt) ==
  IF s.flag = interrupt THEN s
  ELSE IF s.pending # 0 THEN [s EXCEPT !.failed = TRUE]
  ELSE LET p == [s EXCEPT !.pending = interrupt] IN
         IF s.flag # 0 \/ s.command # None THEN p ELSE QueueDeliver(p)

(* cdrom_set_async_interrupt, with its Assert.                             *)
SetAsync(s, interrupt) ==
  IF s.flag = interrupt THEN [s EXCEPT !.fifo = 0]
  ELSE IF s.pending # 0 THEN [s EXCEPT !.failed = TRUE]
  ELSE LET p == [s EXCEPT !.pending = interrupt] IN
         IF s.flag # 0 \/ s.command # None THEN p ELSE QueueDeliver(p)

Respond(s) == [s EXCEPT !.fifo = IF @ < 2 THEN @ + 1 ELSE @]
RespondAfresh(s) == [s EXCEPT !.fifo = 1]
SendAsyncError(s) == SetAsync(Respond(s), ERROR)

(* cdrom_send_ack_and_stat and cdrom_send_error_response                   *)
SendAck(s) == [s EXCEPT !.flag = ACK]
SendError(s) == [s EXCEPT !.flag = ERROR]

-----------------------------------------------------------------------------
(* The drive *)

ClearDrive(s) == Off([s EXCEPT !.drive = "idle"], "drive")
SetDrive(s, drive) == On([s EXCEPT !.drive = drive], "drive")
ClearSecond(s) == Off([s EXCEPT !.second = None], "second")

QueueSecond(s, second) == On([s EXCEPT !.second = second], "second")
ClearBuffers(s) == [s EXCEPT !.rbuf = "empty", !.wbuf = "empty", !.same = TRUE]
EndCommand(s) == Off([s EXCEPT !.command = None], "command")

StartMotor(s) == SetDrive(s, "spinup")
StopMotor(s) == ClearDrive([s EXCEPT !.seeking = FALSE, !.motor = FALSE])

(* What a read, play or seek does away with.                               *)
StartAfresh(s) == ClearBuffers(ClearAsync(ClearSecond(s)))

(* cdrom_begin_seeking                                                     *)
BeginSeeking(s, logical, read, play) ==
  SetDrive([StartAfresh(s) EXCEPT !.readAfter = read, !.playAfter = play, !.setloc = FALSE,
                                  !.seeking = TRUE, !.motor = TRUE],
           IF logical THEN "seekLogical" ELSE "seekPhysical")

(* cdrom_begin_reading: a seek that is under way goes on.                  *)
BeginReading(s, afterSeek) ==
  IF ~afterSeek /\ s.setloc THEN BeginSeeking(s, TRUE, TRUE, FALSE)
  ELSE IF IsSeeking(s)
  THEN [s EXCEPT !.drive = IF @ = "seekImplicit" THEN "seekLogical" ELSE @,
                 !.readAfter = TRUE, !.playAfter = FALSE]
  ELSE LET fresh == StartAfresh(s)
       IN SetDrive(IF afterSeek THEN fresh ELSE [fresh EXCEPT !.seeking = TRUE, !.motor = TRUE],
                   "reading")

(* cdrom_begin_playing                                                     *)
BeginPlaying(s, track) ==
  IF track \/ s.setloc THEN BeginSeeking(s, FALSE, FALSE, TRUE)
  ELSE SetDrive(StartAfresh(s), "playing")

(* cdrom_soft_reset: the head is at the start of the disc, or seeks there. *)
SoftReset(s, atStart) ==
  LET cleared == ClearBuffers(ClearAsync(ClearDrive(ClearSecond(s))))
      bits == [cleared EXCEPT !.seeking = FALSE, !.motor = CanRead(cleared), !.setloc = FALSE,
                              !.readAfter = FALSE, !.playAfter = FALSE]
  IN IF ~s.media THEN bits ELSE SetDrive(bits, IF atStart THEN "speed" ELSE "seekImplicit")

-----------------------------------------------------------------------------
(* The callbacks of the command and second response events.                *)

(* Commands that a disc is needed for.                                     *)
WithDisc(s, answered) == EndCommand(IF CanRead(s) THEN answered ELSE SendError(s))

GetId(s) == LET c == ClearSecond(s) IN WithDisc(c, QueueSecond(SendAck(c), "getid"))

(* A change of speed delays the drive, or keeps it busy if it was idle.    *)
SetMode(s, change, early) ==
  LET e == EndCommand(SendAck(s)) IN
    IF ~change \/ s.drive \in {"seekImplicit", "shell"} THEN e
    ELSE IF s.drive = "speed" THEN (IF early THEN ClearDrive(e) ELSE e)
    ELSE IF s.drive = "idle" THEN SetDrive(e, "speed") ELSE e

ReadT(s, valid) ==
  EndCommand(IF CanRead(s) /\ ~IsReading(s) /\ valid
             THEN SetDrive(SendAck(ClearSecond(s)), "session") ELSE SendError(s))

(* here: SetLoc names the sector that is read next.                        *)
Read(s, valid, here) ==
  LET a == SendAck(s)
      goesOn == s.drive = "reading" \/ (IsSeeking(s) /\ s.readAfter)
  IN EndCommand(IF ~CanRead(s) \/ ~valid THEN SendError(s)
                ELSE IF (~s.setloc \/ here) /\ goesOn THEN [a EXCEPT !.setloc = FALSE]
                ELSE BeginReading(a, FALSE))

Play(s, track, here) ==
  LET a == SendAck(s)
      goesOn == s.drive = "playing" \/ (IsSeeking(s) /\ s.playAfter)
  IN EndCommand(IF ~CanRead(s) THEN SendError(s)
                ELSE IF ~track /\ (~s.setloc \/ here) /\ goesOn THEN [a EXCEPT !.setloc = FALSE]
                ELSE BeginPlaying(a, track))

(* Mutant: the rejected command stays.                                     *)
PauseForgetsEnd(s) ==
  LET c == ClearSecond(s)
      moving == s.drive \in {"seekLogical", "seekPhysical"} \/ (IsReading(s) /\ s.seeking)
  IN IF moving THEN SendError(c)
     ELSE EndCommand(QueueSecond([ClearDrive(ClearAsync(SendAck(c))) EXCEPT !.seeking = FALSE],
                                 "stat"))

(* Rejected while the head moves, after the second response of an earlier  *)
(* command is cancelled.                                                   *)
Pause(s) ==
  LET c == ClearSecond(s)
      moving == s.drive \in {"seekLogical", "seekPhysical"} \/ (IsReading(s) /\ s.seeking)
  IN EndCommand(IF moving THEN SendError(c)
                ELSE QueueSecond([ClearDrive(ClearAsync(SendAck(c))) EXCEPT !.seeking = FALSE],
                                 "stat"))

Stop(s) == EndCommand(QueueSecond(StopMotor(SendAck(ClearSecond(ClearAsync(s)))), "stat"))

(* A second Init while the first is under way is dropped without a word.   *)
InitCommand(s, atStart) ==
  EndCommand(IF s.second = "init" THEN s
             ELSE QueueSecond(SoftReset(SendAck(s), atStart), "init"))

(* motor: the answer to MotorOn is already under way.                      *)
MotorOn(s) ==
  EndCommand(IF s.motor \/ ~CanRead(s) THEN SendError(s)
             ELSE QueueSecond(StartMotor([SendAck(s) EXCEPT !.motor = TRUE]), "stat"))

Executed(s, p, q) ==
  CASE s.command = "simple"  -> EndCommand(IF p THEN SendAck(s) ELSE SendError(s))
    [] s.command = "setloc"  -> EndCommand(IF p THEN [SendAck(s) EXCEPT !.setloc = TRUE]
                                                ELSE SendError(s))
    [] s.command = "setmode" -> SetMode(s, p, q)
    [] s.command = "getid"   -> GetId(s)
    [] s.command = "seek"    -> WithDisc(s, BeginSeeking(SendAck(s), p, FALSE, FALSE))
    [] s.command = "readt"   -> ReadT(s, p)
    [] s.command = "read"    -> Read(s, p, q)
    [] s.command = "play"    -> Play(s, p, q)
    [] s.command = "pause"   -> Pause(s)
    [] s.command = "stop"    -> Stop(s)
    [] s.command = "init"    -> InitCommand(s, p)
    [] s.command = "motoron" -> MotorOn(s)

(* cdrom_do_stat_second_response                                           *)
DoStat(s) == IF CanRead(s) THEN SetAsync(RespondAfresh(s), COMPLETE) ELSE SendAsyncError(s)

(* cdrom_do_id_read: an unlicensed disc, or none, is an error.             *)
DoIdRead(s, licensed) ==
  SetAsync(RespondAfresh([s EXCEPT !.seeking = FALSE, !.motor = CanRead(s)]),
           IF CanRead(s) /\ licensed THEN COMPLETE ELSE ERROR)

(* cdrom_execute_command_second_response                                   *)
SecondResponse(s, licensed) ==
  ClearSecond(CASE s.second = "getid" -> DoIdRead(s, licensed)
                [] s.second = "init"  -> DoStat(IF s.command = None THEN s ELSE EndCommand(s))
                [] OTHER              -> DoStat(s))

-----------------------------------------------------------------------------
(* The callback of the drive event.                                        *)

(* cdrom_do_seek_complete                                                  *)
SeekComplete(s, ok) ==
  LET c == ClearDrive(s)
      still == [c EXCEPT !.seeking = FALSE]
      next == IF ~ok THEN SendAsyncError(still)
              ELSE IF c.readAfter THEN BeginReading(c, TRUE)
              ELSE IF c.playAfter THEN BeginPlaying(c, FALSE)
              ELSE SetAsync(Respond(still), COMPLETE)
  IN [next EXCEPT !.setloc = FALSE, !.readAfter = FALSE, !.playAfter = FALSE]

StopReading(s, interrupt) ==
  ClearDrive([SetAsync(Respond(ClearAsync(s)), interrupt) EXCEPT !.seeking = FALSE])

(* cdrom_process_data_sector: the next buffer of the ring, which may be    *)
(* the one that the program still reads.                                   *)
DataSector(s, wraps) ==
  SetAsync(Respond(ClearAsync([s EXCEPT !.wbuf = "unread", !.same = wraps,
                                        !.rbuf = IF wraps THEN "unread" ELSE @])), DATA_READY)

(* cdrom_do_sector_read.  "report": a report of the position of the music; *)
(* "skip": music, or a sector that does not fit the mode.                  *)
SectorRead(s, sector) ==
  LET r == [s EXCEPT !.seeking = FALSE, !.motor = TRUE] IN
    CASE sector = "bad"     -> StopReading(s, ERROR)
      [] sector = "leadout" -> StopMotor(StopReading(r, DATA_END))
      [] sector = "end"     -> StopReading(r, DATA_END)
      [] sector = "data"    -> DataSector(r, FALSE)
      [] sector = "wraps"   -> DataSector(r, TRUE)
      [] sector = "report"  -> SetAsync(Respond(ClearAsync(r)), DATA_READY)
      [] sector = "skip"    -> r

MayBe(s, sector) ==
  CASE sector = "data"   -> s.drive = "reading"
    [] sector = "wraps"  -> s.drive = "reading" /\ ~s.same
    [] sector = "report" -> s.drive = "playing"
    [] OTHER             -> TRUE

Sectors == {"bad", "leadout", "end", "data", "wraps", "report", "skip"}

(* The other states.                                                       *)
DriveDone(s, ok) ==
  LET c == ClearDrive(s) IN
    CASE s.drive \in {"seekLogical", "seekPhysical"} -> SeekComplete(s, ok)
      [] s.drive = "shell"   -> IF c.media THEN StartMotor(c) ELSE c
      [] s.drive = "session" -> LET m == [c EXCEPT !.seeking = FALSE, !.motor = TRUE, !.fifo = 0]
                                IN IF ok THEN SetAsync(Respond(m), COMPLETE) ELSE SendAsyncError(m)
      [] s.drive = "spinup"  -> [c EXCEPT !.seeking = FALSE, !.motor = TRUE]
      [] OTHER               -> c

-----------------------------------------------------------------------------
(* The actions *)

PowerOn ==
  [command |-> None, second |-> None, drive |-> "idle", active |-> {}, flag |-> 0,
   pending |-> 0, fifo |-> 0, recent |-> FALSE, media |-> TRUE, motor |-> TRUE,
   seeking |-> FALSE, setloc |-> FALSE, readAfter |-> FALSE, playAfter |-> FALSE,
   rbuf |-> "empty", wbuf |-> "empty", same |-> TRUE, failed |-> FALSE]

Init == cd = PowerOn /\ hasty = FALSE

(* now: a command is written while an interrupt is flagged or pending, or  *)
(* Init while Init is under way; a missed sector is announced while a      *)
(* command is pending; a state is loaded while an interrupt is pending.    *)
(* The haste is over when the controller is at rest.                       *)
Run(s, now) ==
  /\ ~cd.failed
  /\ cd' = s
  /\ hasty' = ((hasty \/ now) /\ ~(s.command = None /\ s.pending = 0))

MinParameters(c) == CASE c = "setloc" -> 3 [] c \in {"setmode", "readt"} -> 1 [] OTHER -> 0

(* cdrom_begin_command.  The new command replaces the one before unless it *)
(* takes fewer parameters, and an interrupt that waited for the old one is *)
(* let go, but only if the old command was itself not waiting.             *)
BeginCommand(c) ==
  LET s == cd
      freed == IF s.command = None \/ "command" \notin s.active THEN s
               ELSE IF s.pending = 0 THEN Off(s, "command") ELSE QueueDeliver(Off(s, "command"))
  IN Run(IF s.command # None /\ MinParameters(s.command) > MinParameters(c) THEN s
         ELSE UpdateCommandEvent(On([freed EXCEPT !.command = c], "command")),
         s.flag # 0 \/ s.pending # 0 \/ (c = "init" /\ s.second = "init"))

(* cdrom_execute_command; the number of parameters may be wrong.           *)
ExecuteCommand ==
  /\ "command" \in cd.active
  /\ \/ Run(EndCommand(SendError(cd)), FALSE)
     \/ \E p, q \in BOOLEAN : Run(Executed(Off(cd, "command"), p, q), FALSE)

ExecuteSecondResponse ==
  /\ "second" \in cd.active
  /\ \E licensed \in BOOLEAN : Run(SecondResponse(cd, licensed), FALSE)

ExecuteDrive ==
  /\ "drive" \in cd.active
  /\ IF IsReading(cd)
     THEN \E sector \in {x \in Sectors : MayBe(cd, x)} : Run(SectorRead(cd, sector), FALSE)
     ELSE \E ok \in BOOLEAN : Run(DriveDone(cd, ok), FALSE)

DeliverAsync == "async" \in cd.active /\ Run(Deliver(cd), FALSE)

(* Mutant: an interrupt that has waited for the acknowledgement stays.     *)
AcknowledgeUpdatesOnly ==
  cd.flag # 0 /\ Run(UpdateCommandEvent([cd EXCEPT !.flag = 0, !.recent = TRUE]), FALSE)

(* cdrom_write_register, interrupt flags: all of them are acknowledged.    *)
Acknowledge ==
  /\ cd.flag # 0
  /\ LET s == [cd EXCEPT !.flag = 0, !.recent = TRUE] IN
       Run(IF s.pending # 0 /\ s.command = None THEN QueueDeliver(s) ELSE UpdateCommandEvent(s),
           FALSE)

(* The minimum distance of interrupts has passed.                          *)
Elapse == cd.recent /\ Run([cd EXCEPT !.recent = FALSE], FALSE)

(* cdrom_check_for_sector_buffer_read_complete: a sector that came while   *)
(* the program read another one is announced again.                        *)
CheckReadComplete(s) ==
  IF s.wbuf = "unread" /\ s.pending = 0 /\ s.drive = "reading"
  THEN On(Respond([s EXCEPT !.pending = DATA_READY]), "async") ELSE s

(* cdrom_dma_read and the data register: nothing (the buffer is not        *)
(* requested), some or all of the buffer is read.                          *)
ReadData(amount) ==
  LET left == IF amount = "none" \/ cd.rbuf = "empty" THEN cd.rbuf
              ELSE IF amount = "all" THEN "empty" ELSE "part"
      s == CheckReadComplete([cd EXCEPT !.rbuf = left, !.wbuf = IF cd.same THEN left ELSE @])
  IN Run(s, s.command # None /\ s.pending # cd.pending)

(* A request register write with BFRD clear takes the buffer back.         *)
Rewind ==
  /\ cd.rbuf = "part"
  /\ Run([cd EXCEPT !.rbuf = "unread", !.wbuf = IF cd.same THEN "unread" ELSE @], FALSE)

-----------------------------------------------------------------------------
(* The host *)

(* cdrom_remove_media                                                      *)
Removed(s, swap) ==
  LET gone == [s EXCEPT !.media = FALSE, !.motor = FALSE, !.seeking = FALSE]
      idle == EndCommand(ClearSecond(ClearDrive(gone)))
      told == SendAsyncError(ClearAsync(idle))
  IN IF swap THEN SetDrive(told, "shell") ELSE told

RemoveMedia == TRUE \in Swaps /\ cd.media /\ Run(Removed(cd, FALSE), FALSE)

(* cdrom_insert_media                                                      *)
InsertMedia ==
  /\ TRUE \in Swaps
  /\ LET s == IF CanRead(cd) THEN Removed(cd, TRUE) ELSE cd
         m == [s EXCEPT !.media = TRUE]
     IN Run(IF s.drive = "shell" THEN m ELSE StartMotor(m), FALSE)

Reset == Run([PowerOn EXCEPT !.media = cd.media, !.motor = cd.media], FALSE)

(* cdrom_do_state: a state is written, and loaded into another machine,    *)
(* whose async interrupt event is left as it is, while the command event   *)
(* is taken away from a command that holds an interrupt up.                *)
SaveAndLoad(async) ==
  LET s == UpdateCommandEvent(cd) IN
    Run(CASE async = "same" -> s [] async = "on" -> On(s, "async") [] async = "off" -> Off(s, "async"),
        cd.pending # 0)

-----------------------------------------------------------------------------
Program ==
  \/ \E c \in Commands : BeginCommand(c)
  \/ \E amount \in {"none", "some", "all"} : ReadData(amount)
  \/ Rewind

Scheduler == ExecuteCommand \/ ExecuteSecondResponse \/ ExecuteDrive \/ DeliverAsync

Host ==
  \/ RemoveMedia
  \/ InsertMedia
  \/ Reset
  \/ \E async \in Loads : SaveAndLoad(async)

Next == Program \/ Acknowledge \/ Scheduler \/ Elapse \/ Host

Spec == Init /\ [][Next]_vars

(* The scheduler runs every event in its turn, time passes, and the        *)
(* program acknowledges its interrupts.                                    *)
FairSpec ==
  /\ Spec
  /\ WF_vars(Acknowledge) /\ WF_vars(Elapse)
  /\ SF_vars(ExecuteCommand) /\ SF_vars(DeliverAsync)

-----------------------------------------------------------------------------
(* Properties *)

TypeOK == cd \in Controller /\ hasty \in BOOLEAN

Running == ~cd.failed

(* The drive and the second response have their event exactly while they   *)
(* have something to do, whatever cancels, replaces or restores them.      *)
EventsFollowState ==
  Running => /\ "drive" \in cd.active <=> cd.drive # "idle"
             /\ "second" \in cd.active <=> cd.second # None

(* A command runs, and writes its response, only when the last interrupt   *)
(* has been acknowledged; and when nothing is in its way its event is      *)
(* there, but after haste not even then.                                   *)
CommandsWait ==
  Running => /\ "command" \in cd.active => cd.command # None /\ cd.flag = 0
             /\ cd.command # None /\ cd.flag = 0 /\ cd.pending = 0 /\ ~hasty
                => "command" \in cd.active

(* The delivery event has an interrupt to deliver, as its Assert says.     *)
DeliveryHasInterrupt == Running => ("async" \in cd.active => cd.pending # 0)

(* The response FIFO holds the response of the pending interrupt and       *)
(* nothing else, so that no response is read with the next one.  (It may   *)
(* be gone: a third response of the flagged kind clears the FIFO.)         *)
ResponseIsPending == Running => cd.fifo <= (IF cd.pending # 0 THEN 1 ELSE 0)

(* The four events, the interrupts and the responses belong together:      *)
(* variables in range, EventsFollowState, CommandsWait,                    *)
(* DeliveryHasInterrupt, ResponseIsPending.                                *)
EventsAndResponsesAgree ==
  /\ TypeOK
  /\ EventsFollowState
  /\ CommandsWait
  /\ DeliveryHasInterrupt
  /\ ResponseIsPending

(* An interrupt waits for an acknowledgement, for its event, or for a      *)
(* command that will run; otherwise it is stuck, and with it all commands. *)
Stuck ==
  /\ cd.pending # 0 /\ cd.flag = 0
  /\ "async" \notin cd.active /\ "command" \notin cd.active

(* That needs a hasty program, or a state loaded at the wrong time.        *)
OnlyHasteSticks == Running /\ Stuck => hasty

(* An interrupt that is held up, by another or by a command, is delivered  *)
(* or replaced, unless it is stuck.                                        *)
AnswersArrive == cd.pending # 0 ~> (cd.pending = 0 \/ hasty \/ cd.failed)
==============================================================================
