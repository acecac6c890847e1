------------------------ MODULE CdromController_proofs ------------------------
(***************************************************************************)
(* Proofs about the CD-ROM controller: EventsAndResponsesAgree and         *)
(* OnlyHasteSticks are invariants of every controller whose program writes *)
(* any of the commands, in any order, with any disc.  A state that is      *)
(* loaded finds the async interrupt event as it was when it was written or *)
(* descheduled; in a machine where it is scheduled ("on") the event could  *)
(* have nothing to deliver, so that is excluded by a hypothesis.           *)
(*                                                                         *)
(* The handlers are functions of the controller, and so are the lemmas:    *)
(* every function keeps a controller Sound, most of them are Quiet, and    *)
(* what calls them is shown from that.                                     *)
(***************************************************************************)
EXTENDS CdromController, TLAPS

-----------------------------------------------------------------------------
(* The inductive invariant *)

EventOfDrive(s) == "drive" \in s.active <=> s.drive # "idle"
EventOfSecond(s) == "second" \in s.active <=> s.second # None
EventOfCommand(s) == "command" \in s.active => s.command # None /\ s.flag = 0
EventOfAsync(s) == "async" \in s.active => s.pending # 0
OneResponse(s) == s.fifo <= (IF s.pending # 0 THEN 1 ELSE 0)

Sound(s) ==
  /\ s \in Controller
  /\ ~s.failed => /\ EventOfDrive(s)
                  /\ EventOfSecond(s)
                  /\ EventOfCommand(s)
                  /\ EventOfAsync(s)
                  /\ OneResponse(s)

(* What holds besides while there was no haste: a command that waits has   *)
(* its event and no interrupt to wait for, and without a command a pending *)
(* interrupt waits for an acknowledgement or has its event.                *)
Calm(s) ==
  IF s.command # None
  THEN /\ s.flag = 0 /\ "command" \in s.active /\ "async" \notin s.active
       /\ ~(s.command = "init" /\ s.second = "init")
  ELSE s.pending # 0 /\ s.flag = 0 => "async" \in s.active

IndInv ==
  /\ Sound(cd)
  /\ hasty \in BOOLEAN
  /\ ~cd.failed => hasty \/ Calm(cd)

(* What a function leaves alone that does not touch commands and, of the   *)
(* interrupts, at most takes away the one that is pending.                 *)
SameCommand(s, t) ==
  /\ t.flag = s.flag /\ t.command = s.command /\ t.failed = s.failed
  /\ ("command" \in t.active) <=> ("command" \in s.active)

SameInterrupt(s, t) ==
  /\ t.pending = s.pending /\ t.fifo = s.fifo
  /\ ("async" \in t.active) <=> ("async" \in s.active)
NoInterrupt(t) == t.pending = 0 /\ t.fifo = 0 /\ "async" \notin t.active

Quiet(s, t) ==
  /\ SameCommand(s, t)
  /\ t.second = s.second \/ t.second = None
  /\ SameInterrupt(s, t) \/ NoInterrupt(t)

(* What a function leaves alone that is only about the drive or the disc.  *)
SameCore(s, t) ==
  /\ SameCommand(s, t) /\ SameInterrupt(s, t)
  /\ t.second = s.second /\ t.drive = s.drive
  /\ ("drive" \in t.active) <=> ("drive" \in s.active)
  /\ ("second" \in t.active) <=> ("second" \in s.active)

-----------------------------------------------------------------------------
(* Quiet functions *)

(* Quiet is transitive.                                                    *)
LEMMA QuietTwice ==
  ASSUME NEW s, NEW t, NEW u, Quiet(s, t), Quiet(t, u)
  PROVE  Quiet(s, u)
  BY Zenon DEF Quiet, SameCommand, SameInterrupt, NoInterrupt

(* A quiet function keeps a controller calm.                               *)
LEMMA QuietIsCalm ==
  ASSUME NEW s, NEW t, Quiet(s, t), Calm(s)
  PROVE  Calm(t)
  BY Zenon DEF Quiet, SameCommand, SameInterrupt, NoInterrupt, Calm, None

(* A change of nothing that events and interrupts depend on.               *)
LEMMA CoreIsSound ==
  ASSUME NEW s, NEW t \in Controller, Sound(s), SameCore(s, t)
  PROVE  Sound(t) /\ Quiet(s, t)
  BY Zenon DEF Sound, SameCore, SameCommand, SameInterrupt, Quiet, EventOfDrive, EventOfSecond,
      EventOfCommand, EventOfAsync, OneResponse

(* Off and On change the set of events only.                               *)
LEMMA OffFields ==
  ASSUME NEW s \in Controller, NEW e \in Events
  PROVE  /\ Off(s, e) \in Controller /\ Off(s, e).active = s.active \ {e}
         /\ On(s, e) \in Controller /\ On(s, e).active = s.active \cup {e}
         /\ Off(s, e).flag = s.flag /\ On(s, e).flag = s.flag
         /\ Off(s, e).command = s.command /\ On(s, e).command = s.command
         /\ Off(s, e).failed = s.failed /\ On(s, e).failed = s.failed
         /\ Off(s, e).pending = s.pending /\ On(s, e).pending = s.pending
         /\ Off(s, e).fifo = s.fifo /\ On(s, e).fifo = s.fifo
         /\ Off(s, e).second = s.second /\ On(s, e).second = s.second
         /\ Off(s, e).drive = s.drive /\ On(s, e).drive = s.drive
         /\ Off(s, e).recent = s.recent /\ On(s, e).recent = s.recent
  BY Zenon DEF Off, On, Controller

(* A new state of the drive with its event.                                *)
LEMMA SetDriveSound ==
  ASSUME NEW s, Sound(s), NEW d \in Drives \ {"idle"}
  PROVE  Sound(SetDrive(s, d)) /\ Quiet(s, SetDrive(s, d)) /\ SetDrive(s, d).second = s.second
  <1> DEFINE r == [s EXCEPT !.drive = d]
  <1>1. s \in Controller BY DEF Sound
  <1>2. r \in Controller BY <1>1, Zenon DEF Controller
  <1>3. /\ r.drive = d /\ r.flag = s.flag /\ r.command = s.command /\ r.failed = s.failed
        /\ r.active = s.active /\ r.pending = s.pending /\ r.fifo = s.fifo /\ r.second = s.second
    BY <1>1, Zenon DEF Controller
  <1>4. SetDrive(s, d) = On(r, "drive") BY Zenon DEF SetDrive
  <1> HIDE DEF r
  <1>5. "drive" \in Events BY DEF Events
  <1> DEFINE t == On(r, "drive")
  <1>6. /\ t \in Controller /\ t.active = r.active \cup {"drive"}
        /\ t.flag = r.flag /\ t.command = r.command /\ t.failed = r.failed
        /\ t.pending = r.pending /\ t.fifo = r.fifo
        /\ t.second = r.second /\ t.drive = r.drive
    BY <1>2, <1>5, OffFields, Zenon
  <1> HIDE DEF t
  <1>7. Sound(t)
    BY <1>3, <1>6, SMT DEF Sound, EventOfDrive, EventOfSecond, EventOfCommand, EventOfAsync, OneResponse
  <1>8. Quiet(s, t)
    BY <1>3, <1>6, SMT DEF Quiet, SameCommand, SameInterrupt
  <1> QED BY <1>3, <1>4, <1>6, <1>7, <1>8 DEF t

(* cdrom_clear_drive_state                                                 *)
LEMMA ClearDriveSound ==
  ASSUME NEW s, Sound(s)
  PROVE  /\ Sound(ClearDrive(s)) /\ Quiet(s, ClearDrive(s)) /\ ClearDrive(s).drive = "idle"
         /\ ClearDrive(s).second = s.second
  <1> DEFINE r == [s EXCEPT !.drive = "idle"]
             t == Off(r, "drive")
  <1>1. s \in Controller BY DEF Sound
  <1>2. "idle" \in Drives /\ "drive" \in Events BY DEF Drives, Events
  <1>3. r \in Controller BY <1>1, <1>2, Zenon DEF Controller
  <1>4. /\ r.drive = "idle" /\ r.flag = s.flag /\ r.command = s.command /\ r.failed = s.failed
        /\ r.active = s.active /\ r.pending = s.pending /\ r.fifo = s.fifo /\ r.second = s.second
    BY <1>1, Zenon DEF Controller
  <1>5. ClearDrive(s) = t BY Zenon DEF ClearDrive
  <1> HIDE DEF r
  <1>6. /\ t \in Controller /\ t.active = r.active \ {"drive"}
        /\ t.flag = r.flag /\ t.command = r.command /\ t.failed = r.failed
        /\ t.pending = r.pending /\ t.fifo = r.fifo
        /\ t.second = r.second /\ t.drive = r.drive
    BY <1>2, <1>3, OffFields, Zenon
  <1> HIDE DEF t
  <1>7. Sound(t)
    BY <1>4, <1>6, SMT DEF Sound, EventOfDrive, EventOfSecond, EventOfCommand, EventOfAsync, OneResponse
  <1>8. Quiet(s, t)
    BY <1>4, <1>6, SMT DEF Quiet, SameCommand, SameInterrupt
  <1> QED BY <1>4, <1>5, <1>6, <1>7, <1>8

(* cdrom_clear_command_second_response                                     *)
LEMMA ClearSecondSound ==
  ASSUME NEW s, Sound(s)
  PROVE  Sound(ClearSecond(s)) /\ Quiet(s, ClearSecond(s)) /\ ClearSecond(s).second = None
  <1> DEFINE r == [s EXCEPT !.second = None]
             t == Off(r, "second")
  <1>1. s \in Controller BY DEF Sound
  <1>2. "second" \in Events BY DEF Events
  <1>3. r \in Controller BY <1>1, <1>2, Zenon DEF Controller
  <1>4. /\ r.drive = s.drive /\ r.flag = s.flag /\ r.command = s.command /\ r.failed = s.failed
        /\ r.active = s.active /\ r.pending = s.pending /\ r.fifo = s.fifo /\ r.second = None
    BY <1>1, Zenon DEF Controller
  <1>5. ClearSecond(s) = t BY Zenon DEF ClearSecond
  <1> HIDE DEF r
  <1>6. /\ t \in Controller /\ t.active = r.active \ {"second"}
        /\ t.flag = r.flag /\ t.command = r.command /\ t.failed = r.failed
        /\ t.pending = r.pending /\ t.fifo = r.fifo
        /\ t.second = r.second /\ t.drive = r.drive
    BY <1>2, <1>3, OffFields, Zenon
  <1> HIDE DEF t
  <1>7. Sound(t)
    BY <1>4, <1>6, SMT DEF Sound, EventOfDrive, EventOfSecond, EventOfCommand, EventOfAsync, OneResponse
  <1>8. Quiet(s, t)
    BY <1>4, <1>6, SMT DEF Quiet, SameCommand, SameInterrupt
  <1> QED BY <1>4, <1>5, <1>6, <1>7, <1>8

(* cdrom_clear_async_interrupt                                             *)
LEMMA ClearAsyncSound ==
  ASSUME NEW s, Sound(s)
  PROVE  /\ Sound(ClearAsync(s)) /\ Quiet(s, ClearAsync(s)) /\ NoInterrupt(ClearAsync(s))
         /\ ClearAsync(s).second = s.second
  <1> DEFINE r == [s EXCEPT !.pending = 0, !.fifo = 0]
             t == Off(r, "async")
  <1>1. s \in Controller BY DEF Sound
  <1>2. "async" \in Events /\ 0 \in 0..5 /\ 0 \in 0..2 BY SMT DEF Events
  <1>3. r \in Controller BY <1>1, <1>2, Zenon DEF Controller
  <1>4. /\ r.drive = s.drive /\ r.flag = s.flag /\ r.command = s.command /\ r.failed = s.failed
        /\ r.active = s.active /\ r.pending = 0 /\ r.fifo = 0 /\ r.second = s.second
    BY <1>1, Zenon DEF Controller
  <1>5. ClearAsync(s) = t BY Zenon DEF ClearAsync
  <1> HIDE DEF r
  <1>6. /\ t \in Controller /\ t.active = r.active \ {"async"}
        /\ t.flag = r.flag /\ t.command = r.command /\ t.failed = r.failed
        /\ t.pending = r.pending /\ t.fifo = r.fifo
        /\ t.second = r.second /\ t.drive = r.drive
    BY <1>2, <1>3, OffFields, Zenon
  <1> HIDE DEF t
  <1>7. Sound(t)
    BY <1>4, <1>6, SMT DEF Sound, EventOfDrive, EventOfSecond, EventOfCommand, EventOfAsync, OneResponse
  <1>8. Quiet(s, t) /\ NoInterrupt(t)
    BY <1>4, <1>6, SMT DEF Quiet, SameCommand, NoInterrupt
  <1> QED BY <1>4, <1>5, <1>6, <1>7, <1>8

(* cdrom_clear_sector_buffers                                              *)
LEMMA ClearBuffersSound ==
  ASSUME NEW s, Sound(s)
  PROVE  Sound(ClearBuffers(s)) /\ Quiet(s, ClearBuffers(s))
  <1> DEFINE t == [s EXCEPT !.rbuf = "empty", !.wbuf = "empty", !.same = TRUE]
  <1>1. s \in Controller /\ "empty" \in Buffer BY DEF Sound, Buffer
  <1>2. t \in Controller BY <1>1, Zenon DEF Controller
  <1>3. SameCore(s, t) BY <1>1, Zenon DEF Controller, SameCore, SameCommand, SameInterrupt
  <1>4. ClearBuffers(s) = t BY Zenon DEF ClearBuffers
  <1> HIDE DEF t
  <1> QED BY <1>2, <1>3, <1>4, CoreIsSound

(* StartAfresh: what a read, play or seek does away with.                  *)
LEMMA StartAfreshSound ==
  ASSUME NEW s, Sound(s)
  PROVE  Sound(StartAfresh(s)) /\ Quiet(s, StartAfresh(s))
  <1> DEFINE a == ClearSecond(s)
             b == ClearAsync(a)
             c == ClearBuffers(b)
  <1>1. Sound(a) /\ Quiet(s, a) BY ClearSecondSound
  <1> HIDE DEF a
  <1>2. Sound(b) /\ Quiet(a, b) BY <1>1, ClearAsyncSound
  <1> HIDE DEF b
  <1>3. Sound(c) /\ Quiet(b, c) BY <1>2, ClearBuffersSound
  <1>4. StartAfresh(s) = c BY Zenon DEF StartAfresh, a, b
  <1> HIDE DEF c
  <1>5. Quiet(s, c) BY <1>1, <1>2, <1>3, QuietTwice, Zenon
  <1> QED BY <1>3, <1>4, <1>5

(* cdrom_stop_motor                                                        *)
LEMMA StopMotorSound ==
  ASSUME NEW s, Sound(s)
  PROVE  Sound(StopMotor(s)) /\ Quiet(s, StopMotor(s))
  <1> DEFINE t == [s EXCEPT !.seeking = FALSE, !.motor = FALSE]
  <1>1. s \in Controller BY DEF Sound
  <1>2. t \in Controller BY <1>1, Zenon DEF Controller
  <1>3. SameCore(s, t) BY <1>1, Zenon DEF Controller, SameCore, SameCommand, SameInterrupt
  <1>4. StopMotor(s) = ClearDrive(t) BY Zenon DEF StopMotor
  <1> HIDE DEF t
  <1>5. Sound(t) /\ Quiet(s, t) BY <1>2, <1>3, CoreIsSound
  <1>6. Sound(ClearDrive(t)) /\ Quiet(t, ClearDrive(t)) BY <1>5, ClearDriveSound
  <1> QED BY <1>4, <1>5, <1>6, QuietTwice, Zenon

(* cdrom_begin_seeking                                                     *)
LEMMA BeginSeekingSound ==
  ASSUME NEW s, Sound(s), NEW logical \in BOOLEAN, NEW read \in BOOLEAN, NEW play \in BOOLEAN
  PROVE  /\ Sound(BeginSeeking(s, logical, read, play))
         /\ Quiet(s, BeginSeeking(s, logical, read, play))
  <1> DEFINE a == StartAfresh(s)
             t == [a EXCEPT !.readAfter = read, !.playAfter = play, !.setloc = FALSE,
                            !.seeking = TRUE, !.motor = TRUE]
             d == IF logical THEN "seekLogical" ELSE "seekPhysical"
  <1>1. Sound(a) /\ Quiet(s, a) BY StartAfreshSound
  <1>2. BeginSeeking(s, logical, read, play) = SetDrive(t, d) BY Zenon DEF BeginSeeking
  <1> HIDE DEF a
  <1>3. a \in Controller BY <1>1 DEF Sound
  <1>4. t \in Controller BY <1>3, Zenon DEF Controller
  <1>5. SameCore(a, t) BY <1>3, Zenon DEF Controller, SameCore, SameCommand, SameInterrupt
  <1> HIDE DEF t
  <1>6. Sound(t) /\ Quiet(a, t) BY <1>1, <1>4, <1>5, CoreIsSound
  <1>7. d \in Drives \ {"idle"} BY DEF Drives
  <1> HIDE DEF d
  <1>8. Sound(SetDrive(t, d)) /\ Quiet(t, SetDrive(t, d)) BY <1>6, <1>7, SetDriveSound
  <1> QED BY <1>1, <1>2, <1>6, <1>8, QuietTwice, Zenon

(* cdrom_begin_reading, also when a seek goes on.                          *)
LEMMA BeginReadingSound ==
  ASSUME NEW s, Sound(s), NEW afterSeek \in BOOLEAN
  PROVE  Sound(BeginReading(s, afterSeek)) /\ Quiet(s, BeginReading(s, afterSeek))
  <1>1. CASE ~afterSeek /\ s.setloc
    <2>1. BeginReading(s, afterSeek) = BeginSeeking(s, TRUE, TRUE, FALSE)
      BY <1>1, Zenon DEF BeginReading
    <2> QED BY <2>1, BeginSeekingSound
  <1>2. CASE ~(~afterSeek /\ s.setloc) /\ IsSeeking(s)
    <2> DEFINE d == IF s.drive = "seekImplicit" THEN "seekLogical" ELSE s.drive
               t == [s EXCEPT !.drive = d, !.readAfter = TRUE, !.playAfter = FALSE]
    <2>1. s \in Controller BY DEF Sound
    <2>2. d \in Drives \ {"idle"} /\ s.drive # "idle" BY <1>2 DEF IsSeeking, Drives
    <2>3. BeginReading(s, afterSeek) = t BY <1>2, Zenon DEF BeginReading
    <2> HIDE DEF d
    <2>4. t \in Controller BY <2>1, <2>2, Zenon DEF Controller
    <2>5. /\ t.drive = d /\ t.flag = s.flag /\ t.command = s.command /\ t.failed = s.failed
          /\ t.active = s.active /\ t.pending = s.pending /\ t.fifo = s.fifo /\ t.second = s.second
      BY <2>1, Zenon DEF Controller
    <2> HIDE DEF t
    <2>6. Sound(t)
      BY <2>2, <2>4, <2>5, SMT DEF Sound, EventOfDrive, EventOfSecond, EventOfCommand, EventOfAsync,
         OneResponse
    <2>7. Quiet(s, t) BY <2>5, Zenon DEF Quiet, SameCommand, SameInterrupt
    <2> QED BY <2>3, <2>6, <2>7
  <1>3. CASE ~(~afterSeek /\ s.setloc) /\ ~IsSeeking(s)
    <2> DEFINE a == StartAfresh(s)
               m == [a EXCEPT !.seeking = TRUE, !.motor = TRUE]
               t == IF afterSeek THEN a ELSE m
    <2>1. Sound(a) /\ Quiet(s, a) BY StartAfreshSound
    <2>2. BeginReading(s, afterSeek) = SetDrive(t, "reading")
      BY <1>3, Zenon DEF BeginReading
    <2> HIDE DEF a
    <2>3. a \in Controller BY <2>1 DEF Sound
    <2>4. m \in Controller BY <2>3, Zenon DEF Controller
    <2>5. SameCore(a, m) BY <2>3, Zenon DEF Controller, SameCore, SameCommand, SameInterrupt
    <2> HIDE DEF m
    <2>6. Sound(m) /\ Quiet(a, m) BY <2>1, <2>4, <2>5, CoreIsSound
    <2>7. Sound(t) /\ Quiet(s, t) BY <2>1, <2>6, QuietTwice, Zenon
    <2> HIDE DEF t
    <2>8. "reading" \in Drives \ {"idle"} BY DEF Drives
    <2>9. Sound(SetDrive(t, "reading")) /\ Quiet(t, SetDrive(t, "reading"))
      BY <2>7, <2>8, SetDriveSound
    <2> QED BY <2>2, <2>7, <2>9, QuietTwice, Zenon
  <1> QED BY <1>1, <1>2, <1>3

(* cdrom_begin_playing                                                     *)
LEMMA BeginPlayingSound ==
  ASSUME NEW s, Sound(s), NEW track \in BOOLEAN
  PROVE  Sound(BeginPlaying(s, track)) /\ Quiet(s, BeginPlaying(s, track))
  <1>1. CASE track \/ s.setloc
    <2>1. BeginPlaying(s, track) = BeginSeeking(s, FALSE, FALSE, TRUE)
      BY <1>1, Zenon DEF BeginPlaying
    <2> QED BY <2>1, BeginSeekingSound
  <1>2. CASE ~(track \/ s.setloc)
    <2> DEFINE a == StartAfresh(s)
    <2>1. Sound(a) /\ Quiet(s, a) BY StartAfreshSound
    <2>2. BeginPlaying(s, track) = SetDrive(a, "playing") BY <1>2, Zenon DEF BeginPlaying
    <2> HIDE DEF a
    <2>3. "playing" \in Drives \ {"idle"} BY DEF Drives
    <2>4. Sound(SetDrive(a, "playing")) /\ Quiet(a, SetDrive(a, "playing"))
      BY <2>1, <2>3, SetDriveSound
    <2> QED BY <2>1, <2>2, <2>4, QuietTwice, Zenon
  <1> QED BY <1>1, <1>2

(* cdrom_soft_reset, with and without a disc.                              *)
LEMMA SoftResetSound ==
  ASSUME NEW s, Sound(s), NEW atStart \in BOOLEAN
  PROVE  Sound(SoftReset(s, atStart)) /\ Quiet(s, SoftReset(s, atStart))
  <1> DEFINE a == ClearSecond(s)
             b == ClearDrive(a)
             c == ClearAsync(b)
             e == ClearBuffers(c)
             t == [e EXCEPT !.seeking = FALSE, !.motor = CanRead(e), !.setloc = FALSE,
                            !.readAfter = FALSE, !.playAfter = FALSE]
             d == IF atStart THEN "speed" ELSE "seekImplicit"
  <1>1. SoftReset(s, atStart) = IF ~s.media THEN t ELSE SetDrive(t, d)
    BY Zenon DEF SoftReset
  <1>2. Sound(a) /\ Quiet(s, a) BY ClearSecondSound
  <1> HIDE DEF a
  <1>3. Sound(b) /\ Quiet(a, b) BY <1>2, ClearDriveSound
  <1> HIDE DEF b
  <1>4. Sound(c) /\ Quiet(b, c) BY <1>3, ClearAsyncSound
  <1> HIDE DEF c
  <1>5. Sound(e) /\ Quiet(c, e) BY <1>4, ClearBuffersSound
  <1> HIDE DEF e
  <1>6. e \in Controller /\ CanRead(e) \in BOOLEAN BY <1>5, Zenon DEF Sound, CanRead, Controller
  <1>7. t \in Controller BY <1>6, Zenon DEF Controller
  <1>8. SameCore(e, t) BY <1>6, Zenon DEF Controller, SameCore, SameCommand, SameInterrupt
  <1> HIDE DEF t
  <1>9. Sound(t) /\ Quiet(e, t) BY <1>5, <1>7, <1>8, CoreIsSound
  <1>10. Quiet(s, t)
    <2>1. Quiet(s, b) BY <1>2, <1>3, QuietTwice, Zenon
    <2>2. Quiet(s, c) BY <1>4, <2>1, QuietTwice, Zenon
    <2>3. Quiet(s, e) BY <1>5, <2>2, QuietTwice, Zenon
    <2> QED BY <1>9, <2>3, QuietTwice, Zenon
  <1>11. d \in Drives \ {"idle"} BY DEF Drives
  <1> HIDE DEF d
  <1>12. Sound(SetDrive(t, d)) /\ Quiet(t, SetDrive(t, d)) BY <1>9, <1>11, SetDriveSound
  <1>13. Quiet(s, SetDrive(t, d)) BY <1>10, <1>12, QuietTwice, Zenon
  <1> QED BY <1>1, <1>9, <1>10, <1>12, <1>13, Zenon

-----------------------------------------------------------------------------
(* Commands *)

(* A command that has been answered, or rejected.                          *)
Answered(s) == Sound(s) /\ s.flag # 0

(* What was answered stays answered over a quiet function.                 *)
LEMMA QuietAnswered ==
  ASSUME NEW s, NEW t, Answered(s), Sound(t), Quiet(s, t)
  PROVE  Answered(t)
  BY Zenon DEF Answered, Quiet, SameCommand

(* cdrom_end_command leaves the interrupts as they are.                    *)
LEMMA EndCommandSound ==
  ASSUME NEW s, Sound(s)
  PROVE  /\ Sound(EndCommand(s)) /\ EndCommand(s).command = None /\ EndCommand(s).flag = s.flag
         /\ SameInterrupt(s, EndCommand(s)) /\ EndCommand(s).failed = s.failed
         /\ EndCommand(s).second = s.second /\ EndCommand(s).drive = s.drive
  <1> DEFINE r == [s EXCEPT !.command = None]
             t == Off(r, "command")
  <1>1. s \in Controller BY DEF Sound
  <1>2. "command" \in Events BY DEF Events
  <1>3. r \in Controller BY <1>1, Zenon DEF Controller
  <1>4. /\ r.drive = s.drive /\ r.flag = s.flag /\ r.command = None /\ r.failed = s.failed
        /\ r.active = s.active /\ r.pending = s.pending /\ r.fifo = s.fifo /\ r.second = s.second
    BY <1>1, Zenon DEF Controller
  <1>5. EndCommand(s) = t BY Zenon DEF EndCommand
  <1> HIDE DEF r
  <1>6. /\ t \in Controller /\ t.active = r.active \ {"command"}
        /\ t.flag = r.flag /\ t.command = r.command /\ t.failed = r.failed
        /\ t.pending = r.pending /\ t.fifo = r.fifo
        /\ t.second = r.second /\ t.drive = r.drive
    BY <1>2, <1>3, OffFields, Zenon
  <1> HIDE DEF t
  <1>7. Sound(t)
    BY <1>4, <1>6, SMT DEF Sound, EventOfDrive, EventOfSecond, EventOfCommand, EventOfAsync, OneResponse
  <1>8. SameInterrupt(s, t) BY <1>4, <1>6, SMT DEF SameInterrupt
  <1> QED BY <1>4, <1>5, <1>6, <1>7, <1>8

(* A command that was answered ends calmly: its interrupt is flagged.      *)
LEMMA EndAnswered ==
  ASSUME NEW s, Answered(s)
  PROVE  Sound(EndCommand(s)) /\ Calm(EndCommand(s))
  BY EndCommandSound, Zenon DEF Answered, Calm

(* The answers of a command that runs.                                     *)
LEMMA SendSound ==
  ASSUME NEW s, Sound(s), "command" \notin s.active
  PROVE  Answered(SendAck(s)) /\ Answered(SendError(s))
  <1> SUFFICES ASSUME NEW f \in {ACK, ERROR}
               PROVE  Answered([s EXCEPT !.flag = f])
    BY Zenon DEF SendAck, SendError
  <1> DEFINE t == [s EXCEPT !.flag = f]
  <1>1. s \in Controller BY DEF Sound
  <1>2. f \in 0..5 /\ f # 0 BY SMT DEF ACK, ERROR
  <1>3. t \in Controller BY <1>1, <1>2, Zenon DEF Controller
  <1>4. /\ t.drive = s.drive /\ t.flag = f /\ t.command = s.command /\ t.failed = s.failed
        /\ t.active = s.active /\ t.pending = s.pending /\ t.fifo = s.fifo /\ t.second = s.second
    BY <1>1, Zenon DEF Controller
  <1> HIDE DEF t
  <1>5. Answered(t)
    BY <1>2, <1>3, <1>4, SMT DEF Sound, EventOfDrive, EventOfSecond, EventOfCommand, EventOfAsync,
       OneResponse, Answered
  <1> QED BY <1>5 DEF t

(* cdrom_queue_command_second_response, after the answer.                  *)
LEMMA QueueSecondAnswered ==
  ASSUME NEW s, Answered(s), NEW second \in {"getid", "init", "stat"}
  PROVE  Answered(QueueSecond(s, second))
  <1> DEFINE r == [s EXCEPT !.second = second]
             t == On(r, "second")
  <1>1. s \in Controller BY DEF Answered, Sound
  <1>2. "second" \in Events /\ second # None /\ second \in {None, "getid", "init", "stat"}
    BY DEF Events, None
  <1>3. r \in Controller BY <1>1, <1>2, Zenon DEF Controller
  <1>4. /\ r.drive = s.drive /\ r.flag = s.flag /\ r.command = s.command /\ r.failed = s.failed
        /\ r.active = s.active /\ r.pending = s.pending /\ r.fifo = s.fifo /\ r.second = second
    BY <1>1, Zenon DEF Controller
  <1>5. QueueSecond(s, second) = t BY Zenon DEF QueueSecond
  <1> HIDE DEF r
  <1>6. /\ t \in Controller /\ t.active = r.active \cup {"second"}
        /\ t.flag = r.flag /\ t.command = r.command /\ t.failed = r.failed
        /\ t.pending = r.pending /\ t.fifo = r.fifo
        /\ t.second = r.second /\ t.drive = r.drive
    BY <1>2, <1>3, OffFields, Zenon
  <1> HIDE DEF t
  <1> QED BY <1>2, <1>4, <1>5, <1>6, SMT DEF Sound, EventOfDrive, EventOfSecond, EventOfCommand,
             EventOfAsync, OneResponse, Answered

(* Bits of the state that nothing here depends on.                         *)
LEMMA BitsSound ==
  ASSUME NEW s, Sound(s), NEW b \in BOOLEAN, NEW c \in BOOLEAN
  PROVE  \A t \in {[s EXCEPT !.setloc = b], [s EXCEPT !.seeking = b], [s EXCEPT !.motor = b],
                   [s EXCEPT !.seeking = b, !.motor = c]} :
           Sound(t) /\ Quiet(s, t) /\ SameCore(s, t)
  <1>1. s \in Controller BY DEF Sound
  <1> SUFFICES ASSUME NEW t, t \in Controller, SameCore(s, t)
               PROVE  Sound(t) /\ Quiet(s, t)
    <2>1. [s EXCEPT !.setloc = b] \in Controller /\ SameCore(s, [s EXCEPT !.setloc = b])
      BY <1>1, Zenon DEF Controller, SameCore, SameCommand, SameInterrupt
    <2>2. [s EXCEPT !.seeking = b] \in Controller /\ SameCore(s, [s EXCEPT !.seeking = b])
      BY <1>1, Zenon DEF Controller, SameCore, SameCommand, SameInterrupt
    <2>3. [s EXCEPT !.motor = b] \in Controller /\ SameCore(s, [s EXCEPT !.motor = b])
      BY <1>1, Zenon DEF Controller, SameCore, SameCommand, SameInterrupt
    <2>4. /\ [s EXCEPT !.seeking = b, !.motor = c] \in Controller
          /\ SameCore(s, [s EXCEPT !.seeking = b, !.motor = c])
      BY <1>1, Zenon DEF Controller, SameCore, SameCommand, SameInterrupt
    <2> QED BY <2>1, <2>2, <2>3, <2>4, Zenon
  <1> QED BY CoreIsSound

(* A command that runs: its event has been taken away.                     *)
Runs(s) == Sound(s) /\ "command" \notin s.active

(* It is over and nothing waits for it.                                    *)
Ended(t) == Sound(t) /\ Calm(t)

(* A quiet function does not schedule the command again.                   *)
LEMMA QuietRuns ==
  ASSUME NEW s, NEW t, Runs(s), Sound(t), Quiet(s, t)
  PROVE  Runs(t)
  BY Zenon DEF Runs, Quiet, SameCommand

(* GetID ends.                                                             *)
LEMMA GetIdEnds ==
  ASSUME NEW s, Runs(s)
  PROVE  Ended(GetId(s))
  <1> DEFINE c == ClearSecond(s)
  <1>1. Runs(c) BY ClearSecondSound, QuietRuns, Zenon DEF Runs
  <1>2. GetId(s) = EndCommand(IF CanRead(c) THEN QueueSecond(SendAck(c), "getid") ELSE SendError(c))
    BY Zenon DEF GetId, WithDisc
  <1> HIDE DEF c
  <1>3. Answered(SendAck(c)) /\ Answered(SendError(c)) BY <1>1, SendSound, Zenon DEF Runs
  <1>4. Answered(QueueSecond(SendAck(c), "getid")) BY <1>3, QueueSecondAnswered, Zenon
  <1> QED BY <1>2, <1>3, <1>4, EndAnswered, Zenon DEF Ended

(* SetMode ends, with the drive sped up, slowed down or left alone.        *)
LEMMA SetModeEnds ==
  ASSUME NEW s, Runs(s), NEW change \in BOOLEAN, NEW early \in BOOLEAN
  PROVE  Ended(SetMode(s, change, early))
  <1> DEFINE e == EndCommand(SendAck(s))
  <1>1. Sound(e) /\ Calm(e) BY SendSound, EndAnswered, Zenon DEF Runs
  <1>2. SetMode(s, change, early) \in {e, ClearDrive(e), SetDrive(e, "speed")}
    BY Zenon DEF SetMode
  <1> HIDE DEF e
  <1>3. "speed" \in Drives \ {"idle"} BY DEF Drives
  <1>4. Sound(SetDrive(e, "speed")) /\ Quiet(e, SetDrive(e, "speed")) BY <1>1, <1>3, SetDriveSound
  <1>5. Sound(ClearDrive(e)) /\ Quiet(e, ClearDrive(e)) BY <1>1, ClearDriveSound
  <1> QED BY <1>1, <1>2, <1>4, <1>5, QuietIsCalm, Zenon DEF Ended

(* ReadT ends.                                                             *)
LEMMA ReadTEnds ==
  ASSUME NEW s, Runs(s), NEW valid \in BOOLEAN
  PROVE  Ended(ReadT(s, valid))
  <1> DEFINE c == ClearSecond(s)
             a == SendAck(c)
             d == SetDrive(a, "session")
  <1>1. ReadT(s, valid) \in {EndCommand(d), EndCommand(SendError(s))}
    BY Zenon DEF ReadT
  <1>2. Runs(c) BY ClearSecondSound, QuietRuns, Zenon DEF Runs
  <1> HIDE DEF c
  <1>3. Answered(a) /\ Answered(SendError(s)) BY <1>2, SendSound, Zenon DEF Runs
  <1> HIDE DEF a
  <1>4. "session" \in Drives \ {"idle"} BY DEF Drives
  <1>5. Sound(d) /\ Quiet(a, d) BY <1>3, <1>4, SetDriveSound, Zenon DEF Answered
  <1> HIDE DEF d
  <1>6. Answered(d) BY <1>3, <1>5, QuietAnswered, Zenon
  <1> QED BY <1>1, <1>3, <1>6, EndAnswered, Zenon DEF Ended

(* ReadN and ReadS end, the read begun, continued or rejected.             *)
LEMMA ReadEnds ==
  ASSUME NEW s, Runs(s), NEW valid \in BOOLEAN, NEW here \in BOOLEAN
  PROVE  Ended(Read(s, valid, here))
  <1> DEFINE a == SendAck(s)
             m == [a EXCEPT !.setloc = FALSE]
             b == BeginReading(a, FALSE)
  <1>1. Read(s, valid, here) \in {EndCommand(SendError(s)), EndCommand(m), EndCommand(b)}
    BY Zenon DEF Read
  <1>2. Answered(a) /\ Answered(SendError(s)) BY SendSound, Zenon DEF Runs
  <1> HIDE DEF a
  <1>3. Sound(m) /\ Quiet(a, m) BY <1>2, BitsSound, Zenon DEF Answered
  <1> HIDE DEF m
  <1>4. Sound(b) /\ Quiet(a, b) BY <1>2, BeginReadingSound, Zenon DEF Answered
  <1> HIDE DEF b
  <1>5. Answered(m) /\ Answered(b) BY <1>2, <1>3, <1>4, QuietAnswered, Zenon
  <1> QED BY <1>1, <1>2, <1>5, EndAnswered, Zenon DEF Ended

(* Play ends.                                                              *)
LEMMA PlayEnds ==
  ASSUME NEW s, Runs(s), NEW track \in BOOLEAN, NEW here \in BOOLEAN
  PROVE  Ended(Play(s, track, here))
  <1> DEFINE a == SendAck(s)
             m == [a EXCEPT !.setloc = FALSE]
             b == BeginPlaying(a, track)
  <1>1. Play(s, track, here) \in {EndCommand(SendError(s)), EndCommand(m), EndCommand(b)}
    BY Zenon DEF Play
  <1>2. Answered(a) /\ Answered(SendError(s)) BY SendSound, Zenon DEF Runs
  <1> HIDE DEF a
  <1>3. Sound(m) /\ Quiet(a, m) BY <1>2, BitsSound, Zenon DEF Answered
  <1> HIDE DEF m
  <1>4. Sound(b) /\ Quiet(a, b) BY <1>2, BeginPlayingSound, Zenon DEF Answered
  <1> HIDE DEF b
  <1>5. Answered(m) /\ Answered(b) BY <1>2, <1>3, <1>4, QuietAnswered, Zenon
  <1> QED BY <1>1, <1>2, <1>5, EndAnswered, Zenon DEF Ended

(* Pause ends, also where it is rejected.                                  *)
LEMMA PauseEnds ==
  ASSUME NEW s, Runs(s)
  PROVE  Ended(Pause(s))
  <1> DEFINE c == ClearSecond(s)
             a == SendAck(c)
             b == ClearAsync(a)
             d == ClearDrive(b)
             m == [d EXCEPT !.seeking = FALSE]
             q == QueueSecond(m, "stat")
  <1>1. Pause(s) \in {EndCommand(SendError(c)), EndCommand(q)}
    BY Zenon DEF Pause
  <1>2. Runs(c) BY ClearSecondSound, QuietRuns, Zenon DEF Runs
  <1> HIDE DEF c
  <1>3. Answered(a) /\ Answered(SendError(c)) BY <1>2, SendSound, Zenon DEF Runs
  <1> HIDE DEF a
  <1>4. Sound(b) /\ Quiet(a, b) BY <1>3, ClearAsyncSound, Zenon DEF Answered
  <1> HIDE DEF b
  <1>5. Sound(d) /\ Quiet(b, d) BY <1>4, ClearDriveSound, Zenon
  <1> HIDE DEF d
  <1>6. Sound(m) /\ Quiet(d, m) BY <1>5, BitsSound, Zenon
  <1> HIDE DEF m
  <1>7. Answered(m) BY <1>3, <1>4, <1>5, <1>6, QuietAnswered, Zenon
  <1>8. Answered(q) BY <1>7, QueueSecondAnswered, Zenon
  <1> HIDE DEF q
  <1> QED BY <1>1, <1>3, <1>8, EndAnswered, Zenon DEF Ended

(* Stop ends.                                                              *)
LEMMA StopEnds ==
  ASSUME NEW s, Runs(s)
  PROVE  Ended(Stop(s))
  <1> DEFINE b == ClearAsync(s)
             c == ClearSecond(b)
             a == SendAck(c)
             m == StopMotor(a)
             q == QueueSecond(m, "stat")
  <1>1. Stop(s) = EndCommand(q) BY Zenon DEF Stop
  <1>2. Runs(b) BY ClearAsyncSound, QuietRuns, Zenon DEF Runs
  <1> HIDE DEF b
  <1>3. Runs(c) BY <1>2, ClearSecondSound, QuietRuns, Zenon DEF Runs
  <1> HIDE DEF c
  <1>4. Answered(a) BY <1>3, SendSound, Zenon DEF Runs
  <1> HIDE DEF a
  <1>5. Sound(m) /\ Quiet(a, m) BY <1>4, StopMotorSound, Zenon DEF Answered
  <1> HIDE DEF m
  <1>6. Answered(m) BY <1>4, <1>5, QuietAnswered, Zenon
  <1>7. Answered(q) BY <1>6, QueueSecondAnswered, Zenon
  <1> HIDE DEF q
  <1> QED BY <1>1, <1>7, EndAnswered, Zenon DEF Ended

(* Init ends without an answer when an Init is under way, otherwise as the *)
(* others.                                                                 *)
LEMMA InitCommandEnds ==
  ASSUME NEW s, Runs(s), NEW atStart \in BOOLEAN
  PROVE  /\ Sound(InitCommand(s, atStart))
         /\ s.second # "init" => Calm(InitCommand(s, atStart))
  <1>1. CASE s.second = "init"
    <2>1. InitCommand(s, atStart) = EndCommand(s) BY <1>1, Zenon DEF InitCommand
    <2> QED BY <1>1, <2>1, EndCommandSound, Zenon DEF Runs
  <1>2. CASE s.second # "init"
    <2> DEFINE a == SendAck(s)
               m == SoftReset(a, atStart)
               q == QueueSecond(m, "init")
    <2>1. InitCommand(s, atStart) = EndCommand(q) BY <1>2, Zenon DEF InitCommand
    <2>2. Answered(a) BY SendSound, Zenon DEF Runs
    <2> HIDE DEF a
    <2>3. Sound(m) /\ Quiet(a, m) BY <2>2, SoftResetSound, Zenon DEF Answered
    <2> HIDE DEF m
    <2>4. Answered(m) BY <2>2, <2>3, QuietAnswered, Zenon
    <2>5. Answered(q) BY <2>4, QueueSecondAnswered, Zenon
    <2> HIDE DEF q
    <2> QED BY <2>1, <2>5, EndAnswered, Zenon
  <1> QED BY <1>1, <1>2

(* MotorOn ends.                                                           *)
LEMMA MotorOnEnds ==
  ASSUME NEW s, Runs(s)
  PROVE  Ended(MotorOn(s))
  <1> DEFINE a == SendAck(s)
             m == [a EXCEPT !.motor = TRUE]
             d == SetDrive(m, "spinup")
             q == QueueSecond(d, "stat")
  <1>1. MotorOn(s) \in {EndCommand(SendError(s)), EndCommand(q)}
    BY Zenon DEF MotorOn, StartMotor
  <1>2. Answered(a) /\ Answered(SendError(s)) BY SendSound, Zenon DEF Runs
  <1> HIDE DEF a
  <1>3. Sound(m) /\ Quiet(a, m) BY <1>2, BitsSound, Zenon DEF Answered
  <1> HIDE DEF m
  <1>4. "spinup" \in Drives \ {"idle"} BY DEF Drives
  <1>5. Sound(d) /\ Quiet(m, d) BY <1>3, <1>4, SetDriveSound, Zenon
  <1> HIDE DEF d
  <1>6. Answered(d) BY <1>2, <1>3, <1>5, QuietAnswered, Zenon
  <1>7. Answered(q) BY <1>6, QueueSecondAnswered, Zenon
  <1> HIDE DEF q
  <1> QED BY <1>1, <1>2, <1>7, EndAnswered, Zenon DEF Ended

(* What the command in s does when it runs.                                *)
LEMMA ExecutedEnds ==
  ASSUME NEW s, Runs(s), s.command \in Command, NEW p \in BOOLEAN, NEW q \in BOOLEAN
  PROVE  /\ Sound(Executed(s, p, q))
         /\ ~(s.command = "init" /\ s.second = "init") => Calm(Executed(s, p, q))
  <1> DEFINE t == Executed(s, p, q)
             a == SendAck(s)
  <1>1. Answered(a) /\ Answered(SendError(s)) BY SendSound, Zenon DEF Runs
  <1>2. Ended(EndCommand(a)) /\ Ended(EndCommand(SendError(s)))
    BY <1>1, EndAnswered, Zenon DEF Ended
  <1>3. CASE s.command = "simple"
    <2>1. t \in {EndCommand(a), EndCommand(SendError(s))} BY <1>3, SMT DEF Executed
    <2> QED BY <1>2, <2>1, Zenon DEF Ended
  <1>4. CASE s.command = "setloc"
    <2> DEFINE m == [a EXCEPT !.setloc = TRUE]
    <2>1. t \in {EndCommand(m), EndCommand(SendError(s))} BY <1>4, SMT DEF Executed
    <2> HIDE DEF a
    <2>2. Sound(m) /\ Quiet(a, m) BY <1>1, BitsSound, Zenon DEF Answered
    <2> HIDE DEF m
    <2>3. Answered(m) BY <1>1, <2>2, QuietAnswered, Zenon
    <2> QED BY <1>2, <2>1, <2>3, EndAnswered, Zenon DEF Ended
  <1>5. CASE s.command = "setmode"
    <2>1. t = SetMode(s, p, q) BY <1>5, SMT DEF Executed
    <2> QED BY <2>1, SetModeEnds, Zenon DEF Ended
  <1>6. CASE s.command = "getid"
    <2>1. t = GetId(s) BY <1>6, SMT DEF Executed
    <2> QED BY <2>1, GetIdEnds, Zenon DEF Ended
  <1>7. CASE s.command = "seek"
    <2> DEFINE m == BeginSeeking(a, p, FALSE, FALSE)
    <2>1. t = WithDisc(s, m) BY <1>7, SMT DEF Executed
    <2>2. t \in {EndCommand(m), EndCommand(SendError(s))} BY <2>1, Zenon DEF WithDisc
    <2> HIDE DEF a
    <2>3. Sound(m) /\ Quiet(a, m) BY <1>1, BeginSeekingSound, Zenon DEF Answered
    <2> HIDE DEF m
    <2>4. Answered(m) BY <1>1, <2>3, QuietAnswered, Zenon
    <2> QED BY <1>2, <2>2, <2>4, EndAnswered, Zenon DEF Ended
  <1>8. CASE s.command = "readt"
    <2>1. t = ReadT(s, p) BY <1>8, SMT DEF Executed
    <2> QED BY <2>1, ReadTEnds, Zenon DEF Ended
  <1>9. CASE s.command = "read"
    <2>1. t = Read(s, p, q) BY <1>9, SMT DEF Executed
    <2> QED BY <2>1, ReadEnds, Zenon DEF Ended
  <1>10. CASE s.command = "play"
    <2>1. t = Play(s, p, q) BY <1>10, SMT DEF Executed
    <2> QED BY <2>1, PlayEnds, Zenon DEF Ended
  <1>11. CASE s.command = "pause"
    <2>1. t = Pause(s) BY <1>11, SMT DEF Executed
    <2> QED BY <2>1, PauseEnds, Zenon DEF Ended
  <1>12. CASE s.command = "stop"
    <2>1. t = Stop(s) BY <1>12, SMT DEF Executed
    <2> QED BY <2>1, StopEnds, Zenon DEF Ended
  <1>13. CASE s.command = "init"
    <2>1. t = InitCommand(s, p) BY <1>13, SMT DEF Executed
    <2> QED BY <1>13, <2>1, InitCommandEnds, Zenon
  <1>14. CASE s.command = "motoron"
    <2>1. t = MotorOn(s) BY <1>14, SMT DEF Executed
    <2> QED BY <2>1, MotorOnEnds, Zenon DEF Ended
  <1> HIDE DEF t
  <1> QED BY <1>3, <1>4, <1>5, <1>6, <1>7, <1>8, <1>9, <1>10, <1>11, <1>12, <1>13, <1>14 DEF Command, t

-----------------------------------------------------------------------------
(* Interrupts *)

(* Sound but for the response FIFO.                                        *)
Nearly(s) ==
  /\ s \in Controller
  /\ ~s.failed => /\ EventOfDrive(s)
                  /\ EventOfSecond(s)
                  /\ EventOfCommand(s)
                  /\ EventOfAsync(s)

(* cdrom_update_command_event schedules or deschedules the command event   *)
(* and changes nothing else.                                               *)
LEMMA UpdateFields ==
  ASSUME NEW s \in Controller
  PROVE  LET t == UpdateCommandEvent(s) IN
         /\ t \in Controller
         /\ t.active = IF s.command = None \/ s.flag # 0 \/ s.pending # 0
                       THEN s.active \ {"command"} ELSE s.active \cup {"command"}
         /\ t.flag = s.flag /\ t.command = s.command /\ t.failed = s.failed
         /\ t.pending = s.pending /\ t.fifo = s.fifo
         /\ t.second = s.second /\ t.drive = s.drive /\ t.recent = s.recent
  <1> DEFINE f == Off(s, "command")
             n == On(s, "command")
  <1>1. "command" \in Events BY DEF Events
  <1>2. /\ f \in Controller /\ f.active = s.active \ {"command"}
        /\ n \in Controller /\ n.active = s.active \cup {"command"}
    BY <1>1, OffFields, Zenon
  <1>3. /\ f.flag = s.flag /\ f.command = s.command /\ f.failed = s.failed
        /\ f.pending = s.pending /\ f.fifo = s.fifo
        /\ f.second = s.second /\ f.drive = s.drive /\ f.recent = s.recent
        /\ n.flag = s.flag /\ n.command = s.command /\ n.failed = s.failed
        /\ n.pending = s.pending /\ n.fifo = s.fifo
        /\ n.second = s.second /\ n.drive = s.drive /\ n.recent = s.recent
    BY <1>1, OffFields, Zenon
  <1>4. UpdateCommandEvent(s) = IF s.command = None \/ s.flag # 0 \/ s.pending # 0 THEN f ELSE n
    BY Zenon DEF UpdateCommandEvent
  <1> HIDE DEF f, n
  <1> QED BY <1>2, <1>3, <1>4, Zenon

(* An interrupt that is delivered takes its response with it.              *)
LEMMA DeliverSound ==
  ASSUME NEW s, Nearly(s), s.flag = 0, s.pending # 0
  PROVE  LET t == Deliver(s) IN
         /\ Sound(t) /\ NoInterrupt(t)
         /\ t.flag = s.pending /\ t.command = s.command /\ t.failed = s.failed
         /\ t.second = s.second /\ t.drive = s.drive
  <1> DEFINE h == IF s.pending = DATA_READY THEN [s EXCEPT !.rbuf = s.wbuf, !.same = TRUE] ELSE s
             r == [h EXCEPT !.flag = s.pending, !.pending = 0, !.fifo = 0]
             f == Off(r, "async")
             t == UpdateCommandEvent(f)
  <1>1. s \in Controller /\ s.wbuf \in Buffer /\ s.pending \in 0..5
    BY Zenon DEF Nearly, Controller
  <1>2. Deliver(s) = t
    <2>1. CASE s.pending = DATA_READY BY <2>1, SMT DEF Deliver
    <2>2. CASE s.pending # DATA_READY BY <2>2, SMT DEF Deliver
    <2> QED BY <2>1, <2>2
  <1>3. /\ h \in Controller
        /\ h.command = s.command /\ h.failed = s.failed /\ h.second = s.second
        /\ h.drive = s.drive /\ h.active = s.active
    <2> DEFINE m == [s EXCEPT !.rbuf = s.wbuf, !.same = TRUE]
    <2>1. m \in Controller BY <1>1, Zenon DEF Controller
    <2>2. /\ m.command = s.command /\ m.failed = s.failed /\ m.second = s.second
          /\ m.drive = s.drive /\ m.active = s.active
      BY <1>1, Zenon DEF Controller
    <2>3. h \in {m, s} OBVIOUS
    <2> HIDE DEF h, m
    <2> QED BY <1>1, <2>1, <2>2, <2>3
  <1> HIDE DEF h
  <1>5. 0 \in 0..5 /\ 0 \in 0..2 /\ "async" \in Events BY SMT DEF Events
  <1>6. r \in Controller BY <1>1, <1>3, <1>5, Zenon DEF Controller
  <1>7. /\ r.command = h.command /\ r.failed = h.failed /\ r.second = h.second
        /\ r.drive = h.drive /\ r.active = h.active
        /\ r.flag = s.pending /\ r.pending = 0 /\ r.fifo = 0
    BY <1>3, Zenon DEF Controller
  <1> HIDE DEF r
  <1>8. /\ f \in Controller /\ f.active = r.active \ {"async"}
        /\ f.flag = r.flag /\ f.command = r.command /\ f.failed = r.failed
        /\ f.pending = r.pending /\ f.fifo = r.fifo
        /\ f.second = r.second /\ f.drive = r.drive
    BY <1>5, <1>6, OffFields, Zenon
  <1> HIDE DEF f
  <1>9. /\ t \in Controller
        /\ t.active = IF f.command = None \/ f.flag # 0 \/ f.pending # 0
                      THEN f.active \ {"command"} ELSE f.active \cup {"command"}
        /\ t.flag = f.flag /\ t.command = f.command /\ t.failed = f.failed
        /\ t.pending = f.pending /\ t.fifo = f.fifo
        /\ t.second = f.second /\ t.drive = f.drive
    BY <1>8, UpdateFields, Zenon
  <1> HIDE DEF t
  <1>10. t.active = s.active \ {"async", "command"}
    BY <1>3, <1>7, <1>8, <1>9, SMT
  <1>11. Sound(t)
    BY <1>3, <1>7, <1>8, <1>9, <1>10, SMT DEF Nearly, Sound, EventOfDrive, EventOfSecond,
       EventOfCommand, EventOfAsync, OneResponse
  <1>12. NoInterrupt(t)
    BY <1>7, <1>8, <1>9, <1>10, SMT DEF NoInterrupt
  <1> QED BY <1>2, <1>3, <1>7, <1>8, <1>9, <1>11, <1>12, Zenon

(* An interrupt that waits for its event.                                  *)
LEMMA OnAsyncSound ==
  ASSUME NEW s, Sound(s), s.pending # 0
  PROVE  LET t == On(s, "async") IN
         /\ Sound(t) /\ "async" \in t.active
         /\ ("command" \in t.active) <=> ("command" \in s.active)
         /\ t.flag = s.flag /\ t.command = s.command /\ t.failed = s.failed
         /\ t.pending = s.pending /\ t.second = s.second /\ t.drive = s.drive
  <1> DEFINE t == On(s, "async")
  <1>1. s \in Controller /\ "async" \in Events BY DEF Sound, Events
  <1>2. /\ t \in Controller /\ t.active = s.active \cup {"async"}
        /\ t.flag = s.flag /\ t.command = s.command /\ t.failed = s.failed
        /\ t.pending = s.pending /\ t.fifo = s.fifo
        /\ t.second = s.second /\ t.drive = s.drive
    BY <1>1, OffFields, Zenon
  <1> HIDE DEF t
  <1>3. Sound(t)
    BY <1>2, SMT DEF Sound, EventOfDrive, EventOfSecond, EventOfCommand, EventOfAsync, OneResponse
  <1>4. "async" \in t.active /\ (("command" \in t.active) <=> ("command" \in s.active))
    BY <1>2, SMT
  <1> QED BY <1>2, <1>3, <1>4, Zenon DEF t

(* An interrupt that is delivered now or when the distance to the last one *)
(* has passed: if it is still pending it has its event.                    *)
LEMMA QueueDeliverSound ==
  ASSUME NEW s, Sound(s), s.flag = 0, s.pending # 0
  PROVE  LET t == QueueDeliver(s) IN
         /\ Sound(t)
         /\ t.command = s.command /\ t.failed = s.failed
         /\ t.second = s.second /\ t.drive = s.drive
         /\ t.pending # 0 => "async" \in t.active /\ t.pending = s.pending
  <1>1. CASE s.recent
    <2>1. QueueDeliver(s) = On(s, "async") BY <1>1, Zenon DEF QueueDeliver
    <2> QED BY <2>1, OnAsyncSound, Zenon
  <1>2. CASE ~s.recent
    <2>1. QueueDeliver(s) = Deliver(s) BY <1>2, Zenon DEF QueueDeliver
    <2>2. Nearly(s) BY Zenon DEF Sound, Nearly
    <2> QED BY <2>1, <2>2, DeliverSound, Zenon DEF NoInterrupt
  <1> QED BY <1>1, <1>2

(* Without a command the drive may take an interrupt away or replace it.   *)
Unhurried(s) == s.command # None => Calm(s)

(* s before and u after a response was written.                            *)
Responded(s, u) ==
  /\ u \in Controller
  /\ u.flag = s.flag /\ u.command = s.command /\ u.failed = s.failed /\ u.active = s.active
  /\ u.pending = s.pending /\ u.second = s.second /\ u.drive = s.drive
  /\ ~s.failed /\ s.pending = 0 => u.fifo <= 1

(* A response alone disturbs the FIFO at most.                             *)
LEMMA RespondedNearly ==
  ASSUME NEW s, NEW u, Sound(s), Responded(s, u)
  PROVE  Nearly(u)
  BY SMT DEF Sound, Responded, Nearly, EventOfDrive, EventOfSecond, EventOfCommand, EventOfAsync

(* cdrom_set_async_interrupt: the interrupt is dropped as a repetition,    *)
(* stops the program at the Assert, waits, or is delivered, and then       *)
(* nothing is stuck that was not before.                                   *)
LEMMA SetAsyncSound ==
  ASSUME NEW s, NEW u, Sound(s), Responded(s, u), NEW interrupt \in 1..5
  PROVE  LET t == SetAsync(u, interrupt) IN
         /\ Sound(t)
         /\ t.command = s.command /\ t.second = s.second /\ t.drive = s.drive
         /\ s.failed => t.failed
         /\ Unhurried(s) => t.failed \/ Calm(t)
  <1> DEFINE t == SetAsync(u, interrupt)
  <1>1. u \in Controller /\ Nearly(u) BY RespondedNearly, Zenon DEF Responded
  <1>2. interrupt \in 0..5 /\ interrupt # 0 /\ 0 \in 0..2 BY SMT
  <1>3. CASE u.flag = interrupt
    <2> DEFINE v == [u EXCEPT !.fifo = 0]
    <2>1. t = v BY <1>3, Zenon DEF SetAsync
    <2>2. v \in Controller BY <1>1, <1>2, Zenon DEF Controller
    <2>3. /\ v.flag = u.flag /\ v.command = u.command /\ v.failed = u.failed /\ v.active = u.active
          /\ v.pending = u.pending /\ v.second = u.second /\ v.drive = u.drive /\ v.fifo = 0
      BY <1>1, Zenon DEF Controller
    <2> HIDE DEF t, v
    <2>4. Sound(v)
      BY <1>1, <2>2, <2>3, SMT DEF Sound, Nearly, EventOfDrive, EventOfSecond, EventOfCommand,
         EventOfAsync, OneResponse
    <2>5. Unhurried(s) => Calm(v)
      BY <1>2, <1>3, <2>3, Zenon DEF Unhurried, Calm, Responded
    <2> QED BY <2>1, <2>3, <2>4, <2>5, Zenon DEF t, Responded
  <1>4. CASE u.flag # interrupt /\ u.pending # 0
    <2> DEFINE v == [u EXCEPT !.failed = TRUE]
    <2>1. t = v BY <1>4, Zenon DEF SetAsync
    <2>2. v \in Controller BY <1>1, Zenon DEF Controller
    <2>3. /\ v.command = u.command /\ v.failed = TRUE
          /\ v.second = u.second /\ v.drive = u.drive
      BY <1>1, Zenon DEF Controller
    <2> HIDE DEF t, v
    <2>4. Sound(v) BY <2>2, <2>3, Zenon DEF Sound
    <2> QED BY <2>1, <2>3, <2>4, Zenon DEF t, Responded
  <1>5. CASE u.flag # interrupt /\ u.pending = 0
    <2> DEFINE p == [u EXCEPT !.pending = interrupt]
    <2>1. t = IF u.flag # 0 \/ u.command # None THEN p ELSE QueueDeliver(p)
      BY <1>5, Zenon DEF SetAsync
    <2>2. p \in Controller BY <1>1, <1>2, Zenon DEF Controller
    <2>3. /\ p.flag = u.flag /\ p.command = u.command /\ p.failed = u.failed /\ p.active = u.active
          /\ p.pending = interrupt /\ p.second = u.second /\ p.drive = u.drive /\ p.fifo = u.fifo
      BY <1>1, Zenon DEF Controller
    <2> HIDE DEF t, p
    <2>4. Sound(p)
      BY <1>1, <1>2, <1>5, <2>2, <2>3, SMT DEF Sound, Nearly, EventOfDrive, EventOfSecond,
         EventOfCommand, EventOfAsync, OneResponse, Responded
    <2>5. CASE u.flag # 0 \/ u.command # None
      <3>1. t = p BY <2>1, <2>5
      <3>2. Unhurried(s) => Calm(p)
        BY <2>3, <2>5, Zenon DEF Unhurried, Calm, Responded
      <3> QED BY <2>3, <2>4, <3>1, <3>2, Zenon DEF t, Responded
    <2>6. CASE u.flag = 0 /\ u.command = None
      <3> DEFINE q == QueueDeliver(p)
      <3>1. t = q BY <2>1, <2>6
      <3>2. /\ Sound(q) /\ q.command = p.command /\ q.failed = p.failed
            /\ q.second = p.second /\ q.drive = p.drive
            /\ q.pending # 0 => "async" \in q.active
        BY <1>2, <2>3, <2>4, <2>6, QueueDeliverSound, Zenon
      <3> HIDE DEF q
      <3>3. Calm(q) BY <2>3, <2>6, <3>2, Zenon DEF Calm
      <3> QED BY <2>3, <3>1, <3>2, <3>3, Zenon DEF t, Responded
    <2> QED BY <2>5, <2>6
  <1> QED BY <1>3, <1>4, <1>5

(* A response is one response, if none was there before.                   *)
LEMMA RespondResponds ==
  ASSUME NEW s, Sound(s)
  PROVE  Responded(s, Respond(s)) /\ Responded(s, RespondAfresh(s))
  <1> DEFINE n == IF s.fifo < 2 THEN s.fifo + 1 ELSE s.fifo
             r == [s EXCEPT !.fifo = n]
             a == [s EXCEPT !.fifo = 1]
  <1>1. s \in Controller BY DEF Sound
  <1>2. s.fifo \in 0..2 BY <1>1, Zenon DEF Controller
  <1>3. n \in 0..2 /\ 1 \in 0..2 /\ (~s.failed /\ s.pending = 0 => n <= 1)
    BY <1>2, SMT DEF Sound, OneResponse
  <1>4. Respond(s) = r /\ RespondAfresh(s) = a BY Zenon DEF Respond, RespondAfresh
  <1> HIDE DEF n
  <1>5. r \in Controller /\ a \in Controller BY <1>1, <1>3, Zenon DEF Controller
  <1>6. /\ r.flag = s.flag /\ r.command = s.command /\ r.failed = s.failed /\ r.active = s.active
        /\ r.pending = s.pending /\ r.second = s.second /\ r.drive = s.drive /\ r.fifo = n
    BY <1>1, Zenon DEF Controller
  <1>7. /\ a.flag = s.flag /\ a.command = s.command /\ a.failed = s.failed /\ a.active = s.active
        /\ a.pending = s.pending /\ a.second = s.second /\ a.drive = s.drive /\ a.fifo = 1
    BY <1>1, Zenon DEF Controller
  <1> HIDE DEF r, a
  <1>8. 1 <= 1 BY SMT
  <1> QED BY <1>3, <1>4, <1>5, <1>6, <1>7, <1>8, Zenon DEF Responded

(* t is s with an interrupt and its response.                              *)
Answers(s, t) ==
  /\ Sound(t)
  /\ t.command = s.command /\ t.second = s.second /\ t.drive = s.drive
  /\ s.failed => t.failed
  /\ Unhurried(s) => t.failed \/ Calm(t)

(* An interrupt together with its response.                                *)
LEMMA AnswersSound ==
  ASSUME NEW s, Sound(s), NEW interrupt \in 1..5
  PROVE  /\ Answers(s, SetAsync(Respond(s), interrupt))
         /\ Answers(s, SetAsync(RespondAfresh(s), interrupt))
  <1>1. ASSUME NEW u, Responded(s, u)
        PROVE  Answers(s, SetAsync(u, interrupt))
    BY <1>1, SetAsyncSound, Zenon DEF Answers
  <1>2. Responded(s, Respond(s)) /\ Responded(s, RespondAfresh(s)) BY RespondResponds
  <1> QED BY <1>1, <1>2, Zenon

-----------------------------------------------------------------------------
(* The callbacks *)

(* What a callback or the host keeps.                                      *)
Kept(s, t) == Sound(t) /\ (Calm(s) => t.failed \/ Calm(t))

(* What is kept is kept over a quiet function that follows.                *)
LEMMA QuietKept ==
  ASSUME NEW s, NEW t, NEW u, Kept(s, t), Sound(u), Quiet(t, u)
  PROVE  Kept(s, u)
  BY QuietIsCalm, Zenon DEF Kept, Quiet, SameCommand

(* A quiet function and then an interrupt.                                 *)
LEMMA AnswersKept ==
  ASSUME NEW s, NEW t, NEW u, Sound(t), Quiet(s, t), Answers(t, u)
  PROVE  Kept(s, u)
  BY QuietIsCalm, Zenon DEF Kept, Answers, Unhurried

(* A quiet function alone.                                                 *)
LEMMA QuietOnlyKept ==
  ASSUME NEW s, NEW t, Sound(t), Quiet(s, t)
  PROVE  Kept(s, t)
  BY QuietIsCalm, Zenon DEF Kept

(* Doing nothing is quiet.                                                 *)
LEMMA QuietSelf ==
  ASSUME NEW s
  PROVE  Quiet(s, s)
  BY Zenon DEF Quiet, SameCommand, SameInterrupt

(* The kinds of interrupts are in range.                                   *)
LEMMA Interrupts ==
  DATA_READY \in 1..5 /\ COMPLETE \in 1..5 /\ ACK \in 1..5 /\ DATA_END \in 1..5 /\ ERROR \in 1..5
  BY SMT DEF DATA_READY, COMPLETE, ACK, DATA_END, ERROR

(* cdrom_do_stat_second_response                                           *)
LEMMA DoStatAnswers ==
  ASSUME NEW s, Sound(s)
  PROVE  Answers(s, DoStat(s))
  BY Interrupts, AnswersSound, Zenon DEF DoStat, SendAsyncError

(* cdrom_execute_command_second_response, also where Init takes a command  *)
(* away.                                                                   *)
LEMMA SecondResponseKept ==
  ASSUME NEW s, Sound(s), NEW licensed \in BOOLEAN
  PROVE  Kept(s, SecondResponse(s, licensed))
  <1> DEFINE d == DoIdRead(s, licensed)
             e == EndCommand(s)
             i == DoStat(IF s.command = None THEN s ELSE e)
             o == DoStat(s)
  <1>1. SecondResponse(s, licensed) \in {ClearSecond(d), ClearSecond(i), ClearSecond(o)}
    <2>1. CASE s.second = "getid" BY <2>1, SMT DEF SecondResponse
    <2>2. CASE s.second = "init" BY <2>2, SMT DEF SecondResponse
    <2>3. CASE s.second # "getid" /\ s.second # "init" BY <2>3, SMT DEF SecondResponse
    <2> QED BY <2>1, <2>2, <2>3
  <1>2. Kept(s, o) BY DoStatAnswers, AnswersKept, QuietSelf, Zenon
  <1>3. Kept(s, i)
    <2>1. Sound(e) /\ e.command = None BY EndCommandSound
    <2> HIDE DEF e
    <2>2. Answers(e, DoStat(e)) BY <2>1, DoStatAnswers
    <2>3. Kept(s, DoStat(e)) BY <2>1, <2>2, Zenon DEF Kept, Answers, Unhurried
    <2> QED BY <1>2, <2>3
  <1>4. Kept(s, d)
    <2> DEFINE r == [s EXCEPT !.seeking = FALSE, !.motor = CanRead(s)]
               n == IF CanRead(s) /\ licensed THEN COMPLETE ELSE ERROR
    <2>1. CanRead(s) \in BOOLEAN BY Zenon DEF Sound, Controller, CanRead
    <2>2. Sound(r) /\ Quiet(s, r) BY <2>1, BitsSound, Zenon
    <2>3. n \in 1..5 BY Interrupts, Zenon
    <2>4. d = SetAsync(RespondAfresh(r), n) BY Zenon DEF DoIdRead
    <2> HIDE DEF r, n, d
    <2>5. Answers(r, d) BY <2>2, <2>3, <2>4, AnswersSound, Zenon
    <2> QED BY <2>2, <2>5, AnswersKept, Zenon
  <1> HIDE DEF d, e, i, o
  <1>5. ASSUME NEW t, Kept(s, t) PROVE Kept(s, ClearSecond(t))
    BY <1>5, ClearSecondSound, QuietKept, Zenon DEF Kept
  <1> QED BY <1>1, <1>2, <1>3, <1>4, <1>5, Zenon

(* cdrom_do_seek_complete                                                  *)
LEMMA SeekCompleteKept ==
  ASSUME NEW s, Sound(s), NEW ok \in BOOLEAN
  PROVE  Kept(s, SeekComplete(s, ok))
  <1> DEFINE c == ClearDrive(s)
             still == [c EXCEPT !.seeking = FALSE]
             e == SetAsync(Respond(still), ERROR)
             r == BeginReading(c, TRUE)
             p == BeginPlaying(c, FALSE)
             a == SetAsync(Respond(still), COMPLETE)
             Over(n) == [n EXCEPT !.setloc = FALSE, !.readAfter = FALSE, !.playAfter = FALSE]
  <1>1. SeekComplete(s, ok) \in {Over(e), Over(r), Over(p), Over(a)}
    BY Zenon DEF SeekComplete, SendAsyncError
  <1>2. Sound(c) /\ Quiet(s, c) BY ClearDriveSound
  <1> HIDE DEF c
  <1>3. Sound(still) /\ Quiet(c, still) BY <1>2, BitsSound, Zenon
  <1> HIDE DEF still
  <1>4. Quiet(s, still) BY <1>2, <1>3, QuietTwice, Zenon
  <1>5. Kept(s, e) /\ Kept(s, a) BY <1>3, <1>4, Interrupts, AnswersSound, AnswersKept, Zenon
  <1>6. Kept(s, r) BY <1>2, BeginReadingSound, QuietTwice, QuietOnlyKept, Zenon
  <1>7. Kept(s, p) BY <1>2, BeginPlayingSound, QuietTwice, QuietOnlyKept, Zenon
  <1> HIDE DEF e, r, p, a
  <1>8. ASSUME NEW n, Kept(s, n) PROVE Kept(s, Over(n))
    <2> DEFINE o == Over(n)
    <2>1. n \in Controller /\ Sound(n) BY <1>8, Zenon DEF Kept, Sound
    <2>2. o \in Controller BY <2>1, Zenon DEF Controller
    <2>3. SameCore(n, o) BY <2>1, Zenon DEF Controller, SameCore, SameCommand, SameInterrupt
    <2> HIDE DEF o
    <2> QED BY <1>8, <2>1, <2>2, <2>3, CoreIsSound, QuietKept, Zenon DEF o
  <1> HIDE DEF Over
  <1> QED BY <1>1, <1>5, <1>6, <1>7, <1>8, Zenon

(* Reading stops with an interrupt.                                        *)
LEMMA StopReadingKept ==
  ASSUME NEW s, Sound(s), NEW interrupt \in 1..5
  PROVE  Kept(s, StopReading(s, interrupt))
  <1> DEFINE a == ClearAsync(s)
             b == SetAsync(Respond(a), interrupt)
             m == [b EXCEPT !.seeking = FALSE]
             d == ClearDrive(m)
  <1>1. StopReading(s, interrupt) = d BY Zenon DEF StopReading
  <1>2. Sound(a) /\ Quiet(s, a) BY ClearAsyncSound
  <1> HIDE DEF a
  <1>3. Answers(a, b) BY <1>2, AnswersSound
  <1> HIDE DEF b
  <1>4. Kept(s, b) /\ Sound(b) BY <1>2, <1>3, AnswersKept, Zenon DEF Answers
  <1>5. Sound(m) /\ Quiet(b, m) BY <1>4, BitsSound, Zenon
  <1> HIDE DEF m
  <1>6. Kept(s, m) BY <1>4, <1>5, QuietKept, Zenon
  <1>7. Sound(d) /\ Quiet(m, d) BY <1>5, ClearDriveSound
  <1> HIDE DEF d
  <1> QED BY <1>1, <1>6, <1>7, QuietKept, Zenon

(* cdrom_process_data_sector                                               *)
LEMMA DataSectorKept ==
  ASSUME NEW s, Sound(s), NEW wraps \in BOOLEAN
  PROVE  Kept(s, DataSector(s, wraps))
  <1> DEFINE b == IF wraps THEN "unread" ELSE s.rbuf
             r == [s EXCEPT !.wbuf = "unread", !.same = wraps, !.rbuf = b]
             a == ClearAsync(r)
             t == SetAsync(Respond(a), DATA_READY)
  <1>1. DataSector(s, wraps) = t BY Zenon DEF DataSector
  <1>2. s \in Controller BY DEF Sound
  <1>3. b \in Buffer /\ "unread" \in Buffer BY <1>2, Zenon DEF Controller, Buffer
  <1> HIDE DEF b
  <1>4. r \in Controller BY <1>2, <1>3, Zenon DEF Controller
  <1>5. SameCore(s, r) BY <1>2, Zenon DEF Controller, SameCore, SameCommand, SameInterrupt
  <1> HIDE DEF r
  <1>6. Sound(r) /\ Quiet(s, r) BY <1>4, <1>5, CoreIsSound
  <1>7. Sound(a) /\ Quiet(r, a) BY <1>6, ClearAsyncSound
  <1> HIDE DEF a
  <1>8. Quiet(s, a) BY <1>6, <1>7, QuietTwice, Zenon
  <1>9. Answers(a, t) BY <1>7, Interrupts, AnswersSound
  <1> QED BY <1>1, <1>7, <1>8, <1>9, AnswersKept, Zenon

(* A quiet function before what is kept.                                   *)
LEMMA KeptAfterQuiet ==
  ASSUME NEW s, NEW t, NEW u, Quiet(s, t), Kept(t, u)
  PROVE  Kept(s, u)
  BY QuietIsCalm, Zenon DEF Kept

(* cdrom_do_sector_read, for every kind of sector.                         *)
LEMMA SectorReadKept ==
  ASSUME NEW s, Sound(s), NEW sector \in Sectors
  PROVE  Kept(s, SectorRead(s, sector))
  <1> DEFINE r == [s EXCEPT !.seeking = FALSE, !.motor = TRUE]
             t == SectorRead(s, sector)
  <1>1. Sound(r) /\ Quiet(s, r) BY BitsSound, Zenon
  <1>2. CASE sector = "bad"
    <2>1. t = StopReading(s, ERROR) BY <1>2, SMT DEF SectorRead
    <2> QED BY <2>1, Interrupts, StopReadingKept, Zenon
  <1>3. CASE sector = "leadout"
    <2> DEFINE u == StopReading(r, DATA_END)
    <2>1. t = StopMotor(u) BY <1>3, SMT DEF SectorRead
    <2> HIDE DEF r
    <2>2. Kept(r, u) BY <1>1, Interrupts, StopReadingKept, Zenon
    <2> HIDE DEF u
    <2>3. Kept(s, u) BY <1>1, <2>2, KeptAfterQuiet, Zenon
    <2> QED BY <2>1, <2>3, StopMotorSound, QuietKept, Zenon DEF Kept
  <1>4. CASE sector = "end"
    <2>1. t = StopReading(r, DATA_END) BY <1>4, SMT DEF SectorRead
    <2> HIDE DEF r, t
    <2>2. Kept(r, t) BY <1>1, <2>1, Interrupts, StopReadingKept, Zenon
    <2> QED BY <1>1, <2>2, KeptAfterQuiet, Zenon DEF t
  <1>5. CASE sector = "data"
    <2>1. t = DataSector(r, FALSE) BY <1>5, SMT DEF SectorRead
    <2> HIDE DEF r, t
    <2>2. Kept(r, t) BY <1>1, <2>1, DataSectorKept, Zenon
    <2> QED BY <1>1, <2>2, KeptAfterQuiet, Zenon DEF t
  <1>6. CASE sector = "wraps"
    <2>1. t = DataSector(r, TRUE) BY <1>6, SMT DEF SectorRead
    <2> HIDE DEF r, t
    <2>2. Kept(r, t) BY <1>1, <2>1, DataSectorKept, Zenon
    <2> QED BY <1>1, <2>2, KeptAfterQuiet, Zenon DEF t
  <1>7. CASE sector = "report"
    <2> DEFINE a == ClearAsync(r)
    <2>1. t = SetAsync(Respond(a), DATA_READY) BY <1>7, SMT DEF SectorRead
    <2> HIDE DEF r, t
    <2>2. Sound(a) /\ Quiet(r, a) BY <1>1, ClearAsyncSound
    <2> HIDE DEF a
    <2>3. Answers(a, t) BY <2>1, <2>2, Interrupts, AnswersSound, Zenon
    <2>4. Quiet(s, a) BY <1>1, <2>2, QuietTwice, Zenon
    <2> QED BY <2>2, <2>3, <2>4, AnswersKept, Zenon DEF t
  <1>8. CASE sector = "skip"
    <2>1. t = r BY <1>8, SMT DEF SectorRead
    <2> HIDE DEF r, t
    <2> QED BY <1>1, <2>1, QuietOnlyKept, Zenon DEF t
  <1> HIDE DEF t
  <1> QED BY <1>2, <1>3, <1>4, <1>5, <1>6, <1>7, <1>8 DEF Sectors, t

(* The other callbacks of the drive event.                                 *)
LEMMA DriveDoneKept ==
  ASSUME NEW s, Sound(s), NEW ok \in BOOLEAN
  PROVE  Kept(s, DriveDone(s, ok))
  <1> DEFINE c == ClearDrive(s)
             t == DriveDone(s, ok)
  <1>1. Sound(c) /\ Quiet(s, c) BY ClearDriveSound
  <1>2. Kept(s, c) BY <1>1, QuietOnlyKept
  <1>3. CASE s.drive \in {"seekLogical", "seekPhysical"}
    <2>1. t = SeekComplete(s, ok) BY <1>3, SMT DEF DriveDone
    <2> QED BY <2>1, SeekCompleteKept
  <1>4. CASE s.drive = "shell"
    <2>1. t \in {c, SetDrive(c, "spinup")} BY <1>4, SMT DEF DriveDone, StartMotor
    <2> HIDE DEF c
    <2>2. "spinup" \in Drives \ {"idle"} BY DEF Drives
    <2>3. Kept(s, SetDrive(c, "spinup")) BY <1>1, <1>2, <2>2, SetDriveSound, QuietKept, Zenon
    <2> HIDE DEF t
    <2> QED BY <1>2, <2>1, <2>3 DEF t
  <1>5. CASE s.drive = "session"
    <2> DEFINE m == [c EXCEPT !.seeking = FALSE, !.motor = TRUE, !.fifo = 0]
    <2>1. t = IF ok THEN SetAsync(Respond(m), COMPLETE) ELSE SetAsync(Respond(m), ERROR)
      BY <1>5, SMT DEF DriveDone, SendAsyncError
    <2> HIDE DEF c, t
    <2>2. c \in Controller /\ 0 \in 0..2 BY <1>1, SMT DEF Sound
    <2>3. m \in Controller BY <2>2, Zenon DEF Controller
    <2>4. /\ m.flag = c.flag /\ m.command = c.command /\ m.failed = c.failed /\ m.active = c.active
          /\ m.pending = c.pending /\ m.second = c.second /\ m.drive = c.drive /\ m.fifo = 0
      BY <2>2, Zenon DEF Controller
    <2> HIDE DEF m
    <2>5. Sound(m)
      BY <1>1, <2>3, <2>4, SMT DEF Sound, EventOfDrive, EventOfSecond, EventOfCommand, EventOfAsync,
         OneResponse
    <2>6. Calm(c) => Calm(m) BY <2>4, Zenon DEF Calm
    <2>7. Answers(m, t) BY <2>1, <2>5, Interrupts, AnswersSound, Zenon
    <2>8. Calm(s) => Calm(m) BY <1>1, <2>6, QuietIsCalm, Zenon
    <2> QED BY <2>7, <2>8, Zenon DEF Kept, Answers, Unhurried, t
  <1>6. CASE s.drive = "spinup"
    <2> DEFINE m == [c EXCEPT !.seeking = FALSE, !.motor = TRUE]
    <2>1. t = m BY <1>6, SMT DEF DriveDone
    <2> HIDE DEF c
    <2>2. Sound(m) /\ Quiet(c, m) BY <1>1, BitsSound, Zenon
    <2> HIDE DEF m, t
    <2> QED BY <1>2, <2>1, <2>2, QuietKept, Zenon DEF t
  <1>7. CASE s.drive \notin {"seekLogical", "seekPhysical", "shell", "session", "spinup"}
    <2>1. t = c BY <1>7, SMT DEF DriveDone
    <2> HIDE DEF c, t
    <2> QED BY <1>2, <2>1 DEF t
  <1> HIDE DEF t
  <1> QED BY <1>3, <1>4, <1>5, <1>6, <1>7 DEF t

-----------------------------------------------------------------------------
(* The host and the program *)

(* cdrom_remove_media, alone or as part of a change of the disc.           *)
LEMMA RemovedKept ==
  ASSUME NEW s, Sound(s), NEW swap \in BOOLEAN
  PROVE  Kept(s, Removed(s, swap))
  <1> DEFINE g == [s EXCEPT !.media = FALSE, !.motor = FALSE, !.seeking = FALSE]
             a == ClearDrive(g)
             b == ClearSecond(a)
             c == EndCommand(b)
             d == ClearAsync(c)
             e == SetAsync(Respond(d), ERROR)
  <1>1. Removed(s, swap) = IF swap THEN SetDrive(e, "shell") ELSE e
    BY Zenon DEF Removed, SendAsyncError
  <1>2. s \in Controller BY DEF Sound
  <1>3. g \in Controller BY <1>2, Zenon DEF Controller
  <1>4. SameCore(s, g) BY <1>2, Zenon DEF Controller, SameCore, SameCommand, SameInterrupt
  <1> HIDE DEF g
  <1>5. Sound(g) BY <1>3, <1>4, CoreIsSound
  <1>6. Sound(a) BY <1>5, ClearDriveSound
  <1> HIDE DEF a
  <1>7. Sound(b) BY <1>6, ClearSecondSound
  <1> HIDE DEF b
  <1>8. Sound(c) /\ c.command = None BY <1>7, EndCommandSound
  <1> HIDE DEF c
  <1>9. Sound(d) /\ d.command = None BY <1>8, ClearAsyncSound, Zenon DEF Quiet, SameCommand
  <1> HIDE DEF d
  <1>10. Answers(d, e) BY <1>9, Interrupts, AnswersSound
  <1>11. Kept(s, e) BY <1>9, <1>10, Zenon DEF Kept, Answers, Unhurried
  <1> HIDE DEF e
  <1>12. "shell" \in Drives \ {"idle"} BY DEF Drives
  <1>13. Kept(s, SetDrive(e, "shell")) BY <1>11, <1>12, SetDriveSound, QuietKept, Zenon DEF Kept
  <1> QED BY <1>1, <1>11, <1>13

(* After cdrom_update_command_event the command has its event exactly if   *)
(* nothing is in its way.                                                  *)
LEMMA UpdateSound ==
  ASSUME NEW s \in Controller,
         ~s.failed => /\ EventOfDrive(s) /\ EventOfSecond(s)
                      /\ EventOfAsync(s) /\ OneResponse(s)
  PROVE  LET t == UpdateCommandEvent(s) IN
         /\ Sound(t)
         /\ ("command" \in t.active) <=> ~(s.command = None \/ s.flag # 0 \/ s.pending # 0)
         /\ ("async" \in t.active) <=> ("async" \in s.active)
         /\ t.flag = s.flag /\ t.command = s.command /\ t.failed = s.failed
         /\ t.pending = s.pending /\ t.second = s.second
  <1> DEFINE t == UpdateCommandEvent(s)
             away == s.command = None \/ s.flag # 0 \/ s.pending # 0
  <1>1. /\ t \in Controller
        /\ t.active = IF away THEN s.active \ {"command"} ELSE s.active \cup {"command"}
        /\ t.flag = s.flag /\ t.command = s.command /\ t.failed = s.failed
        /\ t.pending = s.pending /\ t.fifo = s.fifo
        /\ t.second = s.second /\ t.drive = s.drive /\ t.recent = s.recent
    BY UpdateFields, Zenon
  <1> HIDE DEF t
  <1>2. CASE away
    <2>1. t.active = s.active \ {"command"} BY <1>1, <1>2, Zenon
    <2>2. Sound(t)
      BY <1>1, <2>1, SMT DEF Sound, EventOfDrive, EventOfSecond, EventOfCommand, EventOfAsync,
         OneResponse
    <2> QED BY <1>1, <1>2, <2>1, <2>2, SMT DEF t
  <1>3. CASE ~away
    <2>1. t.active = s.active \cup {"command"} BY <1>1, <1>3, Zenon
    <2>2. Sound(t)
      BY <1>1, <1>3, <2>1, SMT DEF Sound, EventOfDrive, EventOfSecond, EventOfCommand, EventOfAsync,
         OneResponse
    <2> QED BY <1>1, <1>3, <2>1, <2>2, SMT DEF t
  <1> QED BY <1>2, <1>3

(* The command event is taken away.                                        *)
LEMMA OffCommandSound ==
  ASSUME NEW s, Sound(s)
  PROVE  LET t == Off(s, "command") IN
         /\ Runs(t)
         /\ t.flag = s.flag /\ t.command = s.command /\ t.failed = s.failed
         /\ t.pending = s.pending /\ t.second = s.second
         /\ ("async" \in t.active) <=> ("async" \in s.active)
  <1> DEFINE t == Off(s, "command")
  <1>1. s \in Controller /\ "command" \in Events BY DEF Sound, Events
  <1>2. /\ t \in Controller /\ t.active = s.active \ {"command"}
        /\ t.flag = s.flag /\ t.command = s.command /\ t.failed = s.failed
        /\ t.pending = s.pending /\ t.fifo = s.fifo
        /\ t.second = s.second /\ t.drive = s.drive
    BY <1>1, OffFields, Zenon
  <1> HIDE DEF t
  <1>3. Runs(t)
    BY <1>2, SMT DEF Runs, Sound, EventOfDrive, EventOfSecond, EventOfCommand, EventOfAsync, OneResponse
  <1>4. ("async" \in t.active) <=> ("async" \in s.active) BY <1>2, SMT
  <1> QED BY <1>2, <1>3, <1>4, Zenon DEF t

-----------------------------------------------------------------------------
(* The actions *)

(* The haste ends with the controller at rest, which is Calm.              *)
LEMMA RunStep ==
  ASSUME NEW s, NEW now \in BOOLEAN, IndInv, Run(s, now), Sound(s),
         Calm(cd) /\ ~now => s.failed \/ Calm(s)
  PROVE  IndInv'
  <1>1. /\ cd' = s /\ ~cd.failed
        /\ hasty' = ((hasty \/ now) /\ ~(s.command = None /\ s.pending = 0))
    BY Zenon DEF Run
  <1>2. Sound(cd') BY <1>1
  <1>3. hasty' \in BOOLEAN BY <1>1, Zenon
  <1>4. s.command = None /\ s.pending = 0 => Calm(s) BY Zenon DEF Calm
  <1>5. ~s.failed => hasty' \/ Calm(s)
    BY <1>1, <1>4, Zenon DEF IndInv
  <1> HIDE DEF Run
  <1> QED
    <2>1. ~cd'.failed => hasty' \/ Calm(cd') BY <1>1, <1>5
    <2> QED BY <1>2, <1>3, <2>1 DEF IndInv, Sound, Calm, EventOfDrive, EventOfSecond, EventOfCommand, EventOfAsync, OneResponse

(* A step to a controller that keeps what the callbacks keep.              *)
LEMMA KeptStep ==
  ASSUME NEW s, NEW now \in BOOLEAN, IndInv, Run(s, now), Kept(cd, s)
  PROVE  IndInv'
  BY RunStep, Zenon DEF Kept

(* cdrom_begin_command: the command is refused, replaces another or is     *)
(* new, and an interrupt that waited for the old one is let go.            *)
LEMMA BeginCommandStep ==
  ASSUME IndInv, NEW c \in Command, BeginCommand(c)
  PROVE  IndInv'
  <1> DEFINE s == cd
             f == Off(s, "command")
             q == QueueDeliver(f)
             freed == IF s.command = None \/ "command" \notin s.active THEN s
                      ELSE IF s.pending = 0 THEN f ELSE q
             u == [freed EXCEPT !.command = c]
             o == On(u, "command")
             t == UpdateCommandEvent(o)
             refused == s.command # None /\ MinParameters(s.command) > MinParameters(c)
             now == s.flag # 0 \/ s.pending # 0 \/ (c = "init" /\ s.second = "init")
  <1>1. Run(IF refused THEN s ELSE t, now) BY Zenon DEF BeginCommand
  <1>2. Sound(s) /\ ~s.failed BY <1>1, Zenon DEF IndInv, Run
  <1>3. CASE refused
    <2>1. Run(cd, now) BY <1>1, <1>3
    <2>2. Kept(cd, cd) BY <1>2, Zenon DEF Kept
    <2> HIDE DEF now
    <2>3. now \in BOOLEAN BY Zenon DEF now
    <2> QED BY <2>1, <2>2, <2>3, KeptStep
  <1>4. CASE ~refused
    <2>1. /\ Sound(f) /\ f.flag = s.flag /\ f.command = s.command /\ f.failed = s.failed
          /\ f.pending = s.pending /\ f.second = s.second
          /\ ("async" \in f.active) <=> ("async" \in s.active)
      BY <1>2, OffCommandSound, Zenon DEF Runs
    <2>2. "command" \in s.active => s.flag = 0 BY <1>2, Zenon DEF Sound, EventOfCommand
    <2> HIDE DEF f
    <2>3. f.flag = 0 /\ f.pending # 0 => Sound(q) /\ q.second = f.second /\ q.failed = f.failed
      BY <2>1, QueueDeliverSound, Zenon
    <2> HIDE DEF q
    <2>4. Sound(freed) /\ freed.second = s.second /\ ~freed.failed
      BY <1>2, <2>1, <2>2, <2>3, Zenon
    <2>5. ~now => freed.flag = 0 /\ freed.pending = 0
      BY <2>1, Zenon
    <2> HIDE DEF freed
    <2>6. freed \in Controller /\ c \in Command \cup {None} /\ c # None /\ "command" \in Events
      BY <2>4 DEF Sound, Command, None, Events
    <2>7. u \in Controller BY <2>6, Zenon DEF Controller
    <2>8. /\ u.flag = freed.flag /\ u.command = c /\ u.failed = freed.failed /\ u.active = freed.active
          /\ u.pending = freed.pending /\ u.second = freed.second /\ u.drive = freed.drive
          /\ u.fifo = freed.fifo
      BY <2>6, Zenon DEF Controller
    <2> HIDE DEF u
    <2>9. /\ o \in Controller /\ o.active = u.active \cup {"command"}
          /\ o.flag = u.flag /\ o.command = u.command /\ o.failed = u.failed
          /\ o.pending = u.pending /\ o.fifo = u.fifo
          /\ o.second = u.second /\ o.drive = u.drive
      BY <2>6, <2>7, OffFields, Zenon
    <2> HIDE DEF o
    <2>10. /\ EventOfDrive(o) /\ EventOfSecond(o) /\ EventOfAsync(o) /\ OneResponse(o)
      BY <2>4, <2>8, <2>9, SMT DEF Sound, EventOfDrive, EventOfSecond, EventOfAsync, OneResponse
    <2>11. /\ Sound(t)
           /\ ("command" \in t.active) <=> ~(o.command = None \/ o.flag # 0 \/ o.pending # 0)
           /\ ("async" \in t.active) <=> ("async" \in o.active)
           /\ t.flag = o.flag /\ t.command = o.command /\ t.failed = o.failed
           /\ t.pending = o.pending /\ t.second = o.second
      BY <2>9, <2>10, UpdateSound, Zenon
    <2> HIDE DEF t
    <2>12. ~now => Calm(t)
      <3> SUFFICES ASSUME ~now PROVE Calm(t) OBVIOUS
      <3>1. t.flag = 0 /\ t.pending = 0 /\ t.command = c /\ t.second = s.second
        BY <2>4, <2>5, <2>8, <2>9, <2>11, Zenon
      <3>2. "command" \in t.active BY <2>6, <2>8, <2>9, <2>11, <3>1, Zenon
      <3>3. "async" \notin t.active
        BY <2>4, <2>8, <2>9, <2>11, <3>1, Zenon DEF Sound, EventOfAsync
      <3> QED BY <2>6, <3>1, <3>2, <3>3, Zenon DEF Calm
    <2>13. Run(t, now) BY <1>1, <1>4
    <2>14. now \in BOOLEAN BY Zenon
    <2> HIDE DEF now
    <2> QED BY <2>11, <2>12, <2>13, <2>14, RunStep, Zenon
  <1> QED BY <1>3, <1>4

(* cdrom_execute_command, with the wrong number of parameters or not.      *)
LEMMA ExecuteCommandStep ==
  ASSUME IndInv, ExecuteCommand
  PROVE  IndInv'
  <1>1. Sound(cd) /\ "command" \in cd.active BY DEF IndInv, ExecuteCommand
  <1>2. CASE Run(EndCommand(SendError(cd)), FALSE)
    <2> DEFINE a == [cd EXCEPT !.flag = ERROR]
               r == [a EXCEPT !.command = None]
               t == Off(r, "command")
    <2>1. EndCommand(SendError(cd)) = t BY Zenon DEF EndCommand, SendError
    <2>2. cd \in Controller /\ ERROR \in 0..5 /\ ERROR # 0 /\ "command" \in Events
      BY <1>1, SMT DEF Sound, ERROR, Events
    <2>3. a \in Controller BY <2>2, Zenon DEF Controller
    <2>4. /\ a.flag = ERROR /\ a.failed = cd.failed /\ a.active = cd.active
          /\ a.pending = cd.pending /\ a.second = cd.second /\ a.drive = cd.drive
          /\ a.fifo = cd.fifo
      BY <2>2, Zenon DEF Controller
    <2> HIDE DEF a
    <2>5. r \in Controller BY <2>3, Zenon DEF Controller
    <2>6. /\ r.flag = a.flag /\ r.command = None /\ r.failed = a.failed /\ r.active = a.active
          /\ r.pending = a.pending /\ r.second = a.second /\ r.drive = a.drive
          /\ r.fifo = a.fifo
      BY <2>3, Zenon DEF Controller
    <2> HIDE DEF r
    <2>7. /\ t \in Controller /\ t.active = r.active \ {"command"}
          /\ t.flag = r.flag /\ t.command = r.command /\ t.failed = r.failed
          /\ t.pending = r.pending /\ t.fifo = r.fifo
          /\ t.second = r.second /\ t.drive = r.drive
      BY <2>2, <2>5, OffFields, Zenon
    <2> HIDE DEF t
    <2>8. Sound(t)
      BY <1>1, <2>4, <2>6, <2>7, SMT DEF Sound, EventOfDrive, EventOfSecond, EventOfCommand,
         EventOfAsync, OneResponse
    <2>9. Calm(t) BY <2>2, <2>4, <2>6, <2>7, Zenon DEF Calm
    <2> QED BY <1>2, <2>1, <2>8, <2>9, RunStep, Zenon
  <1>3. ASSUME NEW p \in BOOLEAN, NEW q \in BOOLEAN, Run(Executed(Off(cd, "command"), p, q), FALSE)
        PROVE  IndInv'
    <2> DEFINE f == Off(cd, "command")
               t == Executed(f, p, q)
    <2>1. Run(t, FALSE) BY <1>3
    <2>2. ~cd.failed BY <2>1, Zenon DEF Run
    <2>3. Runs(f) /\ f.command = cd.command /\ f.second = cd.second
      BY <1>1, OffCommandSound, Zenon
    <2>4. cd.command \in Command
      <3>1. cd.command \in Command \cup {None} BY <1>1, Zenon DEF Sound, Controller
      <3>2. cd.command # None BY <1>1, <2>2, Zenon DEF Sound, EventOfCommand
      <3> QED BY <3>1, <3>2
    <2> HIDE DEF f
    <2>5. Sound(t) /\ (~(f.command = "init" /\ f.second = "init") => Calm(t))
      BY <2>3, <2>4, ExecutedEnds, Zenon
    <2> HIDE DEF t
    <2>6. Calm(cd) => Calm(t)
      BY <2>3, <2>4, <2>5, Zenon DEF Calm, Command, None
    <2> QED BY <2>1, <2>5, <2>6, RunStep, Zenon
  <1> QED BY <1>2, <1>3, Zenon DEF ExecuteCommand

(* The callback of the second response event.                              *)
LEMMA ExecuteSecondResponseStep ==
  ASSUME IndInv, ExecuteSecondResponse
  PROVE  IndInv'
  <1>1. PICK licensed \in BOOLEAN : Run(SecondResponse(cd, licensed), FALSE)
    BY DEF ExecuteSecondResponse
  <1>2. Kept(cd, SecondResponse(cd, licensed)) BY SecondResponseKept DEF IndInv
  <1> QED BY <1>1, <1>2, KeptStep, Zenon

(* The callback of the drive event.                                        *)
LEMMA ExecuteDriveStep ==
  ASSUME IndInv, ExecuteDrive
  PROVE  IndInv'
  <1>1. Sound(cd) BY DEF IndInv
  <1>2. CASE IsReading(cd)
    <2>1. PICK sector \in Sectors : Run(SectorRead(cd, sector), FALSE)
      BY <1>2, Zenon DEF ExecuteDrive
    <2>2. Kept(cd, SectorRead(cd, sector)) BY <1>1, SectorReadKept
    <2> QED BY <2>1, <2>2, KeptStep, Zenon
  <1>3. CASE ~IsReading(cd)
    <2>1. PICK ok \in BOOLEAN : Run(DriveDone(cd, ok), FALSE)
      BY <1>3, Zenon DEF ExecuteDrive
    <2>2. Kept(cd, DriveDone(cd, ok)) BY <1>1, DriveDoneKept
    <2> QED BY <2>1, <2>2, KeptStep, Zenon
  <1> QED BY <1>2, <1>3

(* The callback of the async interrupt event finds an interrupt.           *)
LEMMA DeliverAsyncStep ==
  ASSUME IndInv, DeliverAsync
  PROVE  IndInv'
  <1> DEFINE t == Deliver(cd)
  <1>1. Sound(cd) /\ "async" \in cd.active /\ Run(t, FALSE) BY DEF IndInv, DeliverAsync
  <1>2. ~cd.failed BY <1>1, Zenon DEF Run
  <1>3. cd.pending # 0 BY <1>1, <1>2, Zenon DEF Sound, EventOfAsync
  <1>4. CASE cd.flag # 0
    <2>1. t = On(cd, "async") BY <1>4, Zenon DEF Deliver
    <2>2. Sound(t) BY <1>1, <1>3, <2>1, OnAsyncSound, Zenon
    <2>3. Calm(cd) => Calm(t) BY <1>1, <1>3, <2>1, OnAsyncSound, Zenon DEF Calm
    <2> QED BY <1>1, <2>2, <2>3, RunStep, Zenon
  <1>5. CASE cd.flag = 0
    <2>1. Nearly(cd) BY <1>1, Zenon DEF Sound, Nearly
    <2>2. Sound(t) /\ NoInterrupt(t) /\ t.command = cd.command
      BY <1>3, <1>5, <2>1, DeliverSound, Zenon
    <2> HIDE DEF t
    <2>3. Calm(cd) => Calm(t) BY <1>1, <2>2, Zenon DEF Calm, NoInterrupt
    <2> QED BY <1>1, <2>2, <2>3, RunStep, Zenon
  <1> QED BY <1>4, <1>5

(* An acknowledgement: if nothing was hasty no command was held up.        *)
LEMMA AcknowledgeStep ==
  ASSUME IndInv, Acknowledge
  PROVE  IndInv'
  <1> DEFINE s == [cd EXCEPT !.flag = 0, !.recent = TRUE]
             t == IF s.pending # 0 /\ s.command = None THEN QueueDeliver(s) ELSE UpdateCommandEvent(s)
  <1>1. Sound(cd) /\ cd.flag # 0 /\ Run(t, FALSE) BY Zenon DEF IndInv, Acknowledge
  <1>2. ~cd.failed BY <1>1, Zenon DEF Run
  <1>3. cd \in Controller /\ 0 \in 0..5 BY <1>1, SMT DEF Sound
  <1>4. s \in Controller BY <1>3, Zenon DEF Controller
  <1>5. /\ s.flag = 0 /\ s.command = cd.command /\ s.failed = cd.failed /\ s.active = cd.active
        /\ s.pending = cd.pending /\ s.second = cd.second /\ s.drive = cd.drive
        /\ s.fifo = cd.fifo
    BY <1>3, Zenon DEF Controller
  <1> HIDE DEF s
  <1>6. "command" \notin s.active BY <1>1, <1>2, <1>5, Zenon DEF Sound, EventOfCommand
  <1>7. Sound(s)
    BY <1>1, <1>4, <1>5, <1>6, SMT DEF Sound, EventOfDrive, EventOfSecond, EventOfCommand,
       EventOfAsync, OneResponse
  <1>8. Calm(cd) => cd.command = None BY <1>1, Zenon DEF Calm
  <1>9. CASE s.pending # 0 /\ s.command = None
    <2> DEFINE q == QueueDeliver(s)
    <2>1. Sound(q) /\ q.command = s.command /\ (q.pending # 0 => "async" \in q.active)
      BY <1>5, <1>7, <1>9, QueueDeliverSound, Zenon
    <2>2. t = q BY <1>9
    <2> HIDE DEF q
    <2>3. Calm(q) BY <1>9, <2>1, Zenon DEF Calm
    <2> QED BY <1>1, <2>1, <2>2, <2>3, RunStep, Zenon
  <1>10. CASE ~(s.pending # 0 /\ s.command = None)
    <2> DEFINE q == UpdateCommandEvent(s)
    <2>1. Sound(q) /\ q.command = s.command /\ q.pending = s.pending
      BY <1>4, <1>7, UpdateSound, Zenon DEF Sound
    <2>2. t = q BY <1>10
    <2> HIDE DEF q
    <2>3. Calm(cd) => Calm(q) BY <1>5, <1>8, <1>10, <2>1, Zenon DEF Calm
    <2> QED BY <1>1, <2>1, <2>2, <2>3, RunStep, Zenon
  <1> QED BY <1>9, <1>10

(* The distance of interrupts passes.                                      *)
LEMMA ElapseStep ==
  ASSUME IndInv, Elapse
  PROVE  IndInv'
  <1> DEFINE t == [cd EXCEPT !.recent = FALSE]
  <1>1. Sound(cd) /\ Run(t, FALSE) /\ cd \in Controller BY Zenon DEF IndInv, Elapse, Sound
  <1>2. t \in Controller BY <1>1, Zenon DEF Controller
  <1>3. SameCore(cd, t) BY <1>1, Zenon DEF Controller, SameCore, SameCommand, SameInterrupt
  <1> HIDE DEF t
  <1> QED BY <1>1, <1>2, <1>3, CoreIsSound, QuietOnlyKept, KeptStep, Zenon

(* The buffer is taken back.                                               *)
LEMMA RewindStep ==
  ASSUME IndInv, Rewind
  PROVE  IndInv'
  <1> DEFINE w == IF cd.same THEN "unread" ELSE cd.wbuf
             t == [cd EXCEPT !.rbuf = "unread", !.wbuf = w]
  <1>1. Sound(cd) /\ Run(t, FALSE) /\ cd \in Controller BY Zenon DEF IndInv, Rewind, Sound
  <1>2. w \in Buffer /\ "unread" \in Buffer BY <1>1, Zenon DEF Controller, Buffer
  <1> HIDE DEF w
  <1>3. t \in Controller BY <1>1, <1>2, Zenon DEF Controller
  <1>4. SameCore(cd, t) BY <1>1, Zenon DEF Controller, SameCore, SameCommand, SameInterrupt
  <1> HIDE DEF t
  <1> QED BY <1>1, <1>3, <1>4, CoreIsSound, QuietOnlyKept, KeptStep, Zenon

(* A buffer is read, and a sector that was missed announced again.         *)
LEMMA ReadDataStep ==
  ASSUME IndInv, NEW amount \in {"none", "some", "all"}, ReadData(amount)
  PROVE  IndInv'
  <1> DEFINE left == IF amount = "none" \/ cd.rbuf = "empty" THEN cd.rbuf
                     ELSE IF amount = "all" THEN "empty" ELSE "part"
             b == IF cd.same THEN left ELSE cd.wbuf
             w == [cd EXCEPT !.rbuf = left, !.wbuf = b]
             s == CheckReadComplete(w)
             now == s.command # None /\ s.pending # cd.pending
  <1>1. Sound(cd) /\ Run(s, now) /\ cd \in Controller BY Zenon DEF IndInv, ReadData, Sound
  <1>2. left \in Buffer BY <1>1, Zenon DEF Controller, Buffer
  <1> HIDE DEF left
  <1>3. b \in Buffer BY <1>1, <1>2, Zenon DEF Controller
  <1> HIDE DEF b
  <1>4. w \in Controller BY <1>1, <1>2, <1>3, Zenon DEF Controller
  <1>5. SameCore(cd, w) BY <1>1, Zenon DEF Controller, SameCore, SameCommand, SameInterrupt
  <1> HIDE DEF w
  <1>6. Sound(w) /\ Quiet(cd, w) BY <1>1, <1>4, <1>5, CoreIsSound
  <1>7. now \in BOOLEAN BY Zenon
  <1>8. CASE ~(w.wbuf = "unread" /\ w.pending = 0 /\ w.drive = "reading")
    <2>1. s = w BY <1>8, Zenon DEF CheckReadComplete
    <2>2. Kept(cd, w) BY <1>6, QuietOnlyKept
    <2> HIDE DEF s, now
    <2> QED BY <1>1, <1>7, <2>1, <2>2, KeptStep
  <1>9. CASE w.wbuf = "unread" /\ w.pending = 0 /\ w.drive = "reading"
    <2> DEFINE p == [w EXCEPT !.pending = DATA_READY]
               r == Respond(p)
               t == On(r, "async")
    <2>1. s = t BY <1>9, Zenon DEF CheckReadComplete
    <2>2. DATA_READY \in 0..5 /\ DATA_READY # 0 BY SMT DEF DATA_READY
    <2>3. p \in Controller BY <1>4, <2>2, Zenon DEF Controller
    <2>4. /\ p.flag = w.flag /\ p.command = w.command /\ p.failed = w.failed /\ p.active = w.active
          /\ p.pending = DATA_READY /\ p.second = w.second /\ p.drive = w.drive /\ p.fifo = w.fifo
      BY <1>4, Zenon DEF Controller
    <2> HIDE DEF p
    <2>5. ~w.failed => w.fifo = 0 BY <1>4, <1>6, <1>9, SMT DEF Sound, OneResponse, Controller
    <2>6. Sound(p)
      BY <1>6, <2>2, <2>3, <2>4, <2>5, SMT DEF Sound, EventOfDrive, EventOfSecond,
         EventOfCommand, EventOfAsync, OneResponse
    <2>7. Responded(p, r) BY <2>6, RespondResponds
    <2>8. ~w.failed => r.fifo = 1
      <3>1. r = [p EXCEPT !.fifo = IF p.fifo < 2 THEN p.fifo + 1 ELSE p.fifo] BY Zenon DEF Respond
      <3>2. r.fifo = IF p.fifo < 2 THEN p.fifo + 1 ELSE p.fifo
        BY <2>3, <3>1, Zenon DEF Controller
      <3> QED BY <2>4, <2>5, <3>2, SMT
    <2> HIDE DEF r
    <2>9. Sound(r)
      BY <2>2, <2>4, <2>6, <2>7, <2>8, SMT DEF Responded, Sound, EventOfDrive, EventOfSecond,
         EventOfCommand, EventOfAsync, OneResponse
    <2>10. r.pending # 0 /\ r.command = w.command /\ r.pending = DATA_READY
      BY <2>2, <2>4, <2>7, Zenon DEF Responded
    <2>11. Sound(t) /\ "async" \in t.active /\ t.command = w.command /\ t.pending = DATA_READY
      BY <2>9, <2>10, OnAsyncSound, Zenon
    <2> HIDE DEF t
    <2>12. ~now => t.command = None
      BY <1>5, <1>9, <2>1, <2>2, <2>11, Zenon DEF SameCore, SameInterrupt
    <2>13. ~now => Calm(t) BY <2>11, <2>12, Zenon DEF Calm
    <2> HIDE DEF s, now
    <2> QED BY <1>1, <1>7, <2>1, <2>11, <2>13, RunStep
  <1> QED BY <1>8, <1>9

(* The disc is taken out.                                                  *)
LEMMA RemoveMediaStep ==
  ASSUME IndInv, RemoveMedia
  PROVE  IndInv'
  <1>1. Sound(cd) /\ Run(Removed(cd, FALSE), FALSE) BY DEF IndInv, RemoveMedia
  <1>2. Kept(cd, Removed(cd, FALSE)) BY <1>1, RemovedKept
  <1> QED BY <1>1, <1>2, KeptStep

(* A disc is put in.                                                       *)
LEMMA InsertMediaStep ==
  ASSUME IndInv, InsertMedia
  PROVE  IndInv'
  <1> DEFINE s == IF CanRead(cd) THEN Removed(cd, TRUE) ELSE cd
             m == [s EXCEPT !.media = TRUE]
             t == IF s.drive = "shell" THEN m ELSE SetDrive(m, "spinup")
  <1>1. Sound(cd) /\ Run(t, FALSE) BY Zenon DEF IndInv, InsertMedia, StartMotor
  <1>2. Kept(cd, s)
    <2>1. Kept(cd, Removed(cd, TRUE)) BY <1>1, RemovedKept
    <2>2. Kept(cd, cd) BY <1>1, Zenon DEF Kept
    <2> QED BY <2>1, <2>2
  <1> HIDE DEF s
  <1>3. s \in Controller /\ Sound(s) BY <1>2, Zenon DEF Kept, Sound
  <1>4. m \in Controller BY <1>3, Zenon DEF Controller
  <1>5. SameCore(s, m) BY <1>3, Zenon DEF Controller, SameCore, SameCommand, SameInterrupt
  <1> HIDE DEF m
  <1>6. Sound(m) /\ Quiet(s, m) BY <1>3, <1>4, <1>5, CoreIsSound
  <1>7. Kept(cd, m) BY <1>2, <1>6, QuietKept, Zenon
  <1>8. "spinup" \in Drives \ {"idle"} BY DEF Drives
  <1>9. Kept(cd, SetDrive(m, "spinup")) BY <1>6, <1>7, <1>8, SetDriveSound, QuietKept, Zenon
  <1>10. Kept(cd, t) BY <1>7, <1>9
  <1> HIDE DEF t
  <1> QED BY <1>1, <1>10, KeptStep

(* The controller at power on.                                             *)
LEMMA PowerOnSound ==
  Sound(PowerOn) /\ Calm(PowerOn) /\ PowerOn \in Controller
  <1>1. PowerOn \in Controller
    BY SMT DEF PowerOn, Controller, Drives, Events, Buffer, Command, None
  <1>2. /\ PowerOn.command = None /\ PowerOn.second = None /\ PowerOn.drive = "idle"
        /\ PowerOn.active = {} /\ PowerOn.flag = 0 /\ PowerOn.pending = 0 /\ PowerOn.fifo = 0
    BY Zenon DEF PowerOn
  <1>3. Sound(PowerOn)
    BY <1>1, <1>2, SMT DEF Sound, EventOfDrive, EventOfSecond, EventOfCommand, EventOfAsync, OneResponse
  <1>4. Calm(PowerOn) BY <1>2, Zenon DEF Calm
  <1> QED BY <1>1, <1>3, <1>4

(* The machine is reset.                                                   *)
LEMMA ResetStep ==
  ASSUME IndInv, Reset
  PROVE  IndInv'
  <1> DEFINE t == [PowerOn EXCEPT !.media = cd.media, !.motor = cd.media]
  <1>1. Run(t, FALSE) /\ cd.media \in BOOLEAN BY Zenon DEF Reset, IndInv, Sound, Controller
  <1>2. PowerOn \in Controller /\ Sound(PowerOn) /\ Calm(PowerOn) BY PowerOnSound
  <1>3. t \in Controller BY <1>1, <1>2, Zenon DEF Controller
  <1>4. SameCore(PowerOn, t)
    BY <1>2, Zenon DEF Controller, SameCore, SameCommand, SameInterrupt
  <1> HIDE DEF t
  <1>5. Sound(t) /\ Calm(t) BY <1>2, <1>3, <1>4, CoreIsSound, QuietIsCalm, Zenon
  <1> QED BY <1>1, <1>5, RunStep, Zenon

(* A state is loaded.                                                      *)
LEMMA SaveAndLoadStep ==
  ASSUME IndInv, NEW async \in {"same", "off"}, SaveAndLoad(async)
  PROVE  IndInv'
  <1> DEFINE s == UpdateCommandEvent(cd)
             f == Off(s, "async")
             t == IF async = "same" THEN s ELSE f
             now == cd.pending # 0
  <1>1. Run(t, now)
    <2>1. CASE async = "same" BY <2>1, SMT DEF SaveAndLoad
    <2>2. CASE async = "off" BY <2>2, SMT DEF SaveAndLoad
    <2> QED BY <2>1, <2>2
  <1>2. Sound(cd) /\ cd \in Controller BY Zenon DEF IndInv, Sound
  <1>3. /\ Sound(s)
        /\ ("command" \in s.active) <=> ~(cd.command = None \/ cd.flag # 0 \/ cd.pending # 0)
        /\ ("async" \in s.active) <=> ("async" \in cd.active)
        /\ s.flag = cd.flag /\ s.command = cd.command /\ s.failed = cd.failed
        /\ s.pending = cd.pending /\ s.second = cd.second
    BY <1>2, UpdateSound, Zenon DEF Sound
  <1> HIDE DEF s
  <1>4. s \in Controller /\ "async" \in Events BY <1>3 DEF Sound, Events
  <1>5. /\ f \in Controller /\ f.active = s.active \ {"async"}
        /\ f.flag = s.flag /\ f.command = s.command /\ f.failed = s.failed
        /\ f.pending = s.pending /\ f.fifo = s.fifo
        /\ f.second = s.second /\ f.drive = s.drive
    BY <1>4, OffFields, Zenon
  <1> HIDE DEF f
  <1>6. Sound(f)
    BY <1>3, <1>5, SMT DEF Sound, EventOfDrive, EventOfSecond, EventOfCommand, EventOfAsync, OneResponse
  <1>7. Calm(cd) /\ ~now => Calm(s) BY <1>3, Zenon DEF Calm
  <1>8. ("command" \in f.active) <=> ("command" \in s.active) BY <1>5, SMT
  <1>9. "async" \notin f.active BY <1>5, SMT
  <1>10. Calm(cd) /\ ~now => Calm(f) BY <1>3, <1>5, <1>7, <1>8, <1>9, Zenon DEF Calm
  <1>11. Sound(t) /\ (Calm(cd) /\ ~now => Calm(t)) BY <1>3, <1>6, <1>7, <1>10
  <1>12. now \in BOOLEAN BY Zenon
  <1> HIDE DEF t, now
  <1> QED BY <1>1, <1>11, <1>12, RunStep, Zenon

-----------------------------------------------------------------------------
(* The theorems *)

(* The invariant holds at first,                                           *)
LEMMA InitIndInv ==
  ASSUME Init
  PROVE  IndInv
  BY PowerOnSound, Zenon DEF Init, IndInv

(* over a stutter,                                                         *)
LEMMA StutterStep ==
  ASSUME IndInv, UNCHANGED vars
  PROVE  IndInv'
  BY DEF vars, IndInv, Sound, Calm, EventOfDrive, EventOfSecond, EventOfCommand, EventOfAsync, OneResponse

(* and over every step.                                                    *)
LEMMA NextStep ==
  ASSUME "on" \notin Loads, IndInv, [Next]_vars
  PROVE  IndInv'
  <1>1. ASSUME NEW c \in Commands, BeginCommand(c) PROVE IndInv'
    BY <1>1, BeginCommandStep, CdromAssumption DEF CdromAssumption
  <1>2. ASSUME NEW amount \in {"none", "some", "all"}, ReadData(amount) PROVE IndInv'
    BY <1>2, ReadDataStep
  <1>3. CASE Rewind BY <1>3, RewindStep
  <1>4. CASE Acknowledge BY <1>4, AcknowledgeStep
  <1>5. CASE ExecuteCommand BY <1>5, ExecuteCommandStep
  <1>6. CASE ExecuteSecondResponse BY <1>6, ExecuteSecondResponseStep
  <1>7. CASE ExecuteDrive BY <1>7, ExecuteDriveStep
  <1>8. CASE DeliverAsync BY <1>8, DeliverAsyncStep
  <1>9. CASE Elapse BY <1>9, ElapseStep
  <1>10. CASE RemoveMedia BY <1>10, RemoveMediaStep
  <1>11. CASE InsertMedia BY <1>11, InsertMediaStep
  <1>12. CASE Reset BY <1>12, ResetStep
  <1>13. ASSUME NEW async \in Loads, SaveAndLoad(async) PROVE IndInv'
    <2>1. async \in {"same", "off"} BY CdromAssumption DEF CdromAssumption
    <2> QED BY <1>13, <2>1, SaveAndLoadStep
  <1>14. CASE UNCHANGED vars BY <1>14, StutterStep
  <1> QED
    BY <1>1, <1>2, <1>3, <1>4, <1>5, <1>6, <1>7, <1>8, <1>9, <1>10, <1>11, <1>12, <1>13, <1>14, Zenon
    DEF Next, Program, Scheduler, Host

(* The inductive invariant is an invariant.                                *)
LEMMA IndInvIsInvariant ==
  ASSUME "on" \notin Loads
  PROVE  Spec => []IndInv
  <1>1. Init => IndInv BY InitIndInv
  <1>2. IndInv /\ [Next]_vars => IndInv' BY NextStep
  <1> QED BY <1>1, <1>2, PTL DEF Spec

(* It implies the properties of the runs.                                  *)
LEMMA IndInvAgrees ==
  ASSUME IndInv
  PROVE  EventsAndResponsesAgree /\ OnlyHasteSticks
  <1>1. TypeOK BY Zenon DEF IndInv, Sound, TypeOK
  <1>2. EventsFollowState BY Zenon DEF IndInv, Sound, EventsFollowState, Running, EventOfDrive, EventOfSecond
  <1>3. CommandsWait BY Zenon DEF IndInv, Sound, CommandsWait, Running, EventOfCommand, Calm
  <1>4. DeliveryHasInterrupt BY Zenon DEF IndInv, Sound, DeliveryHasInterrupt, Running, EventOfAsync
  <1>5. ResponseIsPending BY Zenon DEF IndInv, Sound, ResponseIsPending, Running, OneResponse
  <1>6. OnlyHasteSticks BY Zenon DEF IndInv, Sound, OnlyHasteSticks, Stuck, Running, Calm
  <1> QED BY <1>1, <1>2, <1>3, <1>4, <1>5, <1>6 DEF EventsAndResponsesAgree

(* Type correctness.                                                       *)
THEOREM TypeCorrect == ASSUME "on" \notin Loads PROVE Spec => []TypeOK
  <1>1. IndInv => TypeOK BY IndInvAgrees DEF EventsAndResponsesAgree
  <1> QED BY <1>1, IndInvIsInvariant, PTL

(* The four events, the interrupts and the responses belong together,      *)
(* whatever the program writes and whenever the drive, the disc and the    *)
(* host come in between: the drive and the second response have their      *)
(* event exactly while they have something to do, a command runs only when *)
(* the last interrupt has been acknowledged, the delivery event has an     *)
(* interrupt to deliver (the Assert of cdrom_deliver_async_interrupt), and *)
(* the response FIFO holds the response of the pending interrupt only.     *)
THEOREM Agreement == ASSUME "on" \notin Loads PROVE Spec => []EventsAndResponsesAgree
  <1>1. IndInv => EventsAndResponsesAgree BY IndInvAgrees
  <1> QED BY <1>1, IndInvIsInvariant, PTL

(* An interrupt is stuck, with nothing left that would deliver it, only    *)
(* after the program was hasty or a state was loaded at the wrong time.    *)
THEOREM Unstuck == ASSUME "on" \notin Loads PROVE Spec => []OnlyHasteSticks
  <1>1. IndInv => OnlyHasteSticks BY IndInvAgrees
  <1> QED BY <1>1, IndInvIsInvariant, PTL
==============================================================================
