------------------------- MODULE PadPort_proofs -------------------------
(***************************************************************************)
(* Proofs about the controller and memory card port: PortAndDevicesAgree   *)
(* and WrittenIsKept are invariants for any bytes the program sends, any   *)
(* number of slots of the multitap and any length of its exchanges that a  *)
(* controller's answer fits in.                                            *)
(*                                                                         *)
(* The registers, the devices and the card are proved about on their own:  *)
(* Registers and Waits, DevicesOk, CardOk.  What the multitap does is the  *)
(* hard part, since it may only go on to the next controller when the one  *)
(* before is no longer in the middle of a transfer (TurnsAreTaken).        *)
(***************************************************************************)
EXTENDS PadPort, TLAPS

-----------------------------------------------------------------------------
(* The card *)

(* What is owed to the file will be saved: the event alone is not enough,  *)
(* as its callback only saves a card that has changed.                     *)
SaveIsDue(c) == c.owed /\ c.path => (c.saving /\ c.changed) \/ c.excused
FileIsKnown(c) == c.path /\ c.data # c.file => c.changed \/ c.excused

CardOk(c) == c \in Card /\ SaveIsDue(c) /\ FileIsKnown(c)

(* The states and contents that a card can be given.                       *)
LEMMA CardFacts ==
  /\ FrameSize \in Nat /\ FrameSize > 0 /\ 0 \in 0..FrameSize - 1
  /\ Formatted \in Contents
  /\ \A s \in DOMAIN Following : Following[s] \in CardStates
  /\ CardStates = DOMAIN Following \cup {"IDLE", "COMMAND", "READ_DATA", "WRITE_DATA", "WRITE_END"}
  /\ {"IDLE", "COMMAND", "READ_DATA", "WRITE_DATA", "WRITE_END", "READ_CHECKSUM", "WRITE_CHECKSUM",
      "READ_CARD_ID1", "WRITE_CARD_ID1", "GET_ID_CARD_ID1"} \subseteq CardStates
  <1>1. FrameSize \in Nat /\ FrameSize > 0 /\ 0 \in 0..FrameSize - 1
    BY FrameAssumption, SMT DEF FrameAssumption
  <1>2. Formatted \in Contents BY DEF Formatted, Contents
  <1>3. \A s \in DOMAIN Following : Following[s] \in CardStates
    BY SMT DEF Following, CardStates
  <1>4. CardStates = DOMAIN Following \cup {"IDLE", "COMMAND", "READ_DATA", "WRITE_DATA", "WRITE_END"}
    BY DEF CardStates
  <1>5. {"READ_CHECKSUM", "WRITE_CHECKSUM", "READ_CARD_ID1", "WRITE_CARD_ID1", "GET_ID_CARD_ID1"}
        \subseteq CardStates
    BY SMT DEF Following, CardStates
  <1> QED BY <1>1, <1>2, <1>3, <1>4, <1>5

(* A card that was just opened (memory_card_create).                       *)
LEMMA NewCardOk == CardOk(NewCard) /\ NewCard.state = "IDLE"
  <1>1. NewCard \in Card BY CardFacts, SMT DEF NewCard, Card
  <1> QED BY <1>1, Zenon DEF CardOk, NewCard, SaveIsDue, FileIsKnown

(* memory_card_reset_transfer_state leaves what is to be saved alone.      *)
LEMMA ResetCardTransferOk ==
  ASSUME NEW c, CardOk(c)
  PROVE  CardOk(ResetCardTransfer(c)) /\ ResetCardTransfer(c).state = "IDLE"
  <1> DEFINE t == [c EXCEPT !.state = "IDLE", !.offset = 0]
  <1>1. c \in Card /\ "IDLE" \in CardStates /\ 0 \in 0..FrameSize - 1 BY CardFacts, Zenon DEF CardOk
  <1>2. t \in Card BY <1>1, Zenon DEF Card
  <1>3. /\ t.state = "IDLE" /\ t.data = c.data /\ t.changed = c.changed /\ t.saving = c.saving
        /\ t.path = c.path /\ t.file = c.file /\ t.owed = c.owed /\ t.excused = c.excused
    BY <1>1, Zenon DEF Card
  <1>4. ResetCardTransfer(c) = t BY Zenon DEF ResetCardTransfer
  <1> HIDE DEF t
  <1> QED BY <1>2, <1>3, <1>4, Zenon DEF CardOk, SaveIsDue, FileIsKnown

(* memory_card_save_if_changed, whether or not the file can be written.    *)
LEMMA SaveIfChangedOk ==
  ASSUME NEW c, CardOk(c), NEW ok \in BOOLEAN
  PROVE  CardOk(SaveIfChanged(c, ok)) /\ SaveIfChanged(c, ok).state = c.state
         /\ SaveIfChanged(c, ok).path = c.path
  <1> DEFINE s == [c EXCEPT !.saving = FALSE]
             f == [s EXCEPT !.changed = FALSE, !.excused = TRUE]
             w == [s EXCEPT !.changed = FALSE, !.file = c.data, !.owed = FALSE, !.excused = FALSE]
  <1>1. c \in Card /\ c.data \in Contents BY Zenon DEF CardOk, Card
  <1>2. s \in Card BY <1>1, Zenon DEF Card
  <1>3. /\ s.state = c.state /\ s.data = c.data /\ s.changed = c.changed /\ s.saving = FALSE
        /\ s.path = c.path /\ s.file = c.file /\ s.owed = c.owed /\ s.excused = c.excused
    BY <1>1, Zenon DEF Card
  <1>4. SaveIfChanged(c, ok) = IF ~c.changed THEN s ELSE IF ~c.path \/ ~ok THEN f ELSE w
    BY Zenon DEF SaveIfChanged
  <1> HIDE DEF s
  <1>5. f \in Card /\ w \in Card BY <1>1, <1>2, Zenon DEF Card
  <1>6. f.state = s.state /\ f.path = s.path /\ f.excused = TRUE
    BY <1>2, Zenon DEF Card
  <1>7. /\ w.state = s.state /\ w.data = s.data /\ w.path = s.path /\ w.file = c.data
        /\ w.owed = FALSE
    BY <1>2, Zenon DEF Card
  <1> HIDE DEF f, w
  <1>8. CardOk(f) /\ CardOk(w) BY <1>3, <1>5, <1>6, <1>7, Zenon DEF CardOk, SaveIsDue, FileIsKnown
  <1>9. ~c.changed => CardOk(s) BY <1>2, <1>3, Zenon DEF CardOk, SaveIsDue, FileIsKnown
  <1> QED BY <1>3, <1>4, <1>6, <1>7, <1>8, <1>9, Zenon

(* memory_card_do_state, writing.                                          *)
LEMMA SavedCardOk ==
  ASSUME NEW c \in Card
  PROVE  SavedCard(c) \in Card /\ SavedCard(c).state = c.state
  <1> DEFINE t == [NewCard EXCEPT !.state = c.state, !.offset = c.offset, !.data = c.data,
                                  !.changed = c.changed]
  <1>1. NewCard \in Card BY NewCardOk DEF CardOk
  <1>2. c.state \in CardStates /\ c.offset \in 0..FrameSize - 1 /\ c.data \in Contents
        /\ c.changed \in BOOLEAN
    BY Zenon DEF Card
  <1>3. t \in Card /\ t.state = c.state BY <1>1, <1>2, Zenon DEF Card
  <1> QED BY <1>3 DEF SavedCard

(* Reading.                                                                *)
LEMMA LoadCardOk ==
  ASSUME NEW c, CardOk(c), NEW u \in Card, NEW ok \in BOOLEAN
  PROVE  CardOk(LoadCard(c, u, ok)) /\ LoadCard(c, u, ok).state = u.state
  <1> DEFINE s == SaveIfChanged(c, ok)
             t == [s EXCEPT !.state = u.state, !.offset = u.offset, !.data = u.data,
                            !.changed = u.changed, !.excused = TRUE]
  <1>1. CardOk(s) BY SaveIfChangedOk
  <1>2. LoadCard(c, u, ok) = t BY Zenon DEF LoadCard
  <1> HIDE DEF s
  <1>3. s \in Card BY <1>1 DEF CardOk
  <1>4. u.state \in CardStates /\ u.offset \in 0..FrameSize - 1 /\ u.data \in Contents
        /\ u.changed \in BOOLEAN
    BY Zenon DEF Card
  <1>5. t \in Card /\ t.state = u.state /\ t.excused = TRUE BY <1>3, <1>4, Zenon DEF Card
  <1> HIDE DEF t
  <1> QED BY <1>2, <1>5, Zenon DEF CardOk, SaveIsDue, FileIsKnown

(* memory_card_destroy and memory_card_open.                               *)
LEMMA ReopenCardOk ==
  ASSUME NEW c, CardOk(c), NEW ok \in BOOLEAN, NEW readable \in BOOLEAN
  PROVE  CardOk(ReopenCard(c, ok, readable)) /\ ReopenCard(c, ok, readable).state = "IDLE"
  <1> DEFINE s == SaveIfChanged(c, ok)
             d == IF readable THEN s.file ELSE Formatted
             t == [NewCard EXCEPT !.file = s.file, !.path = readable, !.data = d]
  <1>1. CardOk(s) BY SaveIfChangedOk
  <1>2. ReopenCard(c, ok, readable) = t BY Zenon DEF ReopenCard
  <1> HIDE DEF s
  <1>3. s.file \in Contents /\ Formatted \in Contents BY <1>1, CardFacts, Zenon DEF CardOk, Card
  <1>4. NewCard \in Card /\ NewCard.state = "IDLE" /\ NewCard.owed = FALSE
    BY NewCardOk, Zenon DEF CardOk, NewCard
  <1>5. d \in Contents /\ (readable => d = s.file) BY <1>3
  <1> HIDE DEF d
  <1>6. t \in Card BY <1>3, <1>4, <1>5, Zenon DEF Card
  <1>7. /\ t.state = NewCard.state /\ t.owed = NewCard.owed /\ t.path = readable /\ t.data = d
        /\ t.file = s.file
    BY <1>4, Zenon DEF Card
  <1> HIDE DEF t
  <1> QED BY <1>2, <1>4, <1>5, <1>6, <1>7, Zenon DEF CardOk, SaveIsDue, FileIsKnown

(* memory_card_queue_file_save makes due what a changed card owes.         *)
LEMMA QueueFileSaveOk ==
  ASSUME NEW c \in Card, c.changed, FileIsKnown(c)
  PROVE  CardOk(QueueFileSave(c)) /\ QueueFileSave(c).state = c.state
  <1> DEFINE t == [c EXCEPT !.saving = TRUE]
  <1>1. t \in Card BY Zenon DEF Card
  <1>2. /\ t.state = c.state /\ t.data = c.data /\ t.changed = c.changed /\ t.saving = TRUE
        /\ t.path = c.path /\ t.file = c.file /\ t.owed = c.owed /\ t.excused = c.excused
    BY Zenon DEF Card
  <1>3. QueueFileSave(c) = IF c.saving \/ ~c.path THEN c ELSE t BY Zenon DEF QueueFileSave
  <1> HIDE DEF t
  <1>4. CardOk(t) BY <1>1, <1>2, Zenon DEF CardOk, SaveIsDue, FileIsKnown
  <1>5. c.saving \/ ~c.path => CardOk(c) BY Zenon DEF CardOk, SaveIsDue
  <1> QED BY <1>2, <1>3, <1>4, <1>5, Zenon

(* The READ_DATA state of memory_card_transfer.                            *)
LEMMA ReadByteOk ==
  ASSUME NEW c, CardOk(c)
  PROVE  CardOk(ReadByte(c))
  <1> DEFINE e == [c EXCEPT !.state = "READ_CHECKSUM", !.offset = 0]
             n == [c EXCEPT !.offset = c.offset + 1]
  <1>1. c \in Card /\ c.offset \in 0..FrameSize - 1 BY Zenon DEF CardOk, Card
  <1>2. "READ_CHECKSUM" \in CardStates /\ 0 \in 0..FrameSize - 1 BY CardFacts, Zenon
  <1>3. ReadByte(c) = IF c.offset + 1 = FrameSize THEN e ELSE n BY Zenon DEF ReadByte
  <1>4. c.offset + 1 # FrameSize => c.offset + 1 \in 0..FrameSize - 1 BY <1>1, CardFacts, SMT
  <1>5. e \in Card BY <1>1, <1>2, Zenon DEF Card
  <1>6. c.offset + 1 # FrameSize => n \in Card BY <1>1, <1>4, Zenon DEF Card
  <1>7. \A u \in {e, n} :
          /\ u.data = c.data /\ u.changed = c.changed /\ u.saving = c.saving
          /\ u.path = c.path /\ u.file = c.file /\ u.owed = c.owed /\ u.excused = c.excused
    <2>1. /\ e.data = c.data /\ e.changed = c.changed /\ e.saving = c.saving
          /\ e.path = c.path /\ e.file = c.file /\ e.owed = c.owed /\ e.excused = c.excused
      BY <1>1, Zenon DEF Card
    <2>2. /\ n.data = c.data /\ n.changed = c.changed /\ n.saving = c.saving
          /\ n.path = c.path /\ n.file = c.file /\ n.owed = c.owed /\ n.excused = c.excused
      BY <1>1, Zenon DEF Card
    <2> HIDE DEF e, n
    <2> QED BY <2>1, <2>2, Zenon
  <1> HIDE DEF e, n
  <1>8. \A u \in {e, n} : u \in Card => CardOk(u)
    BY <1>7, Zenon DEF CardOk, SaveIsDue, FileIsKnown
  <1> QED BY <1>3, <1>5, <1>6, <1>8, Zenon

(* A byte that differs is noted as a change; the last one of a sector owes *)
(* the file a save if anything changed, and if nothing did the file holds  *)
(* the sector or is excused.                                               *)
LEMMA WriteByteOk ==
  ASSUME NEW c, CardOk(c), NEW byte
  PROVE  CardOk(WriteByte(c, byte))
  <1> DEFINE bit == byte = ToCard
             d == [c.data EXCEPT ![c.offset + 1] = bit]
             ch == c.changed \/ c.data[c.offset + 1] # bit
             w == [c EXCEPT !.data[c.offset + 1] = bit, !.changed = @ \/ c.data[c.offset + 1] # bit]
             ow == w.owed \/ (c.path /\ w.data # w.file)
             done == [w EXCEPT !.state = "WRITE_CHECKSUM", !.offset = 0,
                               !.owed = @ \/ (c.path /\ w.data # w.file)]
             n == [w EXCEPT !.offset = @ + 1]
  <1>1. /\ c \in Card /\ c.offset \in 0..FrameSize - 1 /\ c.data \in Contents /\ c.changed \in BOOLEAN
        /\ c.owed \in BOOLEAN /\ c.path \in BOOLEAN
    BY Zenon DEF CardOk, Card
  <1>2. "WRITE_CHECKSUM" \in CardStates /\ 0 \in 0..FrameSize - 1 BY CardFacts, Zenon
  <1>3. WriteByte(c, byte) =
          IF c.offset + 1 < FrameSize THEN n ELSE IF w.changed THEN QueueFileSave(done) ELSE done
    BY Zenon DEF WriteByte
  <1>4. c.offset + 1 \in 1..FrameSize BY <1>1, CardFacts, SMT
  <1>5. d \in Contents /\ (~ch => d = c.data)
    <2>1. bit \in BOOLEAN BY Zenon
    <2> HIDE DEF bit
    <2>2. d \in Contents BY <1>1, <1>4, <2>1, Zenon DEF Contents
    <2>3. ~ch => d = c.data BY <1>1, <1>4, <2>1, Zenon DEF Contents
    <2> QED BY <2>2, <2>3
  <1>6. w = [c EXCEPT !.data = d, !.changed = ch] BY <1>1, Zenon DEF Card
  <1>7. ch \in BOOLEAN BY <1>1, Zenon
  <1> HIDE DEF d, ch, w
  <1>8. w \in Card BY <1>1, <1>5, <1>6, <1>7, Zenon DEF Card
  <1>9. /\ w.state = c.state /\ w.offset = c.offset
        /\ w.data = d /\ w.changed = ch /\ w.saving = c.saving
        /\ w.path = c.path /\ w.file = c.file /\ w.owed = c.owed /\ w.excused = c.excused
    BY <1>1, <1>6, Zenon DEF Card
  <1>10. c.changed => ch BY Zenon DEF ch
  <1>11. CardOk(w)
    BY <1>5, <1>8, <1>9, <1>10, Zenon DEF CardOk, SaveIsDue, FileIsKnown
  <1>12. CASE c.offset + 1 < FrameSize
    <2>1. w.offset + 1 \in 0..FrameSize - 1 BY <1>1, <1>9, <1>12, CardFacts, SMT
    <2>2. n \in Card BY <1>8, <2>1, Zenon DEF Card
    <2>3. /\ n.data = w.data /\ n.changed = w.changed /\ n.saving = w.saving
          /\ n.path = w.path /\ n.file = w.file /\ n.owed = w.owed /\ n.excused = w.excused
      BY <1>8, Zenon DEF Card
    <2>4. WriteByte(c, byte) = n BY <1>3, <1>12
    <2> HIDE DEF n
    <2> QED BY <1>11, <2>2, <2>3, <2>4, Zenon DEF CardOk, SaveIsDue, FileIsKnown
  <1>13. CASE ~(c.offset + 1 < FrameSize)
    <2>1. ow \in BOOLEAN BY <1>1, <1>9, Zenon
    <2>2. done = [w EXCEPT !.state = "WRITE_CHECKSUM", !.offset = 0, !.owed = ow]
      BY <1>8, Zenon DEF Card
    <2>3. ow = (w.owed \/ (w.path /\ w.data # w.file)) BY <1>9
    <2>4. WriteByte(c, byte) = IF w.changed THEN QueueFileSave(done) ELSE done BY <1>3, <1>13
    <2> HIDE DEF ow, done
    <2>5. done \in Card BY <1>2, <1>8, <2>1, <2>2, Zenon DEF Card
    <2>6. /\ done.data = w.data /\ done.changed = w.changed /\ done.saving = w.saving
          /\ done.path = w.path /\ done.file = w.file /\ done.owed = ow /\ done.excused = w.excused
      BY <1>8, <2>2, Zenon DEF Card
    <2>7. FileIsKnown(done) BY <1>11, <2>6, Zenon DEF CardOk, FileIsKnown
    <2>8. CASE w.changed
      <3>1. CardOk(QueueFileSave(done)) BY <2>5, <2>6, <2>7, <2>8, QueueFileSaveOk, Zenon
      <3> QED BY <2>4, <2>8, <3>1
    <2>9. CASE ~w.changed
      <3>1. SaveIsDue(done)
        BY <1>11, <2>3, <2>6, <2>9, Zenon DEF CardOk, SaveIsDue, FileIsKnown
      <3> QED BY <2>4, <2>5, <2>7, <2>9, <3>1, Zenon DEF CardOk
    <2> QED BY <2>8, <2>9
  <1> QED BY <1>12, <1>13

(* A card that does not acknowledge a byte is idle.                        *)
LEMMA CardTransferOk ==
  ASSUME NEW c, CardOk(c), NEW byte
  PROVE  LET a == CardTransfer(c, byte) IN
         /\ CardOk(a.card) /\ a.ack \in BOOLEAN
         /\ ~a.ack => a.card.state = "IDLE"
  <1>1. ASSUME NEW st \in CardStates
        PROVE  CardOk([c EXCEPT !.state = st]) /\ [c EXCEPT !.state = st].state = st
    <2> DEFINE t == [c EXCEPT !.state = st]
    <2>1. c \in Card BY DEF CardOk
    <2>2. t \in Card BY <2>1, Zenon DEF Card
    <2>3. /\ t.state = st /\ t.data = c.data /\ t.changed = c.changed /\ t.saving = c.saving
          /\ t.path = c.path /\ t.file = c.file /\ t.owed = c.owed /\ t.excused = c.excused
      BY <2>1, Zenon DEF Card
    <2> HIDE DEF t
    <2>4. CardOk(t) BY <2>2, <2>3, Zenon DEF CardOk, SaveIsDue, FileIsKnown
    <2> QED BY <2>3, <2>4 DEF t
  <1> DEFINE To(st) == [c EXCEPT !.state = st]
             Good(a) == /\ CardOk(a.card) /\ a.ack \in BOOLEAN
                        /\ ~a.ack => a.card.state = "IDLE"
             a == CardTransfer(c, byte)
  <1>2. ASSUME NEW d, CardOk(d) PROVE Good(Answer(d, TRUE))
    BY <1>2, Zenon DEF Answer
  <1>3. ASSUME NEW d, CardOk(d), d.state = "IDLE" PROVE Good(Answer(d, FALSE))
    BY <1>3, Zenon DEF Answer
  <1>4. ASSUME NEW st \in CardStates PROVE Good(Answer(To(st), TRUE))
    BY <1>1, <1>2, Zenon
  <1>5. CASE c.state = "IDLE"
    <2>1. a = IF byte = ToCard THEN Answer(To("COMMAND"), TRUE) ELSE Answer(c, FALSE)
      BY <1>5, SMT DEF CardTransfer
    <2>2. Good(Answer(To("COMMAND"), TRUE)) BY <1>4, CardFacts, Zenon
    <2>3. Good(Answer(c, FALSE)) BY <1>3, <1>5, Zenon
    <2> HIDE DEF Good, a, To
    <2>4. Good(a) BY <2>1, <2>2, <2>3, Zenon
    <2> QED BY <2>4 DEF Good, a
  <1>6. CASE c.state = "COMMAND"
    <2>1. \/ a = Answer(To("READ_CARD_ID1"), TRUE) \/ a = Answer(To("WRITE_CARD_ID1"), TRUE)
          \/ a = Answer(To("GET_ID_CARD_ID1"), TRUE) \/ a = Answer(To("IDLE"), FALSE)
      <3>1. a = CASE byte = ReadCommand  -> Answer(To("READ_CARD_ID1"), TRUE)
                  [] byte = WriteCommand -> Answer(To("WRITE_CARD_ID1"), TRUE)
                  [] byte = GetIdCommand -> Answer(To("GET_ID_CARD_ID1"), TRUE)
                  [] OTHER               -> Answer(To("IDLE"), FALSE)
        <4>1. c.state # "IDLE" BY <1>6
        <4> QED BY <1>6, <4>1, Zenon DEF CardTransfer
      <3>2. ReadCommand # WriteCommand /\ ReadCommand # GetIdCommand /\ WriteCommand # GetIdCommand
        BY SMT DEF ReadCommand, WriteCommand, GetIdCommand
      <3> HIDE DEF a, To
      <3>3. CASE byte = ReadCommand BY <3>1, <3>2, <3>3, SMT
      <3>4. CASE byte = WriteCommand BY <3>1, <3>2, <3>4, SMT
      <3>5. CASE byte = GetIdCommand BY <3>1, <3>2, <3>5, SMT
      <3>6. CASE byte # ReadCommand /\ byte # WriteCommand /\ byte # GetIdCommand
        BY <3>1, <3>6, SMT
      <3> QED BY <3>3, <3>4, <3>5, <3>6
    <2>2. Good(Answer(To("READ_CARD_ID1"), TRUE)) BY <1>4, CardFacts, Zenon
    <2>3. Good(Answer(To("WRITE_CARD_ID1"), TRUE)) BY <1>4, CardFacts, Zenon
    <2>4. Good(Answer(To("GET_ID_CARD_ID1"), TRUE)) BY <1>4, CardFacts, Zenon
    <2>5. Good(Answer(To("IDLE"), FALSE)) BY <1>1, <1>3, CardFacts, Zenon
    <2> HIDE DEF Good, a, To
    <2>6. Good(a) BY <2>1, <2>2, <2>3, <2>4, <2>5, Zenon
    <2> QED BY <2>6 DEF Good, a
  <1>7. CASE c.state = "READ_DATA"
    <2>1. a = Answer(ReadByte(c), TRUE) BY <1>7, SMT DEF CardTransfer
    <2>2. Good(Answer(ReadByte(c), TRUE)) BY <1>2, ReadByteOk, Zenon
    <2> HIDE DEF Good, a
    <2>3. Good(a) BY <2>1, <2>2
    <2> QED BY <2>3 DEF Good, a
  <1>8. CASE c.state = "WRITE_DATA"
    <2>1. a = Answer(WriteByte(c, byte), TRUE) BY <1>8, SMT DEF CardTransfer
    <2>2. Good(Answer(WriteByte(c, byte), TRUE)) BY <1>2, WriteByteOk, Zenon
    <2> HIDE DEF Good, a
    <2>3. Good(a) BY <2>1, <2>2
    <2> QED BY <2>3 DEF Good, a
  <1>9. CASE c.state = "WRITE_END"
    <2>1. a = Answer(To("IDLE"), FALSE) BY <1>9, SMT DEF CardTransfer
    <2>2. Good(Answer(To("IDLE"), FALSE)) BY <1>1, <1>3, CardFacts, Zenon
    <2> HIDE DEF Good, a, To
    <2>3. Good(a) BY <2>1, <2>2
    <2> QED BY <2>3 DEF Good, a
  <1>10. CASE c.state \notin {"IDLE", "COMMAND", "READ_DATA", "WRITE_DATA", "WRITE_END"}
    <2>1. a = Answer(To(Following[c.state]), TRUE)
      <3>1. /\ c.state # "IDLE" /\ c.state # "COMMAND" /\ c.state # "READ_DATA"
            /\ c.state # "WRITE_DATA" /\ c.state # "WRITE_END"
        BY <1>10
      <3> QED BY <3>1, Zenon DEF CardTransfer
    <2>2. c.state \in CardStates BY Zenon DEF CardOk, Card
    <2>3. Following[c.state] \in CardStates BY <1>10, <2>2, CardFacts, Zenon
    <2>4. Good(Answer(To(Following[c.state]), TRUE)) BY <1>4, <2>3, Zenon
    <2> HIDE DEF Good, a, To
    <2>5. Good(a) BY <2>1, <2>4
    <2> QED BY <2>5 DEF Good, a
  <1> QED BY <1>5, <1>6, <1>7, <1>8, <1>9, <1>10

-----------------------------------------------------------------------------
(* The controllers *)

(* In the middle of a transfer.                                            *)
Mid(p) == p \notin {"IDLE", "READY"}

(* A controller after 0, 1, 2 and 3 bytes of the answer to a poll.         *)
Answering == [k \in 0..3 |-> CASE k = 0 -> "READY" [] k = 1 -> "ID_MSB" [] k = 2 -> "BUTTONS_LSB"
                                [] k = 3 -> "BUTTONS_MSB"]

(* digital_controller_transfer: only an answer that is going on is         *)
(* acknowledged, and only a poll of a READY controller starts one.         *)
LEMMA PadAfterFacts ==
  ASSUME NEW p \in PadStates, NEW byte
  PROVE  /\ PadAfter(p, byte) \in PadStates
         /\ PadAck(p, byte) \in BOOLEAN
         /\ ~PadAck(p, byte) => ~Mid(PadAfter(p, byte))
         /\ ~Mid(p) /\ byte # Poll => ~Mid(PadAfter(p, byte))
         /\ ~Mid(p) => PadAfter(p, ToController) = "READY"
         /\ \A k \in 0..3 : p = Answering[k] /\ PadAck(p, byte)
              => k < 3 /\ PadAfter(p, byte) = Answering[k + 1]
  <1>1. p \in {"IDLE", "READY", "ID_MSB", "BUTTONS_LSB", "BUTTONS_MSB"} BY DEF PadStates
  <1>2. ToController # Poll BY SMT DEF ToController, Poll
  <1>3. /\ p = "IDLE" => PadAfter(p, byte) = IF byte = ToController THEN "READY" ELSE p
        /\ p = "IDLE" => PadAfter(p, ToController) = "READY"
        /\ p = "READY" => PadAfter(p, byte) = IF byte = Poll THEN "ID_MSB" ELSE p
        /\ p = "READY" => PadAfter(p, ToController) = "READY"
        /\ p = "ID_MSB" => PadAfter(p, byte) = "BUTTONS_LSB"
        /\ p = "BUTTONS_LSB" => PadAfter(p, byte) = "BUTTONS_MSB"
        /\ p = "BUTTONS_MSB" => PadAfter(p, byte) = "IDLE"
    BY <1>2, SMT DEF PadAfter
  <1>4. PadAck(p, byte) = (PadAfter(p, byte) \notin {p, "IDLE"}) BY Zenon DEF PadAck
  <1>5. /\ Answering[0] = "READY" /\ Answering[1] = "ID_MSB" /\ Answering[2] = "BUTTONS_LSB"
        /\ Answering[3] = "BUTTONS_MSB"
    BY SMT DEF Answering
  <1>6. PadAfter(p, byte) \in PadStates BY <1>1, <1>3, SMT DEF PadStates
  <1>7. PadAck(p, byte) \in BOOLEAN BY <1>4
  <1>8. ~PadAck(p, byte) => ~Mid(PadAfter(p, byte)) 
    <2>1. ~PadAck(p, byte) => PadAfter(p, byte) = p \/ PadAfter(p, byte) = "IDLE" BY <1>4, Zenon
    <2>2. PadAfter(p, byte) = p => p = "IDLE" \/ p = "READY"
      <3>1. p = "ID_MSB" => PadAfter(p, byte) # p BY <1>3, SMT
      <3>2. p = "BUTTONS_LSB" => PadAfter(p, byte) # p BY <1>3, SMT
      <3>3. p = "BUTTONS_MSB" => PadAfter(p, byte) # p BY <1>3, SMT
      <3> QED BY <1>1, <3>1, <3>2, <3>3
    <2> QED BY <2>1, <2>2, Zenon DEF Mid
  <1>9. ~Mid(p) /\ byte # Poll => ~Mid(PadAfter(p, byte)) 
    <2>1. CASE p = "IDLE"
      <3>1. PadAfter(p, byte) = "READY" \/ PadAfter(p, byte) = "IDLE" BY <1>3, <2>1, Zenon
      <3> QED BY <3>1 DEF Mid
    <2>2. CASE p = "READY"
      <3>1. byte # Poll => PadAfter(p, byte) = "READY" BY <1>3, <2>2, Zenon
      <3> QED BY <3>1 DEF Mid
    <2> QED BY <2>1, <2>2 DEF Mid
  <1>10. ~Mid(p) => PadAfter(p, ToController) = "READY" BY <1>3 DEF Mid
  <1>11. ASSUME NEW k \in 0..3, p = Answering[k], PadAck(p, byte)
         PROVE  k < 3 /\ PadAfter(p, byte) = Answering[k + 1]
    <2>1. k = 0 \/ k = 1 \/ k = 2 \/ k = 3 BY SMT
    <2>2. CASE k = 0
      <3>1. p = "READY" BY <1>5, <1>11, <2>2, Zenon
      <3>2. PadAfter(p, byte) = "READY" \/ PadAfter(p, byte) = "ID_MSB" BY <1>3, <3>1, Zenon
      <3>3. PadAfter(p, byte) # p BY <1>4, <1>11, Zenon
      <3>4. PadAfter(p, byte) = Answering[1] BY <1>5, <3>1, <3>2, <3>3, Zenon
      <3> QED BY <2>2, <3>4, SMT
    <2>3. CASE k = 1 BY <1>3, <1>4, <1>5, <1>11, <2>3, SMT
    <2>4. CASE k = 2 BY <1>3, <1>4, <1>5, <1>11, <2>4, SMT
    <2>5. CASE k = 3
      <3>1. p = "BUTTONS_MSB" BY <1>5, <1>11, <2>5, Zenon
      <3>2. PadAfter(p, byte) = "IDLE" BY <1>3, <3>1, Zenon
      <3> QED BY <1>4, <1>11, <3>2, Zenon
    <2> QED BY <2>1, <2>2, <2>3, <2>4, <2>5
  <1> QED BY <1>6, <1>7, <1>8, <1>9, <1>10, <1>11

-----------------------------------------------------------------------------
(* The bus *)

Buses == [pads : [Slots -> PadStates], card : Card, tap : Tap]

(* The parts of a bus.                                                     *)
LEMMA BusFields ==
  ASSUME NEW b \in Buses
  PROVE  b.pads \in [Slots -> PadStates] /\ b.card \in Card /\ b.tap \in Tap
  BY Zenon DEF Buses

(* A byte for a controller changes no other device.                        *)
LEMMA ToPadFields ==
  ASSUME NEW b \in Buses, NEW slot \in Slots, NEW byte
  PROVE  LET o == ToPad(b, slot, byte) IN
         /\ o.bus \in Buses /\ o.ack = PadAck(b.pads[slot], byte) /\ o.ack \in BOOLEAN
         /\ o.bus.card = b.card /\ o.bus.tap = b.tap
         /\ o.bus.pads[slot] = PadAfter(b.pads[slot], byte)
         /\ \A s \in Slots : s # slot => o.bus.pads[s] = b.pads[s]
  <1> DEFINE d == [b EXCEPT !.pads[slot] = PadAfter(@, byte)]
             f == [b.pads EXCEPT ![slot] = PadAfter(b.pads[slot], byte)]
  <1>1. b.pads \in [Slots -> PadStates] BY Zenon DEF Buses
  <1>2. b.pads[slot] \in PadStates BY <1>1
  <1>3. PadAfter(b.pads[slot], byte) \in PadStates /\ PadAck(b.pads[slot], byte) \in BOOLEAN
    BY <1>2, PadAfterFacts, Zenon
  <1>4. f \in [Slots -> PadStates] BY <1>1, <1>3, Zenon
  <1>5. /\ f[slot] = PadAfter(b.pads[slot], byte)
        /\ \A s \in Slots : s # slot => f[s] = b.pads[s]
    BY <1>1, Zenon
  <1>6. d = [b EXCEPT !.pads = f] BY Zenon DEF Buses
  <1>7. ToPad(b, slot, byte).bus = d /\ ToPad(b, slot, byte).ack = PadAck(b.pads[slot], byte)
    BY Zenon DEF ToPad, Outcome
  <1> HIDE DEF f, d
  <1>8. d \in Buses /\ d.card = b.card /\ d.tap = b.tap /\ d.pads = f
    BY <1>4, <1>6, Zenon DEF Buses
  <1> QED BY <1>3, <1>5, <1>7, <1>8, Zenon

(* A byte for a card slot changes no other device, and nothing at all in a *)
(* slot without a card.                                                    *)
LEMMA ToCardSlotFields ==
  ASSUME NEW b \in Buses, CardOk(b.card), NEW slot \in Slots, NEW byte
  PROVE  LET o == ToCardSlot(b, slot, byte) IN
         /\ o.bus \in Buses /\ o.ack \in BOOLEAN /\ CardOk(o.bus.card)
         /\ o.bus.pads = b.pads /\ o.bus.tap = b.tap
         /\ slot # 0 => ~o.ack /\ o.bus.card = b.card
         /\ slot = 0 /\ ~o.ack => o.bus.card.state = "IDLE"
  <1>1. CASE slot # 0
    <2>1. ToCardSlot(b, slot, byte) = [bus |-> b, ack |-> FALSE]
      BY <1>1, Zenon DEF ToCardSlot, Outcome
    <2> QED BY <1>1, <2>1
  <1>2. CASE slot = 0
    <2> DEFINE a == CardTransfer(b.card, byte)
               d == [b EXCEPT !.card = a.card]
    <2>1. CardOk(a.card) /\ a.ack \in BOOLEAN /\ (~a.ack => a.card.state = "IDLE")
      BY CardTransferOk, Zenon
    <2>2. ToCardSlot(b, slot, byte).bus = d /\ ToCardSlot(b, slot, byte).ack = a.ack
      BY <1>2, Zenon DEF ToCardSlot, Outcome
    <2> HIDE DEF a
    <2>3. a.card \in Card BY <2>1 DEF CardOk
    <2>4. d \in Buses /\ d.pads = b.pads /\ d.tap = b.tap /\ d.card = a.card
      BY <2>3, Zenon DEF Buses
    <2> HIDE DEF d
    <2> QED BY <1>2, <2>1, <2>2, <2>4, Zenon
  <1> QED BY <1>1, <1>2

TapStates == {"IDLE", "CARD", "COMMAND", "SINGLE", "ALL"}

Outcomes == [bus : Buses, ack : BOOLEAN]

(* A change of the state of the multitap.                                  *)
LEMMA GoesFields ==
  ASSUME NEW o \in Outcomes, NEW st \in TapStates
  PROVE  LET g == Goes(o, st) IN
         /\ g \in Outcomes /\ g.ack = o.ack /\ g.bus.pads = o.bus.pads /\ g.bus.card = o.bus.card
         /\ g.bus.tap = [o.bus.tap EXCEPT !.state = st]
  <1> DEFINE u == [o.bus.tap EXCEPT !.state = st]
             d == [o.bus EXCEPT !.tap = u]
             g == Goes(o, st)
  <1>1. o.bus \in Buses /\ o.ack \in BOOLEAN BY Zenon DEF Outcomes
  <1>2. o.bus.tap \in Tap BY <1>1, Zenon DEF Buses
  <1>3. u \in Tap BY <1>2, Zenon DEF Tap, TapStates
  <1>4. g = [o EXCEPT !.bus = d] BY <1>1, Zenon DEF Goes, Outcomes, Buses
  <1> HIDE DEF u
  <1>5. d \in Buses /\ d.pads = o.bus.pads /\ d.card = o.bus.card /\ d.tap = u
    BY <1>1, <1>3, Zenon DEF Buses
  <1> HIDE DEF d
  <1>6. g \in Outcomes /\ g.ack = o.ack /\ g.bus = d
    BY <1>1, <1>4, <1>5, Zenon DEF Outcomes
  <1> QED BY <1>5, <1>6 DEF u

-----------------------------------------------------------------------------
(* The multitap *)

CardHasTap(b) == b.card.state # "IDLE" => b.tap.state = "CARD"
CardIsFirst(b) == b.tap.state = "CARD" => b.tap.slot = 0
OneIsMid(b) ==
  \A s \in Slots : Mid(b.pads[s]) => s = b.tap.slot /\ b.tap.state \in {"COMMAND", "SINGLE", "ALL"}
StepsCount(b) ==
  /\ b.tap.state \in {"IDLE", "CARD", "SINGLE"} => b.tap.step = 0
  /\ b.tap.state = "COMMAND" => b.tap.step \in 0..1
  /\ b.tap.state # "ALL" => ~b.tap.done

(* Before the multitap knows what it is asked for no controller is in the  *)
(* middle of a transfer, and when it is asked for all they are READY.      *)
CommandWaits(b) ==
  b.tap.state = "COMMAND" =>
    /\ b.tap.step = 0 \/ b.tap.all => \A s \in Slots : ~Mid(b.pads[s])
    /\ b.tap.all => \A s \in Slots : b.pads[s] = "READY"

(* Of all the controllers those that have had their turn are not in the    *)
(* middle of a transfer, those that have not are READY, and the one whose  *)
(* turn it is has been sent as many bytes as it has answered, unless it    *)
(* has stopped answering.                                                  *)
TurnsAreTaken(b) ==
  b.tap.state = "ALL" /\ b.tap.step < TapSlots * TapBytes =>
    \E k \in 0..TapBytes - 1 :
      /\ b.tap.step = b.tap.slot * TapBytes + k
      /\ \A s \in Slots : s > b.tap.slot => b.pads[s] = "READY"
      /\ b.tap.done => ~Mid(b.pads[b.tap.slot])
      /\ ~b.tap.done => k <= 3 /\ b.pads[b.tap.slot] = Answering[k]

TapOk(b) ==
  /\ CardHasTap(b) /\ CardIsFirst(b) /\ OneIsMid(b)
  /\ StepsCount(b) /\ CommandWaits(b) /\ TurnsAreTaken(b)

(* A byte that is not acknowledged leaves the card idle.                   *)
TapResult(b, o) ==
  /\ o.bus \in Buses /\ o.ack \in BOOLEAN /\ CardOk(o.bus.card) /\ TapOk(o.bus)
  /\ o.bus.tap.enabled = b.tap.enabled
  /\ ~o.ack => o.bus.card.state = "IDLE"

(* Numbers of slots and bytes.                                             *)
LEMMA PortFacts ==
  /\ TapSlots \in Nat /\ TapSlots > 0 /\ TapBytes \in Nat /\ TapBytes >= 4
  /\ TapSlots * TapBytes \in Nat /\ TapSlots * TapBytes >= 1
  /\ 0 \in Slots /\ 0 \in 0..TapSlots * TapBytes /\ 1 \in 0..TapSlots * TapBytes
  /\ \A s \in Slots : s \in Nat /\ s < TapSlots
  <1>1. TapSlots \in Nat /\ TapSlots > 0 /\ TapBytes \in Nat /\ TapBytes >= 4
    BY PortAssumption, SMT DEF PortAssumption
  <1>2. TapSlots * TapBytes \in Nat /\ TapSlots * TapBytes >= 1 BY <1>1, SMT
  <1>3. 0 \in Slots /\ \A s \in Slots : s \in Nat /\ s < TapSlots BY <1>1, SMT DEF Slots
  <1>4. 0 \in 0..TapSlots * TapBytes /\ 1 \in 0..TapSlots * TapBytes BY <1>2, SMT
  <1> QED BY <1>1, <1>2, <1>3, <1>4

(* The parts of the multitap.                                              *)
LEMMA TapFields ==
  ASSUME NEW u \in Tap
  PROVE  /\ u.enabled \in BOOLEAN /\ u.state \in TapStates /\ u.slot \in Slots
         /\ u.step \in 0..TapSlots * TapBytes
         /\ u.all \in BOOLEAN /\ u.invalid \in BOOLEAN /\ u.done \in BOOLEAN
  BY Zenon DEF Tap, TapStates

(* A bus with another multitap state.                                      *)
LEMMA SetTapFields ==
  ASSUME NEW b \in Buses, NEW u \in Tap
  PROVE  LET c == [b EXCEPT !.tap = u] IN
         c \in Buses /\ c.pads = b.pads /\ c.card = b.card /\ c.tap = u
  BY Zenon DEF Buses

(* The multitap turns to a slot.                                           *)
LEMMA SetSlotFields ==
  ASSUME NEW b \in Buses, NEW slot \in Slots
  PROVE  LET c == [b EXCEPT !.tap.slot = slot] IN
         /\ c \in Buses /\ c.pads = b.pads /\ c.card = b.card /\ c.tap.slot = slot
         /\ c.tap.enabled = b.tap.enabled /\ c.tap.state = b.tap.state /\ c.tap.step = b.tap.step
         /\ c.tap.all = b.tap.all /\ c.tap.done = b.tap.done
  <1> DEFINE u == [b.tap EXCEPT !.slot = slot]
  <1>1. b.tap \in Tap BY BusFields
  <1>2. u \in Tap BY <1>1, Zenon DEF Tap
  <1>3. /\ u.enabled = b.tap.enabled /\ u.state = b.tap.state /\ u.slot = slot /\ u.step = b.tap.step
        /\ u.all = b.tap.all /\ u.done = b.tap.done
    BY <1>1, Zenon DEF Tap
  <1> DEFINE v == [b EXCEPT !.tap = u]
  <1>4. [b EXCEPT !.tap.slot = slot] = v BY Zenon DEF Buses
  <1> HIDE DEF u
  <1>5. v \in Buses /\ v.pads = b.pads /\ v.card = b.card /\ v.tap = u BY <1>2, SetTapFields, Zenon
  <1> HIDE DEF v
  <1> QED BY <1>3, <1>4, <1>5, Zenon

(* A change of the state of the multitap leaves its other parts.           *)
LEMMA GoesTap ==
  ASSUME NEW o \in Outcomes, NEW st \in TapStates
  PROVE  LET g == Goes(o, st) IN
         /\ g \in Outcomes /\ g.ack = o.ack /\ g.bus.pads = o.bus.pads /\ g.bus.card = o.bus.card
         /\ g.bus.tap.state = st /\ g.bus.tap.enabled = o.bus.tap.enabled
         /\ g.bus.tap.slot = o.bus.tap.slot /\ g.bus.tap.step = o.bus.tap.step
         /\ g.bus.tap.all = o.bus.tap.all /\ g.bus.tap.done = o.bus.tap.done
  <1> DEFINE u == [o.bus.tap EXCEPT !.state = st]
             g == Goes(o, st)
  <1>1. o.bus.tap \in Tap BY Zenon DEF Outcomes, Buses
  <1>2. /\ g \in Outcomes /\ g.ack = o.ack /\ g.bus.pads = o.bus.pads /\ g.bus.card = o.bus.card
        /\ g.bus.tap = u
    BY GoesFields, Zenon
  <1> HIDE DEF g
  <1>3. /\ u.enabled = o.bus.tap.enabled /\ u.state = st /\ u.slot = o.bus.tap.slot
        /\ u.step = o.bus.tap.step /\ u.all = o.bus.tap.all /\ u.done = o.bus.tap.done
    BY <1>1, Zenon DEF Tap
  <1> QED BY <1>2, <1>3, Zenon DEF g

(* An idle multitap: no controller and no card is in a transfer.           *)
LEMMA TapOkIdle ==
  ASSUME NEW x, x.card.state = "IDLE", x.tap.state = "IDLE", x.tap.step = 0, ~x.tap.done,
         \A s \in Slots : ~Mid(x.pads[s])
  PROVE  TapOk(x)
  <1>1. CardHasTap(x) BY Zenon DEF CardHasTap
  <1>2. CardIsFirst(x) BY SMT DEF CardIsFirst
  <1>3. OneIsMid(x) BY Zenon DEF OneIsMid
  <1>4. StepsCount(x) BY SMT DEF StepsCount
  <1>5. CommandWaits(x) BY SMT DEF CommandWaits
  <1>6. x.tap.state # "ALL" BY SMT
  <1>7. TurnsAreTaken(x) BY <1>6, Zenon DEF TurnsAreTaken
  <1> QED BY <1>1, <1>2, <1>3, <1>4, <1>5, <1>7 DEF TapOk

(* A multitap that passes bytes to the card.                               *)
LEMMA TapOkCard ==
  ASSUME NEW x, x.tap.state = "CARD", x.tap.slot = 0, x.tap.step = 0, ~x.tap.done,
         \A s \in Slots : ~Mid(x.pads[s])
  PROVE  TapOk(x)
  <1>1. CardHasTap(x) BY Zenon DEF CardHasTap
  <1>2. CardIsFirst(x) BY Zenon DEF CardIsFirst
  <1>3. OneIsMid(x) BY Zenon DEF OneIsMid
  <1>4. StepsCount(x) BY SMT DEF StepsCount
  <1>5. CommandWaits(x) BY SMT DEF CommandWaits
  <1>6. x.tap.state # "ALL" BY SMT
  <1>7. TurnsAreTaken(x) BY <1>6, Zenon DEF TurnsAreTaken
  <1> QED BY <1>1, <1>2, <1>3, <1>4, <1>5, <1>7 DEF TapOk

(* A multitap that waits for its command.                                  *)
LEMMA TapOkCommand ==
  ASSUME NEW x, x.card.state = "IDLE", x.tap.state = "COMMAND", x.tap.step \in 0..1, ~x.tap.done,
         \A s \in Slots : Mid(x.pads[s]) => s = x.tap.slot,
         x.tap.step = 0 \/ x.tap.all => \A s \in Slots : ~Mid(x.pads[s]),
         x.tap.all => \A s \in Slots : x.pads[s] = "READY"
  PROVE  TapOk(x)
  <1>1. CardHasTap(x) BY Zenon DEF CardHasTap
  <1>2. CardIsFirst(x) BY SMT DEF CardIsFirst
  <1>3. OneIsMid(x) BY Zenon DEF OneIsMid
  <1>4. StepsCount(x) BY SMT DEF StepsCount
  <1>5. CommandWaits(x) BY Zenon DEF CommandWaits
  <1>6. x.tap.state # "ALL" BY SMT
  <1>7. TurnsAreTaken(x) BY <1>6, Zenon DEF TurnsAreTaken
  <1> QED BY <1>1, <1>2, <1>3, <1>4, <1>5, <1>7 DEF TapOk

(* A multitap that passes bytes to one controller.                         *)
LEMMA TapOkSingle ==
  ASSUME NEW x, x.card.state = "IDLE", x.tap.state = "SINGLE", x.tap.step = 0, ~x.tap.done,
         \A s \in Slots : Mid(x.pads[s]) => s = x.tap.slot
  PROVE  TapOk(x)
  <1>1. CardHasTap(x) BY Zenon DEF CardHasTap
  <1>2. CardIsFirst(x) BY SMT DEF CardIsFirst
  <1>3. OneIsMid(x) BY Zenon DEF OneIsMid
  <1>4. StepsCount(x) BY SMT DEF StepsCount
  <1>5. CommandWaits(x) BY SMT DEF CommandWaits
  <1>6. x.tap.state # "ALL" BY SMT
  <1>7. TurnsAreTaken(x) BY <1>6, Zenon DEF TurnsAreTaken
  <1> QED BY <1>1, <1>2, <1>3, <1>4, <1>5, <1>7 DEF TapOk

(* A multitap that asks all the controllers.                               *)
LEMMA TapOkAll ==
  ASSUME NEW x, x.card.state = "IDLE", x.tap.state = "ALL",
         \A s \in Slots : Mid(x.pads[s]) => s = x.tap.slot,
         TurnsAreTaken(x)
  PROVE  TapOk(x)
  <1>1. CardHasTap(x) BY Zenon DEF CardHasTap
  <1>2. CardIsFirst(x) BY SMT DEF CardIsFirst
  <1>3. OneIsMid(x) BY Zenon DEF OneIsMid
  <1>4. StepsCount(x) BY SMT DEF StepsCount
  <1>5. CommandWaits(x) BY SMT DEF CommandWaits
  <1> QED BY <1>1, <1>2, <1>3, <1>4, <1>5 DEF TapOk

(* The access byte: it selects the card or a controller, or nothing when   *)
(* that does not acknowledge it.                                           *)
LEMMA TapIdleOk ==
  ASSUME NEW b \in Buses, CardOk(b.card), TapOk(b), b.tap.state = "IDLE", NEW byte, NEW slot \in Slots
  PROVE  TapResult(b, TapIdle(b, byte, slot))
  <1> DEFINE d == [b EXCEPT !.tap.slot = slot]
             c == ToCardSlot(d, slot, ToCard)
             p == ToPad(d, slot, ToController)
             ps == [s \in Slots |-> PadAfter(b.pads[s], ToController)]
             all == [p EXCEPT !.bus.pads = ps]
             gc == Goes(c, "CARD")
             gp == Goes(p, "COMMAND")
             ga == Goes(all, "COMMAND")
  <1>1. ToCard # ToController BY SMT DEF ToCard, ToController
  <1>2. TapIdle(b, byte, slot) \in {IF c.ack THEN gc ELSE c,
                                    IF ~p.ack THEN p ELSE IF b.tap.all THEN ga ELSE gp,
                                    Outcome(b, FALSE)}
    <2>1. TapIdle(b, byte, slot) =
            CASE byte = ToCard       -> IF c.ack THEN gc ELSE c
              [] byte = ToController -> IF ~p.ack THEN p ELSE Goes(IF b.tap.all THEN all ELSE p, "COMMAND")
              [] OTHER               -> Outcome(b, FALSE)
      BY Zenon DEF TapIdle
    <2>2. Goes(IF b.tap.all THEN all ELSE p, "COMMAND") = IF b.tap.all THEN ga ELSE gp BY Zenon
    <2> HIDE DEF gc, c, p, ga, gp, all
    <2>3. CASE byte = ToCard
      <3>1. TapIdle(b, byte, slot) = IF c.ack THEN gc ELSE c BY <1>1, <2>1, <2>3, SMT
      <3> QED BY <3>1, Zenon
    <2>4. CASE byte = ToController
      <3>1. TapIdle(b, byte, slot) = IF ~p.ack THEN p ELSE Goes(IF b.tap.all THEN all ELSE p, "COMMAND")
        BY <1>1, <2>1, <2>4, SMT
      <3> QED BY <2>2, <3>1, Zenon
    <2>5. CASE byte # ToCard /\ byte # ToController
      <3>1. TapIdle(b, byte, slot) = Outcome(b, FALSE) BY <2>1, <2>5, Zenon
      <3> QED BY <3>1, Zenon
    <2> QED BY <2>3, <2>4, <2>5
  <1>3. b.pads \in [Slots -> PadStates] /\ b.tap \in Tap BY BusFields
  <1>4. /\ b.card.state = "IDLE" /\ b.tap.step = 0 /\ ~b.tap.done
        /\ \A s \in Slots : ~Mid(b.pads[s])
    BY Zenon DEF TapOk, CardHasTap, OneIsMid, StepsCount
  <1>5. /\ d \in Buses /\ d.pads = b.pads /\ d.card = b.card /\ d.tap.slot = slot
        /\ d.tap.enabled = b.tap.enabled /\ d.tap.state = b.tap.state /\ d.tap.step = b.tap.step
        /\ d.tap.all = b.tap.all /\ d.tap.done = b.tap.done
    BY SetSlotFields, Zenon
  <1> HIDE DEF d
  <1>6. /\ c.bus \in Buses /\ c.ack \in BOOLEAN /\ CardOk(c.bus.card)
        /\ c.bus.pads = d.pads /\ c.bus.tap = d.tap
        /\ slot # 0 => ~c.ack /\ c.bus.card = d.card
        /\ slot = 0 /\ ~c.ack => c.bus.card.state = "IDLE"
    BY <1>5, ToCardSlotFields, Zenon
  <1>7. c \in Outcomes
    <2>1. c = [bus |-> c.bus, ack |-> c.ack]
      <3>1. CASE slot # 0 BY <3>1, Zenon DEF ToCardSlot, Outcome
      <3>2. CASE slot = 0 BY <3>2, Zenon DEF ToCardSlot, Outcome
      <3> QED BY <3>1, <3>2
    <2> HIDE DEF c
    <2>2. [bus |-> c.bus, ack |-> c.ack] \in Outcomes BY <1>6, Zenon DEF Outcomes
    <2> QED BY <2>1, <2>2
  <1> HIDE DEF c
  <1>8. /\ p.bus \in Buses /\ p.ack \in BOOLEAN
        /\ p.bus.card = d.card /\ p.bus.tap = d.tap
        /\ p.bus.pads[slot] = PadAfter(d.pads[slot], ToController)
        /\ \A s \in Slots : s # slot => p.bus.pads[s] = d.pads[s]
    <2>1. d \in Buses BY <1>5
    <2> QED BY <2>1, ToPadFields
  <1>9. p \in Outcomes
    <2>1. p = [bus |-> p.bus, ack |-> p.ack] BY Zenon DEF ToPad, Outcome
    <2> HIDE DEF p
    <2>2. [bus |-> p.bus, ack |-> p.ack] \in Outcomes BY <1>8, Zenon DEF Outcomes
    <2> QED BY <2>1, <2>2
  <1> HIDE DEF p
  <1>10. \A s \in Slots : PadAfter(b.pads[s], ToController) = "READY"
    BY <1>3, <1>4, PadAfterFacts, Zenon
  <1>11. \A s \in Slots : ~Mid(p.bus.pads[s])
    BY <1>4, <1>5, <1>8, <1>10, Zenon DEF Mid
  <1>12. ps \in [Slots -> PadStates] /\ \A s \in Slots : ps[s] = "READY"
    BY <1>10, SMT DEF PadStates
  <1> HIDE DEF ps
  <1>13. /\ all \in Outcomes /\ all.ack = p.ack /\ all.bus.pads = ps /\ all.bus.card = p.bus.card
         /\ all.bus.tap = p.bus.tap
    <2> DEFINE e == [p.bus EXCEPT !.pads = ps]
    <2>1. e \in Buses /\ e.pads = ps /\ e.card = p.bus.card /\ e.tap = p.bus.tap
      BY <1>8, <1>12, Zenon DEF Buses
    <2>2. all = [p EXCEPT !.bus = e] BY <1>8, <1>9, Zenon DEF Outcomes, Buses
    <2> HIDE DEF e, all
    <2> QED BY <1>9, <2>1, <2>2, Zenon DEF Outcomes
  <1> HIDE DEF all
  <1>14. TapResult(b, Outcome(b, FALSE)) BY <1>4, Zenon DEF TapResult, Outcome
  <1>15. ~c.ack => TapResult(b, c)
    <2> SUFFICES ASSUME ~c.ack PROVE TapResult(b, c) OBVIOUS
    <2>1. c.bus.card.state = "IDLE" BY <1>4, <1>5, <1>6, Zenon
    <2>2. TapOk(c.bus) BY <1>4, <1>5, <1>6, <2>1, TapOkIdle, Zenon
    <2> QED BY <1>5, <1>6, <2>1, <2>2, Zenon DEF TapResult
  <1>16. c.ack => TapResult(b, gc)
    <2> SUFFICES ASSUME c.ack PROVE TapResult(b, gc) OBVIOUS
    <2>1. slot = 0 BY <1>6, Zenon
    <2>2. /\ gc \in Outcomes /\ gc.ack = c.ack /\ gc.bus.pads = c.bus.pads /\ gc.bus.card = c.bus.card
          /\ gc.bus.tap.state = "CARD" /\ gc.bus.tap.enabled = c.bus.tap.enabled
          /\ gc.bus.tap.slot = c.bus.tap.slot /\ gc.bus.tap.step = c.bus.tap.step
          /\ gc.bus.tap.all = c.bus.tap.all /\ gc.bus.tap.done = c.bus.tap.done
      BY <1>7, GoesTap, Zenon DEF TapStates
    <2> HIDE DEF gc
    <2>3. gc.bus \in Buses BY <2>2, Zenon DEF Outcomes
    <2>4. TapOk(gc.bus) BY <1>4, <1>5, <1>6, <2>1, <2>2, TapOkCard, Zenon
    <2> QED BY <1>5, <1>6, <2>2, <2>3, <2>4, Zenon DEF TapResult
  <1>17. ~p.ack => TapResult(b, p)
    <2>1. TapOk(p.bus) BY <1>4, <1>5, <1>8, <1>11, TapOkIdle, Zenon
    <2> QED BY <1>4, <1>5, <1>8, <2>1, Zenon DEF TapResult
  <1>18. ASSUME NEW o \in Outcomes, o.ack, o.bus.card = b.card, o.bus.tap = d.tap,
                \A s \in Slots : ~Mid(o.bus.pads[s]),
                b.tap.all => \A s \in Slots : o.bus.pads[s] = "READY"
         PROVE  TapResult(b, Goes(o, "COMMAND"))
    <2> DEFINE g == Goes(o, "COMMAND")
    <2>1. /\ g \in Outcomes /\ g.ack = o.ack /\ g.bus.pads = o.bus.pads /\ g.bus.card = o.bus.card
          /\ g.bus.tap.state = "COMMAND" /\ g.bus.tap.enabled = o.bus.tap.enabled
          /\ g.bus.tap.slot = o.bus.tap.slot /\ g.bus.tap.step = o.bus.tap.step
          /\ g.bus.tap.all = o.bus.tap.all /\ g.bus.tap.done = o.bus.tap.done
      BY GoesTap, Zenon DEF TapStates
    <2> HIDE DEF g
    <2>2. g.bus \in Buses BY <2>1, Zenon DEF Outcomes
    <2>3. g.bus.tap.step \in 0..1 BY <1>4, <1>5, <1>18, <2>1, SMT
    <2>4. TapOk(g.bus) BY <1>4, <1>5, <1>18, <2>1, <2>3, TapOkCommand, Zenon
    <2>5. TapResult(b, g) BY <1>5, <1>18, <2>1, <2>2, <2>4, Zenon DEF TapResult
    <2> QED BY <2>5 DEF g
  <1>19. p.ack /\ ~b.tap.all => TapResult(b, gp)
    BY <1>5, <1>8, <1>9, <1>11, <1>18, Zenon
  <1>20. p.ack => TapResult(b, ga)
    <2>1. \A s \in Slots : ~Mid(ps[s]) BY <1>12, Zenon DEF Mid
    <2> QED BY <1>5, <1>8, <1>12, <1>13, <1>18, <2>1, Zenon
  <1> HIDE DEF gc, gp, ga
  <1> QED BY <1>2, <1>14, <1>15, <1>16, <1>17, <1>19, <1>20, Zenon

(* An outcome with another multitap state.                                 *)
LEMMA SetOutcomeTap ==
  ASSUME NEW o \in Outcomes, NEW u \in Tap
  PROVE  LET r == [o EXCEPT !.bus = [o.bus EXCEPT !.tap = u]] IN
         /\ r \in Outcomes /\ r.ack = o.ack /\ r.bus.pads = o.bus.pads /\ r.bus.card = o.bus.card
         /\ r.bus.tap = u
  <1> DEFINE d == [o.bus EXCEPT !.tap = u]
             r == [o EXCEPT !.bus = d]
  <1>1. o.bus \in Buses /\ o.ack \in BOOLEAN BY Zenon DEF Outcomes
  <1>2. d \in Buses /\ d.pads = o.bus.pads /\ d.card = o.bus.card /\ d.tap = u
    BY <1>1, SetTapFields
  <1> HIDE DEF d
  <1>3. r \in Outcomes /\ r.ack = o.ack /\ r.bus = d BY <1>1, <1>2, Zenon DEF Outcomes
  <1> HIDE DEF r
  <1>4. r \in Outcomes /\ r.ack = o.ack /\ r.bus.pads = o.bus.pads /\ r.bus.card = o.bus.card
        /\ r.bus.tap = u
    BY <1>2, <1>3, Zenon
  <1> QED BY <1>4 DEF r, d

(* A byte for a controller has an outcome.                                 *)
LEMMA ToPadOutcome ==
  ASSUME NEW b \in Buses, NEW slot \in Slots, NEW byte
  PROVE  ToPad(b, slot, byte) \in Outcomes
  <1> DEFINE p == ToPad(b, slot, byte)
  <1>1. p = [bus |-> p.bus, ack |-> p.ack] BY Zenon DEF ToPad, Outcome
  <1>2. p.bus \in Buses /\ p.ack \in BOOLEAN BY ToPadFields
  <1> HIDE DEF p
  <1>3. [bus |-> p.bus, ack |-> p.ack] \in Outcomes BY <1>2, Zenon DEF Outcomes
  <1>4. p \in Outcomes BY <1>1, <1>3
  <1> QED BY <1>4 DEF p

(* A byte for a card slot has an outcome.                                  *)
LEMMA ToCardOutcome ==
  ASSUME NEW b \in Buses, CardOk(b.card), NEW slot \in Slots, NEW byte
  PROVE  ToCardSlot(b, slot, byte) \in Outcomes
  <1> DEFINE c == ToCardSlot(b, slot, byte)
  <1>1. c = [bus |-> c.bus, ack |-> c.ack]
    <2>1. CASE slot # 0 BY <2>1, Zenon DEF ToCardSlot, Outcome
    <2>2. CASE slot = 0 BY <2>2, Zenon DEF ToCardSlot, Outcome
    <2> QED BY <2>1, <2>2
  <1>2. c.bus \in Buses /\ c.ack \in BOOLEAN BY ToCardSlotFields
  <1> HIDE DEF c
  <1>3. [bus |-> c.bus, ack |-> c.ack] \in Outcomes BY <1>2, Zenon DEF Outcomes
  <1>4. c \in Outcomes BY <1>1, <1>3
  <1> QED BY <1>4 DEF c

(* The step of the multitap is set in an outcome.                          *)
LEMMA SetStepFields ==
  ASSUME NEW o \in Outcomes, NEW n \in 0..TapSlots * TapBytes
  PROVE  LET r == [o EXCEPT !.bus.tap.step = n] IN
         /\ r \in Outcomes /\ r.ack = o.ack /\ r.bus.pads = o.bus.pads /\ r.bus.card = o.bus.card
         /\ r.bus.tap.enabled = o.bus.tap.enabled /\ r.bus.tap.state = o.bus.tap.state
         /\ r.bus.tap.slot = o.bus.tap.slot /\ r.bus.tap.step = n
         /\ r.bus.tap.all = o.bus.tap.all /\ r.bus.tap.done = o.bus.tap.done
  <1> DEFINE u == [o.bus.tap EXCEPT !.step = n]
             v == [o EXCEPT !.bus = [o.bus EXCEPT !.tap = u]]
  <1>1. o.bus.tap \in Tap BY Zenon DEF Outcomes, Buses
  <1>2. u \in Tap BY <1>1, Zenon DEF Tap
  <1>3. /\ u.enabled = o.bus.tap.enabled /\ u.state = o.bus.tap.state /\ u.slot = o.bus.tap.slot
        /\ u.step = n /\ u.all = o.bus.tap.all /\ u.done = o.bus.tap.done
    BY <1>1, Zenon DEF Tap
  <1>4. [o EXCEPT !.bus.tap.step = n] = v BY Zenon DEF Outcomes, Buses
  <1> HIDE DEF u
  <1>5. /\ v \in Outcomes /\ v.ack = o.ack /\ v.bus.pads = o.bus.pads /\ v.bus.card = o.bus.card
        /\ v.bus.tap = u
    BY <1>2, SetOutcomeTap
  <1> HIDE DEF v
  <1> QED BY <1>3, <1>4, <1>5, Zenon

(* The request for all controllers is set in an outcome.                   *)
LEMMA SetAllFields ==
  ASSUME NEW o \in Outcomes, NEW x \in BOOLEAN
  PROVE  LET r == [o EXCEPT !.bus.tap.all = x] IN
         /\ r \in Outcomes /\ r.ack = o.ack /\ r.bus.pads = o.bus.pads /\ r.bus.card = o.bus.card
         /\ r.bus.tap.enabled = o.bus.tap.enabled /\ r.bus.tap.state = o.bus.tap.state
         /\ r.bus.tap.slot = o.bus.tap.slot /\ r.bus.tap.step = o.bus.tap.step
         /\ r.bus.tap.done = o.bus.tap.done
  <1> DEFINE u == [o.bus.tap EXCEPT !.all = x]
             v == [o EXCEPT !.bus = [o.bus EXCEPT !.tap = u]]
  <1>1. o.bus.tap \in Tap BY Zenon DEF Outcomes, Buses
  <1>2. u \in Tap BY <1>1, Zenon DEF Tap
  <1>3. /\ u.enabled = o.bus.tap.enabled /\ u.state = o.bus.tap.state /\ u.slot = o.bus.tap.slot
        /\ u.step = o.bus.tap.step /\ u.done = o.bus.tap.done
    BY <1>1, Zenon DEF Tap
  <1>4. [o EXCEPT !.bus.tap.all = x] = v BY Zenon DEF Outcomes, Buses
  <1> HIDE DEF u
  <1>5. /\ v \in Outcomes /\ v.ack = o.ack /\ v.bus.pads = o.bus.pads /\ v.bus.card = o.bus.card
        /\ v.bus.tap = u
    BY <1>2, SetOutcomeTap
  <1> HIDE DEF v
  <1> QED BY <1>3, <1>4, <1>5, Zenon

(* A command that the multitap does not know is noted.                     *)
LEMMA SetInvalidFields ==
  ASSUME NEW b \in Buses, NEW x \in BOOLEAN
  PROVE  LET c == [b EXCEPT !.tap.invalid = x] IN
         /\ c \in Buses /\ c.pads = b.pads /\ c.card = b.card /\ c.tap.slot = b.tap.slot
         /\ c.tap.enabled = b.tap.enabled /\ c.tap.state = b.tap.state /\ c.tap.step = b.tap.step
         /\ c.tap.all = b.tap.all /\ c.tap.done = b.tap.done
  <1> DEFINE u == [b.tap EXCEPT !.invalid = x]
             v == [b EXCEPT !.tap = u]
  <1>1. b.tap \in Tap BY BusFields
  <1>2. u \in Tap BY <1>1, Zenon DEF Tap
  <1>3. /\ u.enabled = b.tap.enabled /\ u.state = b.tap.state /\ u.slot = b.tap.slot
        /\ u.step = b.tap.step /\ u.all = b.tap.all /\ u.done = b.tap.done
    BY <1>1, Zenon DEF Tap
  <1>4. [b EXCEPT !.tap.invalid = x] = v BY Zenon DEF Buses
  <1> HIDE DEF u
  <1>5. v \in Buses /\ v.pads = b.pads /\ v.card = b.card /\ v.tap = u BY <1>2, SetTapFields, Zenon
  <1> HIDE DEF v
  <1> QED BY <1>3, <1>4, <1>5, Zenon

(* The parts of an outcome.                                                *)
LEMMA OutcomeFields ==
  ASSUME NEW b \in Buses, NEW a \in BOOLEAN
  PROVE  Outcome(b, a) \in Outcomes /\ Outcome(b, a).bus = b /\ Outcome(b, a).ack = a
  BY Zenon DEF Outcome, Outcomes

(* The two command bytes: a request for all starts with the controller in  *)
(* slot 0, all of them READY.                                              *)
LEMMA TapCommandOk ==
  ASSUME NEW b \in Buses, CardOk(b.card), TapOk(b), b.tap.state = "COMMAND", NEW byte
  PROVE  TapResult(b, TapCommand(b, byte))
  <1> DEFINE t == b.tap
             i == [b EXCEPT !.tap.invalid = byte # Poll]
             oi == Outcome(i, TRUE)
             p == ToPad(b, t.slot, byte)
             z == [b EXCEPT !.tap.slot = 0]
             oz == Outcome(z, ~t.invalid)
             ga == Goes(oz, "ALL")
             q == ToPad(b, t.slot, None)
             gs == Goes(q, "SINGLE")
             x == (byte % 2 = 1)
             r1 == [oi EXCEPT !.bus.tap.step = 1]
             r2 == [p EXCEPT !.bus.tap.step = 1]
             r3 == [ga EXCEPT !.bus.tap.step = 0, !.bus.tap.all = x]
             r4 == [gs EXCEPT !.bus.tap.step = 0, !.bus.tap.all = x]
  <1>1. /\ t.step = 0 /\ t.all => TapCommand(b, byte) = r1
        /\ t.step = 0 /\ ~t.all => TapCommand(b, byte) = r2
        /\ t.step # 0 /\ t.all => TapCommand(b, byte) = r3
        /\ t.step # 0 /\ ~t.all => TapCommand(b, byte) = r4
    BY Zenon DEF TapCommand
  <1>2. /\ b.pads \in [Slots -> PadStates] /\ t \in Tap /\ t.slot \in Slots /\ t.all \in BOOLEAN
        /\ t.invalid \in BOOLEAN
    BY BusFields, TapFields, Zenon
  <1>3. /\ b.card.state = "IDLE" /\ t.step \in 0..1 /\ ~t.done
        /\ \A s \in Slots : Mid(b.pads[s]) => s = t.slot
        /\ t.step = 0 \/ t.all => \A s \in Slots : ~Mid(b.pads[s])
        /\ t.all => \A s \in Slots : b.pads[s] = "READY"
    <2>1. t.state # "CARD" /\ t.state # "ALL" BY SMT
    <2> QED BY <2>1, Zenon DEF TapOk, CardHasTap, OneIsMid, StepsCount, CommandWaits
  <1>4. 0 \in Slots /\ 0 \in 0..TapSlots * TapBytes /\ 1 \in 0..TapSlots * TapBytes /\ 1 \in 0..1
        /\ 0 \in 0..1
    BY PortFacts, SMT
  <1>5. x \in BOOLEAN OBVIOUS
  <1> HIDE DEF x
  <1>6. ASSUME t.step = 0, t.all PROVE TapResult(b, r1)
    <2>1. (byte # Poll) \in BOOLEAN OBVIOUS
    <2>2. /\ i \in Buses /\ i.pads = b.pads /\ i.card = b.card /\ i.tap.slot = t.slot
          /\ i.tap.enabled = t.enabled /\ i.tap.state = t.state /\ i.tap.step = t.step
          /\ i.tap.all = t.all /\ i.tap.done = t.done
      BY <2>1, SetInvalidFields
    <2> HIDE DEF i
    <2>3. oi \in Outcomes /\ oi.bus = i /\ oi.ack = TRUE BY <2>2, OutcomeFields
    <2> HIDE DEF oi
    <2>4. /\ r1 \in Outcomes /\ r1.ack = oi.ack /\ r1.bus.pads = oi.bus.pads
          /\ r1.bus.card = oi.bus.card
          /\ r1.bus.tap.enabled = oi.bus.tap.enabled /\ r1.bus.tap.state = oi.bus.tap.state
          /\ r1.bus.tap.slot = oi.bus.tap.slot /\ r1.bus.tap.step = 1
          /\ r1.bus.tap.all = oi.bus.tap.all /\ r1.bus.tap.done = oi.bus.tap.done
      BY <1>4, <2>3, SetStepFields, Zenon
    <2> HIDE DEF r1
    <2>5. TapOk(r1.bus)
      <3>1. /\ r1.bus.pads = b.pads /\ r1.bus.card = b.card /\ r1.bus.tap.state = "COMMAND"
            /\ r1.bus.tap.slot = t.slot /\ r1.bus.tap.step = 1 /\ ~r1.bus.tap.done
        BY <1>3, <2>2, <2>3, <2>4, Zenon
      <3>2. \A s \in Slots : r1.bus.pads[s] = "READY" /\ ~Mid(r1.bus.pads[s])
        BY <1>3, <1>6, <3>1, Zenon
      <3>3. r1.bus.card.state = "IDLE" /\ r1.bus.tap.step \in 0..1 BY <1>3, <1>4, <3>1, Zenon
      <3> QED BY <3>1, <3>2, <3>3, TapOkCommand, Zenon
    <2>6. r1.bus \in Buses BY <2>4, Zenon DEF Outcomes
    <2> QED BY <1>3, <2>2, <2>3, <2>4, <2>5, <2>6, Zenon DEF TapResult
  <1>7. ASSUME t.step = 0, ~t.all PROVE TapResult(b, r2)
    <2>1. /\ p.bus \in Buses /\ p.ack \in BOOLEAN /\ p.bus.card = b.card /\ p.bus.tap = b.tap
          /\ \A s \in Slots : s # t.slot => p.bus.pads[s] = b.pads[s]
      BY <1>2, ToPadFields
    <2>2. p \in Outcomes BY <1>2, ToPadOutcome
    <2> HIDE DEF p
    <2>3. /\ r2 \in Outcomes /\ r2.ack = p.ack /\ r2.bus.pads = p.bus.pads
          /\ r2.bus.card = p.bus.card
          /\ r2.bus.tap.enabled = p.bus.tap.enabled /\ r2.bus.tap.state = p.bus.tap.state
          /\ r2.bus.tap.slot = p.bus.tap.slot /\ r2.bus.tap.step = 1
          /\ r2.bus.tap.all = p.bus.tap.all /\ r2.bus.tap.done = p.bus.tap.done
      BY <1>4, <2>2, SetStepFields, Zenon
    <2> HIDE DEF r2
    <2>4. 1 # 0 OBVIOUS
    <2>5. \A s \in Slots : Mid(r2.bus.pads[s]) => s = r2.bus.tap.slot BY <1>3, <2>1, <2>3, Zenon
    <2>6. TapOk(r2.bus) BY <1>3, <1>4, <1>7, <2>1, <2>3, <2>4, <2>5, TapOkCommand, Zenon
    <2>7. r2.bus \in Buses BY <2>3, Zenon DEF Outcomes
    <2> QED BY <1>3, <2>1, <2>3, <2>6, <2>7, Zenon DEF TapResult
  <1>8. ASSUME t.step # 0, t.all PROVE TapResult(b, r3)
    <2>1. /\ z \in Buses /\ z.pads = b.pads /\ z.card = b.card /\ z.tap.slot = 0
          /\ z.tap.enabled = t.enabled /\ z.tap.state = t.state /\ z.tap.step = t.step
          /\ z.tap.all = t.all /\ z.tap.done = t.done
      BY <1>4, SetSlotFields
    <2> HIDE DEF z
    <2>2. oz \in Outcomes /\ oz.bus = z /\ oz.ack = ~t.invalid
      BY <1>2, <2>1, OutcomeFields
    <2> HIDE DEF oz
    <2>3. /\ ga \in Outcomes /\ ga.ack = oz.ack /\ ga.bus.pads = oz.bus.pads /\ ga.bus.card = oz.bus.card
          /\ ga.bus.tap.state = "ALL" /\ ga.bus.tap.enabled = oz.bus.tap.enabled
          /\ ga.bus.tap.slot = oz.bus.tap.slot /\ ga.bus.tap.step = oz.bus.tap.step
          /\ ga.bus.tap.all = oz.bus.tap.all /\ ga.bus.tap.done = oz.bus.tap.done
      BY <2>2, GoesTap, Zenon DEF TapStates
    <2> HIDE DEF ga
    <2> DEFINE m3 == [ga EXCEPT !.bus.tap.step = 0]
               n == [m3 EXCEPT !.bus.tap.all = x]
    <2>4. /\ r3 \in Outcomes /\ r3.ack = ga.ack /\ r3.bus.pads = ga.bus.pads
          /\ r3.bus.card = ga.bus.card
          /\ r3.bus.tap.enabled = ga.bus.tap.enabled /\ r3.bus.tap.state = ga.bus.tap.state
          /\ r3.bus.tap.slot = ga.bus.tap.slot /\ r3.bus.tap.step = 0
          /\ r3.bus.tap.done = ga.bus.tap.done
      <3>1. r3 = n BY Zenon
      <3>2. /\ m3 \in Outcomes /\ m3.ack = ga.ack /\ m3.bus.pads = ga.bus.pads
            /\ m3.bus.card = ga.bus.card
            /\ m3.bus.tap.enabled = ga.bus.tap.enabled /\ m3.bus.tap.state = ga.bus.tap.state
            /\ m3.bus.tap.slot = ga.bus.tap.slot /\ m3.bus.tap.step = 0
            /\ m3.bus.tap.done = ga.bus.tap.done
        BY <1>4, <2>3, SetStepFields, Zenon
      <3> HIDE DEF m3
      <3>3. /\ n \in Outcomes /\ n.ack = m3.ack /\ n.bus.pads = m3.bus.pads
            /\ n.bus.card = m3.bus.card
            /\ n.bus.tap.enabled = m3.bus.tap.enabled /\ n.bus.tap.state = m3.bus.tap.state
            /\ n.bus.tap.slot = m3.bus.tap.slot /\ n.bus.tap.step = m3.bus.tap.step
            /\ n.bus.tap.done = m3.bus.tap.done
        BY <1>5, <3>2, SetAllFields, Zenon
      <3> HIDE DEF n, r3
      <3> QED BY <3>1, <3>2, <3>3, Zenon
    <2> HIDE DEF r3
    <2>5. \A s \in Slots : r3.bus.pads[s] = "READY"
      <3>1. r3.bus.pads = b.pads BY <2>1, <2>2, <2>3, <2>4, Zenon
      <3> QED BY <1>3, <1>8, <3>1, Zenon
    <2>6. r3.bus.tap.slot = 0 /\ r3.bus.tap.step = 0 /\ ~r3.bus.tap.done
      BY <1>3, <2>1, <2>2, <2>3, <2>4, Zenon
    <2>7. TurnsAreTaken(r3.bus)
      <3>1. 0 \in 0..TapBytes - 1 /\ 0 <= 3 /\ 0 = 0 * TapBytes + 0 BY PortFacts, SMT
      <3>2. Answering[0] = "READY" BY SMT DEF Answering
      <3>3. r3.bus.pads[0] = "READY" BY <1>4, <2>5
      <3> QED BY <2>5, <2>6, <3>1, <3>2, <3>3, Zenon DEF TurnsAreTaken
    <2>8. \A s \in Slots : ~Mid(r3.bus.pads[s]) BY <2>5, Zenon DEF Mid
    <2>9. TapOk(r3.bus)
      <3>1. r3.bus.card = b.card /\ r3.bus.tap.state = "ALL" BY <2>1, <2>2, <2>3, <2>4, Zenon
      <3>2. r3.bus.card.state = "IDLE" BY <1>3, <3>1, Zenon
      <3>3. \A s \in Slots : Mid(r3.bus.pads[s]) => s = r3.bus.tap.slot BY <2>8, Zenon
      <3> QED BY <2>7, <3>1, <3>2, <3>3, TapOkAll, Zenon
    <2>10. r3.bus \in Buses /\ r3.ack \in BOOLEAN BY <2>4, Zenon DEF Outcomes
    <2> QED BY <1>3, <2>1, <2>2, <2>3, <2>4, <2>9, <2>10, Zenon DEF TapResult
  <1>9. ASSUME t.step # 0, ~t.all PROVE TapResult(b, r4)
    <2>1. /\ q.bus \in Buses /\ q.ack \in BOOLEAN /\ q.bus.card = b.card /\ q.bus.tap = b.tap
          /\ \A s \in Slots : s # t.slot => q.bus.pads[s] = b.pads[s]
      BY <1>2, ToPadFields
    <2>2. q \in Outcomes BY <1>2, ToPadOutcome
    <2> HIDE DEF q
    <2>3. /\ gs \in Outcomes /\ gs.ack = q.ack /\ gs.bus.pads = q.bus.pads /\ gs.bus.card = q.bus.card
          /\ gs.bus.tap.state = "SINGLE" /\ gs.bus.tap.enabled = q.bus.tap.enabled
          /\ gs.bus.tap.slot = q.bus.tap.slot /\ gs.bus.tap.step = q.bus.tap.step
          /\ gs.bus.tap.all = q.bus.tap.all /\ gs.bus.tap.done = q.bus.tap.done
      BY <2>2, GoesTap, Zenon DEF TapStates
    <2> HIDE DEF gs
    <2> DEFINE m4 == [gs EXCEPT !.bus.tap.step = 0]
               n == [m4 EXCEPT !.bus.tap.all = x]
    <2>4. /\ r4 \in Outcomes /\ r4.ack = gs.ack /\ r4.bus.pads = gs.bus.pads
          /\ r4.bus.card = gs.bus.card
          /\ r4.bus.tap.enabled = gs.bus.tap.enabled /\ r4.bus.tap.state = gs.bus.tap.state
          /\ r4.bus.tap.slot = gs.bus.tap.slot /\ r4.bus.tap.step = 0
          /\ r4.bus.tap.done = gs.bus.tap.done
      <3>1. r4 = n BY Zenon
      <3>2. /\ m4 \in Outcomes /\ m4.ack = gs.ack /\ m4.bus.pads = gs.bus.pads
            /\ m4.bus.card = gs.bus.card
            /\ m4.bus.tap.enabled = gs.bus.tap.enabled /\ m4.bus.tap.state = gs.bus.tap.state
            /\ m4.bus.tap.slot = gs.bus.tap.slot /\ m4.bus.tap.step = 0
            /\ m4.bus.tap.done = gs.bus.tap.done
        BY <1>4, <2>3, SetStepFields, Zenon
      <3> HIDE DEF m4
      <3>3. /\ n \in Outcomes /\ n.ack = m4.ack /\ n.bus.pads = m4.bus.pads
            /\ n.bus.card = m4.bus.card
            /\ n.bus.tap.enabled = m4.bus.tap.enabled /\ n.bus.tap.state = m4.bus.tap.state
            /\ n.bus.tap.slot = m4.bus.tap.slot /\ n.bus.tap.step = m4.bus.tap.step
            /\ n.bus.tap.done = m4.bus.tap.done
        BY <1>5, <3>2, SetAllFields, Zenon
      <3> HIDE DEF n, r4
      <3> QED BY <3>1, <3>2, <3>3, Zenon
    <2> HIDE DEF r4
    <2>5. \A s \in Slots : Mid(r4.bus.pads[s]) => s = r4.bus.tap.slot
      <3>1. r4.bus.pads = q.bus.pads /\ r4.bus.tap.slot = t.slot BY <2>1, <2>3, <2>4, Zenon
      <3>2. t.step # 0 /\ ~t.all BY <1>9
      <3>3. SUFFICES ASSUME NEW s \in Slots, s # t.slot PROVE ~Mid(q.bus.pads[s]) BY <3>1, Zenon
      <3>4. q.bus.pads[s] = b.pads[s] BY <2>1, <3>3, Zenon
      <3> QED BY <1>3, <3>3, <3>4, Zenon
    <2>6. TapOk(r4.bus) BY <1>3, <2>1, <2>3, <2>4, <2>5, TapOkSingle, Zenon
    <2>7. r4.bus \in Buses /\ r4.ack \in BOOLEAN BY <2>4, Zenon DEF Outcomes
    <2> QED BY <1>3, <2>1, <2>3, <2>4, <2>6, <2>7, Zenon DEF TapResult
  <1> HIDE DEF r1, r2, r3, r4
  <1> QED BY <1>1, <1>2, <1>6, <1>7, <1>8, <1>9, Zenon

-----------------------------------------------------------------------------
(* The turns of all the controllers *)

(* A turn has ended exactly when TapBytes have been exchanged in it.       *)
LEMMA TurnEnds ==
  ASSUME NEW n \in Nat, n >= 1, NEW q \in Nat, NEW r \in 1..n
  PROVE  (q * n + r) % n = 0 <=> r = n
  <1>1. q * n \in Nat /\ (q + 1) * n = q * n + n BY SMT
  <1>2. CASE r = n
    <2>1. (q + 1) * n % n = 0 BY SMT
    <2> QED BY <1>1, <1>2, <2>1, SMT
  <1>3. CASE r # n
    <2>1. r \in 0..n - 1 BY <1>3, SMT
    <2>2. (q * n + r) % n = r BY <2>1, SMT
    <2> QED BY <1>3, <2>2, SMT
  <1> QED BY <1>2, <1>3

(* After the last slot comes the first.                                    *)
LEMMA NextSlot ==
  ASSUME NEW slot \in Slots
  PROVE  /\ (slot + 1) % TapSlots \in Slots
         /\ slot + 1 < TapSlots => (slot + 1) % TapSlots = slot + 1
         /\ slot + 1 >= TapSlots => (slot + 1) % TapSlots = 0
  <1>1. TapSlots \in Nat /\ TapSlots > 0 /\ slot \in Nat /\ slot < TapSlots BY PortFacts
  <1>2. CASE slot + 1 < TapSlots
    <2>1. (slot + 1) % TapSlots = slot + 1 BY <1>1, <1>2, SMT
    <2> QED BY <1>1, <1>2, <2>1, SMT DEF Slots
  <1>3. CASE slot + 1 >= TapSlots
    <2>1. slot + 1 = TapSlots BY <1>1, <1>3, SMT
    <2>2. TapSlots % TapSlots = 0 BY <1>1, SMT
    <2>3. (slot + 1) % TapSlots = 0 BY <2>1, <2>2, Zenon
    <2> QED BY <1>1, <1>3, <2>1, <2>3, SMT DEF Slots
  <1> QED BY <1>1, <1>2, <1>3, SMT

(* The step of the multitap is set.                                        *)
LEMMA SetBusStepFields ==
  ASSUME NEW b \in Buses, NEW n \in 0..TapSlots * TapBytes
  PROVE  LET c == [b EXCEPT !.tap.step = n] IN
         /\ c \in Buses /\ c.pads = b.pads /\ c.card = b.card /\ c.tap.slot = b.tap.slot
         /\ c.tap.enabled = b.tap.enabled /\ c.tap.state = b.tap.state /\ c.tap.step = n
         /\ c.tap.done = b.tap.done
  <1> DEFINE u == [b.tap EXCEPT !.step = n]
             v == [b EXCEPT !.tap = u]
  <1>1. b.tap \in Tap BY BusFields
  <1>2. u \in Tap BY <1>1, Zenon DEF Tap
  <1>3. /\ u.enabled = b.tap.enabled /\ u.state = b.tap.state /\ u.slot = b.tap.slot
        /\ u.step = n /\ u.done = b.tap.done
    BY <1>1, Zenon DEF Tap
  <1>4. [b EXCEPT !.tap.step = n] = v BY Zenon DEF Buses
  <1> HIDE DEF u
  <1>5. v \in Buses /\ v.pads = b.pads /\ v.card = b.card /\ v.tap = u BY <1>2, SetTapFields, Zenon
  <1> HIDE DEF v
  <1> QED BY <1>3, <1>4, <1>5, Zenon

(* The multitap notes that the controller has stopped answering.           *)
LEMMA SetDoneFields ==
  ASSUME NEW b \in Buses, NEW x \in BOOLEAN
  PROVE  LET c == [b EXCEPT !.tap.done = x] IN
         /\ c \in Buses /\ c.pads = b.pads /\ c.card = b.card /\ c.tap.slot = b.tap.slot
         /\ c.tap.enabled = b.tap.enabled /\ c.tap.state = b.tap.state /\ c.tap.step = b.tap.step
         /\ c.tap.done = x
  <1> DEFINE u == [b.tap EXCEPT !.done = x]
             v == [b EXCEPT !.tap = u]
  <1>1. b.tap \in Tap BY BusFields
  <1>2. u \in Tap BY <1>1, Zenon DEF Tap
  <1>3. /\ u.enabled = b.tap.enabled /\ u.state = b.tap.state /\ u.slot = b.tap.slot
        /\ u.step = b.tap.step /\ u.done = x
    BY <1>1, Zenon DEF Tap
  <1>4. [b EXCEPT !.tap.done = x] = v BY Zenon DEF Buses
  <1> HIDE DEF u
  <1>5. v \in Buses /\ v.pads = b.pads /\ v.card = b.card /\ v.tap = u BY <1>2, SetTapFields, Zenon
  <1> HIDE DEF v
  <1> QED BY <1>3, <1>4, <1>5, Zenon

(* A byte for all the controllers.  A controller has its turn for TapBytes *)
(* bytes and answers at most four of them, so it is through when the turn  *)
(* of the next one begins.                                                 *)
LEMMA TapAllOk ==
  ASSUME NEW b \in Buses, CardOk(b.card), TapOk(b), b.tap.state = "ALL",
         b.tap.step # TapSlots * TapBytes, NEW byte
  PROVE  TapResult(b, TapAll(b, byte))
  <1> DEFINE t == b.tap
             p == ToPad(b, t.slot, byte)
             o == IF t.done THEN Outcome(b, FALSE) ELSE p
             last == (t.step + 1) % TapBytes = 0
             next == (t.slot + 1) % TapSlots
             dn == ~last /\ (t.done \/ ~o.ack)
             sl == IF last THEN next ELSE t.slot
             e1 == [o.bus EXCEPT !.tap.step = t.step + 1]
             e2 == [e1 EXCEPT !.tap.done = dn]
             e3 == [e2 EXCEPT !.tap.slot = sl]
             ak == ~(last /\ next = 0)
  <1>1. /\ TapSlots \in Nat /\ TapSlots > 0 /\ TapBytes \in Nat /\ TapBytes >= 4
        /\ TapSlots * TapBytes \in Nat
        /\ \A s \in Slots : s \in Nat /\ s < TapSlots
    BY PortFacts
  <1>2. /\ b.pads \in [Slots -> PadStates] /\ t \in Tap /\ t.slot \in Slots /\ t.done \in BOOLEAN
        /\ t.step \in 0..TapSlots * TapBytes
    BY BusFields, TapFields
  <1>3. /\ t.step \in Nat /\ t.step < TapSlots * TapBytes
        /\ t.step + 1 \in 0..TapSlots * TapBytes
        /\ t.slot \in Nat /\ t.slot < TapSlots
    BY <1>1, <1>2, SMT
  <1>4. /\ b.card.state = "IDLE"
        /\ \A s \in Slots : Mid(b.pads[s]) => s = t.slot
    <2>1. t.state # "CARD" BY SMT
    <2> QED BY <2>1, Zenon DEF TapOk, CardHasTap, OneIsMid
  <1>5. PICK k \in 0..TapBytes - 1 :
           /\ t.step = t.slot * TapBytes + k
           /\ \A s \in Slots : s > t.slot => b.pads[s] = "READY"
           /\ t.done => ~Mid(b.pads[t.slot])
           /\ ~t.done => k <= 3 /\ b.pads[t.slot] = Answering[k]
    BY <1>3, Zenon DEF TapOk, TurnsAreTaken
  <1>6. k \in Nat /\ k + 1 \in 1..TapBytes /\ t.step + 1 = t.slot * TapBytes + (k + 1)
    BY <1>1, <1>3, <1>5, SMT
  <1>7. last <=> k + 1 = TapBytes
    <2> DEFINE j == k + 1
    <2>1. TapBytes >= 1 /\ j \in 1..TapBytes /\ t.slot \in Nat BY <1>1, <1>3, <1>6, SMT
    <2> HIDE DEF j
    <2>2. (t.slot * TapBytes + j) % TapBytes = 0 <=> j = TapBytes BY <1>1, <2>1, TurnEnds
    <2>3. t.step + 1 = t.slot * TapBytes + j BY <1>6 DEF j
    <2>4. (t.step + 1) % TapBytes = 0 <=> j = TapBytes BY <2>2, <2>3, Zenon
    <2> QED BY <2>4 DEF j
  <1> HIDE DEF last
  <1>8. /\ next \in Slots
        /\ t.slot + 1 < TapSlots => next = t.slot + 1
        /\ t.slot + 1 >= TapSlots => next = 0
    BY <1>2, NextSlot
  <1> HIDE DEF next
  <1>9. /\ p.bus \in Buses /\ p.ack = PadAck(b.pads[t.slot], byte) /\ p.ack \in BOOLEAN
        /\ p.bus.card = b.card /\ p.bus.tap = t
        /\ p.bus.pads[t.slot] = PadAfter(b.pads[t.slot], byte)
        /\ \A s \in Slots : s # t.slot => p.bus.pads[s] = b.pads[s]
    BY <1>2, ToPadFields
  <1> HIDE DEF p
  <1>10. /\ o.bus \in Buses /\ o.ack \in BOOLEAN /\ o.bus.card = b.card /\ o.bus.tap = t
         /\ \A s \in Slots : s # t.slot => o.bus.pads[s] = b.pads[s]
         /\ t.done => o.bus.pads = b.pads
         /\ ~t.done => o = p
    <2>1. CASE t.done
      <3>1. o = Outcome(b, FALSE) BY <2>1
      <3>2. o.bus = b /\ o.ack = FALSE BY <3>1, OutcomeFields
      <3> QED BY <2>1, <3>2
    <2>2. CASE ~t.done
      <3>1. o = p BY <2>2
      <3> HIDE DEF o
      <3> QED BY <1>9, <2>2, <3>1, Zenon
    <2> QED BY <1>2, <2>1, <2>2
  <1> HIDE DEF o
  (* What the byte has done to the controller whose turn it is. *)
  <1>11. t.done \/ ~o.ack => ~Mid(o.bus.pads[t.slot])
    <2>1. CASE t.done BY <1>5, <1>10, <2>1, Zenon
    <2>2. CASE ~t.done
      <3>1. o = p BY <1>10, <2>2
      <3>2. b.pads[t.slot] \in PadStates BY <1>2
      <3>3. ~PadAck(b.pads[t.slot], byte) => ~Mid(PadAfter(b.pads[t.slot], byte))
        BY <3>2, PadAfterFacts
      <3> QED BY <1>9, <2>2, <3>1, <3>3, Zenon
    <2> QED BY <2>1, <2>2
  <1>12. ASSUME ~t.done, o.ack PROVE k < 3 /\ o.bus.pads[t.slot] = Answering[k + 1]
    <2>1. o = p BY <1>10, <1>12
    <2>2. b.pads[t.slot] \in PadStates BY <1>2
    <2>3. k \in 0..3 /\ b.pads[t.slot] = Answering[k] BY <1>5, <1>6, <1>12, SMT
    <2>4. PadAck(b.pads[t.slot], byte) BY <1>9, <1>12, <2>1, Zenon
    <2>5. k < 3 /\ PadAfter(b.pads[t.slot], byte) = Answering[k + 1]
      BY <2>2, <2>3, <2>4, PadAfterFacts
    <2> QED BY <1>9, <2>1, <2>5, Zenon
  <1>13. last => ~Mid(o.bus.pads[t.slot])
    <2> SUFFICES ASSUME last PROVE ~Mid(o.bus.pads[t.slot]) OBVIOUS
    <2>1. k + 1 = TapBytes BY <1>7
    <2>2. ~(k < 3) BY <1>1, <1>6, <2>1, SMT
    <2> QED BY <1>11, <1>12, <2>2, Zenon
  <1>14. dn \in BOOLEAN /\ sl \in Slots /\ ak \in BOOLEAN
    <2>1. sl \in {next, t.slot} BY Zenon
    <2> QED BY <1>2, <1>8, <2>1
  <1>15. TapAll(b, byte) = Outcome(e3, ak)
    BY <1>10, Zenon DEF TapAll, last, next, o, p
  <1>16. /\ last => dn = FALSE /\ sl = next
         /\ ~last => sl = t.slot /\ (dn <=> t.done \/ ~o.ack)
    BY Zenon
  <1> HIDE DEF dn, sl, ak
  <1>17. /\ e3 \in Buses /\ e3.pads = o.bus.pads /\ e3.card = b.card /\ e3.tap.slot = sl
         /\ e3.tap.enabled = t.enabled /\ e3.tap.state = "ALL" /\ e3.tap.step = t.step + 1
         /\ e3.tap.done = dn
    <2>1. /\ e1 \in Buses /\ e1.pads = o.bus.pads /\ e1.card = o.bus.card
          /\ e1.tap.slot = o.bus.tap.slot /\ e1.tap.enabled = o.bus.tap.enabled
          /\ e1.tap.state = o.bus.tap.state /\ e1.tap.step = t.step + 1
      BY <1>3, <1>10, SetBusStepFields
    <2> HIDE DEF e1
    <2>2. /\ e2 \in Buses /\ e2.pads = e1.pads /\ e2.card = e1.card /\ e2.tap.slot = e1.tap.slot
          /\ e2.tap.enabled = e1.tap.enabled /\ e2.tap.state = e1.tap.state
          /\ e2.tap.step = e1.tap.step /\ e2.tap.done = dn
      BY <1>14, <2>1, SetDoneFields
    <2> HIDE DEF e2
    <2>3. /\ e3 \in Buses /\ e3.pads = e2.pads /\ e3.card = e2.card /\ e3.tap.slot = sl
          /\ e3.tap.enabled = e2.tap.enabled /\ e3.tap.state = e2.tap.state
          /\ e3.tap.step = e2.tap.step /\ e3.tap.done = e2.tap.done
      BY <1>14, <2>2, SetSlotFields
    <2> HIDE DEF e3
    <2> QED BY <1>10, <2>1, <2>2, <2>3, Zenon
  <1> HIDE DEF e3
  <1>18. \A s \in Slots : Mid(e3.pads[s]) => s = e3.tap.slot
    <2> SUFFICES ASSUME NEW s \in Slots, Mid(o.bus.pads[s]) PROVE s = sl BY <1>17, Zenon
    <2>1. s = t.slot BY <1>4, <1>10, Zenon
    <2> QED BY <1>13, <1>16, <2>1, Zenon
  <1>19. TurnsAreTaken(e3)
    <2> SUFFICES ASSUME t.step + 1 < TapSlots * TapBytes
                 PROVE  \E m \in 0..TapBytes - 1 :
                          /\ t.step + 1 = sl * TapBytes + m
                          /\ \A s \in Slots : s > sl => o.bus.pads[s] = "READY"
                          /\ dn => ~Mid(o.bus.pads[sl])
                          /\ ~dn => m <= 3 /\ o.bus.pads[sl] = Answering[m]
      BY <1>17, Zenon DEF TurnsAreTaken
    <2>1. CASE ~last
      <3>1. k + 1 \in 0..TapBytes - 1 BY <1>1, <1>6, <1>7, <2>1, SMT
      <3>2. ASSUME NEW s \in Slots, s > t.slot PROVE o.bus.pads[s] = "READY"
        <4>1. s # t.slot BY <1>1, <1>3, <3>2, SMT
        <4> QED BY <1>5, <1>10, <3>2, <4>1, Zenon
      <3>3. dn => ~Mid(o.bus.pads[t.slot]) BY <1>11, <1>16, <2>1, Zenon
      <3>4. ~dn => k < 3 /\ o.bus.pads[t.slot] = Answering[k + 1] BY <1>12, <1>16, <2>1, Zenon
      <3>5. k < 3 => k + 1 <= 3 BY <1>6, SMT
      <3>6. t.step + 1 = sl * TapBytes + (k + 1) /\ sl = t.slot BY <1>6, <1>16, <2>1, Zenon
      <3>7. WITNESS k + 1 \in 0..TapBytes - 1
      <3> QED BY <3>2, <3>3, <3>4, <3>5, <3>6, Zenon
    <2>2. CASE last
      <3>1. t.step + 1 = (t.slot + 1) * TapBytes
        <4>1. t.step + 1 = t.slot * TapBytes + TapBytes BY <1>6, <1>7, <2>2, Zenon
        <4> QED BY <1>1, <1>3, <4>1, SMT
      <3>2. t.slot + 1 < TapSlots
        <4> SUFFICES ASSUME ~(t.slot + 1 < TapSlots) PROVE FALSE OBVIOUS
        <4>1. t.slot + 1 = TapSlots BY <1>1, <1>3, SMT
        <4>2. t.step + 1 = TapSlots * TapBytes BY <3>1, <4>1, Zenon
        <4> QED BY <1>1, <4>2, SMT
      <3>3. sl = t.slot + 1 /\ dn = FALSE BY <1>8, <1>16, <2>2, <3>2, Zenon
      <3>4. ASSUME NEW s \in Slots, s > t.slot PROVE o.bus.pads[s] = "READY"
        <4>1. s # t.slot BY <1>1, <1>3, <3>4, SMT
        <4> QED BY <1>5, <1>10, <3>4, <4>1, Zenon
      <3>5. sl > t.slot /\ \A s \in Slots : s > sl => s > t.slot BY <1>1, <1>3, <3>3, SMT
      <3>6. Answering[0] = "READY" BY SMT DEF Answering
      <3>7. t.step + 1 = sl * TapBytes + 0
        <4>1. t.step + 1 = sl * TapBytes BY <3>1, <3>3, Zenon
        <4> QED BY <1>3, <4>1, SMT
      <3>8. 0 \in 0..TapBytes - 1 /\ 0 <= 3 BY <1>1, SMT
      <3>9. o.bus.pads[sl] = Answering[0] BY <1>14, <3>4, <3>5, <3>6, Zenon
      <3> QED BY <3>3, <3>4, <3>5, <3>7, <3>8, <3>9, Zenon
    <2> QED BY <2>1, <2>2
  <1>20. TapOk(e3) BY <1>4, <1>17, <1>18, <1>19, TapOkAll, Zenon
  <1>21. Outcome(e3, ak).bus = e3 /\ Outcome(e3, ak).ack = ak BY Zenon DEF Outcome
  <1> QED BY <1>4, <1>14, <1>15, <1>17, <1>20, <1>21, Zenon DEF TapResult

(* A byte for the card behind the multitap.                                *)
LEMMA TapCardOk ==
  ASSUME NEW b \in Buses, CardOk(b.card), TapOk(b), b.tap.state = "CARD", NEW byte
  PROVE  LET c == ToCardSlot(b, b.tap.slot, byte) IN
         TapResult(b, IF c.ack THEN c ELSE Goes(c, "IDLE"))
  <1> DEFINE c == ToCardSlot(b, b.tap.slot, byte)
             g == Goes(c, "IDLE")
  <1>1. b.tap.slot = 0 /\ b.tap.step = 0 /\ ~b.tap.done /\ \A s \in Slots : ~Mid(b.pads[s])
    <2>1. b.tap.state \notin {"COMMAND", "SINGLE", "ALL"} /\ b.tap.state # "ALL" BY SMT
    <2> QED BY <2>1, Zenon DEF TapOk, CardIsFirst, OneIsMid, StepsCount
  <1>2. b.tap.slot \in Slots BY BusFields, TapFields
  <1>3. /\ c.bus \in Buses /\ c.ack \in BOOLEAN /\ CardOk(c.bus.card)
        /\ c.bus.pads = b.pads /\ c.bus.tap = b.tap
        /\ ~c.ack => c.bus.card.state = "IDLE"
    BY <1>1, <1>2, ToCardSlotFields
  <1>4. c \in Outcomes BY <1>2, ToCardOutcome
  <1> HIDE DEF c
  <1>5. ASSUME c.ack PROVE TapResult(b, c)
    <2>1. TapOk(c.bus) BY <1>1, <1>3, TapOkCard, Zenon
    <2> QED BY <1>3, <1>5, <2>1, Zenon DEF TapResult
  <1>6. ASSUME ~c.ack PROVE TapResult(b, g)
    <2>1. /\ g \in Outcomes /\ g.ack = c.ack /\ g.bus.pads = c.bus.pads /\ g.bus.card = c.bus.card
          /\ g.bus.tap.state = "IDLE" /\ g.bus.tap.enabled = c.bus.tap.enabled
          /\ g.bus.tap.slot = c.bus.tap.slot /\ g.bus.tap.step = c.bus.tap.step
          /\ g.bus.tap.all = c.bus.tap.all /\ g.bus.tap.done = c.bus.tap.done
      BY <1>4, GoesTap, Zenon DEF TapStates
    <2> HIDE DEF g
    <2>2. g.bus \in Buses BY <2>1, Zenon DEF Outcomes
    <2>3. TapOk(g.bus) BY <1>1, <1>3, <1>6, <2>1, TapOkIdle, Zenon
    <2> QED BY <1>3, <1>6, <2>1, <2>2, <2>3, Zenon DEF TapResult
  <1> HIDE DEF g
  <1>7. TapResult(b, IF c.ack THEN c ELSE g) BY <1>5, <1>6, Zenon
  <1> QED BY <1>7 DEF c, g

(* A byte for one controller behind the multitap.                          *)
LEMMA TapSingleOk ==
  ASSUME NEW b \in Buses, CardOk(b.card), TapOk(b), b.tap.state = "SINGLE", NEW byte
  PROVE  LET p == ToPad(b, b.tap.slot, byte) IN
         TapResult(b, IF p.ack THEN p ELSE Goes(p, "IDLE"))
  <1> DEFINE p == ToPad(b, b.tap.slot, byte)
             g == Goes(p, "IDLE")
  <1>1. /\ b.tap.step = 0 /\ ~b.tap.done /\ b.card.state = "IDLE"
        /\ \A s \in Slots : Mid(b.pads[s]) => s = b.tap.slot
    <2>1. b.tap.state # "CARD" /\ b.tap.state # "ALL" BY SMT
    <2> QED BY <2>1, Zenon DEF TapOk, CardHasTap, OneIsMid, StepsCount
  <1>2. b.tap.slot \in Slots /\ b.pads \in [Slots -> PadStates] BY BusFields, TapFields
  <1>3. /\ p.bus \in Buses /\ p.ack = PadAck(b.pads[b.tap.slot], byte) /\ p.ack \in BOOLEAN
        /\ p.bus.card = b.card /\ p.bus.tap = b.tap
        /\ p.bus.pads[b.tap.slot] = PadAfter(b.pads[b.tap.slot], byte)
        /\ \A s \in Slots : s # b.tap.slot => p.bus.pads[s] = b.pads[s]
    BY <1>2, ToPadFields
  <1>4. p \in Outcomes BY <1>2, ToPadOutcome
  <1> HIDE DEF p
  <1>5. \A s \in Slots : Mid(p.bus.pads[s]) => s = b.tap.slot BY <1>1, <1>3, Zenon
  <1>6. ASSUME p.ack PROVE TapResult(b, p)
    <2>1. TapOk(p.bus) BY <1>1, <1>3, <1>5, TapOkSingle, Zenon
    <2> QED BY <1>3, <1>6, <2>1, Zenon DEF TapResult
  <1>7. ASSUME ~p.ack PROVE TapResult(b, g)
    <2>1. /\ g \in Outcomes /\ g.ack = p.ack /\ g.bus.pads = p.bus.pads /\ g.bus.card = p.bus.card
          /\ g.bus.tap.state = "IDLE" /\ g.bus.tap.enabled = p.bus.tap.enabled
          /\ g.bus.tap.slot = p.bus.tap.slot /\ g.bus.tap.step = p.bus.tap.step
          /\ g.bus.tap.all = p.bus.tap.all /\ g.bus.tap.done = p.bus.tap.done
      BY <1>4, GoesTap, Zenon DEF TapStates
    <2> HIDE DEF g
    <2>2. g.bus \in Buses BY <2>1, Zenon DEF Outcomes
    <2>3. ~Mid(p.bus.pads[b.tap.slot])
      <3>1. b.pads[b.tap.slot] \in PadStates BY <1>2
      <3>2. ~PadAck(b.pads[b.tap.slot], byte) => ~Mid(PadAfter(b.pads[b.tap.slot], byte))
        BY <3>1, PadAfterFacts
      <3> QED BY <1>3, <1>7, <3>2, Zenon
    <2>4. \A s \in Slots : ~Mid(g.bus.pads[s]) BY <1>5, <2>1, <2>3, Zenon
    <2>5. TapOk(g.bus) BY <1>1, <1>3, <2>1, <2>4, TapOkIdle, Zenon
    <2> QED BY <1>1, <1>3, <2>1, <2>2, <2>5, Zenon DEF TapResult
  <1> HIDE DEF g
  <1>8. TapResult(b, IF p.ack THEN p ELSE g) BY <1>6, <1>7, Zenon
  <1> QED BY <1>8 DEF p, g

(* multitap_transfer in every state, while it is inside its buffer.        *)
LEMMA TapTransferOk ==
  ASSUME NEW b \in Buses, CardOk(b.card), TapOk(b), NEW byte, NEW slot \in Slots,
         ~(b.tap.state = "ALL" /\ b.tap.step = TapSlots * TapBytes)
  PROVE  TapResult(b, TapTransfer(b, byte, slot))
  <1> DEFINE c == ToCardSlot(b, b.tap.slot, byte)
             p == ToPad(b, b.tap.slot, byte)
             cc == IF c.ack THEN c ELSE Goes(c, "IDLE")
             pp == IF p.ack THEN p ELSE Goes(p, "IDLE")
  <1>1. b.tap.state \in TapStates BY BusFields, TapFields
  <1>2. TapTransfer(b, byte, slot) =
          CASE b.tap.state = "IDLE"    -> TapIdle(b, byte, slot)
            [] b.tap.state = "CARD"    -> cc
            [] b.tap.state = "COMMAND" -> TapCommand(b, byte)
            [] b.tap.state = "SINGLE"  -> pp
            [] b.tap.state = "ALL"     -> TapAll(b, byte)
    BY Zenon DEF TapTransfer
  <1>3. b.tap.state = "CARD" => TapResult(b, cc) BY TapCardOk
  <1>4. b.tap.state = "SINGLE" => TapResult(b, pp) BY TapSingleOk
  <1> HIDE DEF cc, pp
  <1>5. CASE b.tap.state = "IDLE"
    <2>1. TapTransfer(b, byte, slot) = TapIdle(b, byte, slot) BY <1>2, <1>5, SMT
    <2> QED BY <1>5, <2>1, TapIdleOk
  <1>6. CASE b.tap.state = "CARD"
    <2>1. TapTransfer(b, byte, slot) = cc BY <1>2, <1>6, SMT
    <2> QED BY <1>3, <1>6, <2>1
  <1>7. CASE b.tap.state = "COMMAND"
    <2>1. TapTransfer(b, byte, slot) = TapCommand(b, byte) BY <1>2, <1>7, SMT
    <2> QED BY <1>7, <2>1, TapCommandOk
  <1>8. CASE b.tap.state = "SINGLE"
    <2>1. TapTransfer(b, byte, slot) = pp BY <1>2, <1>8, SMT
    <2> QED BY <1>4, <1>8, <2>1
  <1>9. CASE b.tap.state = "ALL"
    <2>1. TapTransfer(b, byte, slot) = TapAll(b, byte) BY <1>2, <1>9, SMT
    <2> QED BY <1>9, <2>1, TapAllOk
  <1> QED BY <1>1, <1>5, <1>6, <1>7, <1>8, <1>9 DEF TapStates

-----------------------------------------------------------------------------
(* The devices *)

(* Without a multitap the card and the controller take turns.              *)
PlainOk(b, device) ==
  /\ device \in {"none", "pad", "card"}
  /\ b.card.state # "IDLE" => device = "card"
  /\ Mid(b.pads[0]) => device = "pad"

WithTapOk(b, device) ==
  /\ device \in {"none", "tap"}
  /\ b.card.state # "IDLE" => device = "tap"
  /\ TapOk(b)

DevicesOk(b, device) ==
  /\ b.tap.enabled => WithTapOk(b, device)
  /\ ~b.tap.enabled => PlainOk(b, device)

(* What is left of it when the active device is not that of the port that  *)
(* was loaded.                                                             *)
LooseOk(b, device) ==
  /\ b.tap.enabled => device \in {"none", "tap"} /\ TapOk(b)
  /\ ~b.tap.enabled => device \in {"none", "pad", "card"}

Devs == {"none", "pad", "card", "tap"}

(* The bus and the device after an outcome.                                *)
OutcomeOk(device, o) ==
  /\ o.bus \in Buses /\ o.ack \in BOOLEAN /\ CardOk(o.bus.card) /\ device \in Devs
  /\ DevicesOk(o.bus, IF o.ack THEN device ELSE "none")

LooseOutcomeOk(device, o) ==
  /\ o.bus \in Buses /\ o.ack \in BOOLEAN /\ CardOk(o.bus.card) /\ device \in Devs
  /\ LooseOk(o.bus, IF o.ack THEN device ELSE "none") /\ o.bus.tap.enabled = tap.enabled

(* Agreement is more than that.                                            *)
LEMMA LooseFollows ==
  ASSUME NEW b, NEW device, DevicesOk(b, device)
  PROVE  LooseOk(b, device)
  BY Zenon DEF DevicesOk, WithTapOk, PlainOk, LooseOk

(* Without a multitap a byte goes to the controller while the card is      *)
(* idle.                                                                   *)
LEMMA PlainPadOk ==
  ASSUME NEW b \in Buses, ~b.tap.enabled, CardOk(b.card), b.card.state = "IDLE", NEW byte
  PROVE  LET p == ToPad(b, 0, byte) IN
         /\ OutcomeOk("pad", p)
         /\ p.bus \in Buses /\ p.ack \in BOOLEAN /\ p.bus.card = b.card /\ p.bus.tap = b.tap
         /\ ~p.ack => ~Mid(p.bus.pads[0])
  <1> DEFINE p == ToPad(b, 0, byte)
  <1>1. 0 \in Slots /\ b.pads \in [Slots -> PadStates] BY PortFacts, BusFields
  <1>2. b.pads[0] \in PadStates BY <1>1
  <1>3. /\ p.bus \in Buses /\ p.ack = PadAck(b.pads[0], byte) /\ p.ack \in BOOLEAN
        /\ p.bus.card = b.card /\ p.bus.tap = b.tap
        /\ p.bus.pads[0] = PadAfter(b.pads[0], byte)
    BY <1>1, ToPadFields
  <1>4. ~PadAck(b.pads[0], byte) => ~Mid(PadAfter(b.pads[0], byte)) BY <1>2, PadAfterFacts
  <1> HIDE DEF p
  <1>5. ~p.ack => ~Mid(p.bus.pads[0]) BY <1>3, <1>4, Zenon
  <1>6. "pad" \in Devs /\ "pad" \in {"none", "pad", "card"} /\ "none" \in {"none", "pad", "card"}
    BY DEF Devs
  <1>7. DevicesOk(p.bus, IF p.ack THEN "pad" ELSE "none")
    <2>1. CASE p.ack BY <1>3, <1>6, <2>1, Zenon DEF DevicesOk, PlainOk
    <2>2. CASE ~p.ack BY <1>3, <1>5, <1>6, <2>2, Zenon DEF DevicesOk, PlainOk
    <2> QED BY <2>1, <2>2
  <1>8. OutcomeOk("pad", p) BY <1>3, <1>6, <1>7, Zenon DEF OutcomeOk
  <1> QED BY <1>3, <1>5, <1>8 DEF p

(* Without a multitap a byte goes to the card while the controller is not  *)
(* in the middle of an answer.                                             *)
LEMMA PlainCardOk ==
  ASSUME NEW b \in Buses, ~b.tap.enabled, CardOk(b.card), ~Mid(b.pads[0]), NEW byte
  PROVE  OutcomeOk("card", ToCardSlot(b, 0, byte))
  <1> DEFINE c == ToCardSlot(b, 0, byte)
  <1>1. 0 \in Slots BY PortFacts
  <1>2. /\ c.bus \in Buses /\ c.ack \in BOOLEAN /\ CardOk(c.bus.card)
        /\ c.bus.pads = b.pads /\ c.bus.tap = b.tap
        /\ ~c.ack => c.bus.card.state = "IDLE"
    BY <1>1, ToCardSlotFields
  <1> HIDE DEF c
  <1>3. "card" \in Devs /\ "card" \in {"none", "pad", "card"} /\ "none" \in {"none", "pad", "card"}
    BY DEF Devs
  <1>4. DevicesOk(c.bus, IF c.ack THEN "card" ELSE "none")
    <2>1. CASE c.ack BY <1>2, <1>3, <2>1, Zenon DEF DevicesOk, PlainOk
    <2>2. CASE ~c.ack BY <1>2, <1>3, <2>2, Zenon DEF DevicesOk, PlainOk
    <2> QED BY <2>1, <2>2
  <1>5. OutcomeOk("card", c) BY <1>2, <1>3, <1>4, Zenon DEF OutcomeOk
  <1> QED BY <1>5 DEF c

(* With a multitap every byte goes to it.                                  *)
LEMMA WithTapTransferOk ==
  ASSUME NEW b \in Buses, b.tap.enabled, CardOk(b.card), TapOk(b), NEW byte, NEW slot \in Slots,
         ~(b.tap.state = "ALL" /\ b.tap.step = TapSlots * TapBytes)
  PROVE  OutcomeOk("tap", TapTransfer(b, byte, slot))
  <1> DEFINE o == TapTransfer(b, byte, slot)
  <1>1. TapResult(b, o) BY TapTransferOk
  <1> HIDE DEF o
  <1>2. "tap" \in Devs /\ "tap" \in {"none", "tap"} /\ "none" \in {"none", "tap"} BY DEF Devs
  <1>3. o.bus.tap.enabled BY <1>1, Zenon DEF TapResult
  <1>4. DevicesOk(o.bus, IF o.ack THEN "tap" ELSE "none")
    <2>1. CASE o.ack BY <1>1, <1>2, <1>3, <2>1, Zenon DEF DevicesOk, WithTapOk, TapResult
    <2>2. CASE ~o.ack BY <1>1, <1>2, <1>3, <2>2, Zenon DEF DevicesOk, WithTapOk, TapResult
    <2> QED BY <2>1, <2>2
  <1>5. OutcomeOk("tap", o) BY <1>1, <1>2, <1>4, Zenon DEF OutcomeOk, TapResult
  <1> QED BY <1>5 DEF o

(* The byte of pad_do_transfer goes to the right device, which stays       *)
(* active exactly when it acknowledges.                                    *)
LEMMA TransferOk ==
  ASSUME Bus \in Buses, CardOk(card), DevicesOk(Bus, joy.device), NEW byte, NEW slot \in Slots,
         ~((joy.device = "tap" \/ (joy.device = "none" /\ tap.enabled)) /\ Overrun)
  PROVE  OutcomeOk(Transfer(byte, slot).device, Transfer(byte, slot).outcome)
  <1> DEFINE b == Bus
             p == ToPad(b, 0, byte)
             c == ToCardSlot(p.bus, 0, byte)
             cb == ToCardSlot(b, 0, byte)
             tt == TapTransfer(b, byte, slot)
             T == Transfer(byte, slot)
  <1>1. b.pads = pads /\ b.card = card /\ b.tap = tap BY DEF Bus
  <1>2. CardOk(b.card) /\ DevicesOk(b, joy.device) BY <1>1
  <1>3. Overrun <=> b.tap.state = "ALL" /\ b.tap.step = TapSlots * TapBytes BY <1>1 DEF Overrun
  <1>4. FirstTransfer(byte, slot) = IF b.tap.enabled THEN [device |-> "tap", outcome |-> tt]
                                    ELSE IF p.ack THEN [device |-> "pad", outcome |-> p]
                                    ELSE [device |-> "card", outcome |-> c]
    BY <1>1, Zenon DEF FirstTransfer
  <1>5. T = CASE joy.device = "none" -> FirstTransfer(byte, slot)
              [] joy.device = "pad"  -> [device |-> "pad", outcome |-> p]
              [] joy.device = "card" -> [device |-> "card", outcome |-> cb]
              [] joy.device = "tap"  -> [device |-> "tap",
                                         outcome |-> IF b.tap.enabled THEN tt ELSE Outcome(b, FALSE)]
    BY <1>1, Zenon DEF Transfer
  <1> HIDE DEF T
  <1>6. CASE b.tap.enabled
    <2>1. WithTapOk(b, joy.device) BY <1>2, <1>6 DEF DevicesOk
    <2>2. joy.device = "none" \/ joy.device = "tap" BY <2>1 DEF WithTapOk
    <2>3. TapOk(b) BY <2>1 DEF WithTapOk
    <2>4. OutcomeOk("tap", tt)
      BY <1>1, <1>2, <1>3, <1>6, <2>2, <2>3, WithTapTransferOk
    <2> HIDE DEF b, tt, p, c, cb
    <2>5. T = [device |-> "tap", outcome |-> tt]
      <3>1. CASE joy.device = "none"
        <4>1. T = FirstTransfer(byte, slot) BY <1>5, <3>1, SMT
        <4> QED BY <1>4, <1>6, <4>1, Zenon
      <3>2. CASE joy.device = "tap"
        <4>1. T = [device |-> "tap", outcome |-> IF b.tap.enabled THEN tt ELSE Outcome(b, FALSE)]
          BY <1>5, <3>2, SMT
        <4> QED BY <1>6, <4>1, Zenon
      <3> QED BY <2>2, <3>1, <3>2
    <2>6. OutcomeOk(T.device, T.outcome) BY <2>4, <2>5, Zenon
    <2> QED BY <2>6 DEF b, T
  <1>7. CASE ~b.tap.enabled
    <2>1. PlainOk(b, joy.device) BY <1>2, <1>7 DEF DevicesOk
    <2>2. joy.device = "none" \/ joy.device = "pad" \/ joy.device = "card" BY <2>1 DEF PlainOk
    <2>3. joy.device # "card" =>
            /\ OutcomeOk("pad", p) /\ p.bus \in Buses /\ p.ack \in BOOLEAN
            /\ p.bus.card = b.card /\ p.bus.tap = b.tap /\ (~p.ack => ~Mid(p.bus.pads[0]))
      <3> SUFFICES ASSUME joy.device # "card"
                   PROVE  /\ OutcomeOk("pad", p) /\ p.bus \in Buses /\ p.ack \in BOOLEAN
                          /\ p.bus.card = b.card /\ p.bus.tap = b.tap /\ (~p.ack => ~Mid(p.bus.pads[0]))
        OBVIOUS
      <3>1. b.card.state = "IDLE" BY <2>1, Zenon DEF PlainOk
      <3> HIDE DEF b
      <3> QED BY <1>2, <1>7, <3>1, PlainPadOk DEF b
    <2>4. joy.device = "card" => OutcomeOk("card", cb)
      <3> SUFFICES ASSUME joy.device = "card" PROVE OutcomeOk("card", cb) OBVIOUS
      <3>1. ~Mid(b.pads[0]) BY <2>1, SMT DEF PlainOk
      <3> QED BY <1>2, <1>7, <3>1, PlainCardOk
    <2> HIDE DEF b, p, tt, cb
    <2>5. joy.device = "none" /\ ~p.ack => OutcomeOk("card", c)
      <3> SUFFICES ASSUME joy.device = "none", ~p.ack PROVE OutcomeOk("card", c) OBVIOUS
      <3>1. joy.device # "card" BY SMT
      <3>2. p.bus \in Buses /\ ~p.bus.tap.enabled /\ CardOk(p.bus.card) /\ ~Mid(p.bus.pads[0])
        BY <1>2, <1>7, <2>3, <3>1, Zenon
      <3> QED BY <3>2, PlainCardOk
    <2> HIDE DEF c
    <2>6. CASE joy.device = "none"
      <3>1. T = FirstTransfer(byte, slot) BY <1>5, <2>6, SMT
      <3>2. joy.device # "card" BY <2>6, SMT
      <3>3. CASE p.ack
        <4>1. T = [device |-> "pad", outcome |-> p] BY <1>4, <1>7, <3>1, <3>3, Zenon
        <4>2. OutcomeOk(T.device, T.outcome) BY <2>3, <3>2, <4>1, Zenon
        <4> QED BY <4>2 DEF b, T
      <3>4. CASE ~p.ack
        <4>1. T = [device |-> "card", outcome |-> c] BY <1>4, <1>7, <3>1, <3>4, Zenon
        <4>2. OutcomeOk(T.device, T.outcome) BY <2>5, <2>6, <3>4, <4>1, Zenon
        <4> QED BY <4>2 DEF b, T
      <3> QED BY <3>3, <3>4
    <2>7. CASE joy.device = "pad"
      <3>1. T = [device |-> "pad", outcome |-> p] BY <1>5, <2>7, SMT
      <3>2. joy.device # "card" BY <2>7, SMT
      <3>3. OutcomeOk(T.device, T.outcome) BY <2>3, <3>1, <3>2, Zenon
      <3> QED BY <3>3 DEF b, T
    <2>8. CASE joy.device = "card"
      <3>1. T = [device |-> "card", outcome |-> cb] BY <1>5, <2>8, SMT
      <3>2. OutcomeOk(T.device, T.outcome) BY <2>4, <2>8, <3>1, Zenon
      <3> QED BY <3>2 DEF b, T
    <2> QED BY <2>2, <2>6, <2>7, <2>8
  <1> QED BY <1>6, <1>7

(* Without a multitap a byte changes the controller and the card only.     *)
LEMMA PlainLoose ==
  ASSUME NEW o, o.bus \in Buses, o.ack \in BOOLEAN, CardOk(o.bus.card),
         o.bus.tap.enabled = tap.enabled, ~tap.enabled, NEW device \in {"pad", "card"}
  PROVE  LooseOutcomeOk(device, o)
  <1>1. device \in Devs /\ (IF o.ack THEN device ELSE "none") \in {"none", "pad", "card"}
    BY SMT DEF Devs
  <1> QED BY <1>1, Zenon DEF LooseOutcomeOk, LooseOk

(* The byte of pad_do_transfer while the active device is another than the *)
(* devices were loaded for: each stays in its own states, and the multitap *)
(* in order.                                                               *)
LEMMA LooseTransferOk ==
  ASSUME Bus \in Buses, CardOk(card), LooseOk(Bus, joy.device), NEW byte, NEW slot \in Slots,
         ~((joy.device = "tap" \/ (joy.device = "none" /\ tap.enabled)) /\ Overrun)
  PROVE  LooseOutcomeOk(Transfer(byte, slot).device, Transfer(byte, slot).outcome)
  <1> DEFINE b == Bus
             p == ToPad(b, 0, byte)
             c == ToCardSlot(p.bus, 0, byte)
             cb == ToCardSlot(b, 0, byte)
             tt == TapTransfer(b, byte, slot)
             T == Transfer(byte, slot)
  <1>1. b.pads = pads /\ b.card = card /\ b.tap = tap BY DEF Bus
  <1>2. b \in Buses /\ CardOk(b.card) /\ LooseOk(b, joy.device) /\ 0 \in Slots
    BY <1>1, PortFacts
  <1>3. Overrun <=> b.tap.state = "ALL" /\ b.tap.step = TapSlots * TapBytes BY <1>1 DEF Overrun
  <1>4. FirstTransfer(byte, slot) = IF b.tap.enabled THEN [device |-> "tap", outcome |-> tt]
                                    ELSE IF p.ack THEN [device |-> "pad", outcome |-> p]
                                    ELSE [device |-> "card", outcome |-> c]
    BY <1>1, Zenon DEF FirstTransfer
  <1>5. T = CASE joy.device = "none" -> FirstTransfer(byte, slot)
              [] joy.device = "pad"  -> [device |-> "pad", outcome |-> p]
              [] joy.device = "card" -> [device |-> "card", outcome |-> cb]
              [] joy.device = "tap"  -> [device |-> "tap",
                                         outcome |-> IF b.tap.enabled THEN tt ELSE Outcome(b, FALSE)]
    BY <1>1, Zenon DEF Transfer
  <1> HIDE DEF T
  <1>6. CASE b.tap.enabled
    <2>1. (joy.device = "none" \/ joy.device = "tap") /\ TapOk(b) BY <1>2, <1>6, SMT DEF LooseOk
    <2>2. OutcomeOk("tap", tt)
      BY <1>1, <1>2, <1>3, <1>6, <2>1, WithTapTransferOk
    <2>6. TapResult(b, tt) BY <1>1, <1>2, <1>3, <1>6, <2>1, TapTransferOk
    <2> HIDE DEF b, tt, p, c, cb
    <2>3. LooseOutcomeOk("tap", tt)
      <3>1. DevicesOk(tt.bus, IF tt.ack THEN "tap" ELSE "none") BY <2>2 DEF OutcomeOk
      <3>2. LooseOk(tt.bus, IF tt.ack THEN "tap" ELSE "none") BY <3>1, LooseFollows
      <3>3. tt.bus.tap.enabled = tap.enabled BY <1>1, <2>6 DEF TapResult
      <3> QED BY <2>2, <3>2, <3>3, Zenon DEF OutcomeOk, LooseOutcomeOk
    <2>4. T = [device |-> "tap", outcome |-> tt]
      <3>1. CASE joy.device = "none"
        <4>1. T = FirstTransfer(byte, slot) BY <1>5, <3>1, SMT
        <4> QED BY <1>4, <1>6, <4>1, Zenon
      <3>2. CASE joy.device = "tap"
        <4>1. T = [device |-> "tap", outcome |-> IF b.tap.enabled THEN tt ELSE Outcome(b, FALSE)]
          BY <1>5, <3>2, SMT
        <4> QED BY <1>6, <4>1, Zenon
      <3> QED BY <2>1, <3>1, <3>2
    <2>5. LooseOutcomeOk(T.device, T.outcome) BY <2>3, <2>4, Zenon
    <2> QED BY <2>5 DEF b, T
  <1>7. CASE ~b.tap.enabled
    <2>1. joy.device = "none" \/ joy.device = "pad" \/ joy.device = "card"
      BY <1>2, <1>7, SMT DEF LooseOk
    <2> HIDE DEF b
    <2>2. /\ p.bus \in Buses /\ p.ack \in BOOLEAN /\ p.bus.card = b.card /\ p.bus.tap = b.tap
      BY <1>2, ToPadFields
    <2> HIDE DEF p
    <2>8. b.tap = tap /\ ~tap.enabled BY <1>1, <1>7
    <2>3. LooseOutcomeOk("pad", p) BY <1>2, <2>2, <2>8, PlainLoose
    <2>4. LooseOutcomeOk("card", c)
      <3>1. CardOk(p.bus.card) BY <1>2, <2>2
      <3>2. c.bus \in Buses /\ c.ack \in BOOLEAN /\ CardOk(c.bus.card) /\ c.bus.tap = p.bus.tap
        BY <1>2, <2>2, <3>1, ToCardSlotFields
      <3> HIDE DEF c
      <3> QED BY <2>2, <2>8, <3>2, PlainLoose
    <2>5. LooseOutcomeOk("card", cb)
      <3>1. cb.bus \in Buses /\ cb.ack \in BOOLEAN /\ CardOk(cb.bus.card) /\ cb.bus.tap = b.tap
        BY <1>2, ToCardSlotFields
      <3> HIDE DEF cb
      <3> QED BY <2>8, <3>1, PlainLoose
    <2> HIDE DEF c, cb, tt
    <2>6. \/ T = [device |-> "pad", outcome |-> p] \/ T = [device |-> "card", outcome |-> c]
          \/ T = [device |-> "card", outcome |-> cb]
      <3>1. CASE joy.device = "none"
        <4>1. T = FirstTransfer(byte, slot) BY <1>5, <3>1, SMT
        <4> QED BY <1>4, <1>7, <4>1, Zenon
      <3>2. CASE joy.device = "pad" BY <1>5, <3>2, SMT
      <3>3. CASE joy.device = "card" BY <1>5, <3>3, SMT
      <3> QED BY <2>1, <3>1, <3>2, <3>3
    <2> HIDE DEF p
    <2>7. LooseOutcomeOk(T.device, T.outcome)
      <3>1. CASE T = [device |-> "pad", outcome |-> p]
        <4>1. T.device = "pad" /\ T.outcome = p BY <3>1, Zenon
        <4> QED BY <2>3, <4>1
      <3>2. CASE T = [device |-> "card", outcome |-> c]
        <4>1. T.device = "card" /\ T.outcome = c BY <3>2, Zenon
        <4> QED BY <2>4, <4>1
      <3>3. CASE T = [device |-> "card", outcome |-> cb]
        <4>1. T.device = "card" /\ T.outcome = cb BY <3>3, Zenon
        <4> QED BY <2>5, <4>1
      <3> QED BY <2>6, <3>1, <3>2, <3>3
    <2> QED BY <2>7 DEF T
  <1> QED BY <1>6, <1>7

-----------------------------------------------------------------------------
(* The registers and the transfer event *)

Events(j) == j.event <=> j.state # "IDLE" \/ j.stray
Shown(j) == j.intr => j.line
Waits(j) == j.state = "IDLE" /\ CanTransfer(j) => j.device = "none" \/ j.mixed

(* All that holds of the registers before a transfer may begin in them.    *)
Registers(j) == j \in Joy /\ Events(j) /\ Shown(j)

(* The parts of the registers.                                             *)
LEMMA JoyFields ==
  ASSUME NEW j \in Joy
  PROVE  /\ j.state \in {"IDLE", "TRANSMITTING", "WAITING_FOR_ACK"}
         /\ j.device \in Devs /\ j.buffer \in Byte \cup {None} /\ j.value \in Byte \cup {None}
         /\ j.event \in BOOLEAN /\ j.select \in BOOLEAN /\ j.txen \in BOOLEAN /\ j.irqen \in BOOLEAN
         /\ j.intr \in BOOLEAN /\ j.line \in BOOLEAN /\ j.failed \in BOOLEAN
         /\ j.stray \in BOOLEAN /\ j.mixed \in BOOLEAN
  BY Zenon DEF Joy, Devs

(* An interrupt is shown and signalled together.                           *)
LEMMA TriggerIrqOk ==
  ASSUME NEW j, Registers(j)
  PROVE  LET r == TriggerIrq(j) IN
         /\ Registers(r) /\ r.device = j.device /\ r.failed = j.failed /\ r.state = j.state
         /\ r.buffer = j.buffer /\ r.select = j.select /\ r.txen = j.txen /\ r.mixed = j.mixed
  <1> DEFINE a == [j EXCEPT !.intr = TRUE]
             r == [a EXCEPT !.line = TRUE]
  <1>1. j \in Joy BY DEF Registers
  <1>2. TriggerIrq(j) = IF j.irqen THEN r ELSE j BY Zenon DEF TriggerIrq
  <1>3. r \in Joy BY <1>1, Zenon DEF Joy
  <1>4. /\ r.device = j.device /\ r.failed = j.failed /\ r.state = j.state /\ r.buffer = j.buffer
        /\ r.select = j.select /\ r.txen = j.txen /\ r.event = j.event /\ r.line = TRUE
        /\ r.stray = j.stray /\ r.mixed = j.mixed
    BY <1>1, Zenon DEF Joy
  <1> HIDE DEF a, r
  <1>5. Registers(r) BY <1>3, <1>4, Zenon DEF Registers, Events, Shown
  <1>6. CASE j.irqen
    <2>1. TriggerIrq(j) = r BY <1>2, <1>6
    <2> QED BY <1>4, <1>5, <2>1, Zenon
  <1>7. CASE ~j.irqen
    <2>1. TriggerIrq(j) = j BY <1>2, <1>7
    <2> QED BY <2>1, Zenon
  <1> QED BY <1>6, <1>7

(* After pad_begin_transfer was tried no byte waits that could be sent.    *)
LEMMA BeginOk ==
  ASSUME NEW j, Registers(j)
  PROVE  LET r == BeginIfPossible(j) IN
         /\ Registers(r) /\ Waits(r) /\ r.device = j.device /\ r.failed = j.failed
         /\ r.mixed = j.mixed
  <1> DEFINE r == BeginTransfer(j)
  <1>1. j \in Joy BY DEF Registers
  <1>2. j.buffer \in Byte \cup {None} /\ None \in Byte \cup {None} BY <1>1, JoyFields
  <1>3. r \in Joy BY <1>1, <1>2, Zenon DEF BeginTransfer, Joy
  <1>4. /\ r.device = j.device /\ r.failed = j.failed /\ r.state = "TRANSMITTING"
        /\ r.event = TRUE /\ r.line = j.line /\ r.intr = j.intr /\ r.mixed = j.mixed
    BY <1>1, Zenon DEF BeginTransfer, Joy
  <1> HIDE DEF r
  <1>5. r.state # "IDLE" BY <1>4, SMT
  <1>6. Registers(r) /\ Waits(r) BY <1>3, <1>4, <1>5, Zenon DEF Registers, Events, Shown, Waits
  <1>7. BeginIfPossible(j) = IF j.state = "IDLE" /\ CanTransfer(j) THEN r ELSE j
    BY Zenon DEF BeginIfPossible, r
  <1>8. CASE j.state = "IDLE" /\ CanTransfer(j)
    <2>1. BeginIfPossible(j) = r BY <1>7, <1>8
    <2> QED BY <1>4, <1>6, <2>1, Zenon
  <1>9. CASE ~(j.state = "IDLE" /\ CanTransfer(j))
    <2>1. BeginIfPossible(j) = j BY <1>7, <1>9, Zenon
    <2> QED BY <1>9, <2>1, Zenon DEF Waits
  <1> QED BY <1>8, <1>9

(* pad_end_transfer stops the event.                                       *)
LEMMA EndOk ==
  ASSUME NEW j \in Joy, Shown(j)
  PROVE  LET r == EndTransfer(j) IN
         /\ Registers(r) /\ r.state = "IDLE" /\ r.device = j.device /\ r.failed = j.failed
         /\ r.buffer = j.buffer /\ r.select = j.select /\ r.txen = j.txen /\ r.mixed = j.mixed
         /\ r.line = j.line /\ r.value = j.value
  <1> DEFINE r == EndTransfer(j)
  <1>1. r \in Joy BY Zenon DEF EndTransfer, Joy
  <1>2. /\ r.device = j.device /\ r.failed = j.failed /\ r.state = "IDLE" /\ r.buffer = j.buffer
        /\ r.select = j.select /\ r.txen = j.txen /\ r.event = FALSE /\ r.stray = FALSE
        /\ r.intr = j.intr /\ r.line = j.line /\ r.mixed = j.mixed /\ r.value = j.value
    BY Zenon DEF EndTransfer, Joy
  <1> HIDE DEF r
  <1>3. Registers(r) BY <1>1, <1>2, Zenon DEF Registers, Events, Shown
  <1>4. /\ Registers(r) /\ r.state = "IDLE" /\ r.device = j.device /\ r.failed = j.failed
        /\ r.buffer = j.buffer /\ r.select = j.select /\ r.txen = j.txen /\ r.mixed = j.mixed
        /\ r.line = j.line /\ r.value = j.value
    BY <1>2, <1>3, Zenon
  <1> QED BY <1>4 DEF r

(* It is only called while there is a transfer.                            *)
LEMMA EndIfOk ==
  ASSUME NEW j, Registers(j)
  PROVE  LET r == EndIfTransmitting(j) IN
         /\ Registers(r) /\ r.state = "IDLE" /\ r.device = j.device /\ r.failed = j.failed
         /\ r.select = j.select /\ r.txen = j.txen /\ r.mixed = j.mixed
         /\ r.line = j.line /\ r.value = j.value
  <1>1. j \in Joy /\ Shown(j) BY DEF Registers
  <1>2. CASE j.state = "IDLE"
    <2>1. EndIfTransmitting(j) = j BY <1>2 DEF EndIfTransmitting
    <2> QED BY <1>2, <2>1
  <1>3. CASE j.state # "IDLE"
    <2>1. EndIfTransmitting(j) = EndTransfer(j) BY <1>3 DEF EndIfTransmitting
    <2> QED BY <1>1, <2>1, EndOk, Zenon
  <1> QED BY <1>2, <1>3

(* The registers after a reset.                                            *)
LEMMA IdleOk ==
  ASSUME NEW j, Registers(j)
  PROVE  LET r == SoftResetJoy(j) IN Registers(r) /\ Waits(r) /\ r.device = "none"
  <1> DEFINE e == EndIfTransmitting(j)
             r == [Idle EXCEPT !.event = e.event, !.stray = e.stray, !.value = e.value,
                               !.line = e.line]
  <1>1. Registers(e) /\ e.state = "IDLE" BY EndIfOk
  <1>2. SoftResetJoy(j) = r BY Zenon DEF SoftResetJoy
  <1> HIDE DEF e
  <1>3. e \in Joy /\ (e.event <=> e.state # "IDLE" \/ e.stray) BY <1>1 DEF Registers, Events
  <1>4. e.event \in BOOLEAN /\ e.stray \in BOOLEAN /\ e.line \in BOOLEAN
        /\ e.value \in Byte \cup {None}
    BY <1>3, JoyFields
  <1>5. Idle \in Joy /\ Idle.state = "IDLE" /\ Idle.device = "none" /\ Idle.intr = FALSE
    <2>1. Idle \in Joy BY SMT DEF Idle, Joy
    <2> QED BY <2>1, Zenon DEF Idle
  <1>6. r \in Joy BY <1>4, <1>5, Zenon DEF Joy
  <1>7. /\ r.state = Idle.state /\ r.device = Idle.device /\ r.intr = Idle.intr
        /\ r.event = e.event /\ r.stray = e.stray
    BY <1>5, Zenon DEF Joy
  <1> HIDE DEF r
  <1>8. Registers(r) BY <1>1, <1>3, <1>5, <1>6, <1>7, Zenon DEF Registers, Events, Shown
  <1>9. Waits(r) /\ r.device = "none" BY <1>5, <1>7, Zenon DEF Waits
  <1> QED BY <1>2, <1>8, <1>9

(* The registers after a byte was answered or was not.                     *)
LEMMA AfterTransferOk ==
  ASSUME NEW j, Registers(j), NEW d \in Devs, NEW ack \in BOOLEAN
  PROVE  LET r == AfterTransfer(j, d, ack) IN
         /\ Registers(r) /\ Waits(r) /\ r.failed = j.failed /\ r.mixed = j.mixed
         /\ r.device = IF ack THEN d ELSE "none"
  <1> DEFINE a == [j EXCEPT !.device = d]
             m == TriggerIrq(a)
             n == [m EXCEPT !.device = "none"]
             e == EndTransfer(n)
             w0 == [m EXCEPT !.state = "WAITING_FOR_ACK"]
             w == [w0 EXCEPT !.event = TRUE]
  <1>1. j \in Joy BY DEF Registers
  <1>2. a \in Joy BY <1>1, Zenon DEF Joy, Devs
  <1>3. /\ a.device = d /\ a.failed = j.failed /\ a.state = j.state /\ a.event = j.event
        /\ a.intr = j.intr /\ a.line = j.line /\ a.stray = j.stray /\ a.mixed = j.mixed
    BY <1>1, Zenon DEF Joy
  <1> HIDE DEF a
  <1>4. Registers(a) BY <1>2, <1>3, Zenon DEF Registers, Events, Shown
  <1>5. Registers(m) /\ m.device = d /\ m.failed = j.failed /\ m.mixed = j.mixed
    BY <1>3, <1>4, TriggerIrqOk
  <1>6. AfterTransfer(j, d, ack) = IF ack THEN w ELSE e BY Zenon DEF AfterTransfer, a
  <1> HIDE DEF m
  <1>7. m \in Joy /\ Shown(m) BY <1>5 DEF Registers
  <1>8. /\ n \in Joy /\ n.device = "none" /\ n.failed = m.failed /\ n.intr = m.intr
        /\ n.line = m.line /\ n.mixed = m.mixed
    BY <1>7, Zenon DEF Joy
  <1> HIDE DEF n
  <1>9. Shown(n) BY <1>7, <1>8, Zenon DEF Shown
  <1>10. Registers(e) /\ e.device = "none" /\ e.failed = j.failed /\ e.mixed = j.mixed
    BY <1>5, <1>8, <1>9, EndOk
  <1> HIDE DEF e
  <1>11. Waits(e) BY <1>10, Zenon DEF Waits
  <1>12. w \in Joy BY <1>7, Zenon DEF Joy
  <1>13. /\ w.state = "WAITING_FOR_ACK" /\ w.event = TRUE /\ w.device = m.device
         /\ w.failed = m.failed /\ w.intr = m.intr /\ w.line = m.line /\ w.mixed = m.mixed
    BY <1>7, Zenon DEF Joy
  <1> HIDE DEF w, w0
  <1>14. w.state # "IDLE" BY <1>13, SMT
  <1>15. Registers(w) /\ Waits(w)
    BY <1>7, <1>12, <1>13, <1>14, Zenon DEF Registers, Events, Shown, Waits
  <1>16. CASE ack
    <2>1. AfterTransfer(j, d, ack) = w BY <1>6, <1>16
    <2> QED BY <1>5, <1>13, <1>15, <1>16, <2>1, Zenon
  <1>17. CASE ~ack
    <2>1. AfterTransfer(j, d, ack) = e BY <1>6, <1>17
    <2> QED BY <1>10, <1>11, <1>17, <2>1, Zenon
  <1> QED BY <1>16, <1>17

-----------------------------------------------------------------------------
(* The invariant *)

(* What is on disk is a port as it was.                                    *)
SavedOk ==
  LET j == saved.joy IN
    /\ saved \in [joy : Joy, bus : Buses]
    /\ Registers(j) /\ Waits(j) /\ ~j.stray /\ ~j.failed
    /\ saved.bus.tap.enabled = tap.enabled
    /\ LooseOk(saved.bus, j.device)
    /\ ~j.mixed => DevicesOk(saved.bus, j.device)

IndInv ==
  /\ kit \in Kits
  /\ Registers(joy) /\ Waits(joy)
  /\ pads \in [Slots -> PadStates] /\ tap \in Tap /\ CardOk(card)
  /\ ~joy.failed => LooseOk(Bus, joy.device)
  /\ ~joy.failed /\ ~joy.mixed => DevicesOk(Bus, joy.device)
  /\ SavedOk

(* The bus of the variables.                                               *)
LEMMA BusIsOk ==
  ASSUME IndInv
  PROVE  Bus \in Buses /\ Bus.pads = pads /\ Bus.card = card /\ Bus.tap = tap
  <1>1. pads \in [Slots -> PadStates] /\ card \in Card /\ tap \in Tap BY DEF IndInv, CardOk
  <1> QED BY <1>1, Zenon DEF Bus, Buses

(* Devices that were all reset agree with any registers that have none of  *)
(* them active.                                                            *)
LEMMA QuietOk ==
  ASSUME NEW b, b.card.state = "IDLE", \A s \in Slots : b.pads[s] = "IDLE",
         b.tap.state = "IDLE", b.tap.step = 0, ~b.tap.done
  PROVE  DevicesOk(b, "none")
  <1>1. \A s \in Slots : ~Mid(b.pads[s]) BY DEF Mid
  <1>2. TapOk(b) BY <1>1, TapOkIdle, Zenon
  <1>3. ~Mid(b.pads[0]) BY <1>1, PortFacts
  <1> QED BY <1>2, <1>3 DEF DevicesOk, WithTapOk, PlainOk

(* The devices still agree when only the contents of the card change, or   *)
(* it becomes idle.                                                        *)
LEMMA CardChangeOk ==
  ASSUME NEW b, NEW c, NEW d, c.pads = b.pads, c.tap = b.tap,
         c.card.state = b.card.state \/ c.card.state = "IDLE"
  PROVE  (DevicesOk(b, d) => DevicesOk(c, d)) /\ (LooseOk(b, d) => LooseOk(c, d))
  <1>1. TapOk(b) => TapOk(c)
    <2> SUFFICES ASSUME TapOk(b) PROVE TapOk(c) OBVIOUS
    <2>1. CardHasTap(c) BY Zenon DEF TapOk, CardHasTap
    <2>2. CardIsFirst(c) BY Zenon DEF TapOk, CardIsFirst
    <2>3. OneIsMid(c) BY Zenon DEF TapOk, OneIsMid
    <2>4. StepsCount(c) BY Zenon DEF TapOk, StepsCount
    <2>5. CommandWaits(c) BY Zenon DEF TapOk, CommandWaits
    <2>6. TurnsAreTaken(c)
      <3>1. TurnsAreTaken(b) BY Zenon DEF TapOk
      <3> QED BY <3>1, Zenon DEF TurnsAreTaken
    <2> QED BY <2>1, <2>2, <2>3, <2>4, <2>5, <2>6 DEF TapOk
  <1>2. WithTapOk(b, d) => WithTapOk(c, d) BY <1>1, Zenon DEF WithTapOk
  <1>3. PlainOk(b, d) => PlainOk(c, d) BY Zenon DEF PlainOk
  <1> QED BY <1>1, <1>2, <1>3, Zenon DEF DevicesOk, LooseOk

(* What is on disk stays there.                                            *)
LEMMA SavedStaysOk ==
  ASSUME SavedOk, saved' = saved, tap'.enabled = tap.enabled
  PROVE  SavedOk'
  BY Zenon DEF SavedOk

(* A card that changes behind the registers.                               *)
LEMMA CardStepOk ==
  ASSUME IndInv, UNCHANGED <<kit, joy, pads, tap, saved>>, CardOk(card'),
         card'.state = card.state \/ card'.state = "IDLE"
  PROVE  IndInv'
  <1>1. /\ kit' = kit /\ joy' = joy /\ pads' = pads /\ tap' = tap /\ saved' = saved OBVIOUS
  <1>2. /\ Bus'.pads = pads' /\ Bus'.card = card' /\ Bus'.tap = tap'
        /\ Bus.pads = pads /\ Bus.card = card /\ Bus.tap = tap
    BY Zenon DEF Bus
  <1>3. (DevicesOk(Bus, joy.device) => DevicesOk(Bus', joy.device))
        /\ (LooseOk(Bus, joy.device) => LooseOk(Bus', joy.device))
    BY <1>1, <1>2, CardChangeOk, Zenon
  <1>4. SavedOk' BY <1>1, SavedStaysOk DEF IndInv
  <1> QED BY <1>1, <1>3, <1>4, Zenon DEF IndInv

(* Registers that change in front of the devices.                          *)
LEMMA JoyStepOk ==
  ASSUME IndInv, UNCHANGED <<kit, devices, saved>>, Registers(joy'), Waits(joy'),
         (joy'.device = joy.device /\ joy'.mixed = joy.mixed) \/ joy'.failed,
         joy'.failed = joy.failed \/ joy'.failed
  PROVE  IndInv'
  <1>1. kit' = kit /\ pads' = pads /\ card' = card /\ tap' = tap /\ saved' = saved BY DEF devices
  <1>2. Bus' = Bus BY <1>1, Zenon DEF Bus
  <1>3. /\ ~joy'.failed => LooseOk(Bus', joy'.device)
        /\ ~joy'.failed /\ ~joy'.mixed => DevicesOk(Bus', joy'.device)
    BY <1>2, Zenon DEF IndInv
  <1>4. SavedOk' BY <1>1, SavedStaysOk DEF IndInv
  <1> QED BY <1>1, <1>3, <1>4, Zenon DEF IndInv

(* The devices are reset and none is active.                               *)
LEMMA ResetDevicesOk ==
  ASSUME IndInv, ResetDevices, UNCHANGED <<kit, saved>>, Registers(joy'), Waits(joy'),
         joy'.device = "none"
  PROVE  IndInv'
  <1>1. /\ kit' = kit /\ pads' = [s \in Slots |-> "IDLE"] /\ card' = ResetCardTransfer(card)
        /\ tap' = ResetTapTransfer(tap) /\ saved' = saved
    BY DEF ResetDevices
  <1>2. kit \in Kits /\ tap \in Tap /\ CardOk(card) BY DEF IndInv
  <1>3. CardOk(card') /\ card'.state = "IDLE" BY <1>1, <1>2, ResetCardTransferOk
  <1>4. 0 \in Slots /\ 0 \in 0..TapSlots * TapBytes BY PortFacts
  <1>5. tap' \in Tap BY <1>1, <1>2, <1>4, Zenon DEF ResetTapTransfer, Tap
  <1>6. tap'.state = "IDLE" /\ tap'.step = 0 /\ tap'.done = FALSE /\ tap'.enabled = tap.enabled
    BY <1>1, <1>2, Zenon DEF ResetTapTransfer, Tap
  <1>7. pads' \in [Slots -> PadStates] /\ \A s \in Slots : pads'[s] = "IDLE"
    BY <1>1 DEF PadStates
  <1>8. Bus'.pads = pads' /\ Bus'.card = card' /\ Bus'.tap = tap' BY Zenon DEF Bus
  <1>9. DevicesOk(Bus', "none") /\ LooseOk(Bus', "none")
    BY <1>3, <1>6, <1>7, <1>8, QuietOk, LooseFollows, Zenon
  <1>10. SavedOk' BY <1>1, <1>6, SavedStaysOk DEF IndInv
  <1> QED BY <1>1, <1>2, <1>3, <1>5, <1>7, <1>9, <1>10, Zenon DEF IndInv

(* The port at the start.                                                  *)
LEMMA InitOk ==
  ASSUME Init
  PROVE  IndInv
  <1>1. /\ kit \in Kits /\ joy = Idle /\ card = NewCard /\ pads = [s \in Slots |-> "IDLE"]
        /\ tap = IdleTap(kit.tapped) /\ saved = [joy |-> Idle, bus |-> Bus]
    BY DEF Init
  <1>2. kit.tapped \in BOOLEAN BY <1>1, PortAssumption, SMT DEF PortAssumption
  <1>3. CardOk(card) /\ card.state = "IDLE" BY <1>1, NewCardOk
  <1>4. 0 \in Slots /\ 0 \in 0..TapSlots * TapBytes BY PortFacts
  <1>5. tap \in Tap BY <1>1, <1>2, <1>4, SMT DEF IdleTap, Tap
  <1>6. tap.state = "IDLE" /\ tap.step = 0 /\ tap.done = FALSE BY <1>1, Zenon DEF IdleTap
  <1>7. pads \in [Slots -> PadStates] /\ \A s \in Slots : pads[s] = "IDLE" BY <1>1 DEF PadStates
  <1>8. Bus.pads = pads /\ Bus.card = card /\ Bus.tap = tap BY Zenon DEF Bus
  <1>9. DevicesOk(Bus, "none") /\ LooseOk(Bus, "none")
    BY <1>3, <1>6, <1>7, <1>8, QuietOk, LooseFollows, Zenon
  <1>10. Registers(joy) /\ Waits(joy) /\ joy.device = "none" /\ ~joy.stray /\ ~joy.failed
    <2>1. joy \in Joy BY <1>1, SMT DEF Idle, Joy
    <2>2. /\ joy.state = "IDLE" /\ joy.device = "none" /\ joy.event = FALSE
          /\ joy.intr = FALSE /\ joy.line = FALSE /\ joy.stray = FALSE /\ joy.failed = FALSE
      BY <1>1, Zenon DEF Idle
    <2> QED BY <2>1, <2>2, Zenon DEF Registers, Events, Shown, Waits
  <1>11. SavedOk
    <2>1. saved.joy = joy /\ saved.bus = Bus BY <1>1
    <2>2. card \in Card /\ joy \in Joy BY <1>3, <1>10 DEF CardOk, Registers
    <2>3. Bus \in Buses BY <1>5, <1>7, <2>2, Zenon DEF Bus, Buses
    <2>4. saved \in [joy : Joy, bus : Buses] BY <1>1, <2>2, <2>3, Zenon
    <2> QED BY <1>8, <1>9, <1>10, <2>1, <2>4, Zenon DEF SavedOk
  <1> QED BY <1>1, <1>3, <1>5, <1>7, <1>9, <1>10, <1>11, Zenon DEF IndInv

-----------------------------------------------------------------------------
(* The steps *)

(* pad_do_transfer.                                                        *)
LEMMA DoTransferOk ==
  ASSUME IndInv, DoTransfer
  PROVE  IndInv'
  <1>1. /\ Registers(joy) /\ CardOk(card) /\ LooseOk(Bus, joy.device) /\ kit \in Kits
        /\ ~joy.mixed => DevicesOk(Bus, joy.device)
        /\ kit' = kit /\ saved' = saved /\ SavedOk
    BY DEF IndInv, DoTransfer
  <1>2. Bus \in Buses BY BusIsOk
  <1>3. CASE (joy.device = "tap" \/ (joy.device = "none" /\ tap.enabled)) /\ Overrun
    <2>1. joy' = [joy EXCEPT !.failed = TRUE] /\ UNCHANGED <<kit, devices, saved>>
      BY <1>3, Zenon DEF DoTransfer
    <2>2. joy \in Joy BY <1>1 DEF Registers
    <2>3. joy' \in Joy BY <2>1, <2>2, Zenon DEF Joy
    <2>4. /\ joy'.failed = TRUE /\ joy'.state = joy.state /\ joy'.event = joy.event
          /\ joy'.intr = joy.intr /\ joy'.line = joy.line /\ joy'.stray = joy.stray
      BY <2>1, <2>2, Zenon DEF Joy
    <2>5. joy.state # "IDLE"
      <3>1. joy.state = "TRANSMITTING" BY Zenon DEF DoTransfer
      <3> QED BY <3>1, SMT
    <2>6. Registers(joy') /\ Waits(joy')
      BY <1>1, <2>3, <2>4, <2>5, Zenon DEF Registers, Events, Shown, Waits
    <2> QED BY <2>1, <2>4, <2>6, JoyStepOk
  <1>4. CASE ~((joy.device = "tap" \/ (joy.device = "none" /\ tap.enabled)) /\ Overrun)
    <2>1. PICK slot \in Slots :
            /\ Devices(Transfer(joy.value, slot).outcome.bus)
            /\ joy' = AfterTransfer(joy, Transfer(joy.value, slot).device,
                                    Transfer(joy.value, slot).outcome.ack)
      BY <1>4, Zenon DEF DoTransfer
    <2> DEFINE o == Transfer(joy.value, slot).outcome
               d == Transfer(joy.value, slot).device
    <2>2. LooseOutcomeOk(d, o) /\ (~joy.mixed => OutcomeOk(d, o))
      BY <1>1, <1>2, <1>4, TransferOk, LooseTransferOk
    <2>3. /\ pads' = o.bus.pads /\ card' = o.bus.card /\ tap' = o.bus.tap
          /\ joy' = AfterTransfer(joy, d, o.ack)
      BY <2>1, Zenon DEF Devices
    <2> HIDE DEF o, d
    <2>4. /\ o.bus \in Buses /\ o.ack \in BOOLEAN /\ CardOk(o.bus.card) /\ d \in Devs
          /\ LooseOk(o.bus, IF o.ack THEN d ELSE "none")
          /\ ~joy.mixed => DevicesOk(o.bus, IF o.ack THEN d ELSE "none")
      BY <2>2, Zenon DEF OutcomeOk, LooseOutcomeOk
    <2>5. /\ Registers(joy') /\ Waits(joy') /\ joy'.device = IF o.ack THEN d ELSE "none"
          /\ joy'.mixed = joy.mixed
      BY <1>1, <2>3, <2>4, AfterTransferOk
    <2>6. Bus' = o.bus
      <3>1. Bus' = [pads |-> o.bus.pads, card |-> o.bus.card, tap |-> o.bus.tap]
        BY <2>3, Zenon DEF Bus
      <3>2. o.bus = [pads |-> o.bus.pads, card |-> o.bus.card, tap |-> o.bus.tap]
        BY <2>4, Zenon DEF Buses
      <3> QED BY <3>1, <3>2
    <2>7. pads' \in [Slots -> PadStates] /\ tap' \in Tap BY <2>3, <2>4, BusFields
    <2>8. LooseOk(Bus', joy'.device) /\ (~joy'.mixed => DevicesOk(Bus', joy'.device))
      BY <2>4, <2>5, <2>6, Zenon
    <2>9. tap'.enabled = tap.enabled BY <2>2, <2>3, Zenon DEF LooseOutcomeOk
    <2>10. SavedOk' BY <1>1, <2>9, SavedStaysOk
    <2> QED BY <1>1, <2>3, <2>4, <2>5, <2>7, <2>8, <2>10, Zenon DEF IndInv
  <1> QED BY <1>3, <1>4

(* pad_do_ack.                                                             *)
LEMMA DoAckOk ==
  ASSUME IndInv, DoAck
  PROVE  IndInv'
  <1> DEFINE a == TriggerIrq(joy)
             e == EndTransfer(a)
  <1>1. Registers(joy) BY DEF IndInv
  <1>2. joy' = BeginIfPossible(e) /\ UNCHANGED <<kit, devices, saved>> BY Zenon DEF DoAck
  <1>3. Registers(a) /\ a.device = joy.device /\ a.failed = joy.failed /\ a.mixed = joy.mixed
    BY <1>1, TriggerIrqOk
  <1> HIDE DEF a
  <1>4. a \in Joy /\ Shown(a) BY <1>3 DEF Registers
  <1>5. Registers(e) /\ e.device = joy.device /\ e.failed = joy.failed /\ e.mixed = joy.mixed
    BY <1>3, <1>4, EndOk
  <1> HIDE DEF e
  <1>6. /\ Registers(joy') /\ Waits(joy') /\ joy'.device = joy.device /\ joy'.failed = joy.failed
        /\ joy'.mixed = joy.mixed
    BY <1>2, <1>5, BeginOk
  <1> QED BY <1>2, <1>6, JoyStepOk

(* A write to JOY_DATA.                                                    *)
LEMMA WriteDataOk ==
  ASSUME IndInv, NEW byte \in kit.bytes, WriteData(byte)
  PROVE  IndInv'
  <1> DEFINE b == [joy EXCEPT !.buffer = byte]
             a == TriggerIrq(b)
  <1>1. Registers(joy) /\ joy \in Joy /\ kit \in Kits BY DEF IndInv, Registers
  <1>2. byte \in Byte BY <1>1, PortAssumption, SMT DEF PortAssumption
  <1>3. joy' = BeginIfPossible(a) /\ UNCHANGED <<kit, devices, saved>> BY Zenon DEF WriteData
  <1>4. b \in Joy
    <2>1. byte \in Byte \cup {None} BY <1>2
    <2> QED BY <1>1, <2>1, Zenon DEF Joy
  <1>5. /\ b.state = joy.state /\ b.event = joy.event /\ b.intr = joy.intr /\ b.line = joy.line
        /\ b.device = joy.device /\ b.failed = joy.failed /\ b.stray = joy.stray
        /\ b.mixed = joy.mixed
    BY <1>1, Zenon DEF Joy
  <1> HIDE DEF b
  <1>6. Registers(b) BY <1>1, <1>4, <1>5, Zenon DEF Registers, Events, Shown
  <1>7. Registers(a) /\ a.device = joy.device /\ a.failed = joy.failed /\ a.mixed = joy.mixed
    BY <1>5, <1>6, TriggerIrqOk
  <1> HIDE DEF a
  <1>8. /\ Registers(joy') /\ Waits(joy') /\ joy'.device = joy.device /\ joy'.failed = joy.failed
        /\ joy'.mixed = joy.mixed
    BY <1>3, <1>7, BeginOk
  <1> QED BY <1>3, <1>8, JoyStepOk

(* A write to JOY_CTRL: deselecting resets every device.                   *)
LEMMA WriteControlOk ==
  ASSUME IndInv, NEW select \in BOOLEAN, NEW txen \in BOOLEAN, NEW ack \in BOOLEAN,
         WriteControl(select, txen, ack)
  PROVE  IndInv'
  <1> DEFINE intr == joy.intr /\ ~ack
             line == joy.line /\ ~ack
             d == IF select THEN joy.device ELSE "none"
             w1 == [joy EXCEPT !.select = select]
             w2 == [w1 EXCEPT !.txen = txen]
             w3 == [w2 EXCEPT !.irqen = kit.irqen]
             w4 == [w3 EXCEPT !.intr = intr]
             w5 == [w4 EXCEPT !.line = line]
             w6 == [w5 EXCEPT !.device = d]
             x == joy.mixed /\ select
             w == [w6 EXCEPT !.mixed = x]
             e == EndIfTransmitting(w)
  <1>1. Registers(joy) /\ joy \in Joy /\ kit \in Kits BY DEF IndInv, Registers
  <1>2. kit.irqen \in BOOLEAN BY <1>1, PortAssumption, SMT DEF PortAssumption
  <1>3. /\ joy.device \in Devs /\ joy.intr \in BOOLEAN /\ joy.line \in BOOLEAN
        /\ joy.mixed \in BOOLEAN
    BY <1>1, JoyFields
  <1>4. intr \in BOOLEAN /\ line \in BOOLEAN /\ d \in Devs /\ x \in BOOLEAN
    <2>1. d \in {joy.device, "none"} BY Zenon
    <2>2. "none" \in Devs BY DEF Devs
    <2> QED BY <1>3, <2>1, <2>2
  <1>5. (joy.intr => joy.line) /\ (intr => line) BY <1>1, Zenon DEF Registers, Shown
  <1>6. ~select => d = "none" BY Zenon
  <1>7. select => d = joy.device /\ x = joy.mixed BY <1>3, Zenon
  <1>8. /\ joy' = IF select /\ txen THEN BeginIfPossible(w) ELSE e
        /\ IF select THEN UNCHANGED devices ELSE ResetDevices
        /\ UNCHANGED <<kit, saved>>
    <2>1. w1.intr = joy.intr /\ w1.line = joy.line /\ w1.device = joy.device BY <1>1, Zenon DEF Joy
    <2> QED BY <1>1, Zenon DEF WriteControl, Joy
  <1> HIDE DEF intr, line, d, x
  <1>9. w1 \in Joy /\ w1.state = joy.state /\ w1.event = joy.event /\ w1.failed = joy.failed
        /\ w1.select = select /\ w1.stray = joy.stray
    BY <1>1, Zenon DEF Joy
  <1> HIDE DEF w1
  <1>10. w2 \in Joy /\ w2.state = w1.state /\ w2.event = w1.event /\ w2.failed = w1.failed
         /\ w2.select = w1.select /\ w2.txen = txen /\ w2.stray = w1.stray
    BY <1>9, Zenon DEF Joy
  <1> HIDE DEF w2
  <1>11. w3 \in Joy /\ w3.state = w2.state /\ w3.event = w2.event /\ w3.failed = w2.failed
         /\ w3.select = w2.select /\ w3.stray = w2.stray /\ w3.txen = w2.txen
    BY <1>2, <1>10, Zenon DEF Joy
  <1> HIDE DEF w3
  <1>12. w4 \in Joy /\ w4.state = w3.state /\ w4.event = w3.event /\ w4.failed = w3.failed
         /\ w4.select = w3.select /\ w4.stray = w3.stray /\ w4.txen = w3.txen /\ w4.intr = intr
    BY <1>4, <1>11, Zenon DEF Joy
  <1> HIDE DEF w4
  <1>13. w5 \in Joy /\ w5.state = w4.state /\ w5.event = w4.event /\ w5.failed = w4.failed
         /\ w5.select = w4.select /\ w5.stray = w4.stray /\ w5.txen = w4.txen /\ w5.intr = w4.intr /\ w5.line = line
    BY <1>4, <1>12, Zenon DEF Joy
  <1> HIDE DEF w5
  <1>19. w6 \in Joy /\ w6.state = w5.state /\ w6.event = w5.event /\ w6.failed = w5.failed
         /\ w6.select = w5.select /\ w6.txen = w5.txen /\ w6.intr = w5.intr /\ w6.line = w5.line
         /\ w6.device = d /\ w6.stray = w5.stray
    BY <1>4, <1>13, Zenon DEF Joy, Devs
  <1> HIDE DEF w6
  <1>14. w \in Joy /\ w.state = w6.state /\ w.event = w6.event /\ w.failed = w6.failed
         /\ w.select = w6.select /\ w.txen = w6.txen /\ w.intr = w6.intr /\ w.line = w6.line
         /\ w.device = w6.device /\ w.stray = w6.stray /\ w.mixed = x
    BY <1>4, <1>19, Zenon DEF Joy
  <1> HIDE DEF w
  <1>15. /\ w.state = joy.state /\ w.event = joy.event /\ w.failed = joy.failed
         /\ w.select = select /\ w.txen = txen /\ w.intr = intr /\ w.line = line
         /\ w.device = d /\ w.stray = joy.stray
    BY <1>9, <1>10, <1>11, <1>12, <1>13, <1>14, <1>19, Zenon
  <1>16. Registers(w) BY <1>1, <1>5, <1>14, <1>15, Zenon DEF Registers, Events, Shown
  <1>17. CASE select /\ txen
    <2>1. joy' = BeginIfPossible(w) /\ UNCHANGED <<kit, devices, saved>> BY <1>8, <1>17
    <2>2. /\ Registers(joy') /\ Waits(joy') /\ joy'.device = joy.device /\ joy'.failed = joy.failed
          /\ joy'.mixed = joy.mixed
      BY <1>7, <1>14, <1>15, <1>16, <1>17, <2>1, BeginOk
    <2> QED BY <2>1, <2>2, JoyStepOk
  <1>18. CASE ~(select /\ txen)
    <2>2. /\ Registers(e) /\ e.device = w.device /\ e.failed = w.failed /\ e.select = w.select
          /\ e.txen = w.txen /\ e.mixed = w.mixed
      BY <1>16, EndIfOk
    <2>3. joy' = e BY <1>8, <1>18, Zenon
    <2> HIDE DEF e
    <2>4. ~CanTransfer(e) BY <1>15, <1>18, <2>2, Zenon DEF CanTransfer
    <2>5. /\ Registers(joy') /\ Waits(joy') /\ joy'.device = d /\ joy'.failed = joy.failed
          /\ joy'.mixed = x
      BY <1>14, <1>15, <2>2, <2>3, <2>4, Zenon DEF Waits
    <2>6. CASE select
      <3>1. /\ UNCHANGED <<kit, devices, saved>> /\ joy'.device = joy.device
            /\ joy'.mixed = joy.mixed
        BY <1>7, <1>8, <2>5, <2>6
      <3> QED BY <2>5, <3>1, JoyStepOk
    <2>7. CASE ~select
      <3>1. ResetDevices /\ joy'.device = "none" /\ UNCHANGED <<kit, saved>>
        BY <1>6, <1>8, <2>5, <2>7
      <3> QED BY <2>5, <3>1, ResetDevicesOk
    <2> QED BY <2>6, <2>7
  <1> QED BY <1>17, <1>18

(* A write to JOY_CTRL with RESET.                                         *)
LEMMA SoftResetOk ==
  ASSUME IndInv, SoftReset
  PROVE  IndInv'
  <1>1. Registers(joy) BY DEF IndInv
  <1>3. Registers(joy') /\ Waits(joy') /\ joy'.device = "none" BY <1>1, IdleOk DEF SoftReset
  <1>4. ResetDevices /\ UNCHANGED <<kit, saved>> BY DEF SoftReset
  <1> QED BY <1>3, <1>4, ResetDevicesOk

(* memory_card_save_event_cb.                                              *)
LEMMA SaveEventOk ==
  ASSUME IndInv, NEW ok \in BOOLEAN, SaveEvent(ok)
  PROVE  IndInv'
  <1>1. CardOk(card) BY DEF IndInv
  <1>2. card' = SaveIfChanged(card, ok) /\ UNCHANGED <<kit, joy, pads, tap, saved>>
    BY DEF SaveEvent
  <1>3. CardOk(card') /\ card'.state = card.state BY <1>1, <1>2, SaveIfChangedOk
  <1> QED BY <1>2, <1>3, CardStepOk

(* pad_reset.                                                              *)
LEMMA ResetOk ==
  ASSUME IndInv, NEW ok \in BOOLEAN, Reset(ok)
  PROVE  IndInv'
  <1>1. /\ joy' = SoftResetJoy(joy) /\ kit' = kit /\ saved' = saved
        /\ pads' = [s \in Slots |-> "IDLE"] /\ card' = ResetCard(card, ok)
        /\ tap' = IdleTap(tap.enabled)
    BY DEF Reset
  <1>2. kit \in Kits /\ Registers(joy) /\ tap \in Tap /\ CardOk(card) BY DEF IndInv
  <1>3. tap.enabled \in BOOLEAN BY <1>2, TapFields
  <1>4. Registers(joy') /\ Waits(joy') /\ joy'.device = "none" BY <1>1, <1>2, IdleOk
  <1>5. CardOk(card') /\ card'.state = "IDLE"
    <2> DEFINE r == ResetCardTransfer(card)
    <2>1. CardOk(r) /\ r.state = "IDLE" BY <1>2, ResetCardTransferOk
    <2>2. card' = SaveIfChanged(r, ok) BY <1>1, Zenon DEF ResetCard
    <2> HIDE DEF r
    <2> QED BY <2>1, <2>2, SaveIfChangedOk
  <1>6. 0 \in Slots /\ 0 \in 0..TapSlots * TapBytes BY PortFacts
  <1>7. tap' \in Tap BY <1>1, <1>3, <1>6, SMT DEF IdleTap, Tap
  <1>8. tap'.state = "IDLE" /\ tap'.step = 0 /\ tap'.done = FALSE /\ tap'.enabled = tap.enabled
    BY <1>1, Zenon DEF IdleTap
  <1>9. pads' \in [Slots -> PadStates] /\ \A s \in Slots : pads'[s] = "IDLE"
    BY <1>1 DEF PadStates
  <1>10. Bus'.pads = pads' /\ Bus'.card = card' /\ Bus'.tap = tap' BY Zenon DEF Bus
  <1>11. DevicesOk(Bus', "none") /\ LooseOk(Bus', "none")
    BY <1>5, <1>8, <1>9, <1>10, QuietOk, LooseFollows, Zenon
  <1>12. SavedOk' BY <1>1, <1>8, SavedStaysOk DEF IndInv
  <1> QED BY <1>1, <1>2, <1>4, <1>5, <1>7, <1>9, <1>11, <1>12, Zenon DEF IndInv

(* A state is written.                                                     *)
LEMMA SaveStateOk ==
  ASSUME IndInv, SaveState
  PROVE  IndInv'
  <1> DEFINE busy == joy.state # "IDLE"
             j == [joy EXCEPT !.event = busy, !.stray = FALSE, !.value = None]
             u == SavedCard(card)
             b == [Bus EXCEPT !.card = u]
  <1>1. saved' = [joy |-> j, bus |-> b] /\ UNCHANGED <<kit, joy, pads, card, tap>> /\ ~joy.failed
    BY Zenon DEF SaveState, devices
  <1>2. /\ Registers(joy) /\ Waits(joy) /\ joy \in Joy /\ card \in Card /\ tap \in Tap
        /\ Bus \in Buses /\ Bus.pads = pads /\ Bus.card = card /\ Bus.tap = tap
    BY BusIsOk DEF IndInv, Registers, CardOk
  <1>3. busy \in BOOLEAN /\ None \in Byte \cup {None} BY Zenon
  <1>4. /\ j \in Joy /\ j.event = busy /\ j.stray = FALSE /\ j.state = joy.state
        /\ j.intr = joy.intr /\ j.line = joy.line /\ j.device = joy.device
        /\ j.mixed = joy.mixed /\ j.failed = joy.failed /\ j.buffer = joy.buffer
        /\ j.select = joy.select /\ j.txen = joy.txen
    BY <1>2, <1>3, Zenon DEF Joy
  <1>5. busy <=> joy.state # "IDLE" OBVIOUS
  <1> HIDE DEF j, busy
  <1>6. Registers(j) /\ Waits(j)
    BY <1>2, <1>4, <1>5, Zenon DEF Registers, Events, Shown, Waits, CanTransfer
  <1>7. u \in Card /\ u.state = card.state BY <1>2, SavedCardOk
  <1> HIDE DEF u
  <1>8. b \in Buses /\ b.pads = pads /\ b.tap = tap /\ b.card = u
    BY <1>2, <1>7, Zenon DEF Buses
  <1> HIDE DEF b
  <1>9. /\ LooseOk(Bus, joy.device) => LooseOk(b, joy.device)
        /\ DevicesOk(Bus, joy.device) => DevicesOk(b, joy.device)
    BY <1>2, <1>7, <1>8, CardChangeOk, Zenon
  <1>10. LooseOk(b, j.device) /\ (~j.mixed => DevicesOk(b, j.device))
    BY <1>1, <1>4, <1>9, Zenon DEF IndInv
  <1>11. /\ saved' \in [joy : Joy, bus : Buses] /\ saved'.joy = j /\ saved'.bus = b
         /\ b.tap.enabled = tap'.enabled
    BY <1>1, <1>4, <1>8, Zenon
  <1>12. SavedOk' BY <1>1, <1>4, <1>6, <1>10, <1>11, Zenon DEF SavedOk
  <1>13. Bus' = Bus BY <1>1, Zenon DEF Bus
  <1> QED BY <1>1, <1>12, <1>13, Zenon DEF IndInv

(* A state is loaded: the registers and the devices are those of the port  *)
(* that was written, but for the event and the active device.              *)
LEMMA LoadStateOk ==
  ASSUME IndInv, NEW ok \in BOOLEAN, LoadState(ok)
  PROVE  IndInv'
  <1> DEFINE s == saved.joy
             event == s.event \/ joy.event
             stray == joy.event /\ ~s.event
             mixed == s.mixed \/ joy.device # s.device
             j0 == [s EXCEPT !.event = event, !.stray = stray]
             j1 == [j0 EXCEPT !.device = joy.device, !.value = joy.value]
             j == [j1 EXCEPT !.mixed = mixed]
             c == LoadCard(card, saved.bus.card, ok)
             b == [saved.bus EXCEPT !.card = c]
  <1>1. /\ Registers(joy) /\ joy \in Joy /\ CardOk(card) /\ kit \in Kits /\ ~joy.failed
        /\ LooseOk(Bus, joy.device)
    BY DEF IndInv, Registers, LoadState
  <1>2. /\ s \in Joy /\ saved.bus \in Buses /\ Registers(s) /\ Waits(s) /\ ~s.stray /\ ~s.failed
        /\ saved.bus.tap.enabled = tap.enabled /\ LooseOk(saved.bus, s.device)
        /\ ~s.mixed => DevicesOk(saved.bus, s.device)
    BY DEF IndInv, SavedOk
  <1>3. saved.bus.card \in Card /\ saved.bus.tap \in Tap /\ saved.bus.pads \in [Slots -> PadStates]
    BY <1>2, BusFields
  <1>4. s.event \in BOOLEAN /\ joy.event \in BOOLEAN /\ joy.device \in Devs
        /\ joy.value \in Byte \cup {None} /\ s.mixed \in BOOLEAN
    BY <1>1, <1>2, JoyFields
  <1>5. event \in BOOLEAN /\ stray \in BOOLEAN /\ mixed \in BOOLEAN BY <1>4, Zenon
  <1>6. joy' = j /\ Devices(b) /\ kit' = kit /\ saved' = saved
    <2>1. joy' = j
      BY <1>2, Zenon DEF LoadState, Joy
    <2>2. b = [saved.bus EXCEPT !.card = LoadCard(card, @, ok)] BY <1>2, Zenon DEF Buses
    <2> QED BY <2>1, <2>2, Zenon DEF LoadState
  <1>7. (event <=> s.event \/ stray) /\ (mixed <=> s.mixed \/ joy.device # s.device)
    BY <1>4, Zenon
  <1> HIDE DEF event, stray, mixed
  <1>19. /\ j0 \in Joy /\ j0.event = event /\ j0.stray = stray /\ j0.mixed = s.mixed
         /\ j0.state = s.state /\ j0.intr = s.intr /\ j0.line = s.line
         /\ j0.failed = s.failed /\ j0.buffer = s.buffer /\ j0.select = s.select /\ j0.txen = s.txen
    BY <1>2, <1>5, Zenon DEF Joy
  <1> HIDE DEF j0
  <1>20. /\ j1 \in Joy /\ j1.event = event /\ j1.stray = stray /\ j1.device = joy.device
         /\ j1.state = s.state /\ j1.intr = s.intr /\ j1.line = s.line
         /\ j1.failed = s.failed /\ j1.buffer = s.buffer /\ j1.select = s.select /\ j1.txen = s.txen
    <2>1. j1 \in Joy BY <1>4, <1>19, Zenon DEF Joy, Devs
    <2>2. /\ j1.event = j0.event /\ j1.stray = j0.stray /\ j1.device = joy.device
          /\ j1.state = j0.state /\ j1.intr = j0.intr /\ j1.line = j0.line /\ j1.failed = j0.failed
          /\ j1.buffer = j0.buffer /\ j1.select = j0.select /\ j1.txen = j0.txen
      BY <1>19, Zenon DEF Joy
    <2> HIDE DEF j1
    <2> QED BY <1>19, <2>1, <2>2
  <1> HIDE DEF j1
  <1>8. /\ j \in Joy /\ j.event = event /\ j.stray = stray /\ j.device = joy.device
        /\ j.mixed = mixed /\ j.state = s.state /\ j.intr = s.intr /\ j.line = s.line
        /\ j.failed = s.failed /\ j.buffer = s.buffer /\ j.select = s.select /\ j.txen = s.txen
    <2>1. j \in Joy BY <1>5, <1>20, Zenon DEF Joy
    <2>2. /\ j.event = j1.event /\ j.stray = j1.stray /\ j.device = j1.device /\ j.mixed = mixed
          /\ j.state = j1.state /\ j.intr = j1.intr /\ j.line = j1.line /\ j.failed = j1.failed
          /\ j.buffer = j1.buffer /\ j.select = j1.select /\ j.txen = j1.txen
      BY <1>20, Zenon DEF Joy
    <2> HIDE DEF j
    <2> QED BY <1>20, <2>1, <2>2
  <1> HIDE DEF j
  <1>9. Registers(j)
    BY <1>2, <1>7, <1>8, Zenon DEF Registers, Events, Shown
  <1>10. Waits(j) BY <1>2, <1>7, <1>8, Zenon DEF Waits, CanTransfer
  <1>11. CardOk(c) /\ c.state = saved.bus.card.state BY <1>1, <1>3, LoadCardOk
  <1> HIDE DEF c
  <1>12. b \in Buses /\ b.pads = saved.bus.pads /\ b.tap = saved.bus.tap /\ b.card = c
    BY <1>2, <1>11, Zenon DEF Buses, CardOk
  <1> HIDE DEF b
  <1>13. pads' = b.pads /\ card' = b.card /\ tap' = b.tap BY <1>6 DEF Devices
  <1>14. Bus' = b
    <2>1. Bus' = [pads |-> b.pads, card |-> b.card, tap |-> b.tap] BY <1>13, Zenon DEF Bus
    <2>2. b = [pads |-> b.pads, card |-> b.card, tap |-> b.tap] BY <1>12, Zenon DEF Buses
    <2> QED BY <2>1, <2>2
  <1>15. LooseOk(b, s.device) /\ (~s.mixed => DevicesOk(b, s.device))
    <2>1. b.card.state = saved.bus.card.state BY <1>11, <1>12
    <2>2. /\ DevicesOk(saved.bus, s.device) => DevicesOk(b, s.device)
          /\ LooseOk(saved.bus, s.device) => LooseOk(b, s.device)
      BY <1>12, <2>1, CardChangeOk
    <2> QED BY <1>2, <2>2, Zenon
  <1>16. LooseOk(b, joy.device)
    <2>1. Bus.tap.enabled = b.tap.enabled BY <1>2, <1>12, Zenon DEF Bus
    <2> QED BY <1>1, <1>15, <2>1, Zenon DEF LooseOk
  <1>17. ~j.mixed => DevicesOk(b, joy.device) BY <1>7, <1>8, <1>15, Zenon
  <1>18. SavedOk' BY <1>2, <1>6, <1>12, <1>13, SavedStaysOk DEF IndInv
  <1> QED
    BY <1>1, <1>3, <1>6, <1>8, <1>9, <1>10, <1>11, <1>12, <1>13, <1>14, <1>16, <1>17, <1>18, Zenon
    DEF IndInv

(* The card is taken out and put back.                                     *)
LEMMA ReopenOk ==
  ASSUME IndInv, NEW ok \in BOOLEAN, NEW readable \in BOOLEAN, Reopen(ok, readable)
  PROVE  IndInv'
  <1>1. CardOk(card) BY DEF IndInv
  <1>2. card' = ReopenCard(card, ok, readable) /\ UNCHANGED <<kit, joy, pads, tap, saved>>
    BY DEF Reopen
  <1>3. CardOk(card') /\ card'.state = "IDLE" BY <1>1, <1>2, ReopenCardOk
  <1> QED BY <1>2, <1>3, CardStepOk

(* Every step of the port keeps the invariant.                             *)
LEMMA StepOk ==
  ASSUME IndInv, [Next]_vars
  PROVE  IndInv'
  <1>1. CASE DoTransfer BY <1>1, DoTransferOk
  <1>2. CASE DoAck BY <1>2, DoAckOk
  <1>3. ASSUME NEW ok \in BOOLEAN, SaveEvent(ok) PROVE IndInv' BY <1>3, SaveEventOk
  <1>4. CASE Program
    <2>1. ASSUME NEW byte \in kit.bytes, WriteData(byte) PROVE IndInv' BY <2>1, WriteDataOk
    <2>2. ASSUME NEW select \in BOOLEAN, NEW txen \in BOOLEAN, NEW ack \in BOOLEAN,
                 WriteControl(select, txen, ack)
          PROVE  IndInv'
      BY <2>2, WriteControlOk
    <2>3. CASE SoftReset BY <2>3, SoftResetOk
    <2> QED BY <1>4, <2>1, <2>2, <2>3 DEF Program
  <1>5. CASE Host
    <2>1. ASSUME NEW ok \in BOOLEAN, Reset(ok) PROVE IndInv' BY <2>1, ResetOk
    <2>2. ASSUME NEW ok \in BOOLEAN, LoadState(ok) PROVE IndInv' BY <2>2, LoadStateOk
    <2>4. CASE SaveState BY <2>4, SaveStateOk
    <2>3. ASSUME NEW ok \in BOOLEAN, NEW readable \in BOOLEAN, Reopen(ok, readable)
          PROVE  IndInv'
      BY <2>3, ReopenOk
    <2> QED BY <1>5, <2>1, <2>2, <2>3, <2>4 DEF Host
  <1>6. CASE UNCHANGED vars
    <2>1. UNCHANGED <<kit, joy, pads, tap, saved>> /\ card' = card BY <1>6 DEF vars
    <2>2. CardOk(card') /\ card'.state = card.state BY <2>1 DEF IndInv
    <2> QED BY <2>1, <2>2, CardStepOk
  <1> QED BY <1>1, <1>2, <1>3, <1>4, <1>5, <1>6 DEF Next

(* The invariant holds in every reachable state.                           *)
LEMMA Inductive == Spec => []IndInv
  <1>1. Init => IndInv BY InitOk
  <1>2. IndInv /\ [Next]_vars => IndInv' BY StepOk
  <1> QED BY <1>1, <1>2, PTL DEF Spec

-----------------------------------------------------------------------------
(* The theorems *)

(* What the invariant says of the port and its devices.                    *)
LEMMA IndInvAgrees ==
  ASSUME IndInv
  PROVE  PortAndDevicesAgree
  <1>1. TypeOK BY DEF IndInv, Registers, CardOk, TypeOK, SavedOk, Buses
  <1>2. EventMatchesState BY DEF IndInv, Registers, Events, EventMatchesState
  <1>3. WaitingByteStarts BY DEF IndInv, Waits, WaitingByteStarts
  <1>4. ShownIsSignalled BY DEF IndInv, Registers, Shown, ShownIsSignalled
  <1>5. OneDeviceTransfers
    <2> SUFFICES ASSUME Running, ~joy.mixed PROVE OneDeviceTransfers BY DEF OneDeviceTransfers
    <2>1. DevicesOk(Bus, joy.device) BY DEF IndInv, Running
    <2>2. Bus.pads = pads /\ Bus.card = card /\ Bus.tap = tap BY BusIsOk
    <2>3. \A s \in Slots : (pads[s] \notin {"IDLE", "READY"}) <=> Mid(pads[s]) BY DEF Mid
    <2>4. 0 \in Slots BY PortFacts
    <2>5. CASE tap.enabled
      <3>1. WithTapOk(Bus, joy.device) BY <2>1, <2>2, <2>5 DEF DevicesOk
      <3>2. card.state # "IDLE" => joy.device = "tap" /\ tap.state = "CARD"
        BY <2>2, <3>1, Zenon DEF WithTapOk, TapOk, CardHasTap
      <3>3. \A s \in Slots : Mid(pads[s]) => s = tap.slot
        BY <2>2, <3>1, Zenon DEF WithTapOk, TapOk, OneIsMid
      <3>4. \A s, u \in Slots : pads[s] \notin {"IDLE", "READY"} /\ pads[u] \notin {"IDLE", "READY"}
                                => s = u
        BY <2>3, <3>3, Zenon
      <3> QED BY <2>5, <3>2, <3>4, Zenon DEF OneDeviceTransfers
    <2>6. CASE ~tap.enabled
      <3>1. PlainOk(Bus, joy.device) BY <2>1, <2>2, <2>6 DEF DevicesOk
      <3>2. card.state # "IDLE" => joy.device = "card" BY <2>2, <3>1, Zenon DEF PlainOk
      <3>3. pads[0] \notin {"IDLE", "READY"} => joy.device = "pad"
        BY <2>2, <2>3, <2>4, <3>1, Zenon DEF PlainOk
      <3> QED BY <2>6, <3>2, <3>3, Zenon DEF OneDeviceTransfers
    <2> QED BY <2>5, <2>6
  <1> QED BY <1>1, <1>2, <1>3, <1>4, <1>5 DEF PortAndDevicesAgree

(* The port, its event, its line and the devices behind it agree whatever  *)
(* the program writes and the host does, with any number of slots and      *)
(* bytes: no byte for a card is taken by a controller (pad_do_transfer,    *)
(* multitap_transfer).                                                     *)
THEOREM Agreement == Spec => []PortAndDevicesAgree
  <1>1. IndInv => PortAndDevicesAgree BY IndInvAgrees
  <1> QED BY <1>1, Inductive, PTL

(* What was written to the card is in its file or known not to be, across  *)
(* abandoned transfers, resets, failed saves and states that are loaded    *)
(* (memory_card_transfer, memory_card_save_if_changed).                    *)
THEOREM Kept == Spec => []WrittenIsKept
  <1>1. IndInv => WrittenIsKept
    BY Zenon DEF IndInv, CardOk, SaveIsDue, FileIsKnown, WrittenIsKept, SectorsAreSaved, FileIsCurrent
  <1> QED BY <1>1, Inductive, PTL
==============================================================================
