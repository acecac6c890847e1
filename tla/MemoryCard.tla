----------------------------- MODULE MemoryCard -----------------------------
(***************************************************************************)
(* A memory card, src/core/input/memory_cards/memory_card.c: the protocol  *)
(* it speaks byte by byte, and the file of the host that keeps what it     *)
(* holds.                                                                  *)
(*                                                                         *)
(* The card is a record and the functions of the code are functions of it. *)
(* It has one sector, of FrameSize bytes, of which it is only known        *)
(* whether they are the byte that also addresses a card; addresses of      *)
(* sectors, checksums and the bytes it answers are left out.               *)
(***************************************************************************)
EXTENDS Integers

CONSTANT FrameSize   \* bound: MEMORY_CARD_IMAGE_FRAME_SIZE, 128 in the code

ASSUME FrameAssumption == FrameSize \in Nat \ {0}

(* The bytes the protocols tell apart: the addresses of a controller and   *)
(* of a card, a controller's read command, a card's read, write and        *)
(* identification commands.                                                *)
ToController == 1
ToCard == 129
Poll == 66
ReadCommand == 82
WriteCommand == 87
GetIdCommand == 83
Byte == {ToController, ToCard, Poll, ReadCommand, WriteCommand, GetIdCommand}

Contents == [1..FrameSize -> BOOLEAN]
Formatted == [i \in 1..FrameSize |-> FALSE]

(* The states that take any byte, acknowledge it and go on to the next.    *)
Following ==
  [READ_CARD_ID1 |-> "READ_CARD_ID2", READ_CARD_ID2 |-> "READ_ADDRESS_MSB",
   READ_ADDRESS_MSB |-> "READ_ADDRESS_LSB", READ_ADDRESS_LSB |-> "READ_ACK1",
   READ_ACK1 |-> "READ_ACK2", READ_ACK2 |-> "READ_CONFIRM_ADDRESS_MSB",
   READ_CONFIRM_ADDRESS_MSB |-> "READ_CONFIRM_ADDRESS_LSB",
   READ_CONFIRM_ADDRESS_LSB |-> "READ_DATA",
   READ_CHECKSUM |-> "READ_END", READ_END |-> "IDLE",
   WRITE_CARD_ID1 |-> "WRITE_CARD_ID2", WRITE_CARD_ID2 |-> "WRITE_ADDRESS_MSB",
   WRITE_ADDRESS_MSB |-> "WRITE_ADDRESS_LSB", WRITE_ADDRESS_LSB |-> "WRITE_DATA",
   WRITE_CHECKSUM |-> "WRITE_ACK1", WRITE_ACK1 |-> "WRITE_ACK2", WRITE_ACK2 |-> "WRITE_END",
   GET_ID_CARD_ID1 |-> "GET_ID_CARD_ID2", GET_ID_CARD_ID2 |-> "GET_ID_ACK1",
   GET_ID_ACK1 |-> "GET_ID_ACK2", GET_ID_ACK2 |-> "GET_ID1", GET_ID1 |-> "GET_ID2",
   GET_ID2 |-> "GET_ID3", GET_ID3 |-> "GET_ID4", GET_ID4 |-> "COMMAND"]

CardStates ==
  DOMAIN Following \cup {"IDLE", "COMMAND", "READ_DATA", "WRITE_DATA", "WRITE_END"}

Card ==
  [state : CardStates,
   offset : 0..FrameSize - 1,   \* sector_offset
   data : Contents,
   changed : BOOLEAN,
   saving : BOOLEAN,            \* save_event is scheduled
   path : BOOLEAN,              \* there is a file
   file : Contents,             \* what it holds
   owed : BOOLEAN,              \* ghost: a sector was written and not saved since
   excused : BOOLEAN]           \* ghost: a save failed, or a state was loaded, since

(* memory_card_create's card, once its file is there.                      *)
NewCard ==
  [state |-> "IDLE", offset |-> 0, data |-> Formatted, changed |-> FALSE, saving |-> FALSE,
   path |-> TRUE, file |-> Formatted, owed |-> FALSE, excused |-> FALSE]

(* Mutant: deselecting the card cancels the save.                          *)
ResetCardTransferCancels(c) == [c EXCEPT !.state = "IDLE", !.offset = 0, !.saving = FALSE]

(* memory_card_reset_transfer_state                                        *)
ResetCardTransfer(c) == [c EXCEPT !.state = "IDLE", !.offset = 0]

(* memory_card_save_if_changed; the file may not be written.               *)
SaveIfChanged(c, ok) ==
  LET s == [c EXCEPT !.saving = FALSE] IN
    IF ~c.changed THEN s
    ELSE IF ~c.path \/ ~ok THEN [s EXCEPT !.changed = FALSE, !.excused = TRUE]
    ELSE [s EXCEPT !.changed = FALSE, !.file = c.data, !.owed = FALSE, !.excused = FALSE]

(* Mutant: the file is only written for the first sector.                  *)
QueueFileSaveOnce(c) ==
  IF c.saving \/ ~c.path \/ c.file # Formatted THEN c ELSE [c EXCEPT !.saving = TRUE]

(* memory_card_queue_file_save                                             *)
QueueFileSave(c) == IF c.saving \/ ~c.path THEN c ELSE [c EXCEPT !.saving = TRUE]

Answer(card, ack) == [card |-> card, ack |-> ack]

(* The READ_DATA and WRITE_DATA states.                                    *)
ReadByte(c) ==
  IF c.offset + 1 = FrameSize THEN [c EXCEPT !.state = "READ_CHECKSUM", !.offset = 0]
  ELSE [c EXCEPT !.offset = @ + 1]

WriteByte(c, byte) ==
  LET bit == byte = ToCard
      w == [c EXCEPT !.data[c.offset + 1] = bit, !.changed = @ \/ c.data[c.offset + 1] # bit]
      done == [w EXCEPT !.state = "WRITE_CHECKSUM", !.offset = 0,
                        !.owed = @ \/ (c.path /\ w.data # w.file)]
  IN IF c.offset + 1 < FrameSize THEN [w EXCEPT !.offset = @ + 1]
     ELSE IF w.changed THEN QueueFileSave(done) ELSE done

(* memory_card_transfer                                                    *)
CardTransfer(c, byte) ==
  CASE c.state = "IDLE" ->
         IF byte = ToCard THEN Answer([c EXCEPT !.state = "COMMAND"], TRUE) ELSE Answer(c, FALSE)
    [] c.state = "COMMAND" ->
         CASE byte = ReadCommand  -> Answer([c EXCEPT !.state = "READ_CARD_ID1"], TRUE)
           [] byte = WriteCommand -> Answer([c EXCEPT !.state = "WRITE_CARD_ID1"], TRUE)
           [] byte = GetIdCommand -> Answer([c EXCEPT !.state = "GET_ID_CARD_ID1"], TRUE)
           [] OTHER               -> Answer([c EXCEPT !.state = "IDLE"], FALSE)
    [] c.state = "READ_DATA" -> Answer(ReadByte(c), TRUE)
    [] c.state = "WRITE_DATA" -> Answer(WriteByte(c, byte), TRUE)
    [] c.state = "WRITE_END" -> Answer([c EXCEPT !.state = "IDLE"], FALSE)
    [] OTHER -> Answer([c EXCEPT !.state = Following[c.state]], TRUE)

(* memory_card_reset                                                       *)
ResetCard(c, ok) == SaveIfChanged(ResetCardTransfer(c), ok)

(* memory_card_do_state, writing: the parts of a card that a state holds.  *)
SavedCard(c) ==
  [NewCard EXCEPT !.state = c.state, !.offset = c.offset, !.data = c.data, !.changed = c.changed]

(* Reading: what the card holds is saved first, and then replaced by what  *)
(* the state says, with the changed flag but without the save event.       *)
LoadCard(c, s, ok) ==
  [SaveIfChanged(c, ok) EXCEPT !.state = s.state, !.offset = s.offset, !.data = s.data,
                               !.changed = s.changed, !.excused = TRUE]

(* memory_card_destroy and memory_card_open: a file that cannot be read is *)
(* not written to either.                                                  *)
ReopenCard(c, ok, readable) ==
  LET s == SaveIfChanged(c, ok) IN
    [NewCard EXCEPT !.file = s.file, !.path = readable,
                    !.data = IF readable THEN s.file ELSE Formatted]
==============================================================================
