----------------------------- MODULE AudioQueue -----------------------------
(***************************************************************************)
(* What the audio stream (src/util/audio/core_audio_stream.c) promises to  *)
(* the emulator and to the sound device: a queue of frames.  What is heard *)
(* was written, in the order it was written and once; frames are lost only *)
(* where the emulator runs ahead (the oldest two chunks make room) and     *)
(* where the buffer is emptied or allocated anew.                          *)
(***************************************************************************)
EXTENDS Naturals, Sequences

CONSTANTS
  Frame,   \* frames
  Chunk    \* CHUNK_SIZE, the most that is written at once

VARIABLES
  queue,   \* frames written and not heard, oldest first
  heard    \* what the device's last request was answered with

Init == queue = <<>> /\ heard = <<>>

Write ==
  /\ \E n \in 1..Chunk : \E new \in [1..n -> Frame] : queue' = queue \o new
  /\ heard' = heard

Hear ==
  \E n \in 1..Len(queue) :
    /\ heard' = SubSeq(queue, 1, n)
    /\ queue' = SubSeq(queue, n + 1, Len(queue))

(* The device asks for more, or hears silence.                             *)
Ask == heard' = <<>> /\ queue' = queue

MakeRoom ==
  /\ Len(queue) >= 2 * Chunk
  /\ queue' = SubSeq(queue, 2 * Chunk + 1, Len(queue))
  /\ heard' = heard

Empty == queue' = <<>> /\ heard' = heard

Next == Write \/ Hear \/ Ask \/ MakeRoom \/ Empty
=============================================================================
