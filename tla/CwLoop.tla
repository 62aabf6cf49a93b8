------------------------------- MODULE CwLoop -------------------------------
(***************************************************************************)
(* The capture thread in CW mode: STTWorker._run_cw with the squelch it    *)
(* owns (stt/worker.py, audio/squelch.py).                                 *)
(*                                                                         *)
(* There is no voice detector and no second thread.  While the squelch is  *)
(* open, and for a tail after it has closed, chunks are collected; then    *)
(* the whole transmission is decoded (see Morse).  A pause throws away     *)
(* what was collected, and so does the end of the loop.  A chunk is loud   *)
(* or quiet; audio is a length.                                            *)
(***************************************************************************)
EXTENDS Naturals

CONSTANTS
  OpenHold,      \* loud chunks that open the squelch
  CloseHold,     \* quiet chunks that close it
  TailChunks,    \* CLOSE_HOLD: chunks collected after that
  MaxCollected   \* bound of the model: the code collects for as long as the squelch is open

ASSUME CwAssumption ==
  /\ {OpenHold, CloseHold, TailChunks} \subseteq Nat \ {0}
  /\ MaxCollected \in Nat

VARIABLES
  capturing,     \* the loop runs
  paused,        \* _pause_event
  resting,       \* was_paused
  detector,      \* the SquelchDetector
  collected,     \* len(buffer)
  tail,          \* close_hold_count
  occupied,      \* channel_busy
  span,          \* history: chunks read since the first that is collected
  hushed,        \* history: chunks since the squelch was last open
  owed           \* history: a chunk was heard with the squelch open and not yet decoded

cwHistory == <<span, hushed, owed>>
cwVars == <<capturing, paused, resting, detector, collected, tail, occupied, cwHistory>>

Least(m, n) == IF m < n THEN m ELSE n
Shut == [open |-> FALSE, above |-> 0, below |-> 0]

CwInit ==
  /\ capturing = TRUE /\ paused = FALSE /\ resting = FALSE
  /\ detector = Shut /\ collected = 0 /\ tail = 0 /\ occupied = FALSE
  /\ span = 0 /\ hushed = 0 /\ owed = FALSE

PauseCw ==
  /\ ~paused /\ paused' = TRUE
  /\ UNCHANGED <<capturing, resting, detector, collected, tail, occupied, cwHistory>>

ResumeCw ==
  /\ paused /\ paused' = FALSE
  /\ UNCHANGED <<capturing, resting, detector, collected, tail, occupied, cwHistory>>

\* mutant of Emptied: a pause resets the squelch but not the buffer
EmptiedNot == UNCHANGED <<collected, tail>>

Emptied == collected' = 0 /\ tail' = 0

\* The first chunk read while paused forgets the transmission, the others are only metered.
RestingChunk ==
  /\ capturing /\ paused
  /\ IF resting THEN UNCHANGED <<detector, collected, tail>> ELSE Emptied /\ detector' = Shut
  /\ resting' = TRUE
  /\ span' = IF collected' = 0 THEN 0 ELSE span + 1
  /\ hushed' = 0 /\ owed' = FALSE
  /\ UNCHANGED <<capturing, paused, occupied>>

\* SquelchDetector.update with a fixed threshold; the counters stop at their holds.
Updated(d, loud) ==
  IF loud
    THEN LET n == Least(d.above + 1, OpenHold)
         IN  [open |-> d.open \/ n = OpenHold, above |-> n, below |-> 0]
    ELSE LET n == Least(d.below + 1, CloseHold)
         IN  [open |-> d.open /\ n < CloseHold, above |-> 0, below |-> n]

\* The detector as the first chunk after a pause finds it.
Present == IF resting THEN Shut ELSE detector

\* mutant of Collect: the tail goes on where an earlier gap left it
CollectOldTail == collected' = collected + 1 /\ UNCHANGED tail

\* The squelch is open: one chunk more, and the tail starts over.
Collect == collected' = collected + 1 /\ tail' = 0

\* The squelch is closed on a transmission: its tail, and at the end of that the decoder.
CollectTail ==
  IF tail + 1 >= TailChunks THEN collected' = 0 /\ tail' = 0
                      ELSE collected' = collected + 1 /\ tail' = tail + 1

\* _handle_raw_squelch_event: only the two edges reach channel_busy.
Occupied ==
  \/ ~Present.open /\ detector'.open
  \/ occupied /\ ~(Present.open /\ ~detector'.open)

ListeningChunk(loud) ==
  /\ capturing /\ ~paused
  /\ loud => collected < MaxCollected
  /\ resting' = FALSE
  /\ detector' = Updated(Present, loud)
  /\ occupied' = Occupied
  /\ \/ detector'.open /\ Collect
     \/ ~detector'.open /\ collected # 0 /\ CollectTail
     \/ ~detector'.open /\ collected = 0 /\ UNCHANGED <<collected, tail>>
  /\ span' = IF collected' = 0 THEN 0 ELSE span + 1
  /\ hushed' = IF detector'.open \/ collected' = 0 THEN 0 ELSE hushed + 1
  /\ owed' = (detector'.open \/ (owed /\ hushed + 1 < TailChunks))
  /\ UNCHANGED <<capturing, paused>>

\* The loop ends, stopped or because the source cannot be read; what was collected is
\* not decoded, and nobody clears the flag of the channel.
LoopEnds ==
  /\ capturing /\ capturing' = FALSE
  /\ Emptied /\ detector' = Shut /\ resting' = FALSE
  /\ span' = 0 /\ hushed' = 0 /\ owed' = FALSE
  /\ UNCHANGED <<paused, occupied>>

\* A new worker is started.
LoopStarts ==
  /\ ~capturing /\ capturing' = TRUE
  /\ paused' = FALSE /\ occupied' = FALSE
  /\ UNCHANGED <<resting, detector, collected, tail, cwHistory>>

CwNext ==
  \/ PauseCw \/ ResumeCw \/ LoopEnds \/ LoopStarts
  \/ RestingChunk \/ \E loud \in BOOLEAN : ListeningChunk(loud)

CwSpec == CwInit /\ [][CwNext]_cwVars

CwTypeOK ==
  /\ capturing \in BOOLEAN /\ paused \in BOOLEAN /\ resting \in BOOLEAN
  /\ occupied \in BOOLEAN /\ owed \in BOOLEAN
  /\ detector \in [open : BOOLEAN, above : 0..OpenHold, below : 0..CloseHold]
  /\ collected \in 0..(MaxCollected + TailChunks + CloseHold) /\ tail \in 0..(TailChunks - 1)
  /\ span \in Nat /\ hushed \in 0..(TailChunks - 1)

\* What will be decoded is one unbroken stretch of the channel, from the opening of the
\* squelch on, with nothing from before a pause in it; it ends only after a whole tail of
\* closed squelch, however often the carrier came back before; and nothing that was heard
\* with the squelch open is lost but to a pause or to the end of the loop.
TransmissionWhole ==
  /\ collected = span
  /\ collected # 0 => tail = hushed
  /\ owed <=> collected # 0

\* An open squelch counts as a busy channel, also after pauses that reset it silently.
CarrierOccupies == detector.open => occupied

CwSound == TransmissionWhole /\ CarrierOccupies
=============================================================================
