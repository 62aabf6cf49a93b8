----------------------------- MODULE AudioTaps ------------------------------
(***************************************************************************)
(* The capture thread hands every raw chunk to the monitor (heard through  *)
(* the operator's speaker) and to a running calibration, if there is one;  *)
(* both are switched by WebSocket handlers on the event loop.  The thread  *)
(* reads each of the two globals twice, once to test it and once to use    *)
(* it.  A calibration that has heard enough is swept over all combinations *)
(* of settings in a background task.                                       *)
(*                                                                         *)
(* Time is the number of the chunk being captured.  The worker may be      *)
(* replaced (another input device, a changed setting): its thread ends     *)
(* between two chunks and its successor goes on from there, so that is no  *)
(* step.  A thread that died is not replaced: whoever joins it gets its    *)
(* exception.  The spectrogram, which is fed between the two, is in        *)
(* SpectroRing.                                                            *)
(***************************************************************************)
EXTENDS Integers, Sequences, FiniteSets, SequencesExt, FiniteSetsExt, Selections

CONSTANTS
  Desks,       \* admins' sockets
  MaxChunk,    \* chunks captured (bound of the model)
  PerChunk,    \* blocks of output one chunk makes
  Block,       \* of which the sound card takes this many at a time
  MaxBuffer,   \* _MAX_BUFFER_SAMPLES
  MinCapture,  \* chunks a sweep needs
  MaxCapture,  \* max_duration_s
  Combos       \* combinations a sweep tries

ASSUME TapsAssumption ==
  /\ {MaxChunk, PerChunk, Block, MaxBuffer, MinCapture, MaxCapture, Combos} \subseteq Nat \ {0}
  /\ PerChunk <= MaxBuffer

VARIABLES
  chunk,     \* the chunk in the capture thread's hands
  thread,    \* where the thread is: "read", "monitor", "enqueue", "calibration", "feed"; "dead"
  tap,       \* _monitor_chunk_cb is set
  stream,    \* the output stream: "none", "playing", or "stalled" (held but not active)
  buffer,    \* what the sound card has yet to take, block by block: the chunk it comes from
  played,    \* the chunk last heard
  since,     \* the chunk in hand when the monitor was last stopped
  capture,   \* the calibration capture: a set of at most one [heard, active]
  sweeps     \* sweeps under way: [to, audio, tried]

tapsVars == <<chunk, thread, tap, stream, buffer, played, since, capture, sweeps>>

TapsInit ==
  /\ chunk = 0 /\ thread = "read"
  /\ tap \in BOOLEAN /\ stream = IF tap THEN "playing" ELSE "none"
  /\ buffer = <<>> /\ played = 0 /\ since = 0
  /\ capture = {} /\ sweeps = {}

-----------------------------------------------------------------------------
(* The capture thread. *)
ReadChunk ==
  /\ thread = "read" /\ chunk < MaxChunk
  /\ chunk' = chunk + 1
  /\ thread' = IF tap THEN "monitor" ELSE "calibration"
  /\ UNCHANGED <<tap, stream, buffer, played, since, capture, sweeps>>

\* A callback withdrawn since it was tested ends the thread, unless it was loaded before.
CallMonitor ==
  /\ thread = "monitor"
  /\ \/ tap /\ thread' = IF stream = "none" THEN "calibration" ELSE "enqueue"
     \/ ~tap /\ thread' \in {"dead", "calibration"}
  /\ UNCHANGED <<chunk, tap, stream, buffer, played, since, capture, sweeps>>

\* mutant of Trimmed: trims one chunk, once the buffer is over its limit.
TrimmedLate == IF Len(buffer) > MaxBuffer THEN SelectSeq(buffer, LAMBDA b : b # Head(buffer)) ELSE buffer

\* Whole chunks are dropped from the front until the new one fits.
Trimmed ==
  LET Rest(c) == Kept(buffer, {i \in DOMAIN buffer : buffer[i] >= c})
      fitting == {c \in ToSet(buffer) \cup {chunk} : Len(Rest(c)) + PerChunk <= MaxBuffer}
  IN Rest(Min(fitting))

PushChunk ==
  /\ thread = "enqueue"
  /\ buffer' = Trimmed \o [i \in 1..PerChunk |-> chunk]
  /\ thread' = "calibration"
  /\ UNCHANGED <<chunk, tap, stream, played, since, capture, sweeps>>

TestCalibration ==
  /\ thread = "calibration"
  /\ thread' = IF capture # {} THEN "feed" ELSE "read"
  /\ UNCHANGED <<chunk, tap, stream, buffer, played, since, capture, sweeps>>

\* One that is over its limit switches itself off and stays to be fetched.
Fed(c) ==
  IF c.active
  THEN [heard |-> Append(c.heard, chunk), active |-> Len(c.heard) + 1 < MaxCapture]
  ELSE c

Feed ==
  /\ thread = "feed"
  /\ capture' = {Fed(c) : c \in capture}
  /\ thread' \in IF capture = {} THEN {"dead", "read"} ELSE {"read"}
  /\ UNCHANGED <<chunk, tap, stream, buffer, played, since, sweeps>>

-----------------------------------------------------------------------------
(* The sound card, and the monitor's handler. *)
PlayBlock ==
  LET n == Min({Block, Len(buffer)})
  IN /\ stream = "playing" /\ n > 0
     /\ played' = buffer[n]
     /\ buffer' = SubSeq(buffer, n + 1, Len(buffer))
     /\ UNCHANGED <<chunk, thread, tap, stream, since, capture, sweeps>>

Stall == \* the output device goes away
  /\ stream = "playing" /\ stream' = "stalled"
  /\ UNCHANGED <<chunk, thread, tap, buffer, played, since, capture, sweeps>>

\* The old stream, if any, is closed first; when the new one cannot be opened it is kept.
StartMonitor ==
  /\ stream # "playing"
  /\ \/ stream' = "playing" /\ tap' = TRUE
     \/ UNCHANGED <<stream, tap>>
  /\ UNCHANGED <<chunk, thread, buffer, played, since, capture, sweeps>>

\* mutant of StopMonitor: the buffer is kept.
StopMonitorUndrained ==
  /\ stream' = "none" /\ tap' = FALSE
  /\ since' = chunk
  /\ UNCHANGED <<chunk, thread, buffer, played, capture, sweeps>>

StopMonitor ==
  /\ stream' = "none" /\ tap' = FALSE
  /\ buffer' = <<>>
  /\ since' = chunk
  /\ UNCHANGED <<chunk, thread, played, capture, sweeps>>

-----------------------------------------------------------------------------
(* Calibration. *)
CalibrationStart(d) == \* one that is running is thrown away, whoever started it
  /\ capture' = {[heard |-> <<>>, active |-> TRUE]}
  /\ UNCHANGED <<chunk, thread, tap, stream, buffer, played, since, sweeps>>

\* mutant of CalibrationStop: the capture is not withdrawn.
CalibrationStopKept(d) ==
  /\ capture # {}
  /\ sweeps' = sweeps \cup {[to |-> d, audio |-> c.heard, tried |-> 0] :
                              c \in {x \in capture : Len(x.heard) >= MinCapture}}
  /\ UNCHANGED <<chunk, thread, tap, stream, buffer, played, since, capture>>

CalibrationStop(d) ==
  /\ capture # {}
  /\ capture' = {}
  /\ sweeps' = sweeps \cup {[to |-> d, audio |-> c.heard, tried |-> 0] :
                              c \in {x \in capture : Len(x.heard) >= MinCapture}}
  /\ UNCHANGED <<chunk, thread, tap, stream, buffer, played, since>>

Advance(s) == \* run_sweep: one more combination, reported to the socket that stopped
  /\ s.tried < Combos
  /\ sweeps' = (sweeps \ {s}) \cup {[s EXCEPT !.tried = @ + 1]}
  /\ UNCHANGED <<chunk, thread, tap, stream, buffer, played, since, capture>>

SweepOver(s) == \* the result, or an error: no model staged, one that cannot be loaded
  /\ sweeps' = sweeps \ {s}
  /\ UNCHANGED <<chunk, thread, tap, stream, buffer, played, since, capture>>

CaptureThread ==
  ReadChunk \/ CallMonitor \/ PushChunk \/ TestCalibration \/ Feed

TapsNext ==
  \/ CaptureThread
  \/ PlayBlock \/ Stall \/ StartMonitor \/ StopMonitor
  \/ \E d \in Desks : CalibrationStart(d) \/ CalibrationStop(d)
  \/ \E s \in sweeps : Advance(s) \/ SweepOver(s)

TapsSpec == TapsInit /\ [][TapsNext]_tapsVars

-----------------------------------------------------------------------------
ChunkNumbers == 0..MaxChunk
Audios == BoundedSeq(ChunkNumbers, MaxCapture)

\* Types of the fan-out.
TapsTypeOK ==
  /\ {chunk, played, since} \subseteq ChunkNumbers
  /\ thread \in {"read", "monitor", "enqueue", "calibration", "feed", "dead"}
  /\ tap \in BOOLEAN /\ stream \in {"none", "playing", "stalled"}
  /\ buffer \in Seq(ChunkNumbers)
  /\ Cardinality(capture) <= 1
  /\ \A c \in capture : c.heard \in Audios /\ c.active \in BOOLEAN
  /\ \A s \in sweeps : s.to \in Desks /\ s.audio \in Audios /\ s.tried \in 0..Combos

\* "Playback never lags behind live audio": at most a second is held, in the order
\* it was captured and later than what was played.
KeepsUp ==
  /\ Len(buffer) <= MaxBuffer
  /\ \A i \in DOMAIN buffer : buffer[i] >= played
  /\ \A i \in 1..Len(buffer) - 1 : buffer[i] <= buffer[i + 1]

\* Nothing captured before the monitor was switched off is played when it is on
\* again, but for the chunk that was being pushed.
NothingStale == \A i \in DOMAIN buffer : buffer[i] >= since

\* A calibration hears the channel without a gap, and no audio is swept twice.
HeardOf == {c.heard : c \in capture} \cup {s.audio : s \in sweeps}
CalibrationWhole ==
  /\ \A h \in HeardOf : \A i \in 1..Len(h) - 1 : h[i + 1] = h[i] + 1
  /\ \A s, t \in sweeps : s # t => ToSet(s.audio) \cap ToSet(t.audio) = {}
  /\ \A s \in sweeps, c \in capture : ToSet(s.audio) \cap ToSet(c.heard) = {}

TapsSound == KeepsUp /\ NothingStale /\ CalibrationWhole

=============================================================================
