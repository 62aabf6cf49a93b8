---------------------------- MODULE CaptureLoop ----------------------------
(***************************************************************************)
(* The capture thread of backend/stt/worker.py (STTWorker._run) with the   *)
(* SquelchDetector and the SpeechSegmenter it feeds, and the two carrier   *)
(* flags the rest of the station reads: channel_busy (the transmit pump)   *)
(* and _channel_clear (the beacon, NCS and the plugins).                   *)
(*                                                                         *)
(* One step is one iteration of the loop: one captured chunk.  A chunk is  *)
(* loud (peak above the squelch threshold) or quiet, and the voice         *)
(* detector may report the start or the end of speech.  Buffers are        *)
(* modelled by their lengths in chunks.                                    *)
(***************************************************************************)
EXTENDS Naturals

CONSTANTS
  OpenHold,       \* SQUELCH_OPEN_HOLD_CHUNKS (2)
  CloseHold,      \* SQUELCH_CLOSE_HOLD_CHUNKS (16)
  CrashTrim,      \* CRASH_TRIM_CHUNKS (2)
  GuardMax,       \* TX_TAIL_GUARD_MAX_CHUNKS (46)
  Target,         \* rolling_target_chunks (62)
  CutWindow,      \* cut_window_chunks (9)
  PreRoll,        \* pre_buffer_chunks (10)
  PreTrigger,     \* SQUELCH_BUFFER_MAX_CHUNKS (64)
  MinSpeech,      \* MIN_SPEECH_DURATION_S in chunks (13)
  MaxUtt          \* bound: utterances begun in a behaviour

Trigger == Target + CutWindow           \* _slice_trigger_chunks

ASSUME CaptureAssumption ==
  /\ {OpenHold, CloseHold, Target, CutWindow, PreRoll, PreTrigger, MinSpeech}
       \subseteq Nat \ {0}
  /\ {CrashTrim, GuardMax, MaxUtt} \subseteq Nat
  /\ PreRoll <= PreTrigger /\ PreTrigger <= Trigger

VARIABLES
  pause,          \* _pause_event, set and cleared by the transmit pump
  wasPaused,      \* was_paused
  guard,          \* tail_guard_count, Off when not discarding
  sq,             \* SquelchDetector: open, above, below
  vad,            \* the voice detector believes somebody is speaking
  inSpeech,       \* SpeechSegmenter._in_speech
  uid,            \* _utterance_id
  collected,      \* len(_collected)
  speech,         \* _speech_samples in chunks, up to MinSpeech
  rolling,        \* len(_rolling)
  squelchBuffer,  \* len(_squelch_buffer)
  busy,           \* channel_busy
  clear,          \* server._channel_clear
  fate,           \* history: what was emitted of each utterance
  fed             \* history: chunks fed since the last pause, up to Trigger

flags == <<busy, clear>>
buffers == <<sq, vad, inSpeech, uid, collected, speech, rolling, squelchBuffer>>
history == <<fate, fed>>
vars == <<pause, wasPaused, guard, buffers, flags, history>>

Off == GuardMax + 1                     \* tail_guard_count = -1
Least(m, n) == IF m <= n THEN m ELSE n
Partials == inSpeech /\ fate[uid] = "partial"     \* _partials_emitted > 0

Closed == [open |-> FALSE, above |-> 0, below |-> 0]

Init ==
  /\ pause = FALSE /\ wasPaused = FALSE /\ guard = Off
  /\ sq = Closed /\ vad = FALSE /\ inSpeech = FALSE /\ uid = 0
  /\ collected = 0 /\ speech = 0 /\ rolling = 0 /\ squelchBuffer = 0
  /\ busy = FALSE /\ clear = TRUE
  /\ fate = [u \in 1 .. MaxUtt |-> "none"] /\ fed = 0

-----------------------------------------------------------------------------
Pause == /\ ~pause /\ pause' = TRUE
         /\ UNCHANGED <<wasPaused, guard, buffers, flags, history>>

Resume == /\ pause /\ pause' = FALSE
          /\ UNCHANGED <<wasPaused, guard, buffers, flags, history>>

\* mutant of Reset: the segmenter still believes it is in speech
ResetInSpeech ==
  /\ sq' = Closed /\ vad' = FALSE
  /\ collected' = 0 /\ speech' = 0 /\ rolling' = 0 /\ squelchBuffer' = 0
  /\ UNCHANGED <<uid, inSpeech>>

\* mutant of Reset: the pre-roll survives the pause
ResetKeepsAudio ==
  /\ sq' = Closed /\ vad' = FALSE /\ inSpeech' = FALSE
  /\ collected' = 0 /\ speech' = 0
  /\ UNCHANGED <<uid, rolling, squelchBuffer>>

\* SpeechSegmenter.reset.  No squelch event is emitted, so the flags stay.
Reset ==
  /\ sq' = Closed /\ vad' = FALSE /\ inSpeech' = FALSE
  /\ collected' = 0 /\ speech' = 0 /\ rolling' = 0 /\ squelchBuffer' = 0
  /\ UNCHANGED uid

\* The first chunk read while paused resets the segmenter; the rest are
\* only metered.
PausedChunk ==
  /\ pause
  /\ ~wasPaused
  /\ wasPaused' = TRUE
  /\ Reset
  /\ fate' = IF inSpeech THEN [fate EXCEPT ![uid] = "cut"] ELSE fate
  /\ fed' = 0
  /\ UNCHANGED <<pause, guard, flags>>

\* tail_guard_count as the guard test sees it: armed on the first chunk
\* after a pause.
Guard == IF wasPaused THEN 0 ELSE guard

\* _tx_tail_guard_release: a carrier or the end of the window.
Released(loud) == Guard = Off \/ loud \/ Guard >= GuardMax

\* A quiet chunk inside the guard window is discarded.
GuardedChunk ==
  /\ ~pause /\ ~Released(FALSE)
  /\ guard' = Guard + 1 /\ wasPaused' = FALSE
  /\ UNCHANGED <<pause, buffers, flags, history>>

-----------------------------------------------------------------------------
(* SpeechSegmenter.feed *)

\* mutant of Squelch: no close hold
SquelchNoHold(loud) ==
  IF loud
    THEN LET a == Least(sq.above + 1, OpenHold)
         IN  [open |-> sq.open \/ a >= OpenHold, above |-> a, below |-> 0]
    ELSE [open |-> FALSE, above |-> 0, below |-> Least(sq.below + 1, CloseHold)]

\* SquelchDetector.update, fixed threshold; the counters stop at their holds.
Squelch(loud) ==
  IF loud
    THEN LET a == Least(sq.above + 1, OpenHold)
         IN  [open |-> sq.open \/ a >= OpenHold, above |-> a, below |-> 0]
    ELSE LET b == Least(sq.below + 1, CloseHold)
         IN  [open |-> sq.open /\ b < CloseHold, above |-> 0, below |-> b]

Opened == ~sq.open /\ sq'.open
Dropped == sq.open /\ ~sq'.open
CarrierDrop == Dropped /\ inSpeech      \* force-finalizes the utterance

\* mutant of Carrier: the first quiet chunk frees the channel
CarrierFreedAtOnce ==
  /\ busy'  = (Opened \/ (busy /\ sq'.below = 0))
  /\ clear' = (Dropped \/ (clear /\ ~Opened))

\* _apply_squelch_event and _on_stt_capture_event.
Carrier == /\ busy'  = (Opened \/ (busy /\ ~Dropped))
           /\ clear' = (Dropped \/ (clear /\ ~Opened))

\* What is left of the utterance when a carrier drop trims its tail.
Trimmed == collected - Least(IF collected = 0 THEN 0 ELSE collected - 1,
                             CloseHold + CrashTrim)

\* mutant of EndFate: the minimum holds for the tail of a shown utterance too
EndFateAlwaysShort(length, spoken) ==
  IF length > 0 /\ spoken >= MinSpeech THEN "final" ELSE "dropped"

\* _finalize_utterance: a final segment, unless nothing is left or the
\* utterance is too short and has not been shown.
EndFate(length, spoken) ==
  IF length > 0 /\ (Partials \/ spoken >= MinSpeech) THEN "final" ELSE "dropped"

\* The utterances after the carrier has, or has not, dropped.
FateNow == IF CarrierDrop
             THEN [fate EXCEPT ![uid] = EndFate(Trimmed, speech)]
             ELSE fate

\* The pre-trigger buffer as the start of speech finds it.
SquelchBufferNow == IF Opened \/ (Dropped /\ ~inSpeech) THEN 0 ELSE squelchBuffer

\* The same after the chunk, when nobody is speaking or no longer is: it is kept
\* while the squelch is open, the chunk that ends an utterance included.
SquelchBufferAfter ==
  IF sq'.open THEN Least(SquelchBufferNow + 1, PreTrigger) ELSE SquelchBufferNow

\* The pre-roll that seeds an utterance.
Seed == IF sq'.open /\ SquelchBufferNow > 0 THEN SquelchBufferNow ELSE rolling

SpeechStarts ==
  /\ ~vad \/ CarrierDrop
  /\ uid < MaxUtt
  /\ uid' = uid + 1
  /\ vad' = TRUE /\ inSpeech' = TRUE
  /\ collected' = Least(Seed + 1, Trigger)
  /\ speech' = 1
  /\ squelchBuffer' = 0
  /\ fate' = [FateNow EXCEPT ![uid + 1] = "open"]

SpeechEnds ==
  /\ vad /\ inSpeech /\ ~CarrierDrop
  /\ vad' = FALSE /\ inSpeech' = FALSE
  /\ collected' = 0 /\ speech' = 0
  /\ fate' = [fate EXCEPT ![uid] = EndFate(Least(collected + 1, Trigger), speech + 1)]
  /\ squelchBuffer' = SquelchBufferAfter
  /\ UNCHANGED uid

\* mutant of Sliced: the cut may fall one past the end of the window
SlicedPastEnd(n) == {n - (cut + 1) : cut \in Target .. Trigger}

\* pick_cut_index and the pops: what a slice leaves of n collected chunks.
Sliced(n) == {n - (cut + 1) : cut \in Target .. Trigger - 1}

\* Speech goes on; past the trigger length a slice is cut off in the window.
SpeechGoesOn ==
  /\ inSpeech /\ ~CarrierDrop
  /\ LET n == Least(collected + 1, Trigger)
     IN  IF n >= Trigger
           THEN collected' \in Sliced(n) /\ fate' = [fate EXCEPT ![uid] = "partial"]
           ELSE collected' = n /\ fate' = fate
  /\ speech' = Least(speech + 1, MinSpeech)
  /\ squelchBuffer' = SquelchBufferNow
  /\ UNCHANGED <<vad, inSpeech, uid>>

Silence ==
  /\ ~inSpeech \/ CarrierDrop
  /\ vad' = FALSE /\ inSpeech' = FALSE
  /\ collected' = 0 /\ speech' = 0
  /\ fate' = FateNow
  /\ squelchBuffer' = SquelchBufferAfter
  /\ UNCHANGED uid

\* A chunk that reaches the segmenter.
FedChunk(loud) ==
  /\ ~pause /\ Released(loud)
  /\ guard' = Off /\ wasPaused' = FALSE
  /\ sq' = Squelch(loud)
  /\ Carrier
  /\ SpeechStarts \/ SpeechEnds \/ SpeechGoesOn \/ Silence
  /\ rolling' = Least(rolling + 1, PreRoll)
  /\ fed' = Least(fed + 1, Trigger)
  /\ UNCHANGED pause

Chunk == PausedChunk \/ GuardedChunk \/ \E loud \in BOOLEAN : FedChunk(loud)

Next == Pause \/ Resume \/ Chunk

Spec == Init /\ [][Next]_vars

-----------------------------------------------------------------------------
(* Properties *)

TypeOK ==
  /\ pause \in BOOLEAN /\ wasPaused \in BOOLEAN /\ guard \in 0 .. Off
  /\ sq \in [open : BOOLEAN, above : 0 .. OpenHold, below : 0 .. CloseHold]
  /\ vad \in BOOLEAN /\ inSpeech \in BOOLEAN /\ uid \in 0 .. MaxUtt
  /\ collected \in 0 .. Trigger /\ speech \in 0 .. MinSpeech
  /\ rolling \in 0 .. PreRoll /\ squelchBuffer \in 0 .. PreTrigger
  /\ busy \in BOOLEAN /\ clear \in BOOLEAN
  /\ fed \in 0 .. Trigger
  /\ fate \in [1 .. MaxUtt -> {"none", "open", "partial", "final", "dropped", "cut"}]

\* The loop implements UtteranceLife: utterances begin in order, one at a time,
\* none is abandoned because speech starts again, and nothing is sent of one that
\* has ended or was cut off by a pause.
Life == INSTANCE UtteranceLife
LifeSpec == Life!Spec

\* No audio captured before or during a transmission is transcribed after it:
\* every buffer that can seed an utterance is younger than the last pause
\* (segmenter.reset on both edges, the tail guard).
OnlyFreshAudio == /\ collected <= fed /\ rolling <= fed /\ squelchBuffer <= fed
                  /\ wasPaused \/ guard # Off => fed = 0

\* The channel is never reported free while the squelch is open: what keeps
\* automatic transmissions from keying over a received signal.
OpenMeansBusy == sq.open => busy /\ ~clear

\* The squelch does not chatter: after two loud chunks in a row the channel
\* is reported busy until the carrier has been gone for the whole close hold.
HoldsTheCarrier == [][sq.open /\ ~sq'.open => wasPaused' \/ sq'.below = CloseHold]_vars

\* An utterance of which a partial has been shown ends with a final segment
\* ('test_short_utterance_with_prior_partial_is_emitted'), unless a pause cuts it
\* off, or the carrier drops right after a slice that took every chunk.
PartialFinalized ==
  [][Partials /\ fate'[uid] # "partial"
       => fate'[uid] \in {"final", "cut"} \/ (CarrierDrop /\ collected = 0)]_vars
=============================================================================
