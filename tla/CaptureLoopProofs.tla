------------------------- MODULE CaptureLoopProofs --------------------------
(***************************************************************************)
(* Proofs about CaptureLoop, for every setting of the holds, the buffers and*)
(* the guard: the types, that no audio captured before or during a         *)
(* transmission is transcribed after it, that the channel is never reported*)
(* free while the squelch is open, and that the utterances of the loop live*)
(* the life that UtteranceLife promises.                                   *)
(***************************************************************************)
EXTENDS CaptureLoop, TLAPS

Fates == {"none", "open", "partial", "final", "dropped", "cut"}

IInv == TypeOK /\ OnlyFreshAudio /\ OpenMeansBusy

LEMMA TriggerNat == Trigger \in Nat /\ Trigger >= 1 /\ Target < Trigger
BY CaptureAssumption DEF Trigger

\* What a chunk does to the squelch.
LEMMA SquelchType ==
  ASSUME TypeOK, NEW loud \in BOOLEAN
  PROVE  /\ Squelch(loud) \in [open : BOOLEAN, above : 0 .. OpenHold, below : 0 .. CloseHold]
         /\ SquelchBufferNow \in Nat /\ SquelchBufferNow <= squelchBuffer
<1>1. /\ sq.open \in BOOLEAN
      /\ sq.above \in 0 .. OpenHold /\ sq.below \in 0 .. CloseHold
      /\ squelchBuffer \in 0 .. PreTrigger
  BY DEF TypeOK
<1>2. OpenHold \in Nat \ {0} /\ CloseHold \in Nat \ {0}
  BY CaptureAssumption
<1>3. Least(sq.above + 1, OpenHold) \in 0 .. OpenHold
  BY <1>1, <1>2, CaptureAssumption DEF Least
<1>4. Least(sq.below + 1, CloseHold) \in 0 .. CloseHold
  BY <1>1, <1>2, CaptureAssumption DEF Least
<1>5. (sq.open \/ Least(sq.above + 1, OpenHold) >= OpenHold) \in BOOLEAN
  OBVIOUS
<1>6. (sq.open /\ Least(sq.below + 1, CloseHold) < CloseHold) \in BOOLEAN
  OBVIOUS
<1>7. Squelch(loud) \in [open : BOOLEAN, above : 0 .. OpenHold, below : 0 .. CloseHold]
  <2>1. CASE loud
    BY <2>1, <1>2, <1>3, <1>5 DEF Squelch
  <2>2. CASE ~loud
    BY <2>2, <1>2, <1>4, <1>6 DEF Squelch
  <2> QED  BY <2>1, <2>2
<1>8. squelchBuffer \in Nat
  BY <1>1
<1> QED  BY <1>7, <1>8 DEF SquelchBufferNow

\* The fate of an utterance keeps its type.
LEMMA FateType ==
  ASSUME TypeOK
  PROVE  FateNow \in [1 .. MaxUtt -> Fates]
<1>1. fate \in [1 .. MaxUtt -> Fates]
  BY DEF TypeOK, Fates
<1>2. EndFate(Trimmed, speech) \in Fates
  BY DEF EndFate, Fates
<1> QED  BY <1>1, <1>2 DEF FateNow

\* The four ways a fed chunk can go keep the types of the segmenter, and whatever
\* is collected has been fed.
LEMMA SegmenterStep ==
  ASSUME IInv, NEW loud \in BOOLEAN, FedChunk(loud)
  PROVE  /\ vad' \in BOOLEAN /\ inSpeech' \in BOOLEAN /\ uid' \in 0 .. MaxUtt
         /\ collected' \in 0 .. Trigger /\ speech' \in 0 .. MinSpeech
         /\ squelchBuffer' \in 0 .. PreTrigger
         /\ fate' \in [1 .. MaxUtt -> Fates]
         /\ fed' \in 0 .. Trigger
         /\ collected' <= fed' /\ squelchBuffer' <= fed'
<1> DEFINE Now == SquelchBufferNow
<1>1. /\ uid \in 0 .. MaxUtt /\ collected \in 0 .. Trigger /\ speech \in 0 .. MinSpeech
      /\ rolling \in 0 .. PreRoll /\ squelchBuffer \in 0 .. PreTrigger
      /\ fed \in 0 .. Trigger
      /\ vad \in BOOLEAN /\ inSpeech \in BOOLEAN
      /\ fate \in [1 .. MaxUtt -> Fates]
      /\ collected <= fed /\ rolling <= fed /\ squelchBuffer <= fed
  BY DEF IInv, TypeOK, OnlyFreshAudio, Fates
<1>2. /\ MaxUtt \in Nat /\ PreRoll \in Nat /\ PreTrigger \in Nat
      /\ PreTrigger <= Trigger /\ PreRoll <= Trigger
      /\ MinSpeech \in Nat /\ MinSpeech >= 1 /\ Trigger \in Nat /\ Trigger >= 1
  BY CaptureAssumption, TriggerNat
<1>3. Now \in Nat /\ Now <= squelchBuffer
  BY SquelchType DEF IInv
<1>4. FateNow \in [1 .. MaxUtt -> Fates]
  BY FateType DEF IInv
<1>5. /\ fed' = Least(fed + 1, Trigger)
      /\ fed' \in 0 .. Trigger /\ fed' >= fed
      /\ fed' = fed + 1 \/ fed' = Trigger
  BY <1>1, <1>2 DEF FedChunk, Least
<1>10. SquelchBufferAfter \in 0 .. PreTrigger /\ SquelchBufferAfter <= fed'
  <2>1. SquelchBufferAfter = Least(Now + 1, PreTrigger) \/ SquelchBufferAfter = Now
    BY DEF SquelchBufferAfter
  <2> HIDE DEF Now
  <2> QED  BY <1>1, <1>2, <1>3, <1>5, <2>1, SMTT(60) DEF Least
<1>6. CASE SpeechStarts
  <2>1. Seed \in Nat /\ Seed <= fed
    BY <1>1, <1>2, <1>3 DEF Seed
  <2>2. collected' \in 0 .. Trigger /\ collected' <= fed'
    BY <1>1, <1>2, <1>5, <1>6, <2>1 DEF SpeechStarts, Least
  <2>3. /\ vad' \in BOOLEAN /\ inSpeech' \in BOOLEAN
        /\ uid' \in 0 .. MaxUtt /\ speech' \in 0 .. MinSpeech
        /\ squelchBuffer' \in 0 .. PreTrigger /\ squelchBuffer' <= fed'
    BY <1>1, <1>2, <1>5, <1>6 DEF SpeechStarts
  <2>4. fate' \in [1 .. MaxUtt -> Fates]
    BY <1>4, <1>6 DEF SpeechStarts, Fates
  <2> QED  BY <1>5, <2>2, <2>3, <2>4
<1>7. CASE SpeechEnds
  <2>1. EndFate(Least(collected + 1, Trigger), speech + 1) \in Fates
    BY DEF EndFate, Fates
  <2>2. fate' \in [1 .. MaxUtt -> Fates]
    BY <1>1, <1>7, <2>1 DEF SpeechEnds
  <2>3. /\ vad' = FALSE /\ inSpeech' = FALSE /\ uid' = uid
        /\ collected' = 0 /\ speech' = 0
        /\ squelchBuffer' = SquelchBufferAfter
    BY <1>7, Zenon DEF SpeechEnds
  <2>4. /\ collected' \in 0 .. Trigger /\ speech' \in 0 .. MinSpeech
        /\ collected' <= fed'
    BY <1>1, <1>2, <1>5, <2>3
  <2>5. squelchBuffer' \in 0 .. PreTrigger /\ squelchBuffer' <= fed'
    BY <1>10, <2>3, Zenon
  <2> QED  BY <1>1, <1>5, <2>2, <2>3, <2>4, <2>5, Zenon
<1>8. CASE SpeechGoesOn
  <2> DEFINE n == Least(collected + 1, Trigger)
  <2>1. n \in 0 .. Trigger /\ n <= fed'
    BY <1>1, <1>2, <1>5 DEF Least
  <2>2. collected' \in 0 .. n
    <3>1. CASE n >= Trigger
      <4>1. collected' \in Sliced(n)
        BY <1>8, <3>1 DEF SpeechGoesOn
      <4>2. PICK cut \in Target .. Trigger - 1 : collected' = n - (cut + 1)
        BY <4>1 DEF Sliced
      <4> QED  BY <2>1, <3>1, <4>2, <1>2, CaptureAssumption, TriggerNat
    <3>2. CASE ~(n >= Trigger)
      BY <1>8, <2>1, <3>2 DEF SpeechGoesOn
    <3> QED  BY <3>1, <3>2
  <2>3. fate' \in [1 .. MaxUtt -> Fates]
    <3>1. fate' = fate \/ fate' = [fate EXCEPT ![uid] = "partial"]
      BY <1>8 DEF SpeechGoesOn
    <3> QED  BY <1>1, <3>1 DEF Fates
  <2>4. speech' \in 0 .. MinSpeech
    BY <1>1, <1>2, <1>8 DEF SpeechGoesOn, Least
  <2>5. /\ vad' = vad /\ inSpeech' = inSpeech /\ uid' = uid
        /\ squelchBuffer' = Now
    BY <1>8 DEF SpeechGoesOn
  <2>6. collected' \in 0 .. Trigger /\ collected' <= fed'
    <3> HIDE DEF n
    <3> QED  BY <2>1, <2>2, <1>2, <1>5
  <2>7. squelchBuffer' \in 0 .. PreTrigger /\ squelchBuffer' <= fed'
    <3> HIDE DEF Now, n
    <3> QED  BY <1>1, <1>2, <1>3, <1>5, <2>5
  <2> QED  BY <1>1, <1>5, <2>3, <2>4, <2>5, <2>6, <2>7, Zenon
<1>9. CASE Silence
  <2>1. squelchBuffer' \in 0 .. PreTrigger /\ squelchBuffer' <= fed'
    BY <1>9, <1>10, Zenon DEF Silence
  <2>2. /\ vad' \in BOOLEAN /\ inSpeech' \in BOOLEAN /\ uid' = uid
        /\ collected' = 0 /\ speech' = 0 /\ fate' = FateNow
    BY <1>9 DEF Silence
  <2> QED  BY <1>1, <1>2, <1>4, <1>5, <2>1, <2>2
<1> QED  BY <1>6, <1>7, <1>8, <1>9 DEF FedChunk

\* A chunk that reaches the segmenter.
LEMMA FedStep ==
  ASSUME IInv, NEW loud \in BOOLEAN, FedChunk(loud)
  PROVE  IInv'
<1>1. sq' \in [open : BOOLEAN, above : 0 .. OpenHold, below : 0 .. CloseHold]
  BY SquelchType DEF IInv, FedChunk
<1>2. pause' \in BOOLEAN /\ wasPaused' \in BOOLEAN /\ guard' \in 0 .. Off
  <2>1. Off \in 0 .. Off
    BY CaptureAssumption DEF Off
  <2>2. pause' = pause /\ wasPaused' = FALSE /\ guard' = Off
    BY DEF FedChunk
  <2> QED  BY <2>1, <2>2, Zenon DEF IInv, TypeOK
<1>3. rolling' \in 0 .. PreRoll /\ rolling' <= fed'
  <2>1. /\ rolling \in 0 .. PreRoll /\ fed \in 0 .. Trigger /\ rolling <= fed
        /\ PreRoll \in Nat /\ PreRoll <= Trigger /\ Trigger \in Nat
    <3>1. rolling \in 0 .. PreRoll /\ fed \in 0 .. Trigger /\ rolling <= fed
      BY Zenon DEF IInv, TypeOK, OnlyFreshAudio
    <3>2. PreRoll \in Nat /\ PreRoll <= Trigger /\ Trigger \in Nat
      BY CaptureAssumption, TriggerNat, SMTT(60)
    <3> QED  BY <3>1, <3>2
  <2>2. rolling' = Least(rolling + 1, PreRoll) /\ fed' = Least(fed + 1, Trigger)
    BY DEF FedChunk
  <2> QED  BY <2>1, <2>2 DEF Least
<1>4. busy' \in BOOLEAN /\ clear' \in BOOLEAN
  BY DEF FedChunk, Carrier
<1>5. TypeOK'
  BY <1>1, <1>2, <1>3, <1>4, SegmenterStep, Zenon DEF TypeOK, Fates
<1>6. OnlyFreshAudio'
  BY <1>3, SegmenterStep DEF OnlyFreshAudio, FedChunk
<1>7. OpenMeansBusy'
  <2>1. /\ busy'  = (Opened \/ (busy /\ ~Dropped))
        /\ clear' = (Dropped \/ (clear /\ ~Opened))
    BY DEF FedChunk, Carrier
  <2>2. sq.open => busy /\ ~clear
    BY DEF IInv, OpenMeansBusy
  <2> QED  BY <2>1, <2>2, Zenon DEF OpenMeansBusy, Opened, Dropped
<1> QED  BY <1>5, <1>6, <1>7 DEF IInv

\* The first chunk of a pause empties every buffer.
LEMMA PausedStep ==
  ASSUME IInv, PausedChunk
  PROVE  IInv'
<1>1. /\ sq' = Closed /\ vad' = FALSE /\ inSpeech' = FALSE /\ uid' = uid
      /\ collected' = 0 /\ speech' = 0 /\ rolling' = 0 /\ squelchBuffer' = 0
      /\ fed' = 0 /\ wasPaused' = TRUE
      /\ UNCHANGED <<pause, guard, busy, clear>>
  BY DEF PausedChunk, Reset, flags
<1>2. fate' \in [1 .. MaxUtt -> Fates]
  <2>1. fate' = fate \/ fate' = [fate EXCEPT ![uid] = "cut"]
    BY DEF PausedChunk
  <2> QED  BY <2>1 DEF IInv, TypeOK, Fates
<1>3. sq' \in [open : BOOLEAN, above : 0 .. OpenHold, below : 0 .. CloseHold]
  BY <1>1, CaptureAssumption DEF Closed
<1>4. /\ 0 \in 0 .. Trigger /\ 0 \in 0 .. MinSpeech /\ 0 \in 0 .. PreRoll
      /\ 0 \in 0 .. PreTrigger
  BY CaptureAssumption, TriggerNat
<1>5. TypeOK'
  BY <1>1, <1>2, <1>3, <1>4, Zenon DEF IInv, TypeOK, Fates
<1>6. OnlyFreshAudio' /\ OpenMeansBusy'
  BY <1>1 DEF OnlyFreshAudio, OpenMeansBusy, Closed
<1> QED  BY <1>5, <1>6 DEF IInv

\* A quiet chunk inside the guard window only counts.
LEMMA GuardedStep ==
  ASSUME IInv, GuardedChunk
  PROVE  IInv'
<1>1. /\ guard' = Guard + 1 /\ wasPaused' = FALSE /\ Guard # Off /\ ~(Guard >= GuardMax)
      /\ UNCHANGED <<pause, buffers, flags, history>>
  BY DEF GuardedChunk, Released
<1>2. guard' \in 0 .. Off /\ (wasPaused \/ guard # Off)
  <2>1. guard \in 0 .. Off
    BY Zenon DEF IInv, TypeOK
  <2>2. GuardMax \in Nat /\ Off = GuardMax + 1
    BY CaptureAssumption, Zenon DEF Off
  <2>3. CASE wasPaused
    <3>1. guard' = 0 + 1
      BY <1>1, <2>3, Zenon DEF Guard
    <3> QED  BY <2>2, <2>3, <3>1
  <2>4. CASE ~wasPaused
    <3>1. /\ guard' = guard + 1 /\ guard # Off /\ ~(guard >= GuardMax)
      BY <1>1, <2>4, Zenon DEF Guard
    <3> QED  BY <2>1, <2>2, <3>1
  <2> QED  BY <2>3, <2>4
<1>3. TypeOK'
  BY <1>1, <1>2, Zenon DEF IInv, TypeOK, buffers, flags, history
<1>4. OnlyFreshAudio' /\ OpenMeansBusy'
  BY <1>1, <1>2 DEF IInv, OnlyFreshAudio, OpenMeansBusy, buffers, flags, history
<1> QED  BY <1>3, <1>4 DEF IInv

LEMMA InitIInv == Init => IInv
<1> SUFFICES ASSUME Init PROVE IInv
  OBVIOUS
<1>1. Closed \in [open : BOOLEAN, above : 0 .. OpenHold, below : 0 .. CloseHold]
  BY CaptureAssumption DEF Closed
<1>2. /\ 0 \in 0 .. Trigger /\ 0 \in 0 .. MinSpeech /\ 0 \in 0 .. PreRoll
      /\ 0 \in 0 .. PreTrigger /\ 0 \in 0 .. MaxUtt /\ Off \in 0 .. Off
  BY CaptureAssumption, TriggerNat DEF Off
<1>3. fate \in [1 .. MaxUtt -> Fates]
  BY DEF Init, Fates
<1>4. TypeOK
  BY <1>1, <1>2, <1>3, Zenon DEF Init, TypeOK, Fates
<1>5. OnlyFreshAudio /\ OpenMeansBusy
  BY DEF Init, OnlyFreshAudio, OpenMeansBusy, Closed
<1> QED  BY <1>4, <1>5 DEF IInv

LEMMA NextIInv ==
  ASSUME IInv, [Next]_vars
  PROVE  IInv'
<1>1. CASE Pause \/ Resume \/ UNCHANGED vars
  <2>1. /\ pause' \in BOOLEAN
        /\ UNCHANGED <<wasPaused, guard, buffers, flags, history>>
    BY <1>1, Zenon DEF Pause, Resume, vars, IInv, TypeOK
  <2>2. TypeOK'
    BY <2>1, Zenon DEF IInv, TypeOK, buffers, flags, history
  <2>3. OnlyFreshAudio' /\ OpenMeansBusy'
    BY <2>1 DEF IInv, OnlyFreshAudio, OpenMeansBusy, buffers, flags, history
  <2> QED  BY <2>2, <2>3 DEF IInv
<1>2. CASE Chunk
  BY <1>2, PausedStep, GuardedStep, FedStep DEF Chunk
<1> QED  BY <1>1, <1>2 DEF Next

\* The inductive invariant holds: every theorem below is read off it.
THEOREM IInvHolds == Spec => []IInv
<1> QED  BY InitIInv, NextIInv, PTL DEF Spec

\* Every buffer stays within its length and every counter within its hold.
THEOREM TypeCorrect == Spec => []TypeOK
<1>1. IInv => TypeOK
  BY DEF IInv
<1> QED  BY <1>1, IInvHolds, PTL

\* No audio captured before or during a transmission is transcribed after it, for
\* any length of the buffers and of the guard.
THEOREM OnlyFreshAudioHolds == Spec => []OnlyFreshAudio
<1>1. IInv => OnlyFreshAudio
  BY DEF IInv
<1> QED  BY <1>1, IInvHolds, PTL

\* The channel is never reported free while the squelch is open.
THEOREM OpenMeansBusyHolds == Spec => []OpenMeansBusy
<1>1. IInv => OpenMeansBusy
  BY DEF IInv
<1> QED  BY <1>1, IInvHolds, PTL

-----------------------------------------------------------------------------
(* The life of an utterance. *)

Closing == {"final", "dropped", "cut"}

\* One utterance is open at most, the last that began, and as long as speech goes on;
\* those before it are over, and of those after it nothing was heard.
OneOpen ==
  /\ vad = inSpeech
  /\ inSpeech => uid >= 1 /\ fate[uid] \in {"open", "partial"}
  /\ \A v \in 1 .. MaxUtt : /\ v > uid => fate[v] = "none"
                            /\ v <= uid /\ (inSpeech => v # uid) => fate[v] \in Closing

LifeIInv == IInv /\ OneOpen

LEMMA EndFateIs == \A n, k : EndFate(n, k) \in {"final", "dropped"}
BY DEF EndFate

LEMMA InitOneOpen == Init => OneOpen
<1> SUFFICES ASSUME Init PROVE OneOpen
  OBVIOUS
<1>1. vad = FALSE /\ inSpeech = FALSE /\ uid = 0 /\ \A v \in 1 .. MaxUtt : fate[v] = "none"
  BY DEF Init
<1>2. \A v \in 1 .. MaxUtt : ~(v <= 0)
  BY CaptureAssumption
<1> QED  BY <1>1, <1>2, Zenon DEF OneOpen

\* What a step of the loop can do to the utterances.
Still == UNCHANGED <<vad, inSpeech, uid, fate>>
Quiet == ~inSpeech /\ vad' = FALSE /\ inSpeech' = FALSE /\ UNCHANGED <<uid, fate>>
Over(how) == /\ inSpeech /\ vad' = FALSE /\ inSpeech' = FALSE /\ uid' = uid
             /\ fate' = [fate EXCEPT ![uid] = how]
SliceTaken == inSpeech /\ UNCHANGED <<vad, inSpeech, uid>> /\ fate' = [fate EXCEPT ![uid] = "partial"]
Begun == /\ ~inSpeech /\ vad' = TRUE /\ inSpeech' = TRUE /\ uid' = uid + 1 /\ uid < MaxUtt
         /\ fate' = [fate EXCEPT ![uid + 1] = "open"]
OverAndBegun(how) ==
  /\ inSpeech /\ vad' = TRUE /\ inSpeech' = TRUE /\ uid' = uid + 1 /\ uid < MaxUtt
  /\ fate' = [[fate EXCEPT ![uid] = how] EXCEPT ![uid + 1] = "open"]

LEMMA ChunkFates ==
  ASSUME LifeIInv, Next
  PROVE  \/ Still \/ Quiet \/ SliceTaken \/ Begun
         \/ \E how \in Closing : Over(how)
         \/ \E how \in {"final", "dropped"} : OverAndBegun(how)
<1>1. CASE Pause \/ Resume \/ GuardedChunk
  BY <1>1, Zenon DEF Pause, Resume, GuardedChunk, buffers, history, Still
<1>2. CASE PausedChunk
  <2>1. vad' = FALSE /\ inSpeech' = FALSE /\ uid' = uid
    BY <1>2, Zenon DEF PausedChunk, Reset
  <2>2. fate' = IF inSpeech THEN [fate EXCEPT ![uid] = "cut"] ELSE fate
    BY <1>2, Zenon DEF PausedChunk
  <2>3. "cut" \in Closing
    BY DEF Closing
  <2> QED  BY <2>1, <2>2, <2>3, Zenon DEF Quiet, Over
<1>3. ASSUME NEW loud \in BOOLEAN, FedChunk(loud)
      PROVE  \/ SpeechStarts \/ SpeechEnds \/ SpeechGoesOn \/ Silence
  BY <1>3, Zenon DEF FedChunk
<1>4. ASSUME NEW n, NEW k PROVE EndFate(n, k) \in {"final", "dropped"} /\ EndFate(n, k) \in Closing
  BY EndFateIs DEF Closing
<1>5. vad = inSpeech
  BY Zenon DEF LifeIInv, OneOpen
<1>6. CASE SpeechStarts
  <2>1. /\ ~vad \/ CarrierDrop
        /\ uid < MaxUtt /\ uid' = uid + 1 /\ vad' = TRUE /\ inSpeech' = TRUE
        /\ fate' = [FateNow EXCEPT ![uid + 1] = "open"]
    BY <1>6, Zenon DEF SpeechStarts
  <2>2. CASE CarrierDrop
    <3>1. inSpeech /\ FateNow = [fate EXCEPT ![uid] = EndFate(Trimmed, speech)]
      BY <2>2, Zenon DEF CarrierDrop, FateNow
    <3> QED  BY <1>4, <2>1, <3>1, Zenon DEF OverAndBegun
  <2>3. CASE ~CarrierDrop
    <3>1. ~inSpeech /\ FateNow = fate
      BY <1>5, <2>1, <2>3, Zenon DEF FateNow
    <3> QED  BY <2>1, <3>1, Zenon DEF Begun
  <2> QED  BY <2>2, <2>3
<1>7. CASE SpeechEnds
  <2>1. /\ inSpeech /\ vad' = FALSE /\ inSpeech' = FALSE /\ uid' = uid
        /\ fate' = [fate EXCEPT ![uid] = EndFate(Least(collected + 1, Trigger), speech + 1)]
    BY <1>7, Zenon DEF SpeechEnds
  <2> QED  BY <1>4, <2>1, Zenon DEF Over
<1>8. CASE SpeechGoesOn
  <2>1. /\ inSpeech /\ UNCHANGED <<vad, inSpeech, uid>>
        /\ fate' = fate \/ fate' = [fate EXCEPT ![uid] = "partial"]
    BY <1>8, Zenon DEF SpeechGoesOn
  <2> QED  BY <2>1, Zenon DEF Still, SliceTaken
<1>9. CASE Silence
  <2>1. vad' = FALSE /\ inSpeech' = FALSE /\ uid' = uid /\ fate' = FateNow /\ (~inSpeech \/ CarrierDrop)
    BY <1>9, Zenon DEF Silence
  <2>2. CASE CarrierDrop
    <3>1. inSpeech /\ FateNow = [fate EXCEPT ![uid] = EndFate(Trimmed, speech)]
      BY <2>2, Zenon DEF CarrierDrop, FateNow
    <3> QED  BY <1>4, <2>1, <3>1, Zenon DEF Over
  <2>3. CASE ~CarrierDrop
    <3>1. ~inSpeech /\ FateNow = fate
      BY <2>1, <2>3, Zenon DEF FateNow
    <3> QED  BY <2>1, <3>1, Zenon DEF Quiet
  <2> QED  BY <2>2, <2>3
<1> QED  BY <1>1, <1>2, <1>3, <1>6, <1>7, <1>8, <1>9, Zenon DEF Next, Chunk

LEMMA NextOneOpen ==
  ASSUME LifeIInv, [Next]_vars
  PROVE  OneOpen'
<1>1. CASE UNCHANGED vars
  BY <1>1, Zenon DEF LifeIInv, OneOpen, vars, buffers, history
<1>2. /\ uid \in 0 .. MaxUtt /\ MaxUtt \in Nat /\ fate \in [1 .. MaxUtt -> Fates]
  BY CaptureAssumption, Zenon DEF LifeIInv, IInv, TypeOK, Fates
<1>3. /\ vad = inSpeech
      /\ inSpeech => uid >= 1 /\ fate[uid] \in {"open", "partial"}
      /\ \A v \in 1 .. MaxUtt : v > uid => fate[v] = "none"
      /\ \A v \in 1 .. MaxUtt : v <= uid /\ (inSpeech => v # uid) => fate[v] \in Closing
  BY Zenon DEF LifeIInv, OneOpen
<1>4. /\ uid >= 1 => uid \in 1 .. MaxUtt
      /\ uid < MaxUtt => uid + 1 \in 1 .. MaxUtt /\ uid + 1 >= 1
      /\ \A v \in 1 .. MaxUtt : /\ v > uid => v # uid
                                /\ v > uid + 1 => v # uid + 1 /\ v # uid /\ v > uid
                                /\ v <= uid + 1 /\ v # uid + 1 => v <= uid
                                /\ v <= uid => v # uid + 1
  BY <1>2
<1>5. CASE Still
  BY <1>5, Zenon DEF LifeIInv, OneOpen, Still
<1>6. CASE Quiet
  <2>1. vad' = inSpeech' /\ (inSpeech' => FALSE) /\ uid' = uid /\ fate' = fate /\ ~inSpeech
    BY <1>6, Zenon DEF Quiet
  <2> QED  BY <1>3, <2>1, Zenon DEF OneOpen
<1>7. ASSUME NEW how \in Closing, Over(how) PROVE OneOpen'
  <2>1. vad' = inSpeech' /\ (inSpeech' => FALSE) /\ uid' = uid
        /\ inSpeech /\ fate' = [fate EXCEPT ![uid] = how]
    BY <1>7, Zenon DEF Over
  <2>2. \A v \in 1 .. MaxUtt : fate'[v] = IF v = uid THEN how ELSE fate[v]
    BY <1>2, <2>1
  <2> QED  BY <1>3, <1>4, <1>7, <2>1, <2>2, Zenon DEF OneOpen
<1>8. CASE SliceTaken
  <2>1. /\ vad' = inSpeech' /\ (inSpeech' <=> inSpeech) /\ uid' = uid
        /\ inSpeech /\ fate' = [fate EXCEPT ![uid] = "partial"]
    BY <1>3, <1>8, Zenon DEF SliceTaken
  <2>2. \A v \in 1 .. MaxUtt : fate'[v] = IF v = uid THEN "partial" ELSE fate[v]
    BY <1>2, <2>1
  <2>3. fate'[uid] = "partial" /\ "partial" \in {"open", "partial"}
    BY <1>3, <1>4, <2>1, <2>2
  <2> QED  BY <1>3, <1>4, <2>1, <2>2, <2>3, Zenon DEF OneOpen
<1>9. CASE Begun
  <2>1. /\ vad' = inSpeech' /\ inSpeech' /\ uid' = uid + 1 /\ uid < MaxUtt
        /\ ~inSpeech /\ fate' = [fate EXCEPT ![uid + 1] = "open"]
    BY <1>9, Zenon DEF Begun
  <2>2. \A v \in 1 .. MaxUtt : fate'[v] = IF v = uid + 1 THEN "open" ELSE fate[v]
    BY <1>2, <2>1
  <2>3. fate'[uid + 1] = "open" /\ "open" \in {"open", "partial"}
    BY <1>4, <2>1, <2>2
  <2> QED  BY <1>3, <1>4, <2>1, <2>2, <2>3, Zenon DEF OneOpen
<1>10. ASSUME NEW how \in {"final", "dropped"}, OverAndBegun(how) PROVE OneOpen'
  <2>1. /\ vad' = inSpeech' /\ inSpeech' /\ uid' = uid + 1 /\ uid < MaxUtt
        /\ inSpeech /\ fate' = [[fate EXCEPT ![uid] = how] EXCEPT ![uid + 1] = "open"]
    BY <1>10, Zenon DEF OverAndBegun
  <2>2. \A v \in 1 .. MaxUtt : fate'[v] = IF v = uid + 1 THEN "open" ELSE IF v = uid THEN how ELSE fate[v]
    BY <1>2, <2>1
  <2>3. fate'[uid + 1] = "open" /\ "open" \in {"open", "partial"} /\ how \in Closing
    BY <1>4, <2>1, <2>2 DEF Closing
  <2> QED  BY <1>3, <1>4, <2>1, <2>2, <2>3, Zenon DEF OneOpen
<1> QED  BY <1>1, <1>5, <1>6, <1>7, <1>8, <1>9, <1>10, ChunkFates

LEMMA LifeIInvHolds == Spec => []LifeIInv
<1>1. Init => LifeIInv
  BY InitIInv, InitOneOpen DEF LifeIInv
<1>2. LifeIInv /\ [Next]_vars => LifeIInv'
  BY NextIInv, NextOneOpen DEF LifeIInv
<1> QED  BY <1>1, <1>2, PTL DEF Spec

\* Every step of the loop is one of UtteranceLife, or none.
LEMMA LifeStep ==
  ASSUME LifeIInv, [Next]_vars
  PROVE  [Life!Next]_fate
<1>1. CASE UNCHANGED vars
  BY <1>1 DEF vars, history
<1>2. /\ uid \in 0 .. MaxUtt /\ MaxUtt \in Nat /\ fate \in [1 .. MaxUtt -> Fates]
  BY CaptureAssumption, Zenon DEF LifeIInv, IInv, TypeOK, Fates
<1>3. /\ vad = inSpeech
      /\ inSpeech => uid >= 1 /\ fate[uid] \in {"open", "partial"}
      /\ \A v \in 1 .. MaxUtt : v > uid => fate[v] = "none"
      /\ \A v \in 1 .. MaxUtt : v <= uid /\ (inSpeech => v # uid) => fate[v] \in Closing
  BY Zenon DEF LifeIInv, OneOpen
<1>4. inSpeech => uid \in 1 .. MaxUtt /\ fate[uid] \in Life!Live
  BY <1>2, <1>3 DEF Life!Live
<1>5. CASE Still \/ Quiet
  BY <1>5 DEF Still, Quiet
<1>6. ASSUME inSpeech, NEW how \in {"final", "dropped"}
      PROVE  [fate EXCEPT ![uid] = how] \in Life!Ends(fate)
  <2>1. uid \in {v \in 1 .. MaxUtt : fate[v] \in Life!Live}
    BY <1>4, <1>6
  <2> QED  BY <1>6, <2>1 DEF Life!Ends
<1>7. ASSUME NEW how \in Closing, Over(how) PROVE Life!Next
  <2>1. inSpeech /\ fate' = [fate EXCEPT ![uid] = how]
    BY <1>7 DEF Over
  <2>2. CASE how = "cut"
    BY <1>4, <2>1, <2>2 DEF Life!Cut, Life!Next
  <2>3. CASE how \in {"final", "dropped"}
    BY <1>6, <2>1, <2>3 DEF Life!End, Life!Next
  <2> QED  BY <1>7, <2>2, <2>3 DEF Closing
<1>8. CASE SliceTaken
  BY <1>4, <1>8 DEF SliceTaken, Life!Slice, Life!Next
<1>9. ASSUME NEW f \in [1 .. MaxUtt -> Fates], uid < MaxUtt, f[uid + 1] = "none",
             \A v \in 1 .. uid : f[v] \in Closing
      PROVE  [f EXCEPT ![uid + 1] = "open"] \in Life!Begins(f)
  <2>1. uid + 1 \in 1 .. MaxUtt /\ (uid + 1) - 1 = uid
    BY <1>2, <1>9
  <2>2. \A v \in 1 .. (uid + 1) - 1 : f[v] \notin Life!Live \cup {"none"}
    BY <1>9, <2>1 DEF Closing, Life!Live
  <2>3. Life!CanBegin(f, uid + 1)
    BY <1>9, <2>2 DEF Life!CanBegin
  <2> QED  BY <2>1, <2>3 DEF Life!Begins
<1>10. uid < MaxUtt => fate[uid + 1] = "none" /\ uid + 1 \in 1 .. MaxUtt
  <2>1. uid < MaxUtt => uid + 1 \in 1 .. MaxUtt /\ uid + 1 > uid
    BY <1>2
  <2> QED  BY <1>3, <2>1
<1>11. \A v \in 1 .. uid : v \in 1 .. MaxUtt /\ v <= uid
  BY <1>2
<1>12. CASE Begun
  <2>1. ~inSpeech /\ uid < MaxUtt /\ fate' = [fate EXCEPT ![uid + 1] = "open"]
    BY <1>12 DEF Begun
  <2>2. \A v \in 1 .. uid : fate[v] \in Closing
    BY <1>3, <1>11, <2>1
  <2>3. fate' \in Life!Begins(fate)
    BY <1>2, <1>9, <1>10, <2>1, <2>2
  <2> QED  BY <2>3 DEF Life!Begin, Life!Next
<1>13. ASSUME NEW how \in {"final", "dropped"}, OverAndBegun(how) PROVE Life!Next
  <2> DEFINE f == [fate EXCEPT ![uid] = how]
  <2>1. inSpeech /\ uid < MaxUtt /\ fate' = [f EXCEPT ![uid + 1] = "open"]
    BY <1>13 DEF OverAndBegun
  <2>2. f \in Life!Ends(fate)
    BY <1>6, <1>13, <2>1
  <2>3. how \in Fates /\ how \in Closing
    BY <1>13 DEF Fates, Closing
  <2>4. f \in [1 .. MaxUtt -> Fates] /\ \A v \in 1 .. MaxUtt : f[v] = IF v = uid THEN how ELSE fate[v]
    BY <1>2, <2>3
  <2> HIDE DEF f
  <2>5. f[uid + 1] = "none"
    BY <1>2, <1>10, <2>1, <2>4
  <2>6. \A v \in 1 .. uid : f[v] \in Closing
    BY <1>3, <1>11, <2>3, <2>4
  <2>7. fate' \in Life!Begins(f)
    BY <1>9, <2>1, <2>4, <2>5, <2>6
  <2> QED  BY <2>2, <2>7 DEF Life!EndAndBegin, Life!Next
<1> QED  BY <1>1, <1>5, <1>7, <1>8, <1>12, <1>13, ChunkFates

\* The loop implements UtteranceLife, for any lengths of its buffers, holds and windows:
\* utterances begin in order, one at a time, and nothing is sent of one that has ended.
THEOREM LifeImplemented == Spec => LifeSpec
<1>1. Init => Life!Init
  BY DEF Init, Life!Init
<1>2. LifeIInv /\ [Next]_vars => [Life!Next]_fate
  BY LifeStep
<1> QED  BY <1>1, <1>2, LifeIInvHolds, PTL DEF Spec, LifeSpec, Life!Spec

\* The squelch closes only when a pause resets it or the carrier has been gone for the
\* whole close hold.
THEOREM CarrierIsHeld == Spec => HoldsTheCarrier
<1>1. ASSUME IInv, [Next]_vars, sq.open, ~sq'.open
      PROVE  wasPaused' \/ sq'.below = CloseHold
  <2>1. CASE PausedChunk
    BY <2>1, Zenon DEF PausedChunk
  <2>2. CASE UNCHANGED sq
    BY <1>1, <2>2
  <2>3. ASSUME NEW loud \in BOOLEAN, FedChunk(loud) PROVE sq'.below = CloseHold
    <3>1. sq' = Squelch(loud) /\ sq.below \in 0 .. CloseHold /\ CloseHold \in Nat \ {0}
      BY <1>1, <2>3, CaptureAssumption DEF FedChunk, IInv, TypeOK
    <3>2. ~loud
      BY <1>1, <3>1 DEF Squelch
    <3>3. /\ sq'.below = Least(sq.below + 1, CloseHold)
          /\ sq'.open = (sq.open /\ Least(sq.below + 1, CloseHold) < CloseHold)
      BY <3>1, <3>2 DEF Squelch
    <3>4. ~(Least(sq.below + 1, CloseHold) < CloseHold)
      BY <1>1, <3>3
    <3> QED  BY <3>1, <3>3, <3>4 DEF Least
  <2> QED  BY <1>1, <2>1, <2>2, <2>3 DEF Next, Chunk, Pause, Resume, GuardedChunk, vars, buffers
<1>2. IInv /\ [Next]_vars => [sq.open /\ ~sq'.open => wasPaused' \/ sq'.below = CloseHold]_vars
  BY <1>1
<1> QED  BY <1>2, IInvHolds, PTL DEF Spec, HoldsTheCarrier

\* An utterance of which a partial was shown ends with a final segment, unless it is cut off
\* or nothing is left of it.
THEOREM ShownIsFinalized == Spec => PartialFinalized
<1> DEFINE Good == Partials /\ fate'[uid] # "partial"
                     => fate'[uid] \in {"final", "cut"} \/ (CarrierDrop /\ collected = 0)
<1>1. ASSUME LifeIInv, [Next]_vars, Partials, fate'[uid] # "partial"
      PROVE  fate'[uid] \in {"final", "cut"} \/ (CarrierDrop /\ collected = 0)
  <2>1. /\ uid \in 1 .. MaxUtt /\ fate \in [1 .. MaxUtt -> Fates] /\ collected \in 0 .. Trigger
        /\ uid + 1 # uid
    <3>1. /\ uid \in 0 .. MaxUtt /\ fate \in [1 .. MaxUtt -> Fates] /\ collected \in 0 .. Trigger
      BY Zenon, <1>1 DEF LifeIInv, IInv, TypeOK, Fates
    <3>2. uid >= 1
      BY Zenon, <1>1 DEF LifeIInv, OneOpen, Partials
    <3> QED  BY <3>1, <3>2
  <2>2. inSpeech /\ vad /\ fate[uid] = "partial"
    BY <1>1, Zenon DEF LifeIInv, OneOpen, Partials
  <2>3. fate' # fate
    BY <1>1, <2>2
  <2>4. CASE PausedChunk
    <3>1. fate' = [fate EXCEPT ![uid] = "cut"]
      BY <2>2, <2>4, Zenon DEF PausedChunk
    <3> QED  BY <2>1, <3>1
  <2>5. ASSUME NEW n \in Nat, NEW k, n > 0 PROVE EndFate(n, k) = "final"
    BY <1>1, <2>5 DEF EndFate
  <2>6. collected # 0 => Trimmed \in Nat /\ Trimmed > 0
    BY <2>1, TriggerNat, CaptureAssumption, SMTT(60) DEF Trimmed, Least
  <2>7. CarrierDrop => FateNow[uid] = "final" \/ collected = 0
    BY <2>1, <2>5, <2>6 DEF FateNow
  <2>8. CASE SpeechStarts
    <3>1. CarrierDrop /\ fate' = [FateNow EXCEPT ![uid + 1] = "open"]
      BY <2>2, <2>8, Zenon DEF SpeechStarts
    <3>2. FateNow \in [1 .. MaxUtt -> Fates]
      BY <1>1, FateType DEF LifeIInv, IInv
    <3>3. fate'[uid] = FateNow[uid]
      BY <2>1, <3>1, <3>2
    <3> QED  BY <2>7, <3>1, <3>3
  <2>9. CASE SpeechEnds
    <3>1. fate' = [fate EXCEPT ![uid] = EndFate(Least(collected + 1, Trigger), speech + 1)]
      BY <2>9, Zenon DEF SpeechEnds
    <3>2. Least(collected + 1, Trigger) \in Nat /\ Least(collected + 1, Trigger) > 0
      BY <2>1, TriggerNat DEF Least
    <3> QED  BY <2>1, <2>5, <3>1, <3>2
  <2>10. CASE SpeechGoesOn
    <3>1. fate' = [fate EXCEPT ![uid] = "partial"]
      BY <2>3, <2>10, Zenon DEF SpeechGoesOn
    <3> QED  BY <1>1, <2>1, <3>1
  <2>11. CASE Silence
    <3>1. CarrierDrop /\ fate' = FateNow
      BY <2>2, <2>11, Zenon DEF Silence
    <3> QED  BY <2>7, <3>1
  <2>12. Pause \/ Resume \/ GuardedChunk \/ UNCHANGED vars => fate' = fate
    BY Zenon DEF Pause, Resume, GuardedChunk, vars, history
  <2>13. (\E loud \in BOOLEAN : FedChunk(loud)) => SpeechStarts \/ SpeechEnds \/ SpeechGoesOn \/ Silence
    BY Zenon DEF FedChunk
  <2> QED  BY <1>1, <2>3, <2>4, <2>8, <2>9, <2>10, <2>11, <2>12, <2>13, Zenon DEF Next, Chunk
<1>2. LifeIInv /\ [Next]_vars => [Good]_vars
  BY <1>1
<1> QED  BY <1>2, LifeIInvHolds, PTL DEF Spec, PartialFinalized
=============================================================================
