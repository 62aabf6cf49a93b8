---------------------------- MODULE Transcription ----------------------------
(***************************************************************************)
(* From captured segments to published transcripts: the transcription      *)
(* thread and the final-pass thread of backend/stt/worker.py with the      *)
(* queues between them, and the pump of backend/server.py (_rx_pump) that  *)
(* accumulates the partial texts and publishes them.                       *)
(*                                                                         *)
(* A worker that is replaced (SttControl) is followed by another one: its  *)
(* generation counts them.  Utterance ids start at 1 in every generation,  *)
(* and the pump knows only the ids.  The text of a segment is the segment  *)
(* itself (generation, utterance, number), or nothing when Whisper hears   *)
(* nothing; a text is a set of them.                                       *)
(***************************************************************************)
EXTENDS Naturals, Sequences, FiniteSets

CONSTANTS
  MaxGen,         \* bound: worker generations
  MaxUtt,         \* bound: utterances of a generation
  MaxSlices,      \* bound: partial slices of each utterance of a generation
  FinalCap,       \* maxsize of _final_q (8)
  FinalMax,       \* final_max_s, in segments
  Faults          \* of {"exception", "timeout", "stop"}, those that may happen

Gens == 1 .. MaxGen
Uids == 1 .. MaxUtt
Utterances == Gens \X Uids
Pieces == UNION {Gens \X {u} \X (1 .. MaxSlices[u] + 1) : u \in Uids}

ASSUME TranscriptionAssumption ==
  /\ MaxGen \in Nat \ {0} /\ MaxUtt \in Nat \ {0} /\ MaxSlices \in [Uids -> Nat]
  /\ FinalCap \in Nat \ {0} /\ FinalMax \in Nat
  /\ Faults \subseteq {"exception", "timeout", "stop"}

VARIABLES
  capture,        \* the capture thread of a generation (see Captures)
  utt, slices,    \* its current utterance and how many slices were cut off it
  segments,       \* transcribe_queue
  pending,        \* _pending_final
  scribe,         \* the transcription thread: where it is, with which final job
  finals,         \* _final_q
  second,         \* the final-pass thread, if there is one, and its job
  out,            \* _stt_out_queue
  acc,            \* _utterance_partial_texts
  shown,          \* what the clients see of each utterance
  final,          \* utterances whose final was published
  heard,          \* history: first-pass texts emitted of each utterance
  lost            \* history: utterances whose end was lost to an exception

threads == <<scribe, second>>
queues == <<segments, finals, pending>>
server == <<acc, shown, final>>
history == <<heard, lost>>
vars == <<capture, utt, slices, threads, queues, out, server, history>>

Captures == {"new", "on", "joinScribe", "putSentinel", "joinSecond", "over"}
Absent == [audio |-> {}, over |-> FALSE]
NoJob == [uid |-> 1, audio |-> {}]
Sentinel == [uid |-> 0]                 \* None, the last item of a queue

Message(g, uid, text, partial, replace) ==
  [gen |-> g, uid |-> uid, text |-> text, partial |-> partial, replace |-> replace]

Init ==
  /\ capture = [g \in Gens |-> IF g = 1 THEN "on" ELSE "new"]
  /\ utt = [g \in Gens |-> 1]
  /\ slices = [g \in Gens |-> 0]
  /\ segments = [g \in Gens |-> <<>>]
  /\ pending = [g \in Gens |-> [u \in Uids |-> Absent]]
  /\ scribe = [g \in Gens |-> [at |-> "get", job |-> NoJob]]
  /\ finals = [g \in Gens |-> <<>>]
  /\ second \in [Gens -> {[at |-> "get", job |-> NoJob], [at |-> "none", job |-> NoJob]}]
  /\ out = <<>>
  /\ acc = [u \in Uids |-> {}]
  /\ shown = [u \in Utterances |-> {}]
  /\ final = {}
  /\ heard = [u \in Utterances |-> {}]
  /\ lost = {}

\* _two_tier: the worker found a final-pass model when it was built.
TwoTier(g) == second[g].at # "none"

-----------------------------------------------------------------------------
(* The capture thread, as UtteranceLife allows; see CaptureLoop *)

Segment(g, last) == [uid |-> utt[g], piece |-> <<g, utt[g], slices[g] + 1>>, final |-> last]
Unheard == UNCHANGED <<threads, finals, pending, out, server, history>>

Slice(g) ==
  /\ capture[g] = "on" /\ utt[g] \in Uids /\ slices[g] < MaxSlices[utt[g]]
  /\ segments' = [segments EXCEPT ![g] = Append(@, Segment(g, FALSE))]
  /\ slices' = [slices EXCEPT ![g] = @ + 1]
  /\ UNCHANGED <<capture, utt>> /\ Unheard

EndUtterance(g) ==
  /\ capture[g] = "on" /\ utt[g] \in Uids
  /\ segments' = [segments EXCEPT ![g] = Append(@, Segment(g, TRUE))]
  /\ utt' = [utt EXCEPT ![g] = @ + 1]
  /\ slices' = [slices EXCEPT ![g] = 0]
  /\ UNCHANGED capture /\ Unheard

\* The receiver is paused, or nothing is left: no final segment follows.
CutUtterance(g) ==
  /\ capture[g] = "on" /\ utt[g] \in Uids /\ slices[g] > 0
  /\ utt' = [utt EXCEPT ![g] = @ + 1]
  /\ slices' = [slices EXCEPT ![g] = 0]
  /\ UNCHANGED <<capture, segments>> /\ Unheard

CaptureMoves(g, from, to) ==
  /\ capture[g] = from
  /\ capture' = [capture EXCEPT ![g] = to]

\* The finally clause of _run.
Stop(g) ==
  /\ "stop" \in Faults
  /\ CaptureMoves(g, "on", "joinScribe")
  /\ segments' = [segments EXCEPT ![g] = Append(@, Sentinel)]
  /\ UNCHANGED <<utt, slices>> /\ Unheard

\* transcribe_thread.join(timeout=15)
JoinScribe(g) ==
  /\ scribe[g].at = "ended" \/ "timeout" \in Faults
  /\ CaptureMoves(g, "joinScribe", IF TwoTier(g) THEN "putSentinel" ELSE "over")
  /\ UNCHANGED <<utt, slices, segments>> /\ Unheard

\* _final_q.put(None, timeout=5): a full queue is not waited for any longer.
PutSentinel(g) ==
  /\ CaptureMoves(g, "putSentinel", "joinSecond")
  /\ \/ /\ Len(finals[g]) < FinalCap
        /\ finals' = [finals EXCEPT ![g] = Append(@, Sentinel)]
     \/ /\ Len(finals[g]) >= FinalCap /\ "timeout" \in Faults
        /\ UNCHANGED finals
  /\ UNCHANGED <<utt, slices, segments, threads, pending, out, server, history>>

\* final_thread.join(timeout=30)
JoinSecond(g) ==
  /\ second[g].at = "ended" \/ "timeout" \in Faults
  /\ CaptureMoves(g, "joinSecond", "over")
  /\ UNCHANGED <<utt, slices, segments>> /\ Unheard

\* Another worker replaces this one.
StartNext(g) ==
  /\ g + 1 \in Gens /\ capture[g] = "over"
  /\ CaptureMoves(g + 1, "new", "on")
  /\ UNCHANGED <<utt, slices, segments>> /\ Unheard

-----------------------------------------------------------------------------
(* The transcription thread: _transcription_loop *)

\* _accumulate_for_final: past the cap the final pass is abandoned.
Accumulated(entry, piece) ==
  IF entry.over THEN entry
  ELSE IF Cardinality(entry.audio) + 1 > FinalMax THEN [audio |-> {}, over |-> TRUE]
  ELSE [entry EXCEPT !.audio = @ \cup {piece}]

Emit(m) == out' = Append(out, m)

\* Between two jobs: the thread takes the next one and accumulates its audio.
Takes(g) == scribe[g].at = "get" /\ segments[g] # <<>>
Job(g) == Head(segments[g])
Taken(g) == segments' = [segments EXCEPT ![g] = Tail(@)]
Entry(g) == IF TwoTier(g) THEN Accumulated(pending[g][Job(g).uid], Job(g).piece) ELSE Absent

Hears(g, text) == /\ heard' = [heard EXCEPT ![<<g, Job(g).uid>>] = @ \cup text]
                  /\ UNCHANGED lost
Elsewhere == UNCHANGED <<capture, utt, slices, second, finals, server>>

ScribeEnds(g) ==
  /\ Takes(g) /\ Job(g) = Sentinel /\ Taken(g)
  /\ scribe' = [scribe EXCEPT ![g].at = "ended"]
  /\ UNCHANGED <<pending, out, history>> /\ Elsewhere

\* Preprocessing or Whisper raises: reported, and nothing is emitted.
ScribeFails(g) ==
  /\ "exception" \in Faults
  /\ Takes(g) /\ Job(g) # Sentinel /\ Taken(g)
  /\ pending' = [pending EXCEPT ![g][Job(g).uid] = Entry(g)]
  /\ lost' = IF Job(g).final THEN lost \cup {<<g, Job(g).uid>>} ELSE lost
  /\ UNCHANGED <<scribe, out, heard>> /\ Elsewhere

\* One tier, or a slice: the text, if any, is emitted.
EmitText(g, text) ==
  /\ ~(TwoTier(g) /\ Job(g).final)
  /\ pending' = [pending EXCEPT ![g][Job(g).uid] = Entry(g)]
  /\ IF text # {}
       THEN Emit(Message(g, Job(g).uid, text, ~Job(g).final, FALSE))
       ELSE UNCHANGED out
  /\ Hears(g, text)
  /\ UNCHANGED scribe /\ Elsewhere

\* mutant of EmitTail: the tail is not demoted to a partial
EmitTailFinal(g, text) ==
  /\ TwoTier(g) /\ Job(g).final /\ Entry(g).audio # {}
  /\ pending' = [pending EXCEPT ![g][Job(g).uid] = Absent]
  /\ IF text # {}
       THEN Emit(Message(g, Job(g).uid, text, FALSE, FALSE))
       ELSE UNCHANGED out
  /\ Hears(g, text)
  /\ scribe' = [scribe EXCEPT ![g] =
       [at |-> "enqueue", job |-> [uid |-> Job(g).uid, audio |-> Entry(g).audio]]]
  /\ Elsewhere

\* Two tiers, end of the utterance: the tail is one more partial, and the whole
\* utterance (_take_final_audio) is to be queued for the final pass.
EmitTail(g, text) ==
  /\ TwoTier(g) /\ Job(g).final /\ Entry(g).audio # {}
  /\ pending' = [pending EXCEPT ![g][Job(g).uid] = Absent]
  /\ IF text # {}
       THEN Emit(Message(g, Job(g).uid, text, TRUE, FALSE))
       ELSE UNCHANGED out
  /\ Hears(g, text)
  /\ scribe' = [scribe EXCEPT ![g] =
       [at |-> "enqueue", job |-> [uid |-> Job(g).uid, audio |-> Entry(g).audio]]]
  /\ Elsewhere

\* Two tiers, an utterance too long for the final pass: a plain final.
FlushLong(g, text) ==
  /\ TwoTier(g) /\ Job(g).final /\ Entry(g).audio = {}
  /\ pending' = [pending EXCEPT ![g][Job(g).uid] = Absent]
  /\ Emit(Message(g, Job(g).uid, text, FALSE, FALSE))
  /\ Hears(g, text)
  /\ UNCHANGED scribe /\ Elsewhere

\* A segment is transcribed: its words, or none.
Transcribe(g) ==
  /\ Takes(g) /\ Job(g) # Sentinel /\ Taken(g)
  /\ \E text \in SUBSET {Job(g).piece} :
       EmitText(g, text) \/ EmitTail(g, text) \/ FlushLong(g, text)

ScribeAt(g, place) == scribe' = [scribe EXCEPT ![g].at = place]
QueueFinal(g) == finals' = [finals EXCEPT ![g] = Append(@, scribe[g].job)]
Rest == UNCHANGED <<capture, utt, slices, segments, pending, second, server, history>>

\* mutant of EnqueueFinal: the queue has no limit
EnqueueFinalUnbounded(g) ==
  /\ scribe[g].at = "enqueue"
  /\ QueueFinal(g) /\ ScribeAt(g, "get")
  /\ UNCHANGED out /\ Rest

\* _enqueue_final: there is room.
EnqueueFinal(g) ==
  /\ scribe[g].at = "enqueue"
  /\ IF Len(finals[g]) < FinalCap
       THEN QueueFinal(g) /\ ScribeAt(g, "get")
       ELSE UNCHANGED finals /\ ScribeAt(g, "drop")
  /\ UNCHANGED out /\ Rest

\* mutant of DropOldest: the dropped job is forgotten
DropOldestSilently(g) ==
  /\ scribe[g].at = "drop" /\ finals[g] # <<>> /\ Head(finals[g]) # Sentinel
  /\ finals' = [finals EXCEPT ![g] = Tail(@)]
  /\ ScribeAt(g, "retry")
  /\ UNCHANGED out /\ Rest

\* mutant of DropOldest: the dropped job stays in the queue
DropOldestInPlace(g) ==
  /\ scribe[g].at = "drop" /\ finals[g] # <<>> /\ Head(finals[g]) # Sentinel
  /\ UNCHANGED finals
  /\ Emit(Message(g, Head(finals[g]).uid, {}, FALSE, FALSE))
  /\ ScribeAt(g, "retry") /\ Rest

\* The oldest job is dropped, and an empty plain final releases its partials.
DropOldest(g) ==
  /\ scribe[g].at = "drop" /\ finals[g] # <<>> /\ Head(finals[g]) # Sentinel
  /\ finals' = [finals EXCEPT ![g] = Tail(@)]
  /\ Emit(Message(g, Head(finals[g]).uid, {}, FALSE, FALSE))
  /\ ScribeAt(g, "retry") /\ Rest

\* Unpacking the sentinel raises: it is lost, and so is the job in hand.
DropSentinel(g) ==
  /\ scribe[g].at = "drop" /\ finals[g] # <<>> /\ Head(finals[g]) = Sentinel
  /\ finals' = [finals EXCEPT ![g] = Tail(@)]
  /\ ScribeAt(g, "get")
  /\ UNCHANGED out /\ Rest

\* queue.Empty: the final-pass thread was faster.
NothingToDrop(g) ==
  /\ scribe[g].at = "drop" /\ finals[g] = <<>>
  /\ ScribeAt(g, "retry")
  /\ UNCHANGED <<finals, out>> /\ Rest

\* The second attempt; a job that finds no room is flushed like the oldest.
EnqueueAgain(g) ==
  /\ scribe[g].at = "retry"
  /\ IF Len(finals[g]) < FinalCap
       THEN QueueFinal(g) /\ UNCHANGED out
       ELSE Emit(Message(g, scribe[g].job.uid, {}, FALSE, FALSE)) /\ UNCHANGED finals
  /\ ScribeAt(g, "get") /\ Rest

-----------------------------------------------------------------------------
(* The final-pass thread: _final_pass_loop *)

SecondTakes(g) ==
  /\ second[g].at = "get" /\ finals[g] # <<>>
  /\ finals' = [finals EXCEPT ![g] = Tail(@)]
  /\ second' = [second EXCEPT ![g] =
       IF Head(finals[g]) = Sentinel
         THEN [at |-> "ended", job |-> NoJob]
         ELSE [at |-> "busy", job |-> Head(finals[g])]]
  /\ UNCHANGED <<capture, utt, slices, segments, pending, scribe, out, server, history>>

\* The larger model hears all, some or nothing of it; it may be missing or raise.
SecondEmits(g, text) ==
  /\ second[g].at = "busy"
  /\ Emit(Message(g, second[g].job.uid, text, FALSE, text # {}))
  /\ second' = [second EXCEPT ![g] = [at |-> "get", job |-> NoJob]]
  /\ UNCHANGED <<capture, utt, slices, queues, scribe, server, history>>

SecondPass(g) == \E text \in SUBSET second[g].job.audio : SecondEmits(g, text)

-----------------------------------------------------------------------------
(* The server: _rx_pump *)

\* mutant of ResolveFinal: a truncated second pass wins
ResolveTrusting(prior, text, replace) ==
  IF replace THEN text ELSE prior \cup text

\* _resolve_final_text: a second pass replaces the partials unless it is less than
\* half as long; a plain final is appended to them.
ResolveFinal(prior, text, replace) ==
  IF replace /\ text # {}
    THEN IF 2 * Cardinality(text) < Cardinality(prior) THEN prior ELSE text
    ELSE prior \cup text

Publishes(m, text) == shown' = [shown EXCEPT ![<<m.gen, m.uid>>] = text]

RxPump ==
  /\ out # <<>> /\ out' = Tail(out)
  /\ LET m == Head(out)
         text == IF m.partial THEN acc[m.uid] \cup m.text
                 ELSE ResolveFinal(acc[m.uid], m.text, m.replace)
     IN  /\ acc' = [acc EXCEPT ![m.uid] = IF m.partial THEN text ELSE {}]
         /\ Publishes(m, text)
         /\ IF m.partial
              THEN UNCHANGED final
              ELSE final' = final \cup {<<m.gen, m.uid>>}
  /\ UNCHANGED <<capture, utt, slices, threads, queues, history>>

-----------------------------------------------------------------------------
Capture(g) == Slice(g) \/ EndUtterance(g) \/ CutUtterance(g) \/ Stop(g)
Shutdown(g) == JoinScribe(g) \/ PutSentinel(g) \/ JoinSecond(g) \/ StartNext(g)
Scribe(g) == \/ ScribeEnds(g) \/ ScribeFails(g) \/ Transcribe(g) \/ EnqueueFinal(g)
             \/ DropOldest(g) \/ DropSentinel(g) \/ NothingToDrop(g) \/ EnqueueAgain(g)
Second(g) == SecondTakes(g) \/ SecondPass(g)

Next == RxPump \/ \E g \in Gens : Capture(g) \/ Shutdown(g) \/ Scribe(g) \/ Second(g)

\* Threads that have work go on; the event loop runs the pump.
Fairness == WF_vars(RxPump) /\ \A g \in Gens : WF_vars(Scribe(g)) /\ WF_vars(Second(g))

Spec == Init /\ [][Next]_vars
FairSpec == Spec /\ Fairness

-----------------------------------------------------------------------------
(* Properties *)

Jobs == [uid : Uids, audio : SUBSET Pieces]

TypeOK ==
  /\ capture \in [Gens -> Captures]
  /\ utt \in [Gens -> 1 .. MaxUtt + 1] /\ slices \in [Gens -> Nat]
  /\ \A g \in Gens :
       /\ Len(finals[g]) <= FinalCap
       /\ \A i \in DOMAIN finals[g] : finals[g][i] \in Jobs \cup {Sentinel}
       /\ scribe[g].at \in {"get", "enqueue", "drop", "retry", "ended"}
       /\ second[g].at \in {"none", "get", "busy", "ended"}
       /\ scribe[g].job \in Jobs /\ second[g].job \in Jobs
  /\ acc \in [Uids -> SUBSET Pieces]
  /\ shown \in [Utterances -> SUBSET Pieces]
  /\ final \subseteq Utterances /\ lost \subseteq Utterances

\* The transcripts keep the promise of Transcript.  Neither a dropped final pass,
\* a failed one nor a backlog finalizes an utterance twice, erases it, or lets a
\* late partial reopen it.
Promise == INSTANCE Transcript
TranscriptSpec == Promise!Spec

\* A final never leaves out more than half of what the first pass heard.
TranscriptKept ==
  \A u \in final : 2 * Cardinality(shown[u]) >= Cardinality(heard[u])

\* Once an utterance is final the pump holds nothing of it and nothing of it is on
\* its way, whatever generation is running ("every job ends in exactly one final
\* emission").
FinalIsTheEnd ==
  \A u \in final : /\ \A p \in acc[u[2]] : <<p[1], p[2]>> # u
                   /\ \A i \in DOMAIN out : <<out[i].gen, out[i].uid>> # u
                   /\ \A i \in DOMAIN finals[u[1]] : finals[u[1]][i].uid # u[2]

\* With two tiers every utterance whose final segment was captured is eventually
\* finalized, also under a backlog, after a stop and when other utterances fail,
\* unless an exception struck its own end or a stopping worker gave up waiting for
\* the transcription thread.  (With one tier an inaudible tail publishes nothing.)
Ended(u) == \E i \in DOMAIN segments[u[1]] :
              LET s == segments[u[1]][i] IN s # Sentinel /\ s.uid = u[2] /\ s.final
GivenUpOn(g) == /\ scribe[g].at # "ended"
                /\ capture[g] \in {"putSentinel", "joinSecond", "over"}
EveryEndIsPublished ==
  \A u \in Utterances : TwoTier(u[1]) /\ Ended(u)
                           ~> u \in final \cup lost \/ GivenUpOn(u[1])
=============================================================================
