------------------------------- MODULE TxPump -------------------------------
(***************************************************************************)
(* The transmit pipeline of backend/server.py: the producers that fill     *)
(* _tx_queue, the single consumer _tx_pump (with _handle_voice_tx), the    *)
(* playback threads it starts, the operator kill switch tx_abort, the NCS  *)
(* BREAK BREAK hold, the FCC ID-rule and monitoring-beacon pumps, and the  *)
(* part of the STT worker the pipeline touches.                            *)
(*                                                                         *)
(* One asyncio event loop runs every coroutine, so a step is the code      *)
(* between two awaits that can suspend; a playback thread moves on its own.*)
(***************************************************************************)
EXTENDS Naturals, Sequences, FiniteSets

CONSTANTS
  MaxTx,          \* bound: payloads offered to the pipeline in a behaviour
  Kinds,          \* the kinds of payload this instance offers
  Operators,      \* sockets whose user may press ABORT TX
  Breakers,       \* concurrent BREAK BREAK handlers
  Disturbances,   \* which outside activities the instance includes
  Gmrs            \* radio_service: TRUE for GMRS, FALSE for FRS

\* Kinds, by the markers a payload carries (_tx_payload_kind):
\*   chat        tx_message           report   _pre_formatted, operator
\*   standalone  _standalone_id       alert    _pre_formatted, NCS automatic
\*   voice       _voice_tx            autoid   _pre_formatted, ID-rule pump
\*   preview     _voice_preview       beacon   _pre_formatted + _beacon
AllKinds == {"chat", "standalone", "report", "alert", "voice",
             "preview", "autoid", "beacon"}
Gated == {"chat", "standalone", "report", "alert", "voice"}
Automatic == {"alert", "autoid", "beacon"}       \* not _operator_initiated
Echoed == {"chat", "standalone"}                 \* chat_text is not None
AllDisturbances == {"listen", "refresh", "busy", "watchdog"}

ASSUME TxAssumption ==
  /\ MaxTx \in Nat
  /\ Kinds \subseteq AllKinds
  /\ Disturbances \subseteq AllDisturbances
  /\ Gmrs \in BOOLEAN

VARIABLES
  queue,          \* _tx_queue
  offered,        \* number of payloads put on _tx_queue so far
  pump,           \* where the _tx_pump coroutine is suspended
  cur,            \* the payload it is working on
  outcome,        \* how the last playback race ended
  keyed,          \* the PTT line
  starting,       \* playback threads that have not reached sd.play yet
  sounding,       \* the payload whose stream sd.play opened ({} if none)
  abort,          \* _tx_abort_event
  seen,           \* abort_task, the waiter of the playback race, completed
  pressed,        \* operators whose tx_abort handler has not finished
  hold,           \* NCSPlugin._break_break_pending
  breaking,       \* _handle_break_break tasks inside their 2 s sleep
  worker,         \* _stt_worker: "up", "stopping" (in join), "none"
  paused,         \* the worker's _pause_event
  listening,      \* _stt_listening
  busy,           \* the worker's channel_busy
  hasTransmitted, \* _has_transmitted
  stale,          \* more than 15 min since _last_id_time (or it is None)
  idPump,         \* _id_rule_pump: "sleep", or "put" at its broadcast
  beaconPump,     \* _monitoring_beacon_pump, likewise
  aired,          \* history: payloads that held the PTT line
  killed,         \* history: payloads queued or in hand at an abort press
  drained         \* history: payloads an abort or a BREAK BREAK drained

queueVars == <<queue, offered>>
job       == <<pump, cur, outcome>>
radio     == <<keyed, starting, sounding, aired>>
abortVars == <<abort, seen, pressed, killed>>
breakVars == <<hold, breaking>>
sttVars   == <<worker, paused, listening, busy>>
idVars    == <<hasTransmitted, stale, idPump, beaconPump>>
world     == <<abortVars, breakVars, sttVars, idVars, drained>>
vars == <<queueVars, job, radio, world>>

Payload == [id : 1 .. MaxTx, kind : AllKinds]
NoPayload == [id |-> 0, kind |-> "none"]
PumpStates == {"get", "echo", "preview", "synth", "play", "drain", "release",
               "vtrans", "vplay", "tail", "sleep", "dead"}

QueuedIds == {queue[i].id : i \in DOMAIN queue}
InHand == IF cur = NoPayload THEN {} ELSE {cur.id}
Capturing == worker = "up" /\ ~paused

Init ==
  /\ queue = <<>> /\ offered = 0
  /\ pump = "get" /\ cur = NoPayload /\ outcome = "none" /\ keyed = FALSE
  /\ starting = {} /\ sounding = {}
  /\ abort = FALSE /\ seen = FALSE /\ pressed = {}
  /\ hold = FALSE /\ breaking = {}
  /\ worker = "up" /\ paused = FALSE /\ listening = TRUE /\ busy = FALSE
  /\ hasTransmitted = FALSE /\ stale = TRUE
  /\ idPump = "sleep" /\ beaconPump = "sleep"
  /\ aired = {} /\ killed = {} /\ drained = {}

-----------------------------------------------------------------------------
(* Producers *)

\* mutant of Put: the bound is checked one payload late
PutOneTooMany(k) ==
  /\ offered <= MaxTx
  /\ offered' = offered + 1
  /\ queue' = Append(queue, [id |-> offered + 1, kind |-> k])

\* mutant of Put: a LIFO queue
PutFirst(k) ==
  /\ offered < MaxTx
  /\ offered' = offered + 1
  /\ queue' = <<[id |-> offered + 1, kind |-> k]>> \o queue

Put(k) ==
  /\ offered < MaxTx
  /\ offered' = offered + 1
  /\ queue' = Append(queue, [id |-> offered + 1, kind |-> k])

\* _tx_enqueue: the plugin gate, then the put.  No shipped hook suspends, so
\* gate and put are one step.  A blocked payload changes nothing.  The NCS
\* automatic announcements listen before they enqueue.
Enqueue(k) ==
  /\ k \in Kinds \cap Gated
  /\ ~hold
  /\ k = "alert" => ~busy
  /\ Put(k)
  /\ UNCHANGED <<job, radio, world>>

\* voice_preview puts straight on the queue: it never keys the radio.
EnqueuePreview ==
  /\ "preview" \in Kinds
  /\ Put("preview")
  /\ UNCHANGED <<job, radio, world>>

\* _id_rule_pump, up to its broadcast: the timer is reset here ...
IdRuleDue ==
  /\ "autoid" \in Kinds
  /\ idPump = "sleep" /\ hasTransmitted /\ stale
  /\ hasTransmitted' = FALSE /\ stale' = FALSE
  /\ idPump' = "put"
  /\ UNCHANGED <<queueVars, job, radio, abortVars, breakVars, sttVars,
                 beaconPump, drained>>

\* ... and the payload follows once the broadcast is out.
IdRulePut ==
  /\ idPump = "put"
  /\ Put("autoid")
  /\ idPump' = "sleep"
  /\ UNCHANGED <<job, radio, abortVars, breakVars, sttVars, hasTransmitted,
                 stale, beaconPump, drained>>

\* _monitoring_beacon_pump: due, net inactive, channel clear.
BeaconDue ==
  /\ "beacon" \in Kinds
  /\ beaconPump = "sleep" /\ ~busy
  /\ beaconPump' = "put"
  /\ UNCHANGED <<queueVars, job, radio, abortVars, breakVars, sttVars,
                 hasTransmitted, stale, idPump, drained>>

\* mutant of BeaconPut: the ID timer is reset when the beacon is enqueued
BeaconPutResets ==
  /\ beaconPump = "put"
  /\ Put("beacon")
  /\ beaconPump' = "sleep"
  /\ hasTransmitted' = FALSE /\ stale' = FALSE
  /\ UNCHANGED <<job, radio, abortVars, breakVars, sttVars, idPump, drained>>

BeaconPut ==
  /\ beaconPump = "put"
  /\ Put("beacon")
  /\ beaconPump' = "sleep"
  /\ UNCHANGED <<job, radio, abortVars, breakVars, sttVars, hasTransmitted,
                 stale, idPump, drained>>

\* Fifteen minutes pass without _last_id_time being set.
FifteenMinutesPass ==
  /\ ~stale
  /\ stale' = TRUE
  /\ UNCHANGED <<queueVars, job, radio, abortVars, breakVars, sttVars,
                 hasTransmitted, idPump, beaconPump, drained>>

-----------------------------------------------------------------------------
(* Kill switch and BREAK BREAK *)

\* mutant of AbortPress: one payload is drained instead of all
AbortPressDrainsOne(o) ==
  /\ o \notin pressed
  /\ pressed' = pressed \cup {o}
  /\ abort' = TRUE
  /\ seen' = (seen \/ pump = "play")
  /\ drained' = drained \cup QueuedIds
  /\ killed' = killed \cup QueuedIds \cup InHand
  /\ queue' = IF queue = <<>> THEN queue ELSE Tail(queue)
  /\ UNCHANGED <<offered, job, radio, breakVars, sttVars, idVars>>

\* tx_abort, up to its broadcast.  Setting the event completes a pending
\* abort_task at once; clearing it later does not undo that.
AbortPress(o) ==
  /\ o \notin pressed
  /\ pressed' = pressed \cup {o}
  /\ abort' = TRUE
  /\ seen' = (seen \/ pump = "play")
  /\ drained' = drained \cup QueuedIds
  /\ killed' = killed \cup QueuedIds \cup InHand
  /\ queue' = <<>>
  /\ UNCHANGED <<offered, job, radio, breakVars, sttVars, idVars>>

\* mutant of AbortRelease: the final clear() is missing
AbortReleaseLeavesEvent(o) ==
  /\ o \in pressed
  /\ pressed' = pressed \ {o}
  /\ UNCHANGED <<queueVars, job, radio, abort, seen, killed, breakVars,
                 sttVars, idVars, drained>>

\* tx_abort, after the broadcast and the two yields.
AbortRelease(o) ==
  /\ o \in pressed
  /\ pressed' = pressed \ {o}
  /\ abort' = FALSE
  /\ UNCHANGED <<queueVars, job, radio, seen, killed, breakVars, sttVars,
                 idVars, drained>>

BreakPress(b) ==
  /\ b \notin breaking
  /\ breaking' = breaking \cup {b}
  /\ hold' = TRUE
  /\ drained' = drained \cup QueuedIds
  /\ queue' = <<>>
  /\ UNCHANGED <<offered, job, radio, abortVars, sttVars, idVars>>

BreakExpire(b) ==
  /\ b \in breaking
  /\ breaking' = breaking \ {b}
  /\ hold' = FALSE
  /\ UNCHANGED <<queueVars, job, radio, abortVars, sttVars, idVars, drained>>

-----------------------------------------------------------------------------
(* The STT worker as the pipeline sees it *)

\* The capture thread reports the squelch only while it is not paused.
SquelchChanges ==
  /\ "busy" \in Disturbances
  /\ Capturing
  /\ busy' = ~busy
  /\ UNCHANGED <<queueVars, job, radio, abortVars, breakVars, worker, paused,
                 listening, idVars, drained>>

SetSttListening ==
  /\ "listen" \in Disturbances
  /\ listening' = ~listening
  /\ paused' = IF worker = "none" THEN paused ELSE ~listening'
  /\ UNCHANGED <<queueVars, job, radio, abortVars, breakVars, worker, busy,
                 idVars, drained>>

\* _refresh_devices: stop() ...
RefreshStop ==
  /\ "refresh" \in Disturbances
  /\ worker = "up"
  /\ worker' = "stopping" /\ paused' = FALSE
  /\ UNCHANGED <<queueVars, job, radio, abortVars, breakVars, listening, busy,
                 idVars, drained>>

\* ... join() returns, the reference is dropped and PortAudio is torn down ...
RefreshRescan ==
  /\ worker = "stopping"
  /\ worker' = "none"
  /\ UNCHANGED <<queueVars, job, radio, abortVars, breakVars, paused,
                 listening, busy, idVars, drained>>

\* ... and a fresh worker is started, listening or not.
RefreshRestart ==
  /\ worker = "none"
  /\ worker' = "up" /\ paused' = FALSE /\ busy' = FALSE
  /\ UNCHANGED <<queueVars, job, radio, abortVars, breakVars, listening,
                 idVars, drained>>

-----------------------------------------------------------------------------
(* _tx_pump *)

\* mutant of PauseStt: the worker is left listening
PauseForgotten == paused' = paused

PauseStt == paused' = (paused \/ worker = "up")

\* A payload taken while the abort event is set is dropped, and the event
\* is consumed.
DropOnAbort ==
  /\ pump = "get" /\ queue # <<>> /\ abort
  /\ queue' = Tail(queue)
  /\ abort' = FALSE
  /\ UNCHANGED <<offered, job, radio, seen, pressed, killed, breakVars,
                 sttVars, idVars, drained>>

\* Composing a chat message or a standalone ID sets the FCC ID timer (the
\* message only on GMRS) and arms the ID rule, before anything is on the air.
Identify(p) == /\ stale' = (stale /\ p.kind = "chat" /\ ~Gmrs)
               /\ hasTransmitted' = TRUE

\* An automatic payload found with the squelch open is discarded.
DiscardedBusy(p) == p.kind \in Automatic /\ worker # "none" /\ busy

Take(p, to, how) ==
  /\ pump = "get" /\ queue # <<>> /\ ~abort
  /\ p = Head(queue)
  /\ queue' = Tail(queue)
  /\ cur' = p
  /\ pump' = to
  /\ outcome' = how
  /\ UNCHANGED <<offered, radio, abortVars, breakVars, worker, listening, busy,
                 idPump, beaconPump, drained>>

TakeVoice ==
  \E p \in Payload : /\ Take(p, "vtrans", "none") /\ p.kind = "voice"
                     /\ PauseStt
                     /\ UNCHANGED <<hasTransmitted, stale>>

TakePreview ==
  \E p \in Payload : /\ Take(p, "preview", "none") /\ p.kind = "preview"
                     /\ UNCHANGED <<hasTransmitted, stale, paused>>

\* A station with no TTS voice configured gives the payload up.
DiscardNoVoice ==
  \E p \in Payload : /\ Take(p, "tail", "none")
                     /\ p.kind \notin {"voice", "preview"}
                     /\ UNCHANGED <<hasTransmitted, stale, paused>>

DiscardBusy ==
  \E p \in Payload : /\ Take(p, "tail", "busy") /\ DiscardedBusy(p)
                     /\ UNCHANGED <<hasTransmitted, stale, paused>>

\* chat and standalone are echoed to the clients before STT is paused ...
TakeEchoed ==
  \E p \in Payload : /\ Take(p, "echo", "none") /\ p.kind \in Echoed
                     /\ Identify(p)
                     /\ UNCHANGED paused

\* ... the other kinds pause it in the same step.
TakeFormatted ==
  \E p \in Payload : /\ Take(p, "synth", "none")
                     /\ p.kind \notin Echoed \cup {"voice", "preview"}
                     /\ ~DiscardedBusy(p)
                     /\ PauseStt
                     /\ UNCHANGED <<hasTransmitted, stale>>

EchoSent ==
  /\ pump = "echo"
  /\ pump' = "synth"
  /\ PauseStt
  /\ UNCHANGED <<queueVars, cur, outcome, radio, abortVars, breakVars, worker,
                 listening, busy, idVars, drained>>

\* The preview is synthesized and sent (or fails); nothing is keyed.
PreviewDone ==
  /\ pump = "preview"
  /\ pump' = "get" /\ cur' = NoPayload
  /\ UNCHANGED <<queueVars, outcome, radio, world>>

\* Audio is ready: key PTT, start the playback thread, start the race.
KeyUp(from, to) ==
  /\ pump = from
  /\ pump' = to
  /\ keyed' = TRUE
  /\ starting' = starting \cup {cur.id}
  /\ aired' = aired \cup {cur.id}
  /\ UNCHANGED <<queueVars, cur, outcome, sounding, abort, pressed,
                 killed, breakVars, sttVars, idVars, drained>>

SynthKey == KeyUp("synth", "play") /\ seen' = abort
VoiceKey == KeyUp("vtrans", "vplay") /\ UNCHANGED seen

\* Synthesis times out, yields no audio or raises, or key() raises.
SynthFails ==
  /\ pump \in {"synth", "vtrans"}
  /\ pump' = "tail"
  /\ UNCHANGED <<queueVars, cur, outcome, radio, world>>

\* sd.play opens the stream, and sd.play closes any stream still open.
ThreadPlays(n) ==
  /\ n \in starting
  /\ starting' = starting \ {n}
  /\ sounding' = {n}
  /\ UNCHANGED <<queueVars, job, keyed, aired, world>>

\* The audio ends, or sd.play raises.
ThreadEnds(n) ==
  /\ n \in starting \cup sounding
  /\ starting' = starting \ {n}
  /\ sounding' = sounding \ {n}
  /\ UNCHANGED <<queueVars, job, keyed, aired, world>>

\* mutant of PlaybackDone: a thread that has no stream yet counts as done
NoStreamOpen == cur.id \notin sounding

\* mutant of PlaybackDone: sd.stop() does not let sd.wait() return
StoppedNeverReturns == /\ cur.id \notin starting \cup sounding
                       /\ outcome \notin {"aborted", "watchdog"}

PlaybackDone == cur.id \notin starting \cup sounding

\* The race of playback, abort event and tx_max_duration_seconds is decided.
RaceEnds(how) ==
  /\ pump = "play"
  /\ pump' = "drain"
  /\ outcome' = how
  /\ UNCHANGED <<queueVars, cur, keyed, aired, starting, world>>

PlaybackWins == /\ PlaybackDone
                /\ RaceEnds("finished")
                /\ UNCHANGED sounding

\* sd.stop() closes whatever stream is open at that moment.
SdStop == sounding' = {}

AbortWins == seen /\ RaceEnds("aborted") /\ SdStop

\* tx_max_duration_seconds passes; the cap is longer than a thread takes to
\* reach sd.play.
WatchdogWins == /\ "watchdog" \in Disturbances
                /\ ~seen /\ cur.id \in sounding
                /\ RaceEnds("watchdog") /\ SdStop

\* play_task has been awaited: the executor thread is drained.
PlaybackDrained ==
  /\ pump = "drain" /\ PlaybackDone
  /\ pump' = "release"
  /\ abort' = (abort /\ outcome # "aborted")
  /\ UNCHANGED <<queueVars, cur, outcome, radio, seen, pressed, killed,
                 breakVars, sttVars, idVars, drained>>

\* finally: ptt.unkey().  A beacon that was not aborted counts as the ID.
Unkey ==
  /\ pump = "release"
  /\ pump' = "tail"
  /\ keyed' = FALSE
  /\ IF cur.kind = "beacon" /\ outcome # "aborted"
       THEN stale' = FALSE /\ hasTransmitted' = FALSE
       ELSE UNCHANGED <<stale, hasTransmitted>>
  /\ UNCHANGED <<queueVars, cur, outcome, aired, starting,
                 sounding, abortVars, breakVars, sttVars, idPump, beaconPump,
                 drained>>

\* _handle_voice_tx: playback returns before the cap, unkey at once.
VoiceFinishes ==
  /\ pump = "vplay" /\ PlaybackDone
  /\ pump' = "tail" /\ keyed' = FALSE
  /\ UNCHANGED <<queueVars, cur, outcome, aired, starting,
                 sounding, world>>

\* mutant of VoiceTimesOut: unkey() is skipped
VoiceTimesOutKeyed ==
  /\ "watchdog" \in Disturbances
  /\ pump = "vplay" /\ cur.id \in sounding
  /\ pump' = "tail" /\ outcome' = "watchdog"
  /\ UNCHANGED <<queueVars, cur, radio, world>>

\* The cap passes: wait_for gives up on the thread, which keeps playing.
VoiceTimesOut ==
  /\ "watchdog" \in Disturbances
  /\ pump = "vplay" /\ cur.id \in sounding
  /\ pump' = "release" /\ outcome' = "watchdog"
  /\ UNCHANGED <<queueVars, cur, radio, world>>

\* mutant of IdleSent: only a normal end resumes the receiver
IdleSentResumesFinished ==
  /\ pump = "tail"
  /\ IF worker # "none" /\ listening /\ outcome = "finished"
       THEN pump' = "sleep" /\ UNCHANGED cur
       ELSE pump' = "get" /\ cur' = NoPayload
  /\ UNCHANGED <<queueVars, outcome, radio, world>>

\* finally: idle is broadcast, then the worker and the toggle are looked at.
IdleSent ==
  /\ pump = "tail"
  /\ IF worker # "none" /\ listening
       THEN pump' = "sleep" /\ UNCHANGED cur
       ELSE pump' = "get" /\ cur' = NoPayload
  /\ UNCHANGED <<queueVars, outcome, radio, world>>

\* 0.3 s later the worker is resumed.  Without a worker the attribute access
\* raises in the finally block, outside every handler: the task ends.
ResumeStt ==
  /\ pump = "sleep"
  /\ pump' = IF worker = "none" THEN "dead" ELSE "get"
  /\ cur' = NoPayload
  /\ paused' = (paused /\ worker = "none")
  /\ UNCHANGED <<queueVars, outcome, radio, abortVars, breakVars, worker,
                 listening, busy, idVars, drained>>

-----------------------------------------------------------------------------
PumpTakes == DropOnAbort \/ TakeVoice \/ TakePreview \/ DiscardNoVoice
             \/ DiscardBusy \/ TakeEchoed \/ TakeFormatted
PumpWorks == EchoSent \/ PreviewDone \/ SynthKey \/ VoiceKey \/ SynthFails
             \/ PlaybackWins \/ AbortWins \/ WatchdogWins \/ PlaybackDrained
             \/ Unkey \/ VoiceFinishes \/ VoiceTimesOut \/ IdleSent \/ ResumeStt
PumpStep == PumpTakes \/ PumpWorks

ThreadStep == \E n \in starting \cup sounding : ThreadPlays(n) \/ ThreadEnds(n)

Produce == \/ \E k \in Kinds : Enqueue(k)
           \/ EnqueuePreview
           \/ IdRuleDue \/ IdRulePut \/ BeaconDue \/ BeaconPut
           \/ FifteenMinutesPass

Interrupt == \/ \E o \in Operators : AbortPress(o) \/ AbortRelease(o)
             \/ \E b \in Breakers : BreakPress(b) \/ BreakExpire(b)

Stt == SquelchChanges \/ SetSttListening
       \/ RefreshStop \/ RefreshRescan \/ RefreshRestart

Next == PumpStep \/ ThreadStep \/ Produce \/ Interrupt \/ Stt

Spec == Init /\ [][Next]_vars

\* Fairness: the event loop runs every ready coroutine, executor threads run,
\* audio is finite, and the sleeps of the handlers elapse.  Nothing is
\* assumed of users, the channel, or the pumps' own timers.
Fairness ==
  /\ WF_vars(PumpStep)
  /\ \A n \in 1 .. MaxTx : WF_vars(ThreadEnds(n))
  /\ \A o \in Operators : WF_vars(AbortRelease(o))
  /\ \A b \in Breakers : WF_vars(BreakExpire(b))
  /\ WF_vars(RefreshRescan) /\ WF_vars(RefreshRestart)

FairSpec == Spec /\ Fairness

-----------------------------------------------------------------------------
(* Properties *)

\* Every variable has its type.
TypeOK ==
  /\ queue \in Seq(Payload) /\ offered \in 0 .. MaxTx
  /\ pump \in PumpStates /\ cur \in Payload \cup {NoPayload}
  /\ outcome \in {"none", "busy", "finished", "aborted", "watchdog"}
  /\ keyed \in BOOLEAN
  /\ starting \subseteq 1 .. MaxTx /\ sounding \subseteq 1 .. MaxTx
  /\ abort \in BOOLEAN /\ seen \in BOOLEAN /\ pressed \subseteq Operators
  /\ hold \in BOOLEAN /\ breaking \subseteq Breakers
  /\ worker \in {"up", "stopping", "none"}
  /\ paused \in BOOLEAN /\ listening \in BOOLEAN /\ busy \in BOOLEAN
  /\ hasTransmitted \in BOOLEAN /\ stale \in BOOLEAN
  /\ idPump \in {"sleep", "put"} /\ beaconPump \in {"sleep", "put"}
  /\ aired \subseteq 1 .. MaxTx /\ killed \subseteq 1 .. MaxTx
  /\ drained \subseteq 1 .. MaxTx

\* PTT is down whenever the pump is between transmissions, and at most the
\* payload in hand holds it, whatever timed out, failed or was aborted: the
\* finally blocks of _tx_pump and _handle_voice_tx.
PttReleasedBetween ==
  /\ keyed => pump \in {"play", "drain", "release", "vplay"}
  /\ keyed => cur # NoPayload /\ cur.kind # "preview"

\* The abort event never outlives the handlers that set it, so a press while
\* idle cannot silently swallow a later payload (the two yields and the
\* clear at the end of tx_abort).
AbortEventOwned == abort => pressed # {}

\* What ABORT TX or BREAK BREAK drained from the queue never goes on the air.
DrainedNeverAirs == drained \cap aired = {}

\* The ID rule is disarmed by the ID pump when it decides to identify, or by a
\* beacon that aired and was not aborted: never by a beacon that was discarded,
\* drained or aborted (_monitoring_beacon_pump's docstring).
DisarmedOnlyByAiring ==
  [][hasTransmitted /\ ~hasTransmitted'
       => \/ idPump = "sleep" /\ idPump' = "put"
          \/ cur.kind = "beacon" /\ cur.id \in aired /\ outcome # "aborted"]_vars

\* The pipeline implements one serial, in-order, at-most-once transmitter.
Serial == INSTANCE SerialTransmitter
            WITH accepted <- offered, onAir <- IF keyed THEN cur.id ELSE 0
SerialSpec == Serial!Spec

\* A playback thread exists only for the payload whose PTT is held: audio never
\* goes out unkeyed and two transmissions never overlap ("TX is serialized
\* through the single _tx_queue consumer").
AudioOnlyWhileKeyed ==
  starting \cup sounding # {} => keyed /\ starting \cup sounding = {cur.id}

\* The receiver never transcribes our own transmission: while a stream is open
\* the STT worker is paused or gone ("Pause STT before keying ...").
NoSelfTranscription == sounding # {} => ~Capturing

\* A payload that was queued or in hand when an operator pressed ABORT TX is
\* not keyed afterwards (tx_abort, the operator kill switch).
KilledNeverAirs == [][killed \cap (aired' \ aired) = {}]_vars

\* An automatic station ID given up because of a busy channel leaves the ID
\* rule armed, so that the mandated ID is sent once the channel clears.
LostIdStaysArmed ==
  pump = "tail" /\ cur.kind = "autoid" /\ outcome = "busy" => hasTransmitted

\* PTT, once keyed, is released.
PttReleased == keyed ~> ~keyed

\* A paused worker that should listen is resumed, on every path out of a
\* transmission: a receiver left deaf would go unnoticed.
SttResumes == (paused /\ listening) ~> (~paused \/ ~listening)

\* Every payload leaves the queue: the consumer never stops for good.
QueueServed == \A n \in 1 .. MaxTx : n \in QueuedIds ~> n \notin QueuedIds
=============================================================================
