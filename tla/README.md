# Hearthwave in TLA+

A verification development kept beside the Hearthwave source (`src/`, all paths
below are relative to it; line numbers are those of the commit modelled).
Hearthwave is a GMRS hub: one server process drives one radio, transcribes what
it receives for every connected browser, and speaks what the browsers send. The
modules here model the parts of the backend that keep state: those where several
coroutines and threads share the radio in detail, and beside them the hub, the
accounts, the stores, the nets and the plugins. TLC checks them on small instances
and TLAPS proves the most important results for every instance.

Contents: [the system](#1-the-system-inventory),
[the plan](#2-plan), [the modules](#3-the-modules-and-the-code),
[the runs](#4-what-each-run-checks), [bounds](#5-bounds),
[fairness](#6-fairness), [proofs](#7-what-is-proved),
[deviations](#8-where-code-and-documentation-disagree),
[limits](#9-what-is-not-modelled).

## 1. The system: inventory

Everything below runs in one Python process: one asyncio event loop (all
handlers and pumps of `backend/server.py`), one capture thread per STT worker
with up to two transcription threads behind it, and short-lived executor threads
that play audio or re-scan devices. Coroutines interleave only at awaits; threads
interleave anywhere.

| Component (source) | State | Operations | Interacts with |
|---|---|---|---|
| Transmit pipeline (`server.py` 239-372, 1145-1503) | `_tx_queue`, the payload in hand, PTT, `_tx_abort_event`, playback threads | enqueue, take, format, synthesize, key, play, unkey; ABORT TX | pauses the STT worker, reads its `channel_busy`, arms the ID rule |
| FCC ID rule, monitoring beacon (`server.py` 1815-1873, `fcc/id_rule.py`, `beacon/`) | `_has_transmitted`, `_last_id_time` | two timers that enqueue announcements | transmit queue, `_channel_clear` |
| PTT controllers (`ptt/`) | one line | key, unkey | transmit pipeline |
| Capture loop, squelch, segmenter (`stt/worker.py` 357-572, `stt/segmenter.py`, `audio/squelch.py`) | hold counters, buffers, utterance id, tail guard, `channel_busy` | one chunk at a time | paused by the transmit pipeline; feeds transcription; tells the server the carrier state |
| STT worker life cycle (`server.py` 637-667, 1544-1565, 2488-2492, 2674-2678, 3766-3807) | `_stt_worker`, `_stt_listening`, the stop and pause events | start, stop, join, rebuild, re-scan, LISTEN | every socket's handler |
| Transcription and final pass (`stt/worker.py` 667-904) | segment queue, `_pending_final`, bounded final queue | transcribe, demote the tail, queue the second pass, drop the oldest | fed by the capture thread, feeds `_stt_out_queue` |
| Receive pump (`server.py` 941-1108) | `_utterance_partial_texts`, `_recent_finals` | accumulate partials, publish finals | transcription, attendance, sockets |
| CW receive loop (`stt/worker.py` 574-666, `cw/decoder.py`) | collected chunks, tail, squelch | one chunk at a time, decode | paused like the voice loop |
| Net control plugin (`plugins/ncs.py`) | roster, caller, `_break_break_pending`, remembered NWS alerts | open, check in, call, close, weather poll, BREAK BREAK | transmit gate, `_channel_clear`, the stores |
| Neighborhood net (`neighborhood/`, `server.py`) | board, round of calls, look-ups, licence pins | check in, call, skip, no answer, close | FCC look-ups that answer late |
| Records (`persistence/journal.py`, `incidents.py`, `net_sessions.py`) | files named by the second, published page, incident log | report, clear, end a net, publish, delete | both nets |
| WebSocket hub (`server.py` 391-560) | connections, stream history | connect, broadcast, back-fill, clear | everything that publishes |
| Positions (`positions/`, `plugins/position_source.py`) | newest report of each station, two flags | report, expire, tell, write | plugins, sockets |
| Accounts (`persistence/users.py`, `device_tokens.py`) | profiles, paired displays, a copy in every connection | pair, revoke, change a role, delete, save preferences | open sockets |
| Signing in (`auth_*.py`, `tokens.py`) | limiter, lockout, sessions, tickets | log in, log out, open a socket, restart | accounts |
| Plugin registry, mesh forwarder (`plugins/`) | loaded and enabled plugins, links | install, reload, remove, enable, dispatch | transmit gate, settings |
| Presence, reminders (`family/`, `persistence/presence.py`) | check-in times, reminders, missed flags | check in, tick, roll over, delete | sockets, accounts |
| Look-ups and contacts (`fcc/`, `persistence/contacts.py`) | contacts, pending stations, tasks | look up, add, rename, verify all | nets, receive pump |
| Settings (`config.py`, `server.py`) | what is on file, what the worker runs with | save, restart the worker, push words | worker life cycle |
| Audio taps, calibration, spectrogram (`audio/`, `server.py` 594-636) | two callbacks, a buffer, a ring | monitor on and off, calibrate, sweep, frame, broadcast | the capture thread |
| Text, probes, example plugins, frontend | none | | see [section 9](#9-what-is-not-modelled) |

What is hard here, and what makes each component correct:

* *Transmit pipeline.* The pump suspends a dozen times for one payload; abort,
  BREAK BREAK, the watchdog, a busy channel and a device refresh may fall between
  any two of its steps, and `sd.stop()` acts on the whole process. Correct: PTT is
  released on every path, at most one payload is on the air, in order and at most
  once, what was drained stays off the air, our own audio is not transcribed, the
  receiver is resumed, the queue is served.
* *Capture loop.* Squelch, voice detector, slice trigger and pause can all change on
  the same chunk, and buffers are cut at computed boundaries. Correct: an utterance
  ends once, no audio from before a transmission is transcribed after it, and the
  channel counts as busy for as long as the squelch is open.
* *Worker life cycle.* Every socket may stop, join and rebuild the one worker.
  Correct: the last word is a start, there is one receiver, every request is answered.
* *Transcription.* Two threads and a bounded queue race with a shutdown whose joins
  time out. Correct: a transcript is finalized at most once, at the end, and never
  erased; a backlog loses no utterance.
* *WebSocket hub.* A broadcast is suspended in every send while sockets come and go and
  the history is trimmed. Correct: no browser shows a message twice, and it misses one
  only in the windows that section 8 names.
* *Accounts.* Every connection carries a copy of its profile, and profiles change under
  it. Correct: a connection may do what its account may do by now, a kid gets no message
  nobody gave it, an admin remains. *Signing in.* Correct: of the attempts the
  limiter remembers no more than its share fall into one window, and it keeps its promise
  of when to come back, a lock lasts as long as it says,
  a restart loses no session on file.
* *Family board, contacts.* Handlers write two stores with a broadcast or the network in
  between. Correct: a member who is OK is not shown as missing, nothing of a deleted
  member stays; a contact is verified only under the name the licence is held in.
* *Nets and their records.* Correct: the station being called is on the board, a verdict of
  the FCC lands on the callsign it is about, a net is filed as it ended, a BREAK BREAK holds
  back what goes through the gate, no incident is cleared that was not recorded.
* *Positions.* Two flags stand for work yet to do. Correct: with the pump asleep and no
  flag up, clients and file show what the store holds.
* *Plugins.* Correct: with no handler at work, no disabled plugin has a link, two that
  conflict never both have one, and a link has the parameters of by now, but for failing
  disconnects and for reconnections that meet a switch-off.
* *Receive side.* Correct: the monitor plays nothing stale, a calibration hears
  consecutive chunks, the waterfall shows whole frames in order, the worker runs with the
  settings and words asked for last, a CW transmission is decoded whole and as it was sent.

PROJECT.json lists the hazards one by one, each at the line where it bites.

## 2. Plan

Written, in this order (most important behaviour first):

1. `SerialTransmitter` (abstract) and `TxPump`; proofs in `TxPumpProofs`.
2. `UtteranceLife` (abstract) and `CaptureLoop`; proofs in `CaptureLoopProofs`.
3. `SttControl`; proofs in `SttControlProofs`.
4. `Transcript` (abstract) and `Transcription`, which composes what `UtteranceLife`
   promises of the capture thread with the server's receive pump; `TranscriptionProofs`.
5. People: `StreamHub`, `Accounts`, `FamilyBoard`, `ContactBook`, `SignIn`; checked side
   by side in `MCPeople`, proofs in `PeopleProofs`.
6. Nets: `NeighborhoodNet`, `NetRecords`, `NetControl`, `Positions`, `Plugins`; and the
   receive side: `AudioTaps`, `SpectroRing`, `Settings`, `CwLoop`, `Morse`; checked side by
   side in `MCNets`, proofs in `SoundProofs` (taps, ring, CW, Morse) and `NetsProofs`.
7. `Selections` (what a filter keeps of a list), which the stores share;
   `SelectionProofs`.

What the plan has left, most useful first: liveness of the positions pump and of the plugin
handlers (by TLC); attendance and the display of callsigns, which hang off a final.

## 3. The modules and the code

**`TxPump`** (MC instance `MCTxPump`). A step is the code between two awaits that can
suspend, so `pump` says where the coroutine is: `get` (1149), `echo` (the broadcast at
1235), `synth` (1282), `play` (the race at 1321), `drain` (awaiting the play task, 1335),
`release` (the finally block, 1348), `tail` (the idle broadcast, 1370), `sleep` (0.3 s,
1378), `dead` (an exception has left the loop), and `preview`, `vtrans`, `vplay` for the
voice preview and `_handle_voice_tx`. Payload kinds follow `_tx_payload_kind`. `starting`
and `sounding` are playback threads before and after `sd.play`; `SdStop` empties
`sounding` only, as `sd.stop()` does. `AbortPress`/`AbortRelease` are the two halves of
`tx_abort` around its two event-loop turns. `IdRuleDue`/`IdRulePut` and
`BeaconDue`/`BeaconPut` split those pumps at their broadcast. `aired`, `killed` and
`drained` are history.

**`SerialTransmitter`** is the promise: payloads are accepted with increasing numbers and
keyed one at a time, in order, each at most once. `TxPump` implements it with
`accepted <- offered` and `onAir <- IF keyed THEN cur.id ELSE 0`.

**`CaptureLoop`** (MC instance `MCCapture`). One step is one chunk of the loop at
`worker.py` 482-554; a chunk is loud or quiet and the voice detector may change its mind.
Buffers are their lengths. `PausedChunk`, `GuardedChunk` and `FedChunk` are the three
branches of the loop; `SpeechStarts`, `SpeechEnds`, `SpeechGoesOn`, `Silence` those of
`SpeechSegmenter.feed`, each with the carrier drop that `feed` handles first; a chunk that
ends an utterance with the squelch open is the first of the next squelch buffer
(`SquelchBufferAfter`). `busy` and
`clear` are the two carrier flags, changed by squelch events only. `fate` and `fed` are
history.

**`UtteranceLife`** is the promise: utterances begin in order, one at a time; one is open,
then perhaps shown in part, then final, dropped or cut off, and nothing follows that.

**`SttControl`** (MC instance `MCSttControl`). Handlers are named by requests, each
suspended in `joining` (`await join()`) or `rescan` (the executor call of
`_refresh_devices`); a worker is named by the request that built it. `Open`, `GiveUp`,
`Close`, `End` outline `_run`. `overlap` is history: a request began while another was
suspended (two sockets), which the code neither prevents nor expects.

**`Transcription`** (MC instance `MCTranscription`). The capture thread emits slices and
ends as `UtteranceLife` allows; `Transcribe` is one turn of `_transcription_loop`, split
at the put that may find the final queue full (`EnqueueFinal`, `DropOldest`,
`DropSentinel`, `NothingToDrop`, `EnqueueAgain`); `SecondTakes`/`SecondPass` are
`_final_pass_loop`; `Stop`, `JoinScribe`, `PutSentinel`, `JoinSecond` the finally block of
`_run` with its time-outs; `RxPump` is the part of `_rx_pump` that accumulates and
publishes. A text is a set of segments, so a second pass may hear any part of what was
said; each worker generation has one tier or two.

**`Transcript`** is the promise: the text of an utterance grows while it is received, is
finalized at most once, is not shortened below half by that, and is not touched again.

**`StreamHub`.** `phase` is how far `websocket_endpoint` has come with a socket, `job` the
send a broadcasting task is suspended in, `entries` the history with its trim and its
clears. `view` is the log a browser shows: live messages are appended to it and
`chat_history` replaces it, as in `App.tsx`.

**`Accounts`.** `roster` and `panels` are the files of profiles and displays, `conn` and
`state` the connections with the copy of the profile they were opened with,
`_sync_live_state_for_user` is part of the handlers that call it. A refusal inside
`save_user_prefs` is a broadcast, so that handler is split there (`saving`). `behind`,
`misled` and `acted` are history and mark the exceptions of the properties.

**`FamilyBoard`.** Clock, profiles, reminders and presence rows. An I'm-OK, a `tx_message`
and a deletion are suspended between their two writes; a restart falls anywhere.

**`ContactBook`.** The list with duplicate callsigns, pending stations with their look-up
tasks, and `verify_all`, which works through a copy while the list changes.

**`SignIn`.** Every handler runs without an await, so each is one step. The limiter counts
in ticks and answers in whole seconds, and forgets an address when its table overflows;
`admitted` is history: the attempts of an address since it was last forgotten. Sessions are
in memory and on file, tickets in memory only, and a restart keeps the file.

**`NeighborhoodNet`.** The board in order of check-in, the round of calls, and the look-ups
as tasks: started by a check-in, cancelled by the next one, suspended in a thread, a
broadcast or a geocoding request. A row's `fcc` is the callsign the verdict is about.

**`NetRecords`.** Journals and sessions are files named by the second, so two in one
second are one. Ending a net and clearing the incidents are split at their broadcasts and
may be cut by a restart; a published page may stay behind its manifest (`torn`).

**`NetControl`.** The roster and caller, the two tasks that file a net after it ended and
may each fail, the BREAK BREAK handlers, the NWS poll, and the gate of `_tx_enqueue`, which
may be suspended in the plugins asked after this one. `Authored` goes through the gate;
`Direct` (automatic IDs, voice previews) and `Beacon` are put on the queue past it.

**`Positions`.** Reports (of coordinates only whether they changed), the poller's limited
memory of them, the cap and the expiry of the store, and `_positions_pump` at its
three suspensions: asleep, in the broadcast, in the write. A crash leaves the last complete
file; a shutdown flushes.

**`Plugins`.** Registry, loader and the link of a mesh forwarder; a handler waits inside
the hooks of the plugins (`job`), a dispatch goes over a copy of the tuple. An instance is
an id and the number of the request that loaded it. `params` are the connection parameters
a transport is made with (`_transport_key`); changed, the link is cut and dialled again
(`Redialing`). A disconnect may raise (`CutDone`); `leftOpen` is history.

**`AudioTaps`.** The capture thread with the two globals it tests and then reads again, the
monitor's buffer of output blocks, the capture and sweep of a calibration. Time is the
number of the chunk. A thread that died stays dead. **`SpectroRing`.** The ring of samples
with its evictions, frames taken from it, rows broadcast one after the other; a sample is
its number in the stream.

**`Settings`.** Settings and words are versions; a handler is suspended in the broadcast
that follows the save and in `join()`, and only then looks at the worker and LISTEN. A
worker is built of what `_config` holds then; words are pushed into a running worker whose
threads may be making a prompt of the old ones.

**`CwLoop`, `Morse`.** `_run_cw` chunk by chunk, with its end (stopped, or a read error) and
the next worker's start, and `_timing_decode` run by run on exactly
keyed Morse; the reference is what was keyed.

**`MCPeople` and `MCNets`** check five and ten of these side by side. `part` picks the
component that moves; the others rest in their initial state and share no variable with
it, so the state spaces add and each component is checked as if alone. Where two parts of a
component hardly meet (messages and clears of the hub, accounts and displays, contacts and
waiting stations, the board's accounts and its look-ups, incidents and published nets, two
nets and a BREAK BREAK), it is run twice, each time with another part bounded: `Bounds`
says how. The theorems about a component are about its own specification, without `Bounds`.

**`Selections`** holds `Kept`, what a list comprehension with a condition leaves of a list:
the elements at some of its places, in their order. Contacts, journals, the limiter, the
registry and the monitor's buffer are filtered with it.

## 4. What each run checks

| Run | Properties | What it shows |
|---|---|---|
| `tx_all` | `PttReleasedBetween`, `AbortEventOwned`, `DrainedNeverAirs`, `DisarmedOnlyByAiring`, `SerialSpec` | With every payload kind and every disturbance at once, PTT is down between transmissions, the abort event cannot swallow a later payload, drained payloads stay off the air, only an identification disarms the ID rule, and the pump is one serial transmitter. |
| `tx_live` | `AudioOnlyWhileKeyed`, `NoSelfTranscription`, `PttReleased`, `SttResumes`, `QueueServed` | For synthesized payloads, with aborts, BREAK BREAK, a busy channel and the watchdog: audio only with PTT held and with the receiver paused; PTT is always released, the receiver resumed, the queue served. |
| `cap_life` | `TypeOK`, `OnlyFreshAudio`, `OpenMeansBusy`, `LifeSpec`, `HoldsTheCarrier`, `PartialFinalized` | Utterances live as `UtteranceLife` says; no audio survives a pause; the channel is busy while the squelch is open and stays so through the close hold; an utterance that was shown is finalized but for the stated exception. |
| `stt_all` | `NeverLeftStopped`, `DeviceIsOnes`, `ListenOffSilences`, `Answered` | However three restarts overlap, the station ends with a worker nobody stopped and every request is answered; until two overlap, there is one receiver, PortAudio is re-scanned with the stream closed, and LISTEN off silences it. |
| `tr_all` | `TranscriptKept`, `TranscriptSpec`, `EveryEndIsPublished` | One tier or two, a full final queue, exceptions, a stop and joins that time out: transcripts keep their promise, a final keeps at least half of what was heard, and every end is published, with the two exceptions the property names. |
| `tr_gen` | `FinalIsTheEnd` | Two worker generations whose threads may overlap: nothing of a finalized utterance is held or on its way. |
| `people_all` | `PeopleTypeOK`, `ShownOnce`, `AnAdminRemains`, `RolesHold`, `BoardIsTrue`, `SignInKeeps`, `BadgeIsEarned` | Hub, accounts, family board, contacts and sign-in, every interleaving of their handlers at the awaits: no message twice or lost but in the named windows, an admin remains, connections follow their accounts, the board tells the truth, limiter, lock and session file keep their word, a badge is earned. |
| `nets_all` | `NetsTypeOK`, `BoardSound`, `ClearedRecordedUnlessLate`, `QuietMeansCurrent`, `NetControlKeeps`, `PluginsSettle`, `ReceiverSound`, `ReadAsSent`, `LookUpFits` | The two nets and their records, positions, plugins, the taps of the capture thread, settings, CW and Morse: each property is named in section 1 and stated with its exceptions in its module. |
| `txv_abort`, `txv_id`, `txv_dead`, `sttv_rescan` | one each, violated | See [section 8](#8-where-code-and-documentation-disagree). |

The type invariants of `TxPump`, `SttControl` and `Transcription` are proved and not run.
Every passing property has a mutant of a mapped definition (in the module, above the
definition it replaces) that breaks it.

Deadlock is checked for `TxPump`, where it means a stuck station. The other modules stop
when their bounded number of utterances, requests, messages or ticks is used up, so their
configurations switch it off.

## 5. Bounds

* `MaxTx = 2` payloads: one on the air and one in the queue, which is what an abort, a
  drain or an overlap needs. One operator and one BREAK BREAK handler; a second handler
  matters only for a deviation of section 8.
* `tx_live` leaves out voice payloads, the disturbance `listen` and the disturbance
  `refresh`: with them the properties fail, for the reasons of section 8. `tx_all` has all
  of them.
* `CaptureLoop` keeps the order of the real settings (`OpenHold` < `CloseHold`,
  `PreRoll` < `PreTrigger` <= `Trigger`, a pre-trigger so long that a first slice comes
  before the minimum of speech) with small numbers: `CloseHold` 3 for 16, `Target` 4 and
  `CutWindow` 2 for 62 and 9, `MinSpeech` 3 for 13, `GuardMax` 2 for 46. Three utterances.
  Only comparisons and sums of these occur, and the proofs cover all values.
* Three requests in `stt_all`: two overlap while a third begins or a worker of a fourth
  (the one from start-up) is still ending.
* `tr_all`: an utterance of up to four segments (`FinalMax` 3, so that both "too long" and
  "second pass less than half as long" occur) and one of up to two, a final queue of one
  place (8 in the code), so that two jobs and the sentinel fill it. `tr_gen`: two
  generations of one utterance with two segments.

* `people_all`. Hub: two sockets and one pump, a history of two; three messages, or two and
  a clear, so that a trim and a clear fall into a join. Accounts: two users, or one and a
  display, on two connections. Family: one member, two hours, two days. Contacts: one
  callsign with two names; two rows, or two look-ups in flight and one row. Sign-in: one
  account, two addresses of which one is tracked (so that one evicts the other), two
  attempts before the limiter and the lock, four ticks.
* `nets_all`. Neighborhood: one account and one radio station over two callsigns, two
  look-ups for the account alone, one on the whole board. Records: two reports, or two
  published journals; one net, two admins, two seconds (so that two files meet in one), an
  incident log of one, a page of two. Net control: one station, one alert; two nets, or one
  with two BREAK BREAK handlers, an automatic ID and a beacon. Positions: two stations with
  room for one in the store and in the poller, a life of one tick, three ticks. Plugins: two
  that conflict, two handlers, three requests, two values of the parameters of one of them.
  Taps: four chunks, a buffer of seven blocks. Spectrogram: frames of four with a hop of
  two, room for two, chunks smaller and larger than the ring, twenty samples. Settings: two
  sockets, two changes. CW: holds of two, a tail of three. Morse: four letters, one of them
  unknown, two to a word, two words, two speeds.
* Symmetry is used for sockets, users and handlers, which occur in no ordering and in no
  temporal property.

## 6. Fairness

Safety properties need none. For the liveness properties:

* `TxPump`: the event loop runs every ready coroutine (`PumpStep`, `AbortRelease`, the
  second halves of a refresh), sleeps elapse (`BreakExpire`), and a playback thread ends:
  audio is finite, and `sd.wait` returns when the stream does. Nothing is assumed of
  operators, the channel or the timers that enqueue.
* `SttControl`: a handler whose await is over is resumed; a thread whose stop event is set
  goes on to its end. `_run` tests the event before opening the stream and on every chunk,
  and its own joins have time-outs (15 s and 30 s). Without a stop nothing is assumed of a
  worker.
* `Transcription`: a thread that has work does it, Whisper returns or raises, and the event
  loop runs the receive pump. Nothing is assumed of the speaker or of a stop.
* `MCPeople` and `MCNets` check invariants and step properties only and assume nothing.

## 7. What is proved

The theorems hold for every value of the constants under the assumption each module
declares with them (`TxAssumption`, `CaptureAssumption`, `SttAssumption`,
`TranscriptionAssumption`, and so on to `MorseAssumption`). Most only give types, keep
names apart and ask that bounds be at least one. Those that say more:

| Assumption | Beyond types | Why the code justifies it |
|---|---|---|
| `CaptureAssumption` | `PreRoll <= PreTrigger <= Trigger` | the worker caps the pre-roll at the 64 chunks of the squelch buffer, and 64 <= 62 + 9 |
| `RingAssumption` | `HopSize <= FrameSize` | 512 and 1024 (`spectrogram.py` 21); the capacity is computed from them |
| `TapsAssumption` | `PerChunk <= MaxBuffer` | a chunk is a few hundredths of a second, the buffer a whole one (`monitor.py` 32) |
| `NetAssumption` | accounts and callsigns are different keys | the board keys accounts by id and radio stations by a prefixed callsign |
| `MorseAssumption` | a letter has an element, a dit a sample | no symbol of `_MORSE_TABLE` (`decoder.py` 13) is empty, and an empty one is never looked up (145) |
| `PositionsAssumption`, `PluginsAssumption` | finitely many stations and plugins | as in any store |
| `BookAssumption` | every callsign has one licensee | the licence database answers with one |

A theorem that needs more says so in its statement (`AudioKeyed`, `NotHeardByItself`,
`WordsKept`, `PromiseKept`). Hardly any of the safety properties is inductive as it stands; what
follows names the strengthening and why it is needed.

**`TxPumpProofs`.** `TypeCorrect`, `PttReleased_Safe`, `AbortOwned`, `DrainedSafe`,
`DisarmedSafe`, `SerialRefinement`. `IInv` adds what the pump knows at each place
(`HandInv`, `PttInv`: which places hold a payload and PTT), and how payload numbers are
ordered: the queue is increasing (`QueueInv`), everything aired or drained is older than
what is queued (`PastInv`), and the payload in hand is younger than everything aired until
it is keyed (`NowInv`). That order is what excludes a drained payload on the air and what
makes the refinement's "in order, at most once" hold. `AudioKeyed`, under `CapNeverMet` (no
voice payloads or no watchdog), and `NotHeardByItself`, under that and `ReceiverLeftAlone`
(nobody touches LISTEN or the devices): without these both fail, see section 8.
`OneStream`: the playback threads are those of the payload in hand, while the pump waits
for them; `Deaf`: from before the key goes down until after it is up, the worker is paused.

**`CaptureLoopProofs`.** `TypeCorrect`, `OnlyFreshAudioHolds`, `OpenMeansBusyHolds` from
`IInv`, the conjunction of the three: the bound of a buffer by the age of the pause needs
the types, and the types of a slice need the trigger length. `LifeImplemented`: the loop
implements `UtteranceLife`. `OneOpen` says that the utterance being received is the last
that began, that all before it are over and nothing was heard of those after it;
`ChunkFates` reduces every step of the loop to six effects on the utterances, each of which
is a step of `UtteranceLife` or none. `CarrierIsHeld` and `ShownIsFinalized` are the two
action properties, from the same invariants.

**`SttControlProofs`.** `TypeCorrect` and `NeverLeftStoppedHolds` for any overlap of any
number of requests. The key parts of `IInv`: without a worker some refresh has promised one
(`Promised`), and a stopped worker is being awaited by whoever stopped it (`Replaced`). With
the second invariant `Alone` (until two requests overlap at most one handler is suspended,
and only the current worker is alive): `DeviceIsOnesHolds`,
`ListenOffSilencesHolds`.

**`TranscriptionProofs`.** `WellTyped`, `FinalEnds` for all constants; `WordsKept` and
`PromiseKept` (the refinement of `Transcript`) with `MaxGen = 1`. That assumption is needed:
the server's accumulator is keyed by utterance id only, and a new worker counts from 1 again
(section 8). `EndInv`: from the moment the last segment of an utterance leaves the segment
queue there is exactly one token of its end (the job the transcription thread holds, a job in
the final queue, the one of the final-pass thread, a message on its way, or the mark that it
was published), and nothing of it follows the token. `KeptInv`: what was heard is in the
accumulator or before the token.

**`PeopleProofs`.**

* Accounts: `AccountsTyped`, `ConnectionsHoldRoles`, `AdminsRemain`. `Matches` holds from the
  moment an account is read, before the connection is registered; `AdminsRemain` needs it,
  since the guard that one may not demote oneself protects the last admin only if whoever
  acts is still an admin.
* Hub: `HubTypes`, `HubShownOnce`. `UnderWay`: a message being sent is one task's and not in
  the history yet; `NotYet`: who is still to be sent it has it neither on the screen nor in
  the back-fill being prepared; `WillShow`, `HasHistory`: whoever has joined has, will get or
  has missed what is under way and what was recorded.
* Family: `BoardTrue`, with `OkIsPast` (a tick compares with today, so no check-in may lie
  ahead of the clock).
* Signing in: `SignInTyped`, `SignInHolds`. The limiter's attempts are in the order of time,
  and are the last of those admitted since it was forgotten, so what is pruned had left the
  window (`Traced`); for an address that was told when to come back one of them leaves the
  window before that (`Limited`, lemma `WaitSuffices`: seconds are rounded up). The lock and
  the files of sessions are inductive with their types.
* Contacts: `BookTyped`, `BadgesEarned`: the badge is an action property, about the rows that
  change, because a later rename keeps a badge (section 8).
* `PeopleTyped`: the types of all five in the instance TLC runs.

**`NetsProofs`.**

* Neighborhood: `NbrRound`, `NbrBoardSound`, `NbrLookUpFits`. `TasksNamed` and `Agrees`: a
  look-up in flight asks about the callsign its row holds, or the row holds none;
  `ScheduleKeeps` proves it through the cancel and the restart of a check-in.
* Records: `RecTyped`, `ClearedRecorded`: while a clear is suspended, what the log holds is in
  a journal or came in late (`ClearIsCovered`).
* Net control: `NcsTypes`, `NcsKeeps`: a file that is due is of the roster as it is unless
  overtaken (`DueIsRoll`), and during one BREAK BREAK what of `Authored` is past the gate
  was so before (`GateShut`).
* Positions: `PositionsTyped` (with the cap, after a crash too) and `QuietPumpIsCurrent`.
  `Written` says what the file or the snapshot being written holds, by where the pump is.
* Settings: `SettingsHeld`. A setting the worker lacks has a handler on its way; without a
  worker a re-scan will build one; a prompt is made of the worker's list unless a change met
  it half made.
* Plugins: `PlugTyped`, `PluginsSettled`. `Sorted`: registry without repetition; `Numbered`:
  a handler holds numbers nobody else uses; `Held`: a link is dialled under a handle, and the
  one dialled again is the one that was cut (`Returns`); `Covered`: a disabled instance that
  is linked, or about to be, is on the list of some handler that will cut it, or was left
  open by one; `OneSwitch`: no two that conflict are on; and, as long as no two handlers
  crossed, `InTurn`: one instance of an id, of a folder that is there, no link but theirs, and
  what sends was connected with the parameters of by now (`Presently`) or is yet to be told.
  `StaysSo` says what a suspended job keeps while another one moves.
* `NetsTyped` and `ReceiverHolds`: the instance TLC runs is one of each component
  (`EachRuns`), so the theorems of the ten carry over.

**`SoundProofs`.**

* `CwLoopSound`, `CwTyped`: a pause and the end of the loop leave the squelch reset and nothing
  collected; what the bound of the model does not stop is the hold and the
  tail, so `collected` exceeds it by these at most.
* `RingHolds`: types, `Latest` and `Unbroken`. The invariant adds that what was dropped is a
  number of hops and that the last row began before what the ring still holds; the lemmas
  `WrappedTwice` and `CellAfter` are the arithmetic of cells modulo the capacity, which is
  where an off-by-one of the eviction would hide.
* `TapsHold`: types, `KeepsUp`, `NothingStale`, `CalibrationWhole`. `BufferInv`: the chunk in
  hand is pushed once, so it is younger than the buffer until then; `AudioInv`: the last
  chunk a calibration may have heard depends on where the thread is (`HeardLast`), and a
  capture that goes on has heard that one.
* `MorseTyped`, `MorseReadAsSent`: the decoder's cursor and letters, and that any text keyed
  at any speed, with a third and one more of its elements dits, is read as it was sent.
  `PercentileIsADit`: then both neighbours of the percentile are dits, so the length of a dit
  is known. For a known one `Brings` says where a piece of the signal takes the decoder:
  pieces are put together (`BringsBoth`, `BringsJoined`, the induction over the pieces of
  `Joined`), so a letter follows from its elements (`LetterBrings`), a word from its letters
  (`WordBrings`), the signal from its words (`SignalBrings`). The invariant (`ReadInv`) is
  that the runs before the cursor brought the decoder where it is. The gaps of 1, 3 and 7
  dits against the limits of 2 and 5 are where an off-by-one would show.

**`SelectionProofs`.** `KeptIs`: what `Kept` leaves of a list is of the list, in its order,
all that passes and nothing else. The induction it needs is over a set of numbers
(`NatIn`), from the least element of a non-empty set of naturals; `KeptSolves` shows that
the recursion has a solution. `RemoveAtIs` is the same for taking one entry out.

Every safety property a passing run checks is stated by a theorem. Only model-checked is all
liveness: the prover has no rule for fairness and `ENABLED`. A leaf of a proof that takes the
prover longer than about a second names the prover and allows it a minute, so that the proofs
do not depend on the speed of the machine.

## 8. Where code and documentation disagree

With a run that TLC violates:

| Run | What happens |
|---|---|
| `txv_abort` | ABORT TX during synthesis is forgotten: the event is set and cleared two loop turns later, and the pump looks at it before it takes a payload and while it plays one (1149, 1320). The payload is keyed. |
| `txv_id` | The automatic ID is marked as sent when it is queued (1829); discarded on a busy channel it is not sent and nothing re-arms the rule. The beacon was written to avoid exactly this. |
| `txv_dead` | `_stt_worker` is tested before the 0.3 s sleep and used after it (1377, 1382); a refresh sets it to `None` in between, and the exception ends the transmit task for good. |
| `sttv_rescan` | While one socket re-scans PortAudio another builds and starts a worker; its stream is open during the re-scan, and the worker is then forgotten. |

Found while modelling, without a run of their own. Where a property holds but for one of
these, its statement in the module names the exception.

Transmit and receive:

* `sd.stop()` before the playback thread has opened its stream stops nothing; the pump then
  waits for the whole playback with PTT keyed (`server.py` 1311-1332).
* A voice transmission cut by its cap keeps sounding after unkey and into the next payload
  (1440); it never arms the ID rule either (1389).
* Switching LISTEN on during a transmission resumes the receiver (3770), and a worker
  rebuilt while LISTEN is off captures (3795, `STTWorker.start` clears the pause).
* Overlapping BREAK BREAK handlers share one flag (`plugins/ncs.py` 523).
* A device refresh tears PortAudio down during a playback (1561).
* The chunks of the close hold count as speech, so an utterance ended by the carrier always
  passes the minimum duration (`segmenter.py` 182; the hold is 0.51 s, the minimum 0.4 s).
* An utterance of which a slice took every chunk is dropped when the carrier drops on the
  next one, although it was shown (`segmenter.py` 244): the exception in `PartialFinalized`.
* LISTEN does not rebuild the worker, so a newly staged final-pass model waits for another
  restart (`worker.py` 177-178 says otherwise).
* A dropped or too long utterance is finalized before an earlier one in its final pass, so
  `_recent_finals` may join transmissions out of order (`worker.py` 756).
* A pause with the squelch open resets it silently (`segmenter.py` 103), so the channel
  stays "busy" after the carrier has gone, until the next transmission is heard. The CW
  loop does the same, and emits no carrier event at all.
* Ids restart at 1 in a new worker and the accumulator is keyed by id only: text left by an
  utterance that got no final is published as the beginning of another. An utterance gets
  no final after a pause, after an exception on its end, and in single-tier mode also when
  its tail is inaudible (`worker.py` 710).
* `_run_cw` has no tail guard after a transmission and no pre-roll, and collects without
  bound while the squelch is open. Its decoder takes the 33rd percentile of the key-down
  lengths for a dit, so a message with few dits is misread.
* `_audio_chunk_fanout` (`server.py` 600, 604) tests a global and reads it again; monitor
  off (3443) or the end of a calibration (2774) in between ends the capture thread, which
  nobody restarts. Two admins share one calibration capture (2696). Nothing calls
  `AudioMonitor.mute`, "called during TX".
* A worker setting changed while LISTEN is off is saved and reaches the worker with the
  next restart only (2674, 2488); `USER_MANUAL.md` 867 promises a live restart. Words
  pushed while a prompt is being made (`worker.py` 386, 809-866) miss that prompt,
  although they are to "take effect immediately". A save that fails leaves the new value
  in memory.

People:

* A browser misses a message whose broadcast was under way while its socket registered, one
  that arrives before its `chat_history`, and one that arrives before a `chat_cleared` sent
  earlier (`server.py` 431-555, 3031-3059); a stalled browser holds up a broadcast, and two
  clients may see two orders. The `tx_echo` of incidents, alerts and SKYWARN is never recorded
  (4580, 4627, `ncs.py` 573), although the history says it keeps every message.
* `save_user_prefs` awaits a refusal between its role check and the save (3914-3962);
  `delete_profile` neither closes nor informs the sockets of the profile (4141-4172); a
  profile is read before the socket is accepted (2983).
* The limiter gives an address more than its rate once it has forgotten it: a full table
  evicts the address with the oldest attempt, be it exhausted (`auth_ratelimit.py` 55-58), and
  a restart starts afresh.
* Expired sessions are dropped from memory without a save (`tokens.py` 59-71).
* A socket of a deleted member recreates its rows; a deletion cut by a restart leaves its
  presence row, which whoever gets the id next inherits; a reminder deleted while missed
  leaves the flag.
* Editing or deleting a contact without a name hits the first or all rows of the callsign
  (`contacts.py` 285-331); a rename keeps `verified`; a dismissed look-up goes on (3704).

Nets, records, positions, plugins:

* A check-in without a callsign returns before it cancels the old look-up, and one that
  comes while a cancelled look-up is not yet gone starts none (`server.py` 746-876).
* Two journals of one second overwrite one another (`journal.py` 15-35), publishing twice
  duplicates the entry, a deleted journal stays published; a restart between the end of a
  net and its files loses the roster (4403-4448); a report made while a clear is suspended
  is wiped unrecorded (4509-4545).
* The filing tasks of a net read the live roster (`ncs.py` 684-737), and a file that cannot be
  written is logged and given up (710, 736). BREAK BREAK does not hold automatic IDs
  (`server.py` 1832), the monitoring beacon (1869) nor a voice preview (3648), as 319-322 say
  it should not; a beacon decided on before a net began is put after. An alert counts as
  seen before it is known to have been sent (755-779); a blocked call still marks the
  station called (635).
* A failed write of the positions waits for the next change, although the next pass is to
  retry; the flush at shutdown races a write in flight.
* A mesh link torn down for changed parameters is dialled again when the teardown is over,
  even if the plugin was switched off meanwhile (`mesh_forwarder.py` 133-140), and stays open;
  a disconnect that raises leaves link and handle (151), though the sender is gone, and the
  registry goes on (`registry.py` 39-40, 204-205).
* Two reloads at once register two instances (`loader.py` 109-147); a teardown during a
  connect leaks the link (`mesh_forwarder.py` 130-154); a full queue drops the newest
  message though the comment says the oldest (27-29); a save that enables two conflicting
  plugins ends with both disabled (`registry.py` 115-132, "the just-enabled plugin always
  wins").

## 9. What is not modelled

* Of the transmit and receive components: formatting and voices of payloads, audio levels,
  the adaptive threshold, the silence watchdog and noise clip (they change no control), the
  debug recorder, callsign spans and attendance after a final, an STT thread that dies of
  an unexpected exception (its `join` then raises in the handler), and the shutdown of the
  process except for the positions. `AudioTaps` follows one capture thread: a second one,
  left over by overlapping restarts (`SttControl`), is not fed into the same taps there.
* Of the others: direct messages and the pruning of offline names (hub), password hashing
  and pairing codes (accounts), the caches of look-ups beyond what they hold, distance and
  merging of two sources (positions), which of the tracked stations the poller forgets (any),
  the contents of a mesh queue, the settings of a transport beyond its connection parameters
  and the audio dispatch (plugins), the audit log, import and export, and every HTML page.
* Left out for good: signal processing (numeric), text rendering and phonetics (pure
  functions with unit tests), Whisper and Piper (an arbitrary text or audio), parsing and
  validation of single settings, file formats, device and network probes, off-line tools,
  the example plugins and the React frontend (presentation).
