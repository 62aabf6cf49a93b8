----------------------------- MODULE SttControl -----------------------------
(***************************************************************************)
(* The life cycle of the speech-to-text worker: the WebSocket requests of  *)
(* backend/server.py that stop it, wait for its thread and build another   *)
(* (set_input_device, refresh_devices, and a change of rx_mode or of the   *)
(* STT settings), the LISTEN button, and the worker threads themselves     *)
(* (STTWorker.start, stop, join and the outline of _run).                  *)
(*                                                                         *)
(* Handlers run on one event loop and suspend only in join() and in the    *)
(* PortAudio re-scan; each socket has its own, so that several requests    *)
(* may be suspended at once.  A worker is named by the request that built  *)
(* it.                                                                     *)
(***************************************************************************)
EXTENDS Naturals

CONSTANTS
  Requests,       \* requests that replace the worker, each made once
  Boot,           \* the worker built by lifespan() at start-up
  None            \* _stt_worker is None

Workers == Requests \cup {Boot}

ASSUME SttAssumption == /\ Boot \notin Requests
                        /\ None \notin Workers

\* device: set_input_device   refresh: refresh_devices
\* config: rx_mode, whisper_model and the other STT settings
Kinds == {"device", "refresh", "config"}

VARIABLES
  current,        \* _stt_worker
  at,             \* where the handler of a request is suspended
  kind,           \* what it asks for
  joins,          \* the worker it awaits; had_worker once a refresh re-scans
  phase,          \* how far the thread of a worker has come
  stop,           \* _stop_event
  pause,          \* _pause_event
  listening,      \* _stt_listening
  overlap         \* history: a request began while another was suspended

handlers == <<at, kind, joins>>
threads == <<phase, stop, pause>>
vars == <<current, handlers, threads, listening, overlap>>

Init ==
  /\ current = Boot
  /\ at = [r \in Requests |-> "new"]
  /\ kind \in [Requests -> Kinds]
  /\ joins = [r \in Requests |-> None]
  /\ phase = [w \in Workers |-> IF w = Boot THEN "starting" ELSE "unborn"]
  /\ stop = [w \in Workers |-> FALSE]
  /\ pause = [w \in Workers |-> FALSE]
  /\ listening = TRUE
  /\ overlap = FALSE

Suspended(r) == at[r] \in {"joining", "rescan"}
MayStart(r) == at[r] = "new"
Streaming(w) == phase[w] = "open"
Alive(w) == phase[w] \in {"starting", "open", "draining"}

-----------------------------------------------------------------------------
(* Handlers *)

\* _make_stt_worker and STTWorker.start: a new worker is not paused.
Make(r) ==
  /\ current' = r
  /\ phase' = [phase EXCEPT ![r] = "starting"]
  /\ at' = [at EXCEPT ![r] = "done"]
  /\ UNCHANGED <<kind, joins, stop, pause, listening>>

\* STTWorker.stop, then join: the handler suspends until the thread has ended.
StopAndJoin(r) ==
  /\ stop' = [stop EXCEPT ![current] = TRUE]
  /\ pause' = [pause EXCEPT ![current] = FALSE]
  /\ joins' = [joins EXCEPT ![r] = current]
  /\ at' = [at EXCEPT ![r] = "joining"]
  /\ UNCHANGED <<current, kind, phase, listening>>

Replace(r) ==
  /\ MayStart(r)
  /\ current # None
  /\ kind[r] = "config" => listening
  /\ StopAndJoin(r)

\* set_input_device builds a worker even when there is none.
BuildFirst(r) ==
  /\ MayStart(r) /\ kind[r] = "device" /\ current = None
  /\ Make(r)

\* refresh_devices without a worker re-scans at once.
RescanAtOnce(r) ==
  /\ MayStart(r) /\ kind[r] = "refresh" /\ current = None
  /\ at' = [at EXCEPT ![r] = "rescan"]
  /\ UNCHANGED <<current, kind, joins, threads, listening>>

\* A settings change without a worker, or while not listening, restarts nothing.
NothingToRestart(r) ==
  /\ MayStart(r) /\ kind[r] = "config" /\ (current = None \/ ~listening)
  /\ at' = [at EXCEPT ![r] = "done"]
  /\ UNCHANGED <<current, kind, joins, threads, listening>>

Joined(r) == at[r] = "joining" /\ phase[joins[r]] = "over"

\* mutant of Rebuild: it does not wait for the thread
RebuildUnjoined(r) == /\ at[r] = "joining" /\ kind[r] # "refresh"
                      /\ Make(r)

Rebuild(r) == /\ Joined(r) /\ kind[r] # "refresh"
              /\ Make(r)

\* mutant of Rescan: it does not wait for the thread
RescanUnjoined(r) ==
  /\ at[r] = "joining" /\ kind[r] = "refresh"
  /\ current' = None
  /\ at' = [at EXCEPT ![r] = "rescan"]
  /\ UNCHANGED <<kind, joins, threads, listening>>

\* _refresh_devices forgets the worker, then tears PortAudio down and up again.
Rescan(r) ==
  /\ Joined(r) /\ kind[r] = "refresh"
  /\ current' = None
  /\ at' = [at EXCEPT ![r] = "rescan"]
  /\ UNCHANGED <<kind, joins, threads, listening>>

\* mutant of Rescanned: a worker is built only if there still is one
RescannedForgets(r) ==
  /\ at[r] = "rescan"
  /\ IF current # None
       THEN Make(r)
       ELSE /\ at' = [at EXCEPT ![r] = "done"]
            /\ UNCHANGED <<current, kind, joins, threads, listening>>

\* The re-scan returns (a failure is logged and swallowed).
Rescanned(r) ==
  /\ at[r] = "rescan"
  /\ IF joins[r] # None
       THEN Make(r)
       ELSE /\ at' = [at EXCEPT ![r] = "done"]
            /\ UNCHANGED <<current, kind, joins, threads, listening>>

\* mutant of ToggleListening: pause and resume swapped
ToggleListeningSwapped ==
  /\ listening' = ~listening
  /\ pause' = IF current = None THEN pause ELSE [pause EXCEPT ![current] = ~listening]
  /\ UNCHANGED <<current, handlers, phase, stop, overlap>>

\* set_stt_listening: pauses or resumes the current worker.
ToggleListening ==
  /\ listening' = ~listening
  /\ pause' = IF current = None THEN pause ELSE [pause EXCEPT ![current] = listening]
  /\ UNCHANGED <<current, handlers, phase, stop, overlap>>

-----------------------------------------------------------------------------
(* The thread of a worker: STTWorker._run *)

\* Models loaded and the input stream open.
Open(w) == /\ phase[w] = "starting" /\ ~stop[w]
           /\ phase' = [phase EXCEPT ![w] = "open"]

\* mutant of GiveUp: a thread that fails is never over
GiveUpAsFailed(w) == /\ phase[w] = "starting"
                     /\ phase' = [phase EXCEPT ![w] = "failed"]

\* Stopped before the stream was opened, a model is missing, or no device.
GiveUp(w) == /\ phase[w] = "starting"
             /\ phase' = [phase EXCEPT ![w] = "over"]

\* mutant of Close: a stop request is not noticed
CloseOnErrorOnly(w) == /\ phase[w] = "open" /\ ~stop[w]
                       /\ phase' = [phase EXCEPT ![w] = "draining"]

\* _stop_event, or a read error: the stream is closed.
Close(w) == /\ phase[w] = "open"
            /\ phase' = [phase EXCEPT ![w] = "draining"]

\* The transcription threads have been joined (or given up on).
End(w) == /\ phase[w] = "draining"
          /\ phase' = [phase EXCEPT ![w] = "over"]

WorkerStep(w) == /\ Open(w) \/ GiveUp(w) \/ Close(w) \/ End(w)
                 /\ UNCHANGED <<current, handlers, stop, pause, listening, overlap>>

Ask(r) == /\ Replace(r) \/ BuildFirst(r) \/ RescanAtOnce(r) \/ NothingToRestart(r)
          /\ overlap' = (overlap \/ \E q \in Requests : Suspended(q))
Proceed(r) == /\ Rebuild(r) \/ Rescan(r) \/ Rescanned(r)
              /\ UNCHANGED overlap

Next == \/ \E r \in Requests : Ask(r) \/ Proceed(r)
        \/ \E w \in Workers : WorkerStep(w)
        \/ ToggleListening

\* The event loop resumes a handler whose await is over; a stopped thread reads
\* its stop event on the next chunk, and its own joins have time-outs.
Fairness == /\ \A r \in Requests : WF_vars(Proceed(r))
            /\ \A w \in Workers : WF_vars(stop[w] /\ WorkerStep(w))

Spec == Init /\ [][Next]_vars
FairSpec == Spec /\ Fairness

-----------------------------------------------------------------------------
(* Properties *)

TypeOK ==
  /\ current \in Workers \cup {None}
  /\ at \in [Requests -> {"new", "joining", "rescan", "done"}]
  /\ kind \in [Requests -> Kinds]
  /\ joins \in [Requests -> Workers \cup {None}]
  /\ phase \in [Workers -> {"unborn", "starting", "open", "draining", "over"}]
  /\ stop \in [Workers -> BOOLEAN]
  /\ pause \in [Workers -> BOOLEAN]
  /\ listening \in BOOLEAN
  /\ overlap \in BOOLEAN

\* When no request is suspended the station has a worker, and nobody has asked
\* that worker to stop: however restarts overlap, the last word is a start.
NeverLeftStopped ==
  (\A r \in Requests : ~Suspended(r)) => current # None /\ ~stop[current]

\* As long as no request begins while another is suspended, two receivers never
\* capture, or hold the input device, at the same time.
OneReceiver == ~overlap => \A v, w \in Workers : Alive(v) /\ Alive(w) => v = w

\* PortAudio is torn down only while no input stream is open
\* (audio/devices.py: "Unsafe while any stream is open").
RescanOnlyClosed ==
  \A r \in Requests, w \in Workers : at[r] = "rescan" => ~Streaming(w)

\* It is, as long as no request begins while another is suspended.
RescanAloneClosed == ~overlap => RescanOnlyClosed

\* So the input device is one receiver's or the re-scan's: as long as requests do not
\* overlap, what joins, rebuilds and re-scans keeps them apart.
DeviceIsOnes == OneReceiver /\ RescanAloneClosed

\* Switching listening off silences every receiver there is at that moment
\* (set_stt_listening), as long as no request began while another was suspended.
ListenOffSilences ==
  [][listening /\ ~listening' /\ ~overlap
       => \A w \in Workers : Alive(w) => pause'[w] \/ stop'[w]]_vars

\* Every request is answered: nobody waits for ever for a thread to end.
Answered == \A r \in Requests : Suspended(r) ~> at[r] = "done"
=============================================================================
