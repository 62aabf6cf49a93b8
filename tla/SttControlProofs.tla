--------------------------- MODULE SttControlProofs ---------------------------
(***************************************************************************)
(* Proofs about SttControl, for any set of requests and any overlap: the   *)
(* station is never left with a stopped worker.  As long as no request     *)
(* begins while another is suspended: there is one receiver, PortAudio is  *)
(* re-scanned only while its stream is closed, and the LISTEN button is    *)
(* obeyed.                                                                 *)
(***************************************************************************)
EXTENDS SttControl, TLAPS

\* The worker a request will build does not exist before it does.
Fresh == \A r \in Requests :
           at[r] # "done" => phase[r] = "unborn" /\ ~stop[r]

\* The current worker has been built.
Built == current # None => phase[current] # "unborn"

\* A handler that joins awaits a worker; one that has not begun awaits none.
Awaits == \A r \in Requests : /\ at[r] = "joining" => joins[r] # None
                              /\ at[r] = "new" => joins[r] = None

\* Without a worker some refresh is going to build one.
Promised == current = None =>
              \E r \in Requests : at[r] = "rescan" /\ joins[r] # None

\* A worker that was told to stop is being awaited by whoever told it.
Replaced == current # None /\ stop[current] =>
              \E r \in Requests : at[r] = "joining" /\ joins[r] = current

IInv == TypeOK /\ Fresh /\ Built /\ Awaits /\ Promised /\ Replaced

\* What building a worker does to IInv, whichever handler builds it.
LEMMA MakeStep ==
  ASSUME IInv, NEW r \in Requests, at[r] # "done", Make(r), overlap' \in BOOLEAN
  PROVE  IInv'
<1>1. /\ current' = r
      /\ phase' = [phase EXCEPT ![r] = "starting"]
      /\ at' = [at EXCEPT ![r] = "done"]
      /\ UNCHANGED <<kind, joins, stop, pause, listening>>
  BY DEF Make
<1>2. r \in Workers /\ r # None /\ ~stop[r]
  BY SttAssumption DEF Workers, IInv, Fresh
<1>3. TypeOK'
  BY <1>1, <1>2 DEF IInv, TypeOK
<1>4. Fresh' /\ Built'
  BY <1>1, <1>2 DEF IInv, Fresh, Built, TypeOK, Workers
<1>5. Awaits'
  BY <1>1 DEF IInv, Awaits, TypeOK
<1>6. Promised' /\ Replaced'
  BY <1>1, <1>2 DEF Promised, Replaced
<1> QED  BY <1>3, <1>4, <1>5, <1>6 DEF IInv

\* A handler stops the worker and awaits it.
LEMMA StopStep ==
  ASSUME IInv, NEW r \in Requests, at[r] = "new", current # None, StopAndJoin(r),
         overlap' \in BOOLEAN
  PROVE  IInv'
<1>1. /\ stop' = [stop EXCEPT ![current] = TRUE]
      /\ pause' = [pause EXCEPT ![current] = FALSE]
      /\ joins' = [joins EXCEPT ![r] = current]
      /\ at' = [at EXCEPT ![r] = "joining"]
      /\ UNCHANGED <<current, kind, phase, listening>>
  BY DEF StopAndJoin
<1>2. TypeOK'
  <2>1. stop' \in [Workers -> BOOLEAN] /\ pause' \in [Workers -> BOOLEAN]
    BY <1>1 DEF IInv, TypeOK
  <2> QED  BY <1>1, <2>1 DEF IInv, TypeOK
<1>3. Fresh' /\ Built'
  BY <1>1 DEF IInv, Fresh, Built, TypeOK
<1>4. Awaits' /\ Promised'
  BY <1>1 DEF IInv, Awaits, Promised, TypeOK
<1>5. Replaced'
  BY <1>1 DEF IInv, Replaced, TypeOK
<1> QED  BY <1>2, <1>3, <1>4, <1>5 DEF IInv

\* A handler that leaves everything but its own place: it re-scans a station
\* without a worker, or ends with nothing to restart.
LEMMA MoveStep ==
  ASSUME IInv, NEW r \in Requests, at[r] # "done", at[r] # "joining",
         joins[r] = None,
         at' = [at EXCEPT ![r] = "rescan"] \/ at' = [at EXCEPT ![r] = "done"],
         UNCHANGED <<current, kind, joins, threads, listening>>,
         overlap' \in BOOLEAN
  PROVE  IInv'
<1> USE DEF threads
<1>1. TypeOK'
  BY DEF IInv, TypeOK
<1>2. Fresh' /\ Built' /\ Awaits'
  BY DEF IInv, Fresh, Built, Awaits, TypeOK
<1>3. Promised' /\ Replaced'
  BY DEF IInv, Promised, Replaced, TypeOK
<1> QED  BY <1>1, <1>2, <1>3 DEF IInv

\* A refresh whose worker has ended forgets it and promises another.
LEMMA RescanStep ==
  ASSUME IInv, NEW r \in Requests, Rescan(r), overlap' \in BOOLEAN
  PROVE  IInv'
<1>1. /\ at[r] = "joining" /\ current' = None
      /\ at' = [at EXCEPT ![r] = "rescan"]
      /\ UNCHANGED <<kind, joins, phase, stop, pause, listening>>
  BY DEF Rescan, Joined, threads
<1>2. TypeOK'
  BY <1>1 DEF IInv, TypeOK
<1>3. Fresh' /\ Built' /\ Awaits'
  BY <1>1 DEF IInv, Fresh, Built, Awaits, TypeOK
<1>4. Promised' /\ Replaced'
  BY <1>1 DEF IInv, Awaits, Promised, Replaced, TypeOK
<1> QED  BY <1>2, <1>3, <1>4 DEF IInv

\* A thread that has been started moves on; no other is concerned.
LEMMA ThreadStep ==
  ASSUME IInv, NEW w \in Workers, WorkerStep(w)
  PROVE  IInv'
<1>1. PICK p \in {"open", "draining", "over"} : phase' = [phase EXCEPT ![w] = p]
  BY DEF WorkerStep, Open, GiveUp, Close, End
<1>2. /\ phase[w] # "unborn"
      /\ UNCHANGED <<current, at, kind, joins, stop, pause, listening, overlap>>
  BY DEF WorkerStep, Open, GiveUp, Close, End, handlers
<1>3. TypeOK'
  BY <1>1, <1>2 DEF IInv, TypeOK
<1>4. Fresh' /\ Built' /\ Awaits'
  BY <1>1, <1>2 DEF IInv, Fresh, Built, Awaits, TypeOK, Workers
<1>5. Promised' /\ Replaced'
  BY <1>2 DEF IInv, Promised, Replaced
<1> QED  BY <1>3, <1>4, <1>5 DEF IInv

\* The LISTEN button touches no handler and no thread.
LEMMA OutsideStep ==
  ASSUME IInv, ToggleListening
  PROVE  IInv'
<1>1. /\ UNCHANGED <<current, at, kind, joins, phase, stop, overlap>>
      /\ listening' \in BOOLEAN
      /\ pause' = pause \/ pause' = [pause EXCEPT ![current] = listening]
  BY Zenon DEF ToggleListening, IInv, TypeOK, handlers, threads
<1>2. pause' \in [Workers -> BOOLEAN]
  BY <1>1 DEF IInv, TypeOK
<1>3. TypeOK'
  BY <1>1, <1>2 DEF IInv, TypeOK
<1>4. Fresh' /\ Built' /\ Awaits' /\ Promised' /\ Replaced'
  BY <1>1 DEF IInv, Fresh, Built, Awaits, Promised, Replaced
<1> QED  BY <1>3, <1>4 DEF IInv

LEMMA InitIInv == Init => IInv
<1> SUFFICES ASSUME Init PROVE IInv
  OBVIOUS
<1>1. TypeOK
  BY DEF Init, TypeOK, Workers
<1>2. Fresh /\ Built /\ Awaits /\ Promised /\ Replaced
  BY SttAssumption DEF Init, Fresh, Built, Awaits, Promised, Replaced, Workers
<1> QED  BY <1>1, <1>2 DEF IInv

LEMMA NextIInv ==
  ASSUME IInv, [Next]_vars
  PROVE  IInv'
<1>1. ASSUME NEW r \in Requests, Ask(r)
      PROVE  IInv'
  <2>a. overlap' \in BOOLEAN
    BY <1>1, Zenon DEF Ask, IInv, TypeOK
  <2>1. CASE Replace(r)
    BY <2>1, <2>a, StopStep DEF Replace, MayStart
  <2>2. CASE BuildFirst(r)
    BY <2>2, <2>a, MakeStep DEF BuildFirst, MayStart
  <2>3. CASE RescanAtOnce(r)
    <3>1. at[r] = "new" /\ joins[r] = None
      BY <2>3 DEF RescanAtOnce, MayStart, IInv, Awaits
    <3> QED  BY <2>3, <2>a, <3>1, MoveStep DEF RescanAtOnce
  <2>4. CASE NothingToRestart(r)
    <3>1. at[r] = "new" /\ joins[r] = None
      BY <2>4 DEF NothingToRestart, MayStart, IInv, Awaits
    <3> QED  BY <2>4, <2>a, <3>1, MoveStep DEF NothingToRestart
  <2> QED  BY <1>1, <2>1, <2>2, <2>3, <2>4 DEF Ask
<1>2. ASSUME NEW r \in Requests, Proceed(r)
      PROVE  IInv'
  <2>a. overlap' \in BOOLEAN
    BY <1>2 DEF Proceed, IInv, TypeOK
  <2>1. CASE Rebuild(r)
    BY <2>1, <2>a, MakeStep DEF Rebuild, Joined
  <2>2. CASE Rescan(r)
    BY <2>2, <2>a, RescanStep
  <2>3. CASE Rescanned(r) /\ joins[r] # None
    BY <2>3, <2>a, MakeStep DEF Rescanned
  <2>4. CASE Rescanned(r) /\ joins[r] = None
    BY <2>4, <2>a, MoveStep DEF Rescanned
  <2> QED  BY <1>2, <2>1, <2>2, <2>3, <2>4 DEF Proceed
<1>3. ASSUME NEW w \in Workers, WorkerStep(w)
      PROVE  IInv'
  BY <1>3, ThreadStep
<1>4. CASE ToggleListening
  BY <1>4, OutsideStep
<1>5. CASE UNCHANGED vars
  <2>1. UNCHANGED <<current, at, kind, joins, phase, stop, pause, listening, overlap>>
    BY <1>5 DEF vars, handlers, threads
  <2> QED  BY <2>1 DEF IInv, TypeOK, Fresh, Built, Awaits, Promised, Replaced
<1> QED  BY <1>1, <1>2, <1>3, <1>4, <1>5 DEF Next

\* The inductive invariant holds however the requests overlap.
THEOREM IInvHolds == Spec => []IInv
<1> QED  BY InitIInv, NextIInv, PTL DEF Spec

\* Every variable of the worker's life cycle keeps its type.
THEOREM TypeCorrect == Spec => []TypeOK
<1>1. IInv => TypeOK
  BY DEF IInv
<1> QED  BY <1>1, IInvHolds, PTL

\* However many requests overlap, and in whatever order their joins and re-scans
\* end, once none is suspended the station has a worker that nobody stopped.
THEOREM NeverLeftStoppedHolds == Spec => []NeverLeftStopped
<1>1. IInv => NeverLeftStopped
  BY DEF IInv, Promised, Replaced, NeverLeftStopped, Suspended
<1> QED  BY <1>1, IInvHolds, PTL

-----------------------------------------------------------------------------
(* No request has begun while another was suspended *)

\* One handler is suspended at a time, it awaits the current worker, there is no
\* worker while PortAudio is re-scanned, and only the current worker is alive.
OneAtATime ==
  /\ \A q, r \in Requests : Suspended(q) /\ Suspended(r) => q = r
  /\ \A r \in Requests : at[r] = "joining" => joins[r] = current
  /\ \A r \in Requests : at[r] = "rescan" => current = None
  /\ \A w \in Workers : Alive(w) => w = current

Alone == ~overlap => OneAtATime

\* Building a worker when none is alive.
LEMMA MakeAlone ==
  ASSUME IInv, OneAtATime, NEW r \in Requests, Make(r),
         \A q \in Requests : Suspended(q) => q = r,
         \A w \in Workers : ~Alive(w)
  PROVE  OneAtATime'
<1>1. /\ current' = r
      /\ phase' = [phase EXCEPT ![r] = "starting"]
      /\ at' = [at EXCEPT ![r] = "done"]
      /\ joins' = joins
  BY DEF Make
<1>2. \A q \in Requests : ~Suspended(q)'
  BY <1>1 DEF Suspended, IInv, TypeOK
<1>3. \A w \in Workers : Alive(w)' => w = r
  BY <1>1 DEF Alive, IInv, TypeOK
<1> QED  BY <1>1, <1>2, <1>3 DEF OneAtATime, Suspended

\* A handler that begins finds no other suspended.
LEMMA AskAlone ==
  ASSUME IInv, OneAtATime, ~overlap', NEW r \in Requests, Ask(r)
  PROVE  OneAtATime'
<1>1. at[r] = "new" /\ \A q \in Requests : ~Suspended(q)
  BY DEF Ask, Replace, BuildFirst, RescanAtOnce, NothingToRestart, MayStart
<1>2. CASE Replace(r)
  <2>1. /\ current' = current /\ phase' = phase
        /\ joins' = [joins EXCEPT ![r] = current]
        /\ at' = [at EXCEPT ![r] = "joining"]
    BY <1>2 DEF Replace, StopAndJoin
  <2> QED  BY <1>1, <2>1 DEF OneAtATime, Suspended, Alive, IInv, TypeOK
<1>3. CASE BuildFirst(r)
  <2>1. \A w \in Workers : ~Alive(w)
    BY <1>3, SttAssumption DEF BuildFirst, OneAtATime
  <2> QED  BY <1>1, <1>3, <2>1, MakeAlone DEF BuildFirst
<1>4. CASE RescanAtOnce(r)
  <2>1. /\ current' = current /\ phase' = phase /\ joins' = joins
        /\ at' = [at EXCEPT ![r] = "rescan"] /\ current = None
    BY <1>4 DEF RescanAtOnce, threads
  <2> QED  BY <1>1, <2>1 DEF OneAtATime, Suspended, Alive, IInv, TypeOK
<1>5. CASE NothingToRestart(r)
  <2>1. /\ current' = current /\ phase' = phase /\ joins' = joins
        /\ at' = [at EXCEPT ![r] = "done"]
    BY <1>5 DEF NothingToRestart, threads
  <2> QED  BY <1>1, <2>1 DEF OneAtATime, Suspended, Alive, IInv, TypeOK
<1> QED  BY <1>2, <1>3, <1>4, <1>5 DEF Ask

\* The handler that goes on is the only one suspended, and its worker has ended.
LEMMA ProceedAlone ==
  ASSUME IInv, OneAtATime, NEW r \in Requests, Proceed(r)
  PROVE  OneAtATime'
<1>1. \A q \in Requests : Suspended(q) => q = r
  BY DEF Proceed, Rebuild, Rescan, Rescanned, Joined, Suspended, OneAtATime
<1>2. \A w \in Workers : ~Alive(w)
  <2>1. CASE Joined(r)
    BY <2>1 DEF Joined, OneAtATime, Alive
  <2>2. CASE at[r] = "rescan"
    BY <2>2, SttAssumption DEF OneAtATime
  <2> QED  BY <2>1, <2>2 DEF Proceed, Rebuild, Rescan, Rescanned
<1>3. CASE Make(r)
  BY <1>1, <1>2, <1>3, MakeAlone
<1>4. CASE Rescan(r)
  <2>1. /\ current' = None /\ phase' = phase
        /\ at' = [at EXCEPT ![r] = "rescan"]
    BY <1>4 DEF Rescan, threads
  <2> QED  BY <1>1, <1>2, <2>1 DEF OneAtATime, Suspended, Alive, IInv, TypeOK
<1>5. CASE /\ current' = current /\ phase' = phase /\ joins' = joins
           /\ at' = [at EXCEPT ![r] = "done"]
  BY <1>1, <1>2, <1>5 DEF OneAtATime, Suspended, Alive, IInv, TypeOK
<1> QED  BY <1>3, <1>4, <1>5 DEF Proceed, Rebuild, Rescanned, threads

LEMMA NextAlone ==
  ASSUME IInv, Alone, [Next]_vars
  PROVE  Alone'
<1>1. overlap => overlap'
  BY DEF Next, Ask, Proceed, WorkerStep, ToggleListening, vars
<1> SUFFICES ASSUME OneAtATime, ~overlap'
             PROVE  OneAtATime'
  BY <1>1 DEF Alone
<1>2. ASSUME NEW w \in Workers, WorkerStep(w)
      PROVE  OneAtATime'
  <2>1. PICK p \in {"open", "draining", "over"} : phase' = [phase EXCEPT ![w] = p]
    BY <1>2 DEF WorkerStep, Open, GiveUp, Close, End
  <2>2. Alive(w) /\ UNCHANGED <<current, at, joins>>
    BY <1>2 DEF WorkerStep, Open, GiveUp, Close, End, Alive, handlers
  <2> QED  BY <2>1, <2>2 DEF OneAtATime, Suspended, Alive, IInv, TypeOK
<1>3. CASE ToggleListening \/ UNCHANGED vars
  <2>1. UNCHANGED <<current, at, joins, phase>>
    BY <1>3 DEF ToggleListening, vars, handlers, threads
  <2> QED  BY <2>1 DEF OneAtATime, Suspended, Alive
<1> QED  BY <1>2, <1>3, AskAlone, ProceedAlone DEF Next

LEMMA InitAlone == Init => Alone
BY DEF Init, Alone, OneAtATime, Suspended, Alive

LEMMA AloneHolds == Spec => []Alone
<1>1. IInv /\ Alone /\ [Next]_vars => Alone'
  BY NextAlone
<1> QED  BY <1>1, InitAlone, IInvHolds, PTL DEF Spec

\* Until two requests overlap, no two receivers are alive at the same time, and PortAudio is
\* re-scanned only with its stream closed.
THEOREM DeviceIsOnesHolds == Spec => []DeviceIsOnes
<1>1. Alone => OneReceiver
  BY DEF Alone, OneAtATime, OneReceiver
<1>2. Alone => RescanAloneClosed
  BY SttAssumption
     DEF Alone, OneAtATime, RescanAloneClosed, RescanOnlyClosed, Streaming, Alive
<1> QED  BY <1>1, <1>2, AloneHolds, PTL DEF DeviceIsOnes

\* Until two requests overlap, switching listening off silences every receiver.
THEOREM ListenOffSilencesHolds == Spec => ListenOffSilences
<1>1. ASSUME IInv, Alone, [Next]_vars, listening, ~listening', ~overlap,
             NEW w \in Workers, Alive(w)
      PROVE  pause'[w] \/ stop'[w]
  <2>1. w = current /\ w # None
    BY <1>1, SttAssumption DEF Alone, OneAtATime, Workers
  <2>2. ToggleListening
    BY <1>1 DEF Next, Ask, Proceed, WorkerStep, Replace, BuildFirst, RescanAtOnce,
                NothingToRestart, StopAndJoin, Make, Rebuild, Rescan, Rescanned, vars
  <2>3. pause' = [pause EXCEPT ![current] = listening]
    BY <2>1, <2>2 DEF ToggleListening
  <2>4. pause \in [Workers -> BOOLEAN]
    BY <1>1 DEF IInv, TypeOK
  <2> QED  BY <1>1, <2>1, <2>3, <2>4
<1>2. IInv /\ Alone /\ [Next]_vars
        => [listening /\ ~listening' /\ ~overlap
              => \A w \in Workers : Alive(w) => pause'[w] \/ stop'[w]]_vars
  BY <1>1
<1> QED  BY <1>2, AloneHolds, IInvHolds, PTL DEF Spec, ListenOffSilences
=============================================================================
