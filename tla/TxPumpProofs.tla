---------------------------- MODULE TxPumpProofs ----------------------------
(***************************************************************************)
(* Proofs about TxPump for every number of payloads, operators and BREAK   *)
(* BREAK handlers: type correctness, release of PTT, ownership of the abort*)
(* event, and the refinement of SerialTransmitter; then, under the two     *)
(* assumptions named below, that audio goes out only under PTT, one payload*)
(* at a time, and that the receiver does not listen to it. Everything rests*)
(* on one inductive invariant, IInv. Its heart is that payload numbers     *)
(* increase along the queue, and that whatever has aired, been drained or is*)
(* in hand is older than whatever is still queued.                         *)
(***************************************************************************)
EXTENDS TxPump, TLAPS

OnAirStates == {"play", "drain", "release", "vplay"}
BeforeAir == {"echo", "synth", "vtrans"}

\* A payload is in hand exactly when the pump is working, and previews stay
\* in their own state.
HandInv == /\ pump \in {"get", "dead"} => cur = NoPayload
           /\ pump \notin {"get", "dead"} => cur \in Payload
           /\ cur.kind = "preview" => pump = "preview"

PttInv == keyed <=> pump \in OnAirStates

\* Numbers increase along the queue.
QueueInv == \A i \in 1 .. Len(queue) :
              /\ queue[i].id <= offered
              /\ \A j \in 1 .. Len(queue) : i < j => queue[i].id < queue[j].id

\* The past is older than the queue.
PastInv == /\ \A n \in aired \cup drained :
                /\ n <= offered
                /\ \A i \in 1 .. Len(queue) : n < queue[i].id
           /\ cur.id <= offered
           /\ \A i \in 1 .. Len(queue) : cur.id < queue[i].id

\* The payload in hand was not drained, is new until it is keyed and has
\* aired from then on.
NowInv == /\ cur.id \notin drained
          /\ pump \in BeforeAir => \A n \in aired : n < cur.id
          /\ pump \in OnAirStates => cur.id \in aired
          /\ DrainedNeverAirs

IInv == /\ TypeOK /\ HandInv /\ PttInv /\ QueueInv /\ PastInv /\ NowInv
        /\ AbortEventOwned

-----------------------------------------------------------------------------
(* What the types say, and the two things the actions do to the queue *)

LEMMA Types ==
  ASSUME TypeOK
  PROVE  /\ MaxTx \in Nat /\ offered \in Nat /\ offered <= MaxTx
         /\ queue \in Seq(Payload) /\ Len(queue) \in Nat
         /\ \A i \in 1 .. Len(queue) : queue[i].id \in 1 .. MaxTx /\ queue[i].id \in Nat
         /\ aired \subseteq Nat /\ drained \subseteq Nat
         /\ cur.id \in Nat
  <1>1. MaxTx \in Nat BY TxAssumption
  <1>2. queue \in Seq(Payload) /\ offered \in 0 .. MaxTx BY DEF TypeOK
  <1>3. \A i \in 1 .. Len(queue) : queue[i] \in Payload BY <1>2
  <1>4. \A q \in Payload : q.id \in 1 .. MaxTx /\ q.id \in Nat
    BY <1>1 DEF Payload
  <1>5. cur.id \in Nat BY <1>1, <1>4 DEF TypeOK, NoPayload
  <1>6. aired \subseteq Nat /\ drained \subseteq Nat BY <1>1 DEF TypeOK
  <1> QED BY <1>1, <1>2, <1>3, <1>4, <1>5, <1>6

\* Putting a payload at the end keeps the queue ordered and above the past.
LEMMA PutLemma ==
  ASSUME TypeOK, QueueInv, PastInv, NEW k \in AllKinds, Put(k)
  PROVE  /\ queue' \in Seq(Payload) /\ offered' \in 0 .. MaxTx
         /\ offered' = offered + 1
         /\ Len(queue') = Len(queue) + 1
         /\ queue'[Len(queue) + 1].id = offered + 1
         /\ \A i \in 1 .. Len(queue) : queue'[i] = queue[i]
  <1> DEFINE p == [id |-> offered + 1, kind |-> k]
  <1>1. p \in Payload /\ offered' \in 0 .. MaxTx
    BY TxAssumption DEF Put, Payload, TypeOK
  <1>2. queue \in Seq(Payload) BY DEF TypeOK
  <1>3. queue' = Append(queue, p) BY DEF Put
  <1> HIDE DEF p
  <1>4. queue' \in Seq(Payload) /\ Len(queue') = Len(queue) + 1
    BY <1>1, <1>2, <1>3
  <1>5. /\ queue'[Len(queue) + 1] = p
        /\ \A i \in 1 .. Len(queue) : queue'[i] = queue[i]
    BY <1>2, <1>3
  <1> QED BY <1>1, <1>4, <1>5 DEF Put, p

\* Taking the head leaves the rest, shifted by one.
LEMMA TailLemma ==
  ASSUME TypeOK, queue # <<>>, queue' = Tail(queue)
  PROVE  /\ queue' \in Seq(Payload)
         /\ Len(queue') = Len(queue) - 1
         /\ Head(queue) = queue[1] /\ queue[1] \in Payload
         /\ 1 \in 1 .. Len(queue)
         /\ \A i \in 1 .. Len(queue') : i + 1 \in 1 .. Len(queue) /\ queue'[i] = queue[i + 1]
  BY DEF TypeOK

-----------------------------------------------------------------------------
(* Inductiveness *)

LEMMA InitIInv == Init => IInv
  <1> SUFFICES ASSUME Init PROVE IInv OBVIOUS
  <1>1. MaxTx \in Nat BY TxAssumption
  <1>2. TypeOK
    <2>1. queue \in Seq(Payload) /\ offered \in 0 .. MaxTx
      BY <1>1 DEF Init
    <2> QED BY <2>1 DEF Init, TypeOK, PumpStates
  <1>3. HandInv /\ PttInv /\ AbortEventOwned
    BY DEF Init, HandInv, PttInv, AbortEventOwned, NoPayload, OnAirStates
  <1>4. QueueInv /\ PastInv /\ NowInv
    BY DEF Init, QueueInv, PastInv, NowInv, DrainedNeverAirs, NoPayload, BeforeAir, OnAirStates
  <1> QED BY <1>2, <1>3, <1>4 DEF IInv

\* Putting a payload: nothing but the queue and the timers of the two pumps
\* changes.
LEMMA PutStep ==
  ASSUME IInv, NEW k \in AllKinds, Put(k), UNCHANGED <<job, radio, drained>>
  PROVE  QueueInv' /\ PastInv' /\ NowInv'
  <1>1. /\ queue' \in Seq(Payload) /\ offered' = offered + 1 /\ offered \in Nat
        /\ Len(queue') = Len(queue) + 1 /\ Len(queue) \in Nat
        /\ queue'[Len(queue) + 1].id = offered + 1
        /\ \A i \in 1 .. Len(queue) : queue'[i] = queue[i] /\ queue[i].id \in Nat
    BY PutLemma, Types DEF IInv
  <1>2. aired' = aired /\ drained' = drained /\ cur' = cur
    BY DEF job, radio
  <1>3. QueueInv'
    <2> SUFFICES ASSUME NEW i \in 1 .. Len(queue')
                 PROVE  /\ queue'[i].id <= offered'
                        /\ \A j \in 1 .. Len(queue') : i < j => queue'[i].id < queue'[j].id
      BY DEF QueueInv
    <2>1. CASE i = Len(queue) + 1 BY <1>1, <2>1
    <2>2. CASE i \in 1 .. Len(queue)
      <3>1. queue[i].id <= offered BY <2>2 DEF IInv, QueueInv
      <3>2. \A j \in 1 .. Len(queue) : i < j => queue[i].id < queue[j].id
        BY <2>2 DEF IInv, QueueInv
      <3>3. queue'[i] = queue[i] /\ queue[i].id \in Nat BY <1>1, <2>2
      <3>4. ASSUME NEW j \in 1 .. Len(queue'), i < j
            PROVE  queue'[i].id < queue'[j].id
        <4>1. CASE j = Len(queue) + 1 BY <1>1, <3>1, <3>3, <4>1
        <4>2. CASE j \in 1 .. Len(queue) BY <1>1, <3>2, <3>3, <3>4, <4>2
        <4> QED BY <1>1, <4>1, <4>2
      <3> QED BY <1>1, <3>1, <3>3, <3>4
    <2> QED BY <1>1, <2>1, <2>2
  <1>4. aired \subseteq Nat /\ drained \subseteq Nat /\ cur.id \in Nat
    BY Types DEF IInv
  <1>5. PastInv'
    <2>1. \A n \in aired \cup drained \cup {cur.id} :
             n <= offered /\ \A i \in 1 .. Len(queue) : n < queue[i].id
      BY <1>4 DEF IInv, PastInv
    <2>2. \A n \in aired \cup drained \cup {cur.id} :
             n <= offered' /\ \A i \in 1 .. Len(queue') : n < queue'[i].id
      <3> SUFFICES ASSUME NEW n \in aired \cup drained \cup {cur.id}
                   PROVE  n <= offered' /\ \A i \in 1 .. Len(queue') : n < queue'[i].id
        OBVIOUS
      <3>1. n \in Nat /\ n <= offered /\ n <= offered' BY <1>1, <1>4, <2>1
      <3>2. ASSUME NEW i \in 1 .. Len(queue') PROVE n < queue'[i].id
        <4>1. CASE i = Len(queue) + 1 BY <1>1, <3>1, <4>1
        <4>2. CASE i \in 1 .. Len(queue) BY <1>1, <2>1, <4>2
        <4> QED BY <1>1, <4>1, <4>2
      <3> QED BY <3>1, <3>2
    <2> QED BY <1>2, <2>2 DEF PastInv
  <1>6. NowInv' BY DEF job, radio, IInv, NowInv, DrainedNeverAirs
  <1> QED BY <1>3, <1>5, <1>6

\* Draining: the queue is emptied into drained.
LEMMA DrainStep ==
  ASSUME IInv, queue' = <<>>, drained' = drained \cup QueuedIds,
         UNCHANGED <<offered, job, radio>>
  PROVE  /\ queue' \in Seq(Payload) /\ drained' \subseteq 1 .. MaxTx
         /\ QueuedIds \subseteq 1 .. MaxTx
         /\ QueueInv' /\ PastInv' /\ NowInv'
  <1>1. queue \in Seq(Payload) BY Types DEF IInv
  <1>2. \A n \in QueuedIds : \E i \in 1 .. Len(queue) : n = queue[i].id
    BY <1>1 DEF QueuedIds
  <1>7. QueuedIds \subseteq 1 .. MaxTx /\ QueuedIds \subseteq Nat
    BY <1>2, Types DEF IInv
  <1>3. /\ \A n \in QueuedIds : n <= offered /\ cur.id < n
        /\ \A n \in QueuedIds, m \in aired : m < n
    BY <1>2 DEF IInv, QueueInv, PastInv
  <1>4. /\ aired' = aired /\ cur' = cur /\ pump' = pump /\ offered' = offered
        /\ Len(queue') = 0 /\ queue' \in Seq(Payload)
        /\ aired \subseteq Nat /\ cur.id \in Nat
    BY Types DEF job, radio, IInv
  <1>5. QueueInv' /\ PastInv' BY <1>3, <1>4 DEF IInv, QueueInv, PastInv
  <1>6. NowInv'
    <2>1. cur.id \notin QueuedIds /\ aired \cap QueuedIds = {}
      BY <1>3, <1>4, <1>7
    <2> QED BY <1>4, <2>1 DEF IInv, NowInv, DrainedNeverAirs
  <1> QED BY <1>4, <1>5, <1>6, <1>7 DEF IInv, TypeOK

\* Taking the head: it becomes the payload in hand, newer than all the past.
LEMMA TakeStep ==
  ASSUME IInv, NEW p \in Payload, NEW how \in {"none", "busy"},
         NEW to \in PumpStates \ OnAirStates,
         Take(p, to, how)
  PROVE  /\ queue' \in Seq(Payload) /\ cur' = p /\ pump' = to
         /\ QueueInv' /\ PastInv' /\ NowInv'
  <1>1. queue' = Tail(queue) /\ queue # <<>> /\ p = Head(queue) BY DEF Take
  <1>2. /\ queue' \in Seq(Payload)
        /\ Len(queue') = Len(queue) - 1 /\ Len(queue) \in Nat
        /\ p = queue[1]
        /\ 1 \in 1 .. Len(queue)
        /\ \A i \in 1 .. Len(queue') : i + 1 \in 1 .. Len(queue) /\ queue'[i] = queue[i + 1]
    BY <1>1, TailLemma DEF IInv, TypeOK
  <1>3. /\ aired' = aired /\ drained' = drained /\ cur' = p /\ offered' = offered
        /\ pump' = to
    BY DEF Take, radio
  <1>9. offered \in Nat /\ \A i \in 1 .. Len(queue) : queue[i].id \in Nat
    BY Types DEF IInv
  <1>4. QueueInv'
    <2> SUFFICES ASSUME NEW i \in 1 .. Len(queue')
                 PROVE  /\ queue'[i].id <= offered'
                        /\ \A j \in 1 .. Len(queue') : i < j => queue'[i].id < queue'[j].id
      BY DEF QueueInv
    <2>1. i + 1 \in 1 .. Len(queue) /\ queue'[i] = queue[i + 1] BY <1>2
    <2>2. queue[i + 1].id <= offered BY <2>1 DEF IInv, QueueInv
    <2>3. ASSUME NEW j \in 1 .. Len(queue'), i < j
          PROVE  queue'[i].id < queue'[j].id
      <3>1. j + 1 \in 1 .. Len(queue) /\ queue'[j] = queue[j + 1] BY <1>2
      <3>2. i + 1 < j + 1 BY <1>2, <2>3
      <3>3. queue[i + 1].id < queue[j + 1].id
        BY <2>1, <3>1, <3>2 DEF IInv, QueueInv
      <3> QED BY <2>1, <3>1, <3>3
    <2> QED BY <1>3, <2>1, <2>2, <2>3
  <1>5. PastInv'
    <2>1. \A i \in 1 .. Len(queue') : p.id < queue'[i].id
      BY <1>2, <1>9 DEF IInv, QueueInv
    <2>2. p.id <= offered BY <1>2 DEF IInv, QueueInv
    <2> QED BY <1>2, <1>3, <2>1, <2>2 DEF IInv, PastInv
  <1>6. aired \subseteq Nat /\ drained \subseteq Nat /\ p.id \in Nat
    BY DEF IInv, TypeOK, Payload
  <1>7. \A n \in aired \cup drained : n < p.id
    BY <1>2 DEF IInv, PastInv
  <1>8. NowInv'
    BY <1>3, <1>6, <1>7 DEF IInv, NowInv, DrainedNeverAirs
  <1> QED BY <1>2, <1>3, <1>4, <1>5, <1>8

\* Dropping the head on an abort.
LEMMA DropStep ==
  ASSUME IInv, DropOnAbort
  PROVE  queue' \in Seq(Payload) /\ QueueInv' /\ PastInv' /\ NowInv'
  <1>1. /\ queue' \in Seq(Payload)
        /\ \A i \in 1 .. Len(queue') : i + 1 \in 1 .. Len(queue) /\ queue'[i] = queue[i + 1]
        /\ Len(queue') = Len(queue) - 1 /\ Len(queue) \in Nat
    BY TailLemma, Types DEF DropOnAbort, IInv
  <1>2. UNCHANGED <<offered, cur, pump, aired, drained>>
    BY DEF DropOnAbort, job, radio
  <1>3. QueueInv'
    <2> SUFFICES ASSUME NEW i \in 1 .. Len(queue')
                 PROVE  /\ queue'[i].id <= offered'
                        /\ \A j \in 1 .. Len(queue') : i < j => queue'[i].id < queue'[j].id
      BY DEF QueueInv
    <2>1. i + 1 \in 1 .. Len(queue) /\ queue'[i] = queue[i + 1] BY <1>1
    <2>2. queue[i + 1].id <= offered BY <2>1 DEF IInv, QueueInv
    <2>3. ASSUME NEW j \in 1 .. Len(queue'), i < j
          PROVE  queue'[i].id < queue'[j].id
      <3>1. j + 1 \in 1 .. Len(queue) /\ queue'[j] = queue[j + 1] BY <1>1
      <3>2. i + 1 < j + 1 BY <1>1, <2>3
      <3>3. queue[i + 1].id < queue[j + 1].id
        BY <2>1, <3>1, <3>2 DEF IInv, QueueInv
      <3> QED BY <2>1, <3>1, <3>3
    <2> QED BY <1>2, <2>1, <2>2, <2>3
  <1>4. PastInv' BY <1>1, <1>2 DEF IInv, PastInv
  <1>5. NowInv' BY <1>2 DEF IInv, NowInv, DrainedNeverAirs
  <1> QED BY <1>1, <1>3, <1>4, <1>5

\* Steps that leave the queue, the payload in hand and the histories alone.
LEMMA QuietStep ==
  ASSUME IInv, UNCHANGED <<queueVars, cur, aired, drained>>,
         pump' \in BeforeAir => pump \in BeforeAir,
         pump' \in OnAirStates => pump \in OnAirStates
  PROVE  QueueInv' /\ PastInv' /\ NowInv'
  BY DEF IInv, QueueInv, PastInv, NowInv, DrainedNeverAirs, queueVars

\* Steps that may put the payload in hand away.
LEMMA FreeStep ==
  ASSUME IInv, UNCHANGED <<queueVars, aired, drained>>,
         cur' \in {cur, NoPayload}, pump' \notin BeforeAir \cup OnAirStates
  PROVE  QueueInv' /\ PastInv' /\ NowInv'
  <1>1. CASE cur' = cur
    BY <1>1 DEF IInv, QueueInv, PastInv, NowInv, DrainedNeverAirs, queueVars
  <1>2. CASE cur' = NoPayload
    <2>1. /\ \A i \in 1 .. Len(queue) : queue[i].id \in 1 .. MaxTx
          /\ drained \subseteq 1 .. MaxTx /\ offered \in Nat /\ MaxTx \in Nat
      BY Types DEF IInv, TypeOK
    <2>2. cur'.id = 0 BY <1>2 DEF NoPayload
    <2> QED BY <2>1, <2>2 DEF IInv, QueueInv, PastInv, NowInv, DrainedNeverAirs, queueVars
  <1> QED BY <1>1, <1>2

\* Keying the payload in hand: it joins aired.
LEMMA KeyStep ==
  ASSUME IInv, NEW from \in BeforeAir, NEW to \in OnAirStates, KeyUp(from, to)
  PROVE  QueueInv' /\ PastInv' /\ NowInv'
  <1>1. /\ UNCHANGED <<queue, offered, cur, drained>>
        /\ aired' = aired \cup {cur.id} /\ pump' \notin BeforeAir
    BY DEF KeyUp, queueVars, BeforeAir, OnAirStates
  <1>2. QueueInv' /\ PastInv' BY <1>1 DEF IInv, QueueInv, PastInv
  <1>3. NowInv' BY <1>1 DEF IInv, NowInv, DrainedNeverAirs
  <1> QED BY <1>2, <1>3

-----------------------------------------------------------------------------
\* TypeOK in two halves: the Boolean variables, and the others.
BoolType ==
  /\ keyed \in BOOLEAN /\ abort \in BOOLEAN /\ seen \in BOOLEAN
  /\ hold \in BOOLEAN /\ paused \in BOOLEAN /\ listening \in BOOLEAN
  /\ busy \in BOOLEAN /\ hasTransmitted \in BOOLEAN /\ stale \in BOOLEAN

DataType ==
  /\ queue \in Seq(Payload) /\ offered \in 0 .. MaxTx
  /\ pump \in PumpStates /\ cur \in Payload \cup {NoPayload}
  /\ outcome \in {"none", "busy", "finished", "aborted", "watchdog"}
  /\ starting \subseteq 1 .. MaxTx /\ sounding \subseteq 1 .. MaxTx
  /\ pressed \subseteq Operators /\ breaking \subseteq Breakers
  /\ worker \in {"up", "stopping", "none"}
  /\ idPump \in {"sleep", "put"} /\ beaconPump \in {"sleep", "put"}
  /\ aired \subseteq 1 .. MaxTx /\ killed \subseteq 1 .. MaxTx
  /\ drained \subseteq 1 .. MaxTx

LEMMA InHandType ==
  ASSUME TypeOK
  PROVE  /\ InHand \subseteq 1 .. MaxTx
         /\ \A p \in Payload : p.id \in 1 .. MaxTx
  <1>1. \A p \in Payload : p.id \in 1 .. MaxTx BY DEF Payload
  <1>2. CASE cur = NoPayload BY <1>1, <1>2 DEF InHand
  <1>3. CASE cur # NoPayload
    <2>1. cur \in Payload BY <1>3 DEF TypeOK
    <2> QED BY <1>1, <1>3, <2>1 DEF InHand
  <1> QED BY <1>1, <1>2, <1>3

LEMMA TypeSplit == /\ TypeOK <=> BoolType /\ DataType
                   /\ TypeOK' <=> BoolType' /\ DataType'
  BY DEF TypeOK, BoolType, DataType

\* Every step of the system preserves IInv: one step per action, first the
\* control state, then the queue and the histories.
LEMMA NextIInv == IInv /\ [Next]_vars => IInv'
  <1> SUFFICES ASSUME IInv, [Next]_vars PROVE IInv'
    OBVIOUS
  <1> USE DEF vars, queueVars, job, radio, world, abortVars, breakVars, sttVars,
              idVars
  <1>1. CASE UNCHANGED vars
    <2>1. TypeOK' /\ HandInv' /\ PttInv' /\ AbortEventOwned'
      BY <1>1 DEF vars, IInv, TypeOK, HandInv, PttInv, AbortEventOwned
    <2>2. QueueInv' /\ PastInv' /\ NowInv'
      BY <1>1, QuietStep DEF vars, BeforeAir, OnAirStates
    <2> QED BY <2>1, <2>2 DEF IInv
  <1>2. CASE \E k \in Kinds : Enqueue(k)
    <2>0. PICK k \in Kinds : Enqueue(k) BY <1>2
    <2>3. k \in AllKinds /\ Put(k) BY <2>0, TxAssumption DEF Enqueue
    <2>4. BoolType'
      BY <2>0, <2>3, TypeSplit, Zenon DEF Enqueue, IInv, BoolType
    <2>5. DataType'
      BY <2>0, <2>3, PutLemma, TypeSplit DEF Enqueue, IInv, DataType
    <2>6. HandInv' /\ PttInv'
      BY <2>0, <2>3, TypeSplit DEF Enqueue, IInv, HandInv, PttInv
    <2>7. AbortEventOwned'
      BY <2>0, <2>3, Zenon DEF Enqueue, IInv, AbortEventOwned
    <2>1. TypeOK' BY <2>4, <2>5, TypeSplit
    <2>2. QueueInv' /\ PastInv' /\ NowInv'
      BY <2>0, <2>3, PutStep DEF Enqueue
    <2> QED BY <2>1, <2>2, <2>6, <2>7 DEF IInv
  <1>3. CASE EnqueuePreview
    <2>0. "preview" \in AllKinds /\ Put("preview") BY <1>3 DEF EnqueuePreview, AllKinds
    <2>4. BoolType'
      BY <1>3, <2>0, TypeSplit, Zenon DEF EnqueuePreview, IInv, BoolType
    <2>5. DataType'
      BY <1>3, <2>0, PutLemma, TypeSplit DEF EnqueuePreview, IInv, DataType
    <2>6. HandInv' /\ PttInv'
      BY <1>3, <2>0, TypeSplit DEF EnqueuePreview, IInv, HandInv, PttInv
    <2>7. AbortEventOwned'
      BY <1>3, <2>0, Zenon DEF EnqueuePreview, IInv, AbortEventOwned
    <2>1. TypeOK' BY <2>4, <2>5, TypeSplit
    <2>2. QueueInv' /\ PastInv' /\ NowInv'
      BY <1>3, <2>0, PutStep DEF EnqueuePreview
    <2> QED BY <2>1, <2>2, <2>6, <2>7 DEF IInv
  <1>4. CASE IdRulePut
    <2>0. "autoid" \in AllKinds /\ Put("autoid") BY <1>4 DEF IdRulePut, AllKinds
    <2>4. BoolType'
      BY <1>4, <2>0, TypeSplit, Zenon DEF IdRulePut, IInv, BoolType
    <2>5. DataType'
      BY <1>4, <2>0, PutLemma, TypeSplit DEF IdRulePut, IInv, DataType
    <2>6. HandInv' /\ PttInv'
      BY <1>4, <2>0, TypeSplit DEF IdRulePut, IInv, HandInv, PttInv
    <2>7. AbortEventOwned'
      BY <1>4, <2>0, Zenon DEF IdRulePut, IInv, AbortEventOwned
    <2>1. TypeOK' BY <2>4, <2>5, TypeSplit
    <2>2. QueueInv' /\ PastInv' /\ NowInv'
      BY <1>4, <2>0, PutStep DEF IdRulePut
    <2> QED BY <2>1, <2>2, <2>6, <2>7 DEF IInv
  <1>5. CASE BeaconPut
    <2>0. "beacon" \in AllKinds /\ Put("beacon") BY <1>5 DEF BeaconPut, AllKinds
    <2>4. BoolType'
      BY <1>5, <2>0, TypeSplit, Zenon DEF BeaconPut, IInv, BoolType
    <2>5. DataType'
      BY <1>5, <2>0, PutLemma, TypeSplit DEF BeaconPut, IInv, DataType
    <2>6. HandInv' /\ PttInv'
      BY <1>5, <2>0, TypeSplit DEF BeaconPut, IInv, HandInv, PttInv
    <2>7. AbortEventOwned'
      BY <1>5, <2>0, Zenon DEF BeaconPut, IInv, AbortEventOwned
    <2>1. TypeOK' BY <2>4, <2>5, TypeSplit
    <2>2. QueueInv' /\ PastInv' /\ NowInv'
      BY <1>5, <2>0, PutStep DEF BeaconPut
    <2> QED BY <2>1, <2>2, <2>6, <2>7 DEF IInv
  <1>6. CASE IdRuleDue
    <2>4. BoolType'
      BY <1>6, TypeSplit, Zenon DEF IdRuleDue, IInv, BoolType
    <2>5. DataType'
      BY <1>6, TypeSplit DEF IdRuleDue, IInv, DataType
    <2>6. HandInv' /\ PttInv'
      BY <1>6, TypeSplit DEF IdRuleDue, IInv, HandInv, PttInv
    <2>7. AbortEventOwned'
      BY <1>6, Zenon DEF IdRuleDue, IInv, AbortEventOwned
    <2>1. TypeOK' BY <2>4, <2>5, TypeSplit
    <2>2. QueueInv' /\ PastInv' /\ NowInv'
      BY <1>6, QuietStep DEF IdRuleDue, BeforeAir, OnAirStates
    <2> QED BY <2>1, <2>2, <2>6, <2>7 DEF IInv
  <1>7. CASE BeaconDue
    <2>4. BoolType'
      BY <1>7, TypeSplit, Zenon DEF BeaconDue, IInv, BoolType
    <2>5. DataType'
      BY <1>7, TypeSplit DEF BeaconDue, IInv, DataType
    <2>6. HandInv' /\ PttInv'
      BY <1>7, TypeSplit DEF BeaconDue, IInv, HandInv, PttInv
    <2>7. AbortEventOwned'
      BY <1>7, Zenon DEF BeaconDue, IInv, AbortEventOwned
    <2>1. TypeOK' BY <2>4, <2>5, TypeSplit
    <2>2. QueueInv' /\ PastInv' /\ NowInv'
      BY <1>7, QuietStep DEF BeaconDue, BeforeAir, OnAirStates
    <2> QED BY <2>1, <2>2, <2>6, <2>7 DEF IInv
  <1>8. CASE FifteenMinutesPass
    <2>4. BoolType'
      BY <1>8, TypeSplit, Zenon DEF FifteenMinutesPass, IInv, BoolType
    <2>5. DataType'
      BY <1>8, TypeSplit DEF FifteenMinutesPass, IInv, DataType
    <2>6. HandInv' /\ PttInv'
      BY <1>8, TypeSplit DEF FifteenMinutesPass, IInv, HandInv, PttInv
    <2>7. AbortEventOwned'
      BY <1>8, Zenon DEF FifteenMinutesPass, IInv, AbortEventOwned
    <2>1. TypeOK' BY <2>4, <2>5, TypeSplit
    <2>2. QueueInv' /\ PastInv' /\ NowInv'
      BY <1>8, QuietStep DEF FifteenMinutesPass, BeforeAir, OnAirStates
    <2> QED BY <2>1, <2>2, <2>6, <2>7 DEF IInv
  <1>9. CASE \E x \in Operators : AbortPress(x)
    <2>0. PICK x \in Operators : AbortPress(x) BY <1>9
    <2>9. QueuedIds \subseteq 1 .. MaxTx BY <2>0, DrainStep DEF AbortPress
    <2>8. InHand \subseteq 1 .. MaxTx BY InHandType DEF IInv
    <2>3. killed' \subseteq 1 .. MaxTx
      BY <2>0, <2>8, <2>9 DEF AbortPress, IInv, TypeOK
    <2>4. BoolType'
      BY <2>0, <2>3, TypeSplit, Zenon DEF AbortPress, IInv, BoolType
    <2>5. DataType'
      BY <2>0, <2>3, DrainStep, TypeSplit DEF AbortPress, IInv, DataType
    <2>6. HandInv' /\ PttInv'
      BY <2>0, <2>3, TypeSplit DEF AbortPress, IInv, HandInv, PttInv
    <2>7. AbortEventOwned'
      BY <2>0, <2>3, Zenon DEF AbortPress, IInv, AbortEventOwned
    <2>1. TypeOK' BY <2>4, <2>5, TypeSplit
    <2>2. QueueInv' /\ PastInv' /\ NowInv'
      BY <2>0, DrainStep DEF AbortPress
    <2> QED BY <2>1, <2>2, <2>6, <2>7 DEF IInv
  <1>10. CASE \E x \in Breakers : BreakPress(x)
    <2>0. PICK x \in Breakers : BreakPress(x) BY <1>10
    <2>4. BoolType'
      BY <2>0, TypeSplit, Zenon DEF BreakPress, IInv, BoolType
    <2>5. DataType'
      BY <2>0, DrainStep, TypeSplit DEF BreakPress, IInv, DataType
    <2>6. HandInv' /\ PttInv'
      BY <2>0, TypeSplit DEF BreakPress, IInv, HandInv, PttInv
    <2>7. AbortEventOwned'
      BY <2>0, Zenon DEF BreakPress, IInv, AbortEventOwned
    <2>1. TypeOK' BY <2>4, <2>5, TypeSplit
    <2>2. QueueInv' /\ PastInv' /\ NowInv'
      BY <2>0, DrainStep DEF BreakPress
    <2> QED BY <2>1, <2>2, <2>6, <2>7 DEF IInv
  <1>11. CASE \E x \in Operators : AbortRelease(x)
    <2>0. PICK x \in Operators : AbortRelease(x) BY <1>11
    <2>4. BoolType'
      BY <2>0, TypeSplit, Zenon DEF AbortRelease, IInv, BoolType
    <2>5. DataType'
      BY <2>0, TypeSplit DEF AbortRelease, IInv, DataType
    <2>6. HandInv' /\ PttInv'
      BY <2>0, TypeSplit DEF AbortRelease, IInv, HandInv, PttInv
    <2>7. AbortEventOwned'
      BY <2>0, Zenon DEF AbortRelease, IInv, AbortEventOwned
    <2>1. TypeOK' BY <2>4, <2>5, TypeSplit
    <2>2. QueueInv' /\ PastInv' /\ NowInv'
      BY <2>0, QuietStep DEF AbortRelease, BeforeAir, OnAirStates
    <2> QED BY <2>1, <2>2, <2>6, <2>7 DEF IInv
  <1>12. CASE \E x \in Breakers : BreakExpire(x)
    <2>0. PICK x \in Breakers : BreakExpire(x) BY <1>12
    <2>4. BoolType'
      BY <2>0, TypeSplit, Zenon DEF BreakExpire, IInv, BoolType
    <2>5. DataType'
      BY <2>0, TypeSplit DEF BreakExpire, IInv, DataType
    <2>6. HandInv' /\ PttInv'
      BY <2>0, TypeSplit DEF BreakExpire, IInv, HandInv, PttInv
    <2>7. AbortEventOwned'
      BY <2>0, Zenon DEF BreakExpire, IInv, AbortEventOwned
    <2>1. TypeOK' BY <2>4, <2>5, TypeSplit
    <2>2. QueueInv' /\ PastInv' /\ NowInv'
      BY <2>0, QuietStep DEF BreakExpire, BeforeAir, OnAirStates
    <2> QED BY <2>1, <2>2, <2>6, <2>7 DEF IInv
  <1>13. CASE SquelchChanges
    <2>4. BoolType'
      BY <1>13, TypeSplit, Zenon DEF SquelchChanges, IInv, BoolType
    <2>5. DataType'
      BY <1>13, TypeSplit DEF SquelchChanges, IInv, DataType
    <2>6. HandInv' /\ PttInv'
      BY <1>13, TypeSplit DEF SquelchChanges, IInv, HandInv, PttInv
    <2>7. AbortEventOwned'
      BY <1>13, Zenon DEF SquelchChanges, IInv, AbortEventOwned
    <2>1. TypeOK' BY <2>4, <2>5, TypeSplit
    <2>2. QueueInv' /\ PastInv' /\ NowInv'
      BY <1>13, QuietStep DEF SquelchChanges, BeforeAir, OnAirStates
    <2> QED BY <2>1, <2>2, <2>6, <2>7 DEF IInv
  <1>14. CASE SetSttListening
    <2>4. BoolType'
      BY <1>14, TypeSplit, Zenon DEF SetSttListening, IInv, BoolType
    <2>5. DataType'
      BY <1>14, TypeSplit DEF SetSttListening, IInv, DataType
    <2>6. HandInv' /\ PttInv'
      BY <1>14, TypeSplit DEF SetSttListening, IInv, HandInv, PttInv
    <2>7. AbortEventOwned'
      BY <1>14, Zenon DEF SetSttListening, IInv, AbortEventOwned
    <2>1. TypeOK' BY <2>4, <2>5, TypeSplit
    <2>2. QueueInv' /\ PastInv' /\ NowInv'
      BY <1>14, QuietStep DEF SetSttListening, BeforeAir, OnAirStates
    <2> QED BY <2>1, <2>2, <2>6, <2>7 DEF IInv
  <1>15. CASE RefreshStop
    <2>4. BoolType'
      BY <1>15, TypeSplit, Zenon DEF RefreshStop, IInv, BoolType
    <2>5. DataType'
      BY <1>15, TypeSplit DEF RefreshStop, IInv, DataType
    <2>6. HandInv' /\ PttInv'
      BY <1>15, TypeSplit DEF RefreshStop, IInv, HandInv, PttInv
    <2>7. AbortEventOwned'
      BY <1>15, Zenon DEF RefreshStop, IInv, AbortEventOwned
    <2>1. TypeOK' BY <2>4, <2>5, TypeSplit
    <2>2. QueueInv' /\ PastInv' /\ NowInv'
      BY <1>15, QuietStep DEF RefreshStop, BeforeAir, OnAirStates
    <2> QED BY <2>1, <2>2, <2>6, <2>7 DEF IInv
  <1>16. CASE RefreshRescan
    <2>4. BoolType'
      BY <1>16, TypeSplit, Zenon DEF RefreshRescan, IInv, BoolType
    <2>5. DataType'
      BY <1>16, TypeSplit DEF RefreshRescan, IInv, DataType
    <2>6. HandInv' /\ PttInv'
      BY <1>16, TypeSplit DEF RefreshRescan, IInv, HandInv, PttInv
    <2>7. AbortEventOwned'
      BY <1>16, Zenon DEF RefreshRescan, IInv, AbortEventOwned
    <2>1. TypeOK' BY <2>4, <2>5, TypeSplit
    <2>2. QueueInv' /\ PastInv' /\ NowInv'
      BY <1>16, QuietStep DEF RefreshRescan, BeforeAir, OnAirStates
    <2> QED BY <2>1, <2>2, <2>6, <2>7 DEF IInv
  <1>17. CASE RefreshRestart
    <2>4. BoolType'
      BY <1>17, TypeSplit, Zenon DEF RefreshRestart, IInv, BoolType
    <2>5. DataType'
      BY <1>17, TypeSplit DEF RefreshRestart, IInv, DataType
    <2>6. HandInv' /\ PttInv'
      BY <1>17, TypeSplit DEF RefreshRestart, IInv, HandInv, PttInv
    <2>7. AbortEventOwned'
      BY <1>17, Zenon DEF RefreshRestart, IInv, AbortEventOwned
    <2>1. TypeOK' BY <2>4, <2>5, TypeSplit
    <2>2. QueueInv' /\ PastInv' /\ NowInv'
      BY <1>17, QuietStep DEF RefreshRestart, BeforeAir, OnAirStates
    <2> QED BY <2>1, <2>2, <2>6, <2>7 DEF IInv
  <1>18. CASE ThreadStep
    <2>0. PICK x \in starting \cup sounding : ThreadPlays(x) \/ ThreadEnds(x)
      BY <1>18 DEF ThreadStep
    <2>4. BoolType'
      BY <2>0, TypeSplit, ZenonT(60) DEF ThreadPlays, ThreadEnds, IInv, BoolType
    <2>5. DataType'
      BY <2>0, TypeSplit DEF ThreadPlays, ThreadEnds, IInv, DataType
    <2>6. HandInv' /\ PttInv'
      BY <2>0, TypeSplit DEF ThreadPlays, ThreadEnds, IInv, HandInv, PttInv
    <2>7. AbortEventOwned'
      BY <2>0, Zenon DEF ThreadPlays, ThreadEnds, IInv, AbortEventOwned
    <2>1. TypeOK' BY <2>4, <2>5, TypeSplit
    <2>2. QueueInv' /\ PastInv' /\ NowInv'
      BY <2>0, QuietStep DEF ThreadPlays, ThreadEnds, BeforeAir, OnAirStates
    <2> QED BY <2>1, <2>2, <2>6, <2>7 DEF IInv
  <1>19. CASE DropOnAbort
    <2>4. BoolType'
      BY <1>19, TypeSplit, Zenon DEF DropOnAbort, IInv, BoolType
    <2>5. DataType'
      BY <1>19, DropStep, TypeSplit DEF DropOnAbort, IInv, DataType
    <2>6. HandInv' /\ PttInv'
      BY <1>19, TypeSplit DEF DropOnAbort, IInv, HandInv, PttInv
    <2>7. AbortEventOwned'
      BY <1>19, Zenon DEF DropOnAbort, IInv, AbortEventOwned
    <2>1. TypeOK' BY <2>4, <2>5, TypeSplit
    <2>2. QueueInv' /\ PastInv' /\ NowInv'
      BY <1>19, DropStep DEF DropOnAbort
    <2> QED BY <2>1, <2>2, <2>6, <2>7 DEF IInv
  <1>20. CASE TakeVoice \/ TakePreview \/ DiscardNoVoice
            \/ DiscardBusy \/ TakeEchoed \/ TakeFormatted
    <2> DEFINE Taken(p, to, how) ==
                 /\ Take(p, to, how) /\ (p.kind = "preview" => to = "preview")
                 /\ paused' \in BOOLEAN /\ stale' \in BOOLEAN
                 /\ hasTransmitted' \in BOOLEAN
    <2>0. PICK p \in Payload, to \in {"vtrans", "preview", "tail", "echo", "synth"},
               how \in {"none", "busy"} : Taken(p, to, how)
      <3>1. CASE TakeVoice BY <3>1 DEF TakeVoice, PauseStt, IInv, TypeOK
      <3>2. CASE TakePreview BY <3>2 DEF TakePreview, IInv, TypeOK
      <3>3. CASE DiscardNoVoice BY <3>3 DEF DiscardNoVoice, IInv, TypeOK
      <3>4. CASE DiscardBusy
        BY <3>4 DEF DiscardBusy, DiscardedBusy, Automatic, IInv, TypeOK
      <3>5. CASE TakeEchoed BY <3>5 DEF TakeEchoed, Identify, Echoed, IInv, TypeOK
      <3>6. CASE TakeFormatted BY <3>6 DEF TakeFormatted, PauseStt, IInv, TypeOK
      <3> QED BY <1>20, <3>1, <3>2, <3>3, <3>4, <3>5, <3>6
    <2>3. /\ queue' \in Seq(Payload) /\ cur' = p /\ pump' = to
          /\ QueueInv' /\ PastInv' /\ NowInv'
      BY <2>0, TakeStep DEF PumpStates, OnAirStates
    <2>4. BoolType'
      BY <2>0, <2>3, TypeSplit, Zenon DEF Take, IInv, BoolType
    <2>5. DataType'
      BY <2>0, <2>3, TypeSplit DEF Take, IInv, DataType, PumpStates, OnAirStates, NoPayload
    <2>6. HandInv' /\ PttInv'
      BY <2>0, <2>3, TypeSplit DEF Take, IInv, HandInv, PttInv, PumpStates, OnAirStates, NoPayload
    <2>7. AbortEventOwned'
      BY <2>0, <2>3, Zenon DEF Take, IInv, AbortEventOwned
    <2>1. TypeOK' BY <2>4, <2>5, TypeSplit
    <2>2. QueueInv' /\ PastInv' /\ NowInv'
      BY <2>3
    <2> QED BY <2>1, <2>2, <2>6, <2>7 DEF IInv
  <1>21. CASE EchoSent
    <2>4. BoolType'
      BY <1>21, TypeSplit, Zenon DEF EchoSent, PauseStt, IInv, BoolType
    <2>5. DataType'
      BY <1>21, TypeSplit DEF EchoSent, PauseStt, IInv, DataType, PumpStates, OnAirStates
    <2>6. HandInv' /\ PttInv'
      BY <1>21, TypeSplit DEF EchoSent, PauseStt, IInv, HandInv, PttInv, PumpStates, OnAirStates
    <2>7. AbortEventOwned'
      BY <1>21, Zenon DEF EchoSent, PauseStt, IInv, AbortEventOwned
    <2>1. TypeOK' BY <2>4, <2>5, TypeSplit
    <2>2. QueueInv' /\ PastInv' /\ NowInv'
      BY <1>21, QuietStep DEF EchoSent, PauseStt, BeforeAir, OnAirStates
    <2> QED BY <2>1, <2>2, <2>6, <2>7 DEF IInv
  <1>22. CASE PreviewDone
    <2>4. BoolType'
      BY <1>22, TypeSplit, Zenon DEF PreviewDone, IInv, BoolType
    <2>5. DataType'
      BY <1>22, TypeSplit DEF PreviewDone, IInv, DataType, PumpStates, OnAirStates, NoPayload
    <2>6. HandInv' /\ PttInv'
      BY <1>22, TypeSplit DEF PreviewDone, IInv, HandInv, PttInv, PumpStates, OnAirStates, NoPayload
    <2>7. AbortEventOwned'
      BY <1>22, Zenon DEF PreviewDone, IInv, AbortEventOwned
    <2>1. TypeOK' BY <2>4, <2>5, TypeSplit
    <2>2. QueueInv' /\ PastInv' /\ NowInv'
      BY <1>22, FreeStep DEF PreviewDone, BeforeAir, OnAirStates, IInv, HandInv
    <2> QED BY <2>1, <2>2, <2>6, <2>7 DEF IInv
  <1>23. CASE SynthKey
    <2>3. cur.id \in 1 .. MaxTx
      BY <1>23, InHandType DEF SynthKey, KeyUp, IInv, HandInv
    <2>4. BoolType'
      BY <1>23, TypeSplit, Zenon DEF SynthKey, KeyUp, IInv, BoolType
    <2>5. DataType'
      BY <1>23, <2>3, TypeSplit DEF SynthKey, KeyUp, IInv, DataType, PumpStates
    <2>6. HandInv' /\ PttInv'
      BY <1>23, TypeSplit DEF SynthKey, KeyUp, IInv, HandInv, PttInv, PumpStates, OnAirStates, Payload
    <2>7. AbortEventOwned'
      BY <1>23, Zenon DEF SynthKey, KeyUp, IInv, AbortEventOwned
    <2>1. TypeOK' BY <2>4, <2>5, TypeSplit
    <2>2. QueueInv' /\ PastInv' /\ NowInv'
      BY <1>23, KeyStep DEF SynthKey, BeforeAir, OnAirStates
    <2> QED BY <2>1, <2>2, <2>6, <2>7 DEF IInv
  <1>24. CASE VoiceKey
    <2>3. cur.id \in 1 .. MaxTx
      BY <1>24, InHandType DEF VoiceKey, KeyUp, IInv, HandInv
    <2>4. BoolType'
      BY <1>24, TypeSplit, Zenon DEF VoiceKey, KeyUp, IInv, BoolType
    <2>5. DataType'
      BY <1>24, <2>3, TypeSplit DEF VoiceKey, KeyUp, IInv, DataType, PumpStates
    <2>6. HandInv' /\ PttInv'
      BY <1>24, TypeSplit DEF VoiceKey, KeyUp, IInv, HandInv, PttInv, PumpStates, OnAirStates, Payload
    <2>7. AbortEventOwned'
      BY <1>24, Zenon DEF VoiceKey, KeyUp, IInv, AbortEventOwned
    <2>1. TypeOK' BY <2>4, <2>5, TypeSplit
    <2>2. QueueInv' /\ PastInv' /\ NowInv'
      BY <1>24, KeyStep DEF VoiceKey, BeforeAir, OnAirStates
    <2> QED BY <2>1, <2>2, <2>6, <2>7 DEF IInv
  <1>25. CASE SynthFails
    <2>4. BoolType'
      BY <1>25, TypeSplit, Zenon DEF SynthFails, IInv, BoolType
    <2>5. DataType'
      BY <1>25, TypeSplit DEF SynthFails, IInv, DataType, PumpStates, OnAirStates
    <2>6. HandInv' /\ PttInv'
      BY <1>25, TypeSplit DEF SynthFails, IInv, HandInv, PttInv, PumpStates, OnAirStates
    <2>7. AbortEventOwned'
      BY <1>25, Zenon DEF SynthFails, IInv, AbortEventOwned
    <2>1. TypeOK' BY <2>4, <2>5, TypeSplit
    <2>2. QueueInv' /\ PastInv' /\ NowInv'
      BY <1>25, QuietStep DEF SynthFails, BeforeAir, OnAirStates
    <2> QED BY <2>1, <2>2, <2>6, <2>7 DEF IInv
  <1>26. CASE PlaybackWins
    <2>4. BoolType'
      BY <1>26, TypeSplit, Zenon DEF PlaybackWins, RaceEnds, IInv, BoolType
    <2>5. DataType'
      BY <1>26, TypeSplit DEF PlaybackWins, RaceEnds, IInv, DataType, PumpStates, OnAirStates
    <2>6. HandInv' /\ PttInv'
      BY <1>26, TypeSplit DEF PlaybackWins, RaceEnds, IInv, HandInv, PttInv, PumpStates, OnAirStates
    <2>7. AbortEventOwned'
      BY <1>26, Zenon DEF PlaybackWins, RaceEnds, IInv, AbortEventOwned
    <2>1. TypeOK' BY <2>4, <2>5, TypeSplit
    <2>2. QueueInv' /\ PastInv' /\ NowInv'
      BY <1>26, QuietStep DEF PlaybackWins, RaceEnds, BeforeAir, OnAirStates
    <2> QED BY <2>1, <2>2, <2>6, <2>7 DEF IInv
  <1>27. CASE AbortWins
    <2>3. cur.id \in 1 .. MaxTx
      BY <1>27, InHandType DEF AbortWins, RaceEnds, SdStop, IInv, HandInv
    <2>4. BoolType'
      BY <1>27, TypeSplit, Zenon DEF AbortWins, RaceEnds, SdStop, IInv, BoolType
    <2>5. DataType'
      BY <1>27, <2>3, TypeSplit DEF AbortWins, RaceEnds, SdStop, IInv, DataType, PumpStates
    <2>6. HandInv' /\ PttInv'
      BY <1>27, TypeSplit DEF AbortWins, RaceEnds, SdStop, IInv, HandInv, PttInv, PumpStates, OnAirStates, Payload
    <2>7. AbortEventOwned'
      BY <1>27, Zenon DEF AbortWins, RaceEnds, SdStop, IInv, AbortEventOwned
    <2>1. TypeOK' BY <2>4, <2>5, TypeSplit
    <2>2. QueueInv' /\ PastInv' /\ NowInv'
      BY <1>27, QuietStep DEF AbortWins, RaceEnds, SdStop, BeforeAir, OnAirStates
    <2> QED BY <2>1, <2>2, <2>6, <2>7 DEF IInv
  <1>28. CASE WatchdogWins
    <2>3. cur.id \in 1 .. MaxTx
      BY <1>28, InHandType DEF WatchdogWins, RaceEnds, SdStop, IInv, HandInv
    <2>4. BoolType'
      BY <1>28, TypeSplit, Zenon DEF WatchdogWins, RaceEnds, SdStop, IInv, BoolType
    <2>5. DataType'
      BY <1>28, <2>3, TypeSplit DEF WatchdogWins, RaceEnds, SdStop, IInv, DataType, PumpStates
    <2>6. HandInv' /\ PttInv'
      BY <1>28, TypeSplit DEF WatchdogWins, RaceEnds, SdStop, IInv, HandInv, PttInv, PumpStates, OnAirStates, Payload
    <2>7. AbortEventOwned'
      BY <1>28, Zenon DEF WatchdogWins, RaceEnds, SdStop, IInv, AbortEventOwned
    <2>1. TypeOK' BY <2>4, <2>5, TypeSplit
    <2>2. QueueInv' /\ PastInv' /\ NowInv'
      BY <1>28, QuietStep DEF WatchdogWins, RaceEnds, SdStop, BeforeAir, OnAirStates
    <2> QED BY <2>1, <2>2, <2>6, <2>7 DEF IInv
  <1>29. CASE PlaybackDrained
    <2>4. BoolType'
      BY <1>29, TypeSplit, Zenon DEF PlaybackDrained, IInv, BoolType
    <2>5. DataType'
      BY <1>29, TypeSplit DEF PlaybackDrained, IInv, DataType, PumpStates, OnAirStates
    <2>6. HandInv' /\ PttInv'
      BY <1>29, TypeSplit DEF PlaybackDrained, IInv, HandInv, PttInv, PumpStates, OnAirStates
    <2>7. AbortEventOwned'
      BY <1>29, Zenon DEF PlaybackDrained, IInv, AbortEventOwned
    <2>1. TypeOK' BY <2>4, <2>5, TypeSplit
    <2>2. QueueInv' /\ PastInv' /\ NowInv'
      BY <1>29, QuietStep DEF PlaybackDrained, BeforeAir, OnAirStates
    <2> QED BY <2>1, <2>2, <2>6, <2>7 DEF IInv
  <1>30. CASE Unkey
    <2>4. BoolType'
      BY <1>30, TypeSplit, Zenon DEF Unkey, IInv, BoolType
    <2>5. DataType'
      BY <1>30, TypeSplit DEF Unkey, IInv, DataType, PumpStates, OnAirStates
    <2>6. HandInv' /\ PttInv'
      BY <1>30, TypeSplit DEF Unkey, IInv, HandInv, PttInv, PumpStates, OnAirStates
    <2>7. AbortEventOwned'
      BY <1>30, Zenon DEF Unkey, IInv, AbortEventOwned
    <2>1. TypeOK' BY <2>4, <2>5, TypeSplit
    <2>2. QueueInv' /\ PastInv' /\ NowInv'
      BY <1>30, QuietStep DEF Unkey, BeforeAir, OnAirStates
    <2> QED BY <2>1, <2>2, <2>6, <2>7 DEF IInv
  <1>31. CASE VoiceFinishes
    <2>4. BoolType'
      BY <1>31, TypeSplit, Zenon DEF VoiceFinishes, IInv, BoolType
    <2>5. DataType'
      BY <1>31, TypeSplit DEF VoiceFinishes, IInv, DataType, PumpStates, OnAirStates
    <2>6. HandInv' /\ PttInv'
      BY <1>31, TypeSplit DEF VoiceFinishes, IInv, HandInv, PttInv, PumpStates, OnAirStates
    <2>7. AbortEventOwned'
      BY <1>31, Zenon DEF VoiceFinishes, IInv, AbortEventOwned
    <2>1. TypeOK' BY <2>4, <2>5, TypeSplit
    <2>2. QueueInv' /\ PastInv' /\ NowInv'
      BY <1>31, QuietStep DEF VoiceFinishes, BeforeAir, OnAirStates
    <2> QED BY <2>1, <2>2, <2>6, <2>7 DEF IInv
  <1>32. CASE VoiceTimesOut
    <2>4. BoolType'
      BY <1>32, TypeSplit, Zenon DEF VoiceTimesOut, IInv, BoolType
    <2>5. DataType'
      BY <1>32, TypeSplit DEF VoiceTimesOut, IInv, DataType, PumpStates, OnAirStates
    <2>6. HandInv' /\ PttInv'
      BY <1>32, TypeSplit DEF VoiceTimesOut, IInv, HandInv, PttInv, PumpStates, OnAirStates
    <2>7. AbortEventOwned'
      BY <1>32, Zenon DEF VoiceTimesOut, IInv, AbortEventOwned
    <2>1. TypeOK' BY <2>4, <2>5, TypeSplit
    <2>2. QueueInv' /\ PastInv' /\ NowInv'
      BY <1>32, QuietStep DEF VoiceTimesOut, BeforeAir, OnAirStates
    <2> QED BY <2>1, <2>2, <2>6, <2>7 DEF IInv
  <1>33. CASE IdleSent
    <2>4. BoolType'
      BY <1>33, TypeSplit, Zenon DEF IdleSent, IInv, BoolType
    <2>5. DataType'
      BY <1>33, TypeSplit DEF IdleSent, IInv, DataType, PumpStates, OnAirStates, NoPayload
    <2>6. HandInv' /\ PttInv'
      BY <1>33, TypeSplit DEF IdleSent, IInv, HandInv, PttInv, PumpStates, OnAirStates, NoPayload
    <2>7. AbortEventOwned'
      BY <1>33, Zenon DEF IdleSent, IInv, AbortEventOwned
    <2>1. TypeOK' BY <2>4, <2>5, TypeSplit
    <2>2. QueueInv' /\ PastInv' /\ NowInv'
      BY <1>33, FreeStep DEF IdleSent, BeforeAir, OnAirStates, IInv, HandInv
    <2> QED BY <2>1, <2>2, <2>6, <2>7 DEF IInv
  <1>34. CASE ResumeStt
    <2>4. BoolType'
      BY <1>34, TypeSplit, Zenon DEF ResumeStt, IInv, BoolType
    <2>5. DataType'
      BY <1>34, TypeSplit DEF ResumeStt, IInv, DataType, PumpStates, OnAirStates, NoPayload
    <2>6. HandInv' /\ PttInv'
      BY <1>34, TypeSplit DEF ResumeStt, IInv, HandInv, PttInv, PumpStates, OnAirStates, NoPayload
    <2>7. AbortEventOwned'
      BY <1>34, Zenon DEF ResumeStt, IInv, AbortEventOwned
    <2>1. TypeOK' BY <2>4, <2>5, TypeSplit
    <2>2. QueueInv' /\ PastInv' /\ NowInv'
      BY <1>34, FreeStep DEF ResumeStt, BeforeAir, OnAirStates, IInv, HandInv
    <2> QED BY <2>1, <2>2, <2>6, <2>7 DEF IInv
  <1> QED
    BY <1>1, <1>2, <1>3, <1>4, <1>5, <1>6, <1>7, <1>8, <1>9, <1>10, <1>11, <1>12, <1>13, <1>14, <1>15, <1>16, <1>17, <1>18, <1>19, <1>20, <1>21, <1>22, <1>23, <1>24, <1>25, <1>26, <1>27, <1>28, <1>29, <1>30, <1>31, <1>32, <1>33, <1>34
    DEF Next, PumpStep, PumpTakes, PumpWorks, Produce, Interrupt, Stt

\* The inductive invariant holds: every theorem below is read off it.
THEOREM IInvHolds == Spec => []IInv
  BY InitIInv, NextIInv, PTL DEF Spec

\* Every variable keeps its type.
THEOREM TypeCorrect == Spec => []TypeOK
  <1>1. IInv => TypeOK BY DEF IInv
  <1> QED BY <1>1, IInvHolds, PTL

\* PTT is down between transmissions and never serves a preview.
THEOREM PttReleased_Safe == Spec => []PttReleasedBetween
  <1>1. IInv => PttReleasedBetween
    BY DEF IInv, PttInv, HandInv, PttReleasedBetween, OnAirStates, NoPayload, Payload
  <1> QED BY <1>1, IInvHolds, PTL

\* The abort event is set only while a tx_abort handler is still running.
THEOREM AbortOwned == Spec => []AbortEventOwned
  <1>1. IInv => AbortEventOwned BY DEF IInv
  <1> QED BY <1>1, IInvHolds, PTL

\* What was drained from the queue never goes on the air.
THEOREM DrainedSafe == Spec => []DrainedNeverAirs
  <1>1. IInv => DrainedNeverAirs BY DEF IInv, NowInv
  <1> QED BY <1>1, IInvHolds, PTL

-----------------------------------------------------------------------------
(* The FCC ID rule *)

\* Only three steps write hasTransmitted, and only two can clear it.
LEMMA DisarmStep ==
  ASSUME Next, hasTransmitted, ~hasTransmitted'
  PROVE  IdRuleDue \/ Unkey
  <1> USE DEF idVars, world
  <1>1. CASE PumpTakes
    BY <1>1, Zenon DEF PumpTakes, DropOnAbort, TakeVoice, TakePreview, DiscardNoVoice,
        DiscardBusy, TakeEchoed, TakeFormatted, Take, Identify
  <1>2. CASE PumpWorks
    BY <1>2, Zenon DEF PumpWorks, EchoSent, PreviewDone, SynthKey, VoiceKey, KeyUp,
        SynthFails, PlaybackWins, AbortWins, WatchdogWins, RaceEnds,
        PlaybackDrained, VoiceFinishes, VoiceTimesOut, IdleSent, ResumeStt
  <1>3. CASE ThreadStep
    BY <1>3, Zenon DEF ThreadStep, ThreadPlays, ThreadEnds
  <1>4. CASE Produce
    BY <1>4, Zenon DEF Produce, Enqueue, EnqueuePreview, IdRulePut, BeaconDue,
        BeaconPut, FifteenMinutesPass
  <1>5. CASE Interrupt
    BY <1>5, Zenon DEF Interrupt, AbortPress, AbortRelease, BreakPress, BreakExpire
  <1>6. CASE Stt
    BY <1>6, Zenon DEF Stt, SquelchChanges, SetSttListening, RefreshStop,
        RefreshRescan, RefreshRestart
  <1> QED BY <1>1, <1>2, <1>3, <1>4, <1>5, <1>6 DEF Next, PumpStep

\* The ID rule is disarmed only by the ID pump or by a beacon that aired and
\* was not aborted.
THEOREM DisarmedSafe == Spec => DisarmedOnlyByAiring
  <1> DEFINE Disarm == hasTransmitted /\ ~hasTransmitted'
                       => \/ idPump = "sleep" /\ idPump' = "put"
                          \/ cur.kind = "beacon" /\ cur.id \in aired /\ outcome # "aborted"
  <1>1. IInv /\ [Next]_vars => [Disarm]_vars
    <2> SUFFICES ASSUME IInv, Next, hasTransmitted, ~hasTransmitted'
                 PROVE  \/ idPump = "sleep" /\ idPump' = "put"
                        \/ cur.kind = "beacon" /\ cur.id \in aired /\ outcome # "aborted"
      BY Zenon
    <2>1. CASE IdRuleDue BY <2>1 DEF IdRuleDue
    <2>2. CASE Unkey
      <3>1. cur.kind = "beacon" /\ outcome # "aborted"
        BY <2>2, Zenon DEF Unkey
      <3>2. cur.id \in aired
        BY <2>2 DEF Unkey, IInv, NowInv, OnAirStates
      <3> QED BY <3>1, <3>2
    <2> QED BY <2>1, <2>2, DisarmStep
  <1> QED BY <1>1, IInvHolds, PTL DEF Spec, DisarmedOnlyByAiring

-----------------------------------------------------------------------------
(* The refinement of SerialTransmitter *)

\* Steps that key and unkey nothing and accept nothing: the payload in hand
\* may change only while PTT is up.
Invisible == /\ UNCHANGED <<offered, aired, keyed>>
             /\ cur' = cur \/ ~keyed

LEMMA InvisibleStutters == Invisible => UNCHANGED Serial!vars
  BY DEF Invisible, Serial!vars

LEMMA PutAccepts ==
  ASSUME TypeOK, NEW k, Put(k), UNCHANGED <<cur, keyed, aired>>
  PROVE  Serial!Accept
  BY DEF Put, Serial!Accept, TypeOK

LEMMA KeyRefines ==
  ASSUME IInv, NEW from \in BeforeAir, NEW to, KeyUp(from, to)
  PROVE  Serial!KeyUp
  <1>1. ~keyed BY DEF KeyUp, IInv, PttInv, BeforeAir, OnAirStates
  <1>2. cur \in Payload BY DEF KeyUp, IInv, HandInv, BeforeAir
  <1>3. cur.id \in 1 .. offered
    <2>1. cur.id \in 1 .. MaxTx BY <1>2, InHandType DEF IInv
    <2>2. cur.id <= offered /\ offered \in Nat /\ MaxTx \in Nat
      BY Types DEF IInv, PastInv
    <2> QED BY <2>1, <2>2
  <1>4. \A m \in aired : m < cur.id BY DEF KeyUp, IInv, NowInv
  <1>5. offered' = offered /\ cur' = cur /\ keyed' = TRUE /\ aired' = aired \cup {cur.id}
    BY DEF KeyUp, queueVars
  <1> QED BY <1>1, <1>3, <1>4, <1>5 DEF Serial!KeyUp

LEMMA UnkeyRefines ==
  ASSUME IInv, Unkey \/ VoiceFinishes
  PROVE  Serial!KeyDown
  <1>1. keyed /\ cur \in Payload
    BY DEF Unkey, VoiceFinishes, IInv, PttInv, HandInv, OnAirStates
  <1>2. cur.id # 0
    <2>1. cur.id \in 1 .. MaxTx /\ MaxTx \in Nat BY <1>1, InHandType, Types DEF IInv
    <2> QED BY <2>1
  <1>3. offered' = offered /\ ~keyed' /\ aired' = aired
    BY DEF Unkey, VoiceFinishes, queueVars
  <1> QED BY <1>1, <1>2, <1>3 DEF Serial!KeyDown

LEMMA NextRefines == IInv /\ [Next]_vars => [Serial!Next]_(Serial!vars)
  <1> SUFFICES ASSUME IInv, [Next]_vars
               PROVE  Serial!Next \/ UNCHANGED Serial!vars
    BY Zenon
  <1> USE DEF queueVars, job, radio, world
  <1>0. CASE UNCHANGED vars
    BY <1>0, InvisibleStutters DEF vars, Invisible
  <1>1. CASE PumpTakes
    <2>1. pump = "get" /\ ~keyed
      BY <1>1 DEF PumpTakes, DropOnAbort, TakeVoice, TakePreview, DiscardNoVoice,
          DiscardBusy, TakeEchoed, TakeFormatted, Take, IInv, PttInv, OnAirStates
    <2>2. UNCHANGED <<offered, aired, keyed>>
      BY <1>1 DEF PumpTakes, DropOnAbort, TakeVoice, TakePreview, DiscardNoVoice,
          DiscardBusy, TakeEchoed, TakeFormatted, Take
    <2> QED BY <2>1, <2>2, InvisibleStutters DEF Invisible
  <1>2. CASE SynthKey \/ VoiceKey
    BY <1>2, KeyRefines DEF SynthKey, VoiceKey, BeforeAir, Serial!Next
  <1>3. CASE Unkey \/ VoiceFinishes
    BY <1>3, UnkeyRefines DEF Serial!Next
  <1>4. CASE EchoSent \/ SynthFails \/ PlaybackWins \/ AbortWins \/ WatchdogWins
             \/ PlaybackDrained \/ VoiceTimesOut
    BY <1>4, InvisibleStutters
    DEF EchoSent, SynthFails, PlaybackWins, AbortWins, WatchdogWins, RaceEnds,
        PlaybackDrained, VoiceTimesOut, Invisible
  <1>5. CASE PreviewDone \/ IdleSent \/ ResumeStt
    <2>1. ~keyed
      BY <1>5 DEF PreviewDone, IdleSent, ResumeStt, IInv, PttInv, OnAirStates
    <2>2. UNCHANGED <<offered, aired, keyed>>
      BY <1>5 DEF PreviewDone, IdleSent, ResumeStt
    <2> QED BY <2>1, <2>2, InvisibleStutters DEF Invisible
  <1>6. CASE ThreadStep
    BY <1>6, InvisibleStutters DEF ThreadStep, ThreadPlays, ThreadEnds, Invisible
  <1>7. CASE Produce
    <2>1. CASE (\E k \in Kinds : Enqueue(k)) \/ EnqueuePreview \/ IdRulePut \/ BeaconPut
      BY <2>1, PutAccepts
      DEF Enqueue, EnqueuePreview, IdRulePut, BeaconPut, IInv, Serial!Next
    <2>2. CASE IdRuleDue \/ BeaconDue \/ FifteenMinutesPass
      BY <2>2, InvisibleStutters DEF IdRuleDue, BeaconDue, FifteenMinutesPass, Invisible
    <2> QED BY <1>7, <2>1, <2>2 DEF Produce
  <1>8. CASE Interrupt
    BY <1>8, InvisibleStutters
    DEF Interrupt, AbortPress, AbortRelease, BreakPress, BreakExpire, Invisible
  <1>9. CASE Stt
    BY <1>9, InvisibleStutters
    DEF Stt, SquelchChanges, SetSttListening, RefreshStop, RefreshRescan,
        RefreshRestart, Invisible
  <1> QED
    BY <1>0, <1>1, <1>2, <1>3, <1>4, <1>5, <1>6, <1>7, <1>8, <1>9
    DEF Next, PumpStep, PumpWorks

\* The pipeline implements one serial, in-order, at-most-once transmitter.
THEOREM SerialRefinement == Spec => SerialSpec
  <1>1. Init => Serial!Init BY DEF Init, Serial!Init
  <1> QED BY <1>1, NextRefines, IInvHolds, PTL DEF Spec, SerialSpec, Serial!Spec

-----------------------------------------------------------------------------
(* What is on the air. Both properties have an exception in the code, which
   the assumptions of the theorems leave out: the cap on a voice transmission
   abandons a thread that keeps playing, and LISTEN or a device refresh may
   start the receiver during a transmission. *)

\* No voice transmission meets the cap.
CapNeverMet == "voice" \notin Kinds \/ "watchdog" \notin Disturbances

\* Nobody touches LISTEN or the devices.
ReceiverLeftAlone == "listen" \notin Disturbances /\ "refresh" \notin Disturbances

\* Without voice payloads the pump is never in a voice transmission.
NoVoice ==
  "voice" \notin Kinds =>
    /\ \A i \in 1 .. Len(queue) : queue[i].kind # "voice"
    /\ pump \notin {"vtrans", "vplay"}

\* A playback thread is that of the payload in hand, while the pump waits for it.
OneStream ==
  starting \cup sounding # {} =>
    /\ pump \in {"play", "drain", "vplay"}
    /\ starting \cup sounding = {cur.id}

\* From before the key goes down until after it is up, the receiver is paused.
Deaf ==
  /\ worker = "up"
  /\ pump \in {"synth", "vtrans"} \cup OnAirStates => paused

-----------------------------------------------------------------------------
\* The queue gains only payloads of a kind that the instance offers.
LEMMA PutNoVoice ==
  ASSUME TypeOK, NoVoice, NEW k \in AllKinds, k \in Kinds \/ k # "voice", Put(k), pump' = pump
  PROVE  NoVoice'
<1>1. /\ queue \in Seq(Payload) /\ Len(queue) \in Nat
      /\ queue' = Append(queue, [id |-> offered + 1, kind |-> k])
      BY DEF TypeOK, Put
<1> DEFINE p == [id |-> offered + 1, kind |-> k]
<1>2. p \in Payload
      BY TxAssumption DEF Put, Payload, TypeOK
<1>3. p.kind = k
      OBVIOUS
<1> HIDE DEF p
<1>4. Len(queue') = Len(queue) + 1
      /\ \A i \in 1 .. Len(queue') : queue'[i] = IF i = Len(queue) + 1 THEN p ELSE queue[i]
      BY <1>1, <1>2 DEF p
<1> QED BY <1>1, <1>3, <1>4 DEF NoVoice

LEMMA TakeNoVoice ==
  ASSUME TypeOK, NoVoice, queue # <<>>, queue' = Tail(queue)
  PROVE  /\ "voice" \notin Kinds => \A i \in 1 .. Len(queue') : queue'[i].kind # "voice"
         /\ "voice" \notin Kinds => Head(queue).kind # "voice"
BY TailLemma DEF NoVoice

LEMMA NoVoiceKept ==
  ASSUME TypeOK, NoVoice, Next PROVE NoVoice'
<1> USE DEF queueVars, job, radio, world
<1>1. CASE PumpTakes
  <2>1. queue # <<>> /\ queue' = Tail(queue)
        BY <1>1 DEF PumpTakes, DropOnAbort, TakeVoice, TakePreview, DiscardNoVoice, DiscardBusy,
           TakeEchoed, TakeFormatted, Take
  <2>2. "voice" \notin Kinds => pump' \notin {"vtrans", "vplay"}
    <3>1. CASE TakeVoice
          BY <2>1, <3>1, TakeNoVoice DEF TakeVoice, Take
    <3>2. CASE ~TakeVoice
          BY <1>1, <3>2 DEF NoVoice, PumpTakes, DropOnAbort, TakePreview, DiscardNoVoice, DiscardBusy,
             TakeEchoed, TakeFormatted, Take
    <3> QED BY <3>1, <3>2
  <2> QED BY <2>1, <2>2, TakeNoVoice DEF NoVoice
<1>2. CASE PumpWorks
  <2>1. queue' = queue
        BY <1>2 DEF PumpWorks, EchoSent, PreviewDone, SynthKey, VoiceKey, KeyUp,
           SynthFails, PlaybackWins, AbortWins, WatchdogWins, RaceEnds,
           PlaybackDrained, Unkey, VoiceFinishes, VoiceTimesOut, IdleSent, ResumeStt
  <2>2. pump \notin {"vtrans", "vplay"} => pump' \notin {"vtrans", "vplay"}
        BY <1>2 DEF PumpWorks, EchoSent, PreviewDone, SynthKey, VoiceKey, KeyUp,
           SynthFails, PlaybackWins, AbortWins, WatchdogWins, RaceEnds,
           PlaybackDrained, Unkey, VoiceFinishes, VoiceTimesOut, IdleSent, ResumeStt
  <2> QED BY <2>1, <2>2 DEF NoVoice
<1>3. CASE ThreadStep
      BY <1>3 DEF ThreadStep, ThreadPlays, ThreadEnds, NoVoice
<1>4. CASE Produce
  <2>1. ASSUME NEW k \in Kinds, Enqueue(k) PROVE NoVoice'
        BY <2>1, PutNoVoice, TxAssumption DEF Enqueue
  <2>2. CASE EnqueuePreview
        BY <2>2, PutNoVoice DEF EnqueuePreview, AllKinds
  <2>3. CASE IdRulePut
        BY <2>3, PutNoVoice DEF IdRulePut, AllKinds
  <2>4. CASE BeaconPut
        BY <2>4, PutNoVoice DEF BeaconPut, AllKinds
  <2>5. CASE IdRuleDue \/ BeaconDue \/ FifteenMinutesPass
        BY <2>5 DEF IdRuleDue, BeaconDue, FifteenMinutesPass, NoVoice
  <2> QED BY <1>4, <2>1, <2>2, <2>3, <2>4, <2>5 DEF Produce
<1>5. CASE Interrupt
  <2>1. pump' = pump /\ queue' \in {queue, <<>>}
        BY <1>5 DEF Interrupt, AbortPress, AbortRelease, BreakPress, BreakExpire
  <2> QED BY <2>1 DEF NoVoice
<1>6. CASE Stt
      BY <1>6 DEF Stt, SquelchChanges, SetSttListening, RefreshStop, RefreshRescan, RefreshRestart, NoVoice
<1> QED BY <1>1, <1>2, <1>3, <1>4, <1>5, <1>6 DEF Next, PumpStep

\* The pump moves on only when the thread it started has ended.
LEMMA OneStreamKept ==
  ASSUME CapNeverMet, TypeOK, NoVoice, OneStream, Next PROVE OneStream'
<1> USE DEF queueVars, job, radio, world
<1>1. CASE PumpTakes
  <2>1. pump = "get" /\ UNCHANGED <<starting, sounding>>
        BY <1>1 DEF PumpTakes, DropOnAbort, TakeVoice, TakePreview, DiscardNoVoice, DiscardBusy,
           TakeEchoed, TakeFormatted, Take
  <2> QED BY <2>1 DEF OneStream
<1>2. CASE PumpWorks
  <2>1. CASE SynthKey \/ VoiceKey
    <3>1. pump \in {"synth", "vtrans"} /\ pump' \in {"play", "vplay"} /\ cur' = cur
          /\ starting' = starting \cup {cur.id} /\ sounding' = sounding
          BY <2>1 DEF SynthKey, VoiceKey, KeyUp
    <3>2. starting \cup sounding = {}
          BY <3>1 DEF OneStream
    <3> QED BY <3>1, <3>2 DEF OneStream
  <2>2. CASE EchoSent \/ PreviewDone \/ SynthFails \/ Unkey \/ IdleSent \/ ResumeStt
    <3>1. pump \notin {"play", "drain", "vplay"} /\ UNCHANGED <<starting, sounding>>
          BY <2>2 DEF EchoSent, PreviewDone, SynthFails, Unkey, IdleSent, ResumeStt
    <3> QED BY <3>1 DEF OneStream
  <2>3. CASE PlaybackWins \/ AbortWins \/ WatchdogWins
    <3>1. /\ pump' = "drain" /\ cur' = cur /\ starting' = starting
          /\ sounding' \in {sounding, {}}
          BY <2>3 DEF PlaybackWins, AbortWins, WatchdogWins, RaceEnds, SdStop
    <3> QED BY <3>1 DEF OneStream
  <2>4. CASE PlaybackDrained \/ VoiceFinishes
    <3>1. cur.id \notin starting \cup sounding /\ UNCHANGED <<starting, sounding>>
          BY <2>4 DEF PlaybackDrained, VoiceFinishes, PlaybackDone
    <3> QED BY <3>1 DEF OneStream
  <2>5. CASE VoiceTimesOut
        BY <2>5 DEF VoiceTimesOut, CapNeverMet, NoVoice
  <2> QED BY <1>2, <2>1, <2>2, <2>3, <2>4, <2>5 DEF PumpWorks
<1>3. CASE ThreadStep
  <2>1. PICK n \in starting \cup sounding : ThreadPlays(n) \/ ThreadEnds(n)
        BY <1>3 DEF ThreadStep
  <2>2. n = cur.id /\ starting \cup sounding = {n} /\ pump \in {"play", "drain", "vplay"}
        BY <2>1 DEF OneStream
  <2>3. UNCHANGED <<pump, cur>> /\ starting' \cup sounding' \in {{}, {n}}
        BY <2>1, <2>2 DEF ThreadPlays, ThreadEnds
  <2> QED BY <2>2, <2>3 DEF OneStream
<1>4. CASE Produce
      BY <1>4 DEF Produce, Enqueue, EnqueuePreview, IdRulePut, BeaconPut, IdRuleDue, BeaconDue,
         FifteenMinutesPass, OneStream
<1>5. CASE Interrupt
      BY <1>5 DEF Interrupt, AbortPress, AbortRelease, BreakPress, BreakExpire, OneStream
<1>6. CASE Stt
      BY <1>6 DEF Stt, SquelchChanges, SetSttListening, RefreshStop, RefreshRescan, RefreshRestart, OneStream
<1> QED BY <1>1, <1>2, <1>3, <1>4, <1>5, <1>6 DEF Next, PumpStep

\* The receiver is paused before synthesis and resumed after the key is up.
LEMMA DeafKept ==
  ASSUME ReceiverLeftAlone, TypeOK, Deaf, Next PROVE Deaf'
<1> USE DEF queueVars, job, radio, world, sttVars, idVars, abortVars, breakVars, OnAirStates, PauseStt
<1>1. CASE PumpTakes
      BY <1>1 DEF PumpTakes, DropOnAbort, TakeVoice, TakePreview, DiscardNoVoice, DiscardBusy,
         TakeEchoed, TakeFormatted, Take, Deaf
<1>2. CASE PumpWorks
      BY <1>2 DEF PumpWorks, EchoSent, PreviewDone, SynthKey, VoiceKey, KeyUp,
         SynthFails, PlaybackWins, AbortWins, WatchdogWins, RaceEnds,
         PlaybackDrained, Unkey, VoiceFinishes, VoiceTimesOut, IdleSent, ResumeStt, Deaf
<1>3. CASE ThreadStep
      BY <1>3 DEF ThreadStep, ThreadPlays, ThreadEnds, Deaf
<1>4. CASE Produce
      BY <1>4 DEF Produce, Enqueue, EnqueuePreview, IdRulePut, BeaconPut, IdRuleDue, BeaconDue,
         FifteenMinutesPass, Deaf
<1>5. CASE Interrupt
      BY <1>5 DEF Interrupt, AbortPress, AbortRelease, BreakPress, BreakExpire, Deaf
<1>6. CASE Stt
      BY <1>6 DEF Stt, SquelchChanges, SetSttListening, RefreshStop, RefreshRescan, RefreshRestart,
         ReceiverLeftAlone, Deaf
<1> QED BY <1>1, <1>2, <1>3, <1>4, <1>5, <1>6 DEF Next, PumpStep

-----------------------------------------------------------------------------
LEMMA AudioInv ==
  ASSUME CapNeverMet PROVE Spec => [](IInv /\ NoVoice /\ OneStream)
<1>1. Init => NoVoice /\ OneStream
      BY DEF Init, NoVoice, OneStream
<1>2. TypeOK /\ NoVoice /\ OneStream /\ [Next]_vars => NoVoice' /\ OneStream'
  <2>1. ASSUME NoVoice, OneStream, UNCHANGED vars PROVE NoVoice' /\ OneStream'
        BY <2>1 DEF vars, queueVars, job, radio, NoVoice, OneStream
  <2> QED BY <2>1, NoVoiceKept, OneStreamKept
<1>3. IInv => TypeOK
      BY DEF IInv
<1> QED BY <1>1, <1>2, <1>3, IInvHolds, PTL DEF Spec

\* Unless a voice transmission meets the cap, audio goes out only under PTT and one
\* payload at a time ("TX is serialized through the single _tx_queue consumer").
THEOREM AudioKeyed ==
  ASSUME CapNeverMet PROVE Spec => []AudioOnlyWhileKeyed
<1>1. IInv /\ OneStream => AudioOnlyWhileKeyed
      BY DEF IInv, PttInv, OnAirStates, OneStream, AudioOnlyWhileKeyed
<1> QED BY <1>1, AudioInv, PTL

\* If, besides, nobody touches LISTEN or the devices, the receiver never hears the station
\* itself ("Pause STT before keying ...").
THEOREM NotHeardByItself ==
  ASSUME CapNeverMet, ReceiverLeftAlone PROVE Spec => []NoSelfTranscription
<1>1. Init => Deaf
      BY DEF Init, Deaf, OnAirStates
<1>2. TypeOK /\ Deaf /\ [Next]_vars => Deaf'
  <2>1. ASSUME Deaf, UNCHANGED vars PROVE Deaf'
        BY <2>1 DEF vars, job, world, sttVars, Deaf
  <2> QED BY <2>1, DeafKept
<1>3. IInv => TypeOK
      BY DEF IInv
<1>4. OneStream /\ Deaf => NoSelfTranscription
      BY DEF OneStream, Deaf, OnAirStates, NoSelfTranscription, Capturing
<1> QED BY <1>1, <1>2, <1>3, <1>4, AudioInv, PTL DEF Spec
=============================================================================
