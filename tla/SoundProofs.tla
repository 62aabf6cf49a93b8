---------------------------- MODULE SoundProofs -----------------------------
(***************************************************************************)
(* Proofs about the receive side, for every size of chunk, buffer, ring and*)
(* hold: the CW loop collects Morse transmission by transmission (CwLoop), *)
(* the waterfall's ring holds the latest samples and makes unbroken rows of*)
(* them (SpectroRing), the monitor plays nothing stale and a calibration   *)
(* hears the channel whole (AudioTaps), and Morse keyed with dits enough is*)
(* read as it was sent (Morse).                                            *)
(***************************************************************************)
EXTENDS CwLoop, SpectroRing, AudioTaps, Morse, SelectionProofs, FiniteSetTheorems

-----------------------------------------------------------------------------
(* The CW loop. *)

\* What the loop keeps besides: a pause and the end of the loop leave nothing behind; an open squelch has
\* collected something and no tail; what the bound does not stop is the hold and the tail.
CwInv ==
  /\ CwTypeOK
  /\ TransmissionWhole
  /\ CarrierOccupies
  /\ resting => detector = Shut /\ collected = 0
  /\ ~capturing => detector = Shut
  /\ detector.open => collected # 0 /\ tail = 0
  /\ collected <= MaxCollected + detector.below + tail

LEMMA CwConstants ==
  /\ OpenHold \in Nat /\ OpenHold > 0 /\ CloseHold \in Nat /\ CloseHold > 0
  /\ TailChunks \in Nat /\ TailChunks > 0 /\ MaxCollected \in Nat
BY CwAssumption

LEMMA ShutDetector ==
  /\ Shut \in [open : BOOLEAN, above : 0..OpenHold, below : 0..CloseHold]
  /\ ~Shut.open /\ Shut.below = 0
BY CwConstants DEF Shut

LEMMA CwListening == ASSUME CwInv, NEW loud \in BOOLEAN, ListeningChunk(loud) PROVE CwInv'
<1> USE CwConstants DEF CwInv, CwTypeOK, TransmissionWhole, CarrierOccupies
<1>0. Present = detector
      BY DEF Present
<1>d. /\ detector \in [open : BOOLEAN, above : 0..OpenHold, below : 0..CloseHold]
      /\ detector.open \in BOOLEAN /\ detector.above \in 0..OpenHold /\ detector.below \in 0..CloseHold
      /\ detector' = Updated(detector, loud)
      BY <1>0 DEF ListeningChunk
<1>1. /\ detector' \in [open : BOOLEAN, above : 0..OpenHold, below : 0..CloseHold]
      /\ detector'.open \in BOOLEAN
      /\ loud /\ detector.open => detector'.open
      /\ ~loud /\ detector'.open => detector.open /\ detector'.below = detector.below + 1
      /\ ~loud /\ ~detector'.open => detector'.below >= detector.below
      /\ detector'.below \in 0..CloseHold
  <2>1. CASE loud
    <3> DEFINE n == Least(detector.above + 1, OpenHold)
    <3>1. n \in 0..OpenHold
          BY <1>d DEF Least
    <3>2. detector' = [open |-> detector.open \/ n = OpenHold, above |-> n, below |-> 0]
          BY <2>1, <1>d DEF Updated
    <3> HIDE DEF n
    <3> QED BY <2>1, <3>1, <3>2, <1>d
  <2>2. CASE ~loud
    <3> DEFINE n == Least(detector.below + 1, CloseHold)
    <3>1. n \in 0..CloseHold /\ n >= detector.below /\ (n < CloseHold => n = detector.below + 1)
          BY <1>d DEF Least
    <3>2. detector' = [open |-> detector.open /\ n < CloseHold, above |-> 0, below |-> n]
          BY <2>2, <1>d DEF Updated
    <3> HIDE DEF n
    <3> QED BY <2>2, <3>1, <3>2, <1>d
  <2> QED BY <2>1, <2>2
<1>2. occupied' \in BOOLEAN /\ (detector'.open => occupied')
      BY <1>0, <1>1, <1>d DEF ListeningChunk, Occupied
<1>3. /\ paused' = paused /\ resting' = FALSE /\ capturing /\ capturing' = capturing /\ (loud => collected < MaxCollected)
      /\ collected \in Nat /\ tail \in 0..(TailChunks - 1) /\ span \in Nat /\ hushed \in 0..(TailChunks - 1)
      /\ span' = (IF collected' = 0 THEN 0 ELSE span + 1)
      /\ hushed' = (IF detector'.open \/ collected' = 0 THEN 0 ELSE hushed + 1)
      BY DEF ListeningChunk
<1>7. /\ owed' = (detector'.open \/ (owed /\ hushed + 1 < TailChunks))
      /\ paused \in BOOLEAN /\ paused' \in BOOLEAN /\ resting' \in BOOLEAN
      BY DEF ListeningChunk
<1>8. owed' \in BOOLEAN
      BY <1>7
<1>9. owed' <=> (detector'.open \/ (owed /\ hushed + 1 < TailChunks))
      BY <1>7
<1>4. CASE detector'.open /\ Collect
  <2>1. collected' = collected + 1 /\ tail' = 0
        BY <1>4 DEF Collect
  <2>2. collected' <= MaxCollected + detector'.below + tail'
        BY <1>1, <1>3, <1>4, <1>d, <2>1
  <2>3. CwTypeOK'
        BY <1>1, <1>2, <1>3, <1>7, <1>8, <1>9, <1>4, <2>1, <2>2
  <2> QED BY <1>1, <1>2, <1>3, <1>7, <1>8, <1>9, <1>4, <2>1, <2>2, <2>3
<1>5. CASE ~detector'.open /\ collected # 0 /\ CollectTail
  <2>1. CASE tail + 1 >= TailChunks
    <3>1. collected' = 0 /\ tail' = 0
          BY <1>5, <2>1 DEF CollectTail
    <3> QED BY <1>1, <1>2, <1>3, <1>7, <1>8, <1>9, <1>5, <1>d, <2>1, <3>1
  <2>2. CASE ~(tail + 1 >= TailChunks)
    <3>1. collected' = collected + 1 /\ tail' = tail + 1
          BY <1>5, <2>2 DEF CollectTail
    <3>2. collected' <= MaxCollected + detector'.below + tail'
          BY <1>1, <1>3, <1>7, <1>8, <1>9, <1>5, <1>d, <3>1
    <3> QED BY <1>1, <1>2, <1>3, <1>7, <1>8, <1>9, <1>5, <1>d, <2>2, <3>1, <3>2
  <2> QED BY <2>1, <2>2
<1>6. CASE ~detector'.open /\ collected = 0 /\ UNCHANGED <<collected, tail>>
      BY <1>1, <1>2, <1>3, <1>7, <1>8, <1>9, <1>6, <1>d
<1> QED BY <1>4, <1>5, <1>6 DEF ListeningChunk

LEMMA CwResting == ASSUME CwInv, RestingChunk PROVE CwInv'
<1>0. /\ capturing' \in BOOLEAN /\ paused' \in BOOLEAN /\ resting' \in BOOLEAN
      /\ occupied' \in BOOLEAN /\ owed' \in BOOLEAN /\ ~owed'
      BY DEF RestingChunk, CwInv, CwTypeOK
<1>1. /\ detector' = Shut /\ collected' = 0 /\ tail' \in 0..(TailChunks - 1)
      /\ span' = 0 /\ hushed' = 0
      BY CwConstants DEF RestingChunk, Emptied, CwInv, CwTypeOK
<1>2. /\ detector' \in [open : BOOLEAN, above : 0..OpenHold, below : 0..CloseHold]
      /\ ~detector'.open /\ detector'.below = 0
      BY <1>1, ShutDetector
<1>3. CwTypeOK'
      BY CwConstants, <1>0, <1>1, <1>2 DEF CwTypeOK
<1>4. TransmissionWhole' /\ CarrierOccupies'
      BY <1>0, <1>1, <1>2 DEF TransmissionWhole, CarrierOccupies
<1>5. (detector = Shut /\ collected = 0)'
      BY <1>1
<1>6. collected' <= MaxCollected + detector'.below + tail'
  <2>1. collected' = 0 /\ tail' \in Nat /\ MaxCollected \in Nat
        BY CwConstants, <1>1
  <2>2. detector'.below = 0
        BY <1>2
  <2>3. \A m, x \in Nat : 0 <= m + 0 + x
        OBVIOUS
  <2> QED BY <2>1, <2>2, <2>3, Zenon
<1>7. (detector.open => collected # 0 /\ tail = 0)'
      BY <1>2
<1> QED BY <1>3, <1>4, <1>5, <1>6, <1>7 DEF CwInv

LEMMA CwKept == CwSpec => []CwInv
<1> USE CwConstants
<1>1. CwInit => CwInv
  <2> SUFFICES ASSUME CwInit PROVE CwInv
        OBVIOUS
  <2>1. /\ detector \in [open : BOOLEAN, above : 0..OpenHold, below : 0..CloseHold]
        /\ detector.open = FALSE /\ detector.below = 0
        BY ShutDetector DEF CwInit
  <2>2. /\ paused \in BOOLEAN /\ resting \in BOOLEAN /\ occupied \in BOOLEAN /\ owed \in BOOLEAN
        /\ ~resting /\ ~owed /\ capturing /\ capturing \in BOOLEAN
        BY DEF CwInit
  <2>3. collected = 0 /\ tail = 0 /\ span = 0 /\ hushed = 0
        BY DEF CwInit
  <2> QED BY <2>1, <2>2, <2>3 DEF CwInv, CwTypeOK, TransmissionWhole, CarrierOccupies
<1>2. CwInv /\ [CwNext]_cwVars => CwInv'
  <2> SUFFICES ASSUME CwInv, [CwNext]_cwVars PROVE CwInv'
        OBVIOUS
  <2> USE DEF CwInv, CwTypeOK, TransmissionWhole, CarrierOccupies
  <2>1. CASE PauseCw
        BY <2>1 DEF PauseCw, cwHistory
  <2>2. CASE ResumeCw
        BY <2>2 DEF ResumeCw, cwHistory
  <2>3. CASE RestingChunk
        BY <2>3, CwResting
  <2>4. ASSUME NEW loud \in BOOLEAN, ListeningChunk(loud) PROVE CwInv'
        BY <2>4, CwListening
  <2>5. CASE UNCHANGED cwVars
        BY <2>5 DEF cwVars, cwHistory
  <2>6. CASE LoopEnds
    <3>1. /\ detector' \in [open : BOOLEAN, above : 0..OpenHold, below : 0..CloseHold]
          /\ detector'.open = FALSE /\ detector'.below = 0 /\ detector' = Shut
          BY <2>6, ShutDetector DEF LoopEnds
    <3>2. collected' = 0 /\ tail' = 0 /\ span' = 0 /\ hushed' = 0 /\ ~owed' /\ ~resting'
          BY <2>6 DEF LoopEnds, Emptied
    <3>3. /\ capturing' \in BOOLEAN /\ paused' \in BOOLEAN /\ occupied' \in BOOLEAN
          /\ resting' \in BOOLEAN /\ owed' \in BOOLEAN
          BY <2>6 DEF LoopEnds
    <3> QED BY <3>1, <3>2, <3>3
  <2>7. CASE LoopStarts
    <3>1. ~capturing /\ detector = Shut
          BY <2>7 DEF LoopStarts
    <3> QED BY <2>7, <3>1, ShutDetector DEF LoopStarts, cwHistory
  <2> QED BY <2>1, <2>2, <2>3, <2>4, <2>5, <2>6, <2>7 DEF CwNext
<1> QED BY <1>1, <1>2, PTL DEF CwSpec

\* In CW mode what is decoded is one whole transmission, nothing heard is lost but to a
\* pause or to the end of the loop, and an open squelch keeps the channel marked busy, for any
\* holds and any tail.
THEOREM CwLoopSound == CwSpec => []CwSound
<1>1. CwInv => CwSound
      BY DEF CwInv, CwSound
<1> QED BY <1>1, CwKept, PTL

\* The loop's types: what is collected exceeds the bound of the model by no more than a hold
\* and a tail, and the tail never reaches its end uncleared.
THEOREM CwTyped == CwSpec => []CwTypeOK
<1>1. CwInv => CwTypeOK
      BY DEF CwInv
<1> QED BY <1>1, CwKept, PTL

-----------------------------------------------------------------------------
(* The waterfall. *)

Frames == [0..FrameSize - 1 -> 0..MaxPushed]
LastRow == IF rows = <<>> THEN shown ELSE rows[Len(rows)][0]

\* Besides what the properties say: rows come before what the ring holds, and whole hops go.
RingInv ==
  /\ buf \in [0..Capacity - 1 -> 0..MaxPushed]
  /\ start \in 0..Capacity - 1 /\ fill \in 0..Capacity
  /\ pushed \in 0..MaxPushed /\ shown \in 0..MaxPushed /\ taken \in Nat
  /\ rows \in Seq(Frames) /\ broadcasting \in BOOLEAN
  /\ broadcasting => rows # <<>>
  /\ \E k \in Nat : droppedSamples = HopSize * k
  /\ Latest /\ Unbroken
  /\ LastRow <= pushed - fill

-----------------------------------------------------------------------------
LEMMA RingConstants ==
  /\ FrameSize \in Nat \ {0} /\ HopSize \in Nat \ {0} /\ HopSize <= FrameSize
  /\ Capacity \in Nat \ {0} /\ FrameSize <= Capacity /\ HopSize <= Capacity
  /\ MaxPushed \in Nat \ {0} /\ Chunks \subseteq Nat \ {0}
<1>1. /\ FrameSize \in Nat \ {0} /\ HopSize \in Nat \ {0} /\ HopSize <= FrameSize
      /\ MaxPushed \in Nat \ {0} /\ Chunks \subseteq Nat \ {0} /\ CapacityFrames \in Nat \ {0}
      BY RingAssumption
<1>2. HopSize * CapacityFrames \in Nat
      BY <1>1
<1> QED BY <1>1, <1>2 DEF Capacity

\* Cells of a ring of C.
LEMMA Wrapped ==
  ASSUME NEW C \in Nat \ {0}, NEW x \in Int, -C < x, x < 2 * C
  PROVE  x % C = IF x < 0 THEN x + C ELSE IF x < C THEN x ELSE x - C
OBVIOUS

\* Where a step of d leads, and how far it is from one cell to another.
LEMMA Cell ==
  ASSUME NEW C \in Nat \ {0}, NEW x \in 0..C - 1, NEW d \in 0..C
  PROVE  (x + d) % C \in 0..C - 1
<1> DEFINE u == x + d
<1>1. u \in Int /\ -C < u /\ u < 2 * C
      OBVIOUS
<1> HIDE DEF u
<1>2. u % C = IF u < 0 THEN u + C ELSE IF u < C THEN u ELSE u - C
      BY <1>1, Wrapped
<1>3. u % C \in 0..C - 1
      BY <1>1, <1>2 DEF u
<1> QED BY <1>3 DEF u

LEMMA Gap ==
  ASSUME NEW C \in Nat \ {0}, NEW x \in 0..C - 1, NEW y \in 0..C - 1
  PROVE  (y - x) % C = IF y < x THEN y - x + C ELSE y - x
<1> DEFINE u == y - x
<1>1. u \in Int /\ -C < u /\ u < 2 * C
      OBVIOUS
<1> HIDE DEF u
<1>2. u % C = IF u < 0 THEN u + C ELSE IF u < C THEN u ELSE u - C
      BY <1>1, Wrapped
<1>3. u % C = IF y < x THEN y - x + C ELSE y - x
      BY <1>1, <1>2 DEF u
<1> QED BY <1>3 DEF u

LEMMA WrappedTwice ==
  ASSUME NEW C \in Nat \ {0}, NEW x \in 0..C - 1, NEW d \in 0..C, NEW i \in Nat, d + i < C
  PROVE  (((x + d) % C) + i) % C = (x + (d + i)) % C
<1> DEFINE u == x + d
           s == u % C
           v == s + i
           w == x + (d + i)
<1>1. u \in Int /\ -C < u /\ u < 2 * C /\ w \in Int /\ -C < w /\ w < 2 * C
      OBVIOUS
<1> HIDE DEF u, w
<1>2. s = IF u < 0 THEN u + C ELSE IF u < C THEN u ELSE u - C
      BY <1>1, Wrapped
<1>3. w % C = IF w < 0 THEN w + C ELSE IF w < C THEN w ELSE w - C
      BY <1>1, Wrapped
<1> HIDE DEF s
<1>4. v \in Int /\ -C < v /\ v < 2 * C
      BY <1>1, <1>2 DEF u
<1> HIDE DEF v
<1>5. v % C = IF v < 0 THEN v + C ELSE IF v < C THEN v ELSE v - C
      BY <1>4, Wrapped
<1> DEFINE vm == v % C
           wm == w % C
<1>6. vm = (IF v < 0 THEN v + C ELSE IF v < C THEN v ELSE v - C)
      BY <1>5
<1>7. wm = (IF w < 0 THEN w + C ELSE IF w < C THEN w ELSE w - C)
      BY <1>3
<1> HIDE DEF vm, wm
<1>8. vm = wm
      BY <1>1, <1>2, <1>6, <1>7 DEF u, v, w
<1> QED BY <1>8 DEF vm, wm, v, w, s, u

\* The cell of the i-th sample held after f samples, of which drop go, were followed by n.
LEMMA CellAfter ==
  ASSUME NEW C \in Nat \ {0}, NEW x \in 0..C - 1, NEW f \in 0..C, NEW drop \in 0..f,
         NEW n \in Nat, f - drop + n <= C, NEW i \in 0..f - drop + n - 1
  PROVE  LET c == (((x + drop) % C) + i) % C
             k == (c - ((x + f) % C)) % C
         IN  /\ c \in 0..C - 1
             /\ drop + i >= f => k = drop + i - f
             /\ drop + i < f => c = (x + (drop + i)) % C /\ k >= n
<1> DEFINE u == x + drop
           s == u % C
           v == s + i
           c == v % C
           t == x + f
           e == t % C
           w == c - e
           k == w % C
           y == x + (drop + i)
           z == y % C
<1>1. u \in Int /\ -C < u /\ u < 2 * C /\ t \in Int /\ -C < t /\ t < 2 * C /\ y \in Int
      OBVIOUS
<1> HIDE DEF u, t, y
<1>2. s = IF u < 0 THEN u + C ELSE IF u < C THEN u ELSE u - C
      BY <1>1, Wrapped
<1>3. e = IF t < 0 THEN t + C ELSE IF t < C THEN t ELSE t - C
      BY <1>1, Wrapped
<1> HIDE DEF s, e
<1>4. v \in Int /\ -C < v /\ v < 2 * C
      BY <1>1, <1>2 DEF u
<1> HIDE DEF v
<1>5. c = IF v < 0 THEN v + C ELSE IF v < C THEN v ELSE v - C
      BY <1>4, Wrapped
<1> HIDE DEF c
<1>6. c \in 0..C - 1 /\ e \in 0..C - 1
      BY <1>1, <1>2, <1>3, <1>4, <1>5 DEF u, t, v
<1>7. w \in Int /\ -C < w /\ w < 2 * C
      BY <1>6
<1> HIDE DEF w
<1>8. k = IF w < 0 THEN w + C ELSE IF w < C THEN w ELSE w - C
      BY <1>7, Wrapped
<1> HIDE DEF k
<1>9. drop + i >= f => k = drop + i - f
      BY <1>2, <1>3, <1>5, <1>6, <1>8 DEF u, t, v, w
<1>10. ASSUME drop + i < f PROVE c = z /\ k >= n
  <2>1. -C < y /\ y < 2 * C
        BY <1>10 DEF y
  <2>2. z = IF y < 0 THEN y + C ELSE IF y < C THEN y ELSE y - C
        BY <1>1, <2>1, Wrapped
  <2> HIDE DEF z
  <2> QED BY <1>2, <1>3, <1>5, <1>6, <1>8, <1>10, <2>2 DEF u, t, v, w, y
<1> QED BY <1>6, <1>9, <1>10 DEF u, s, v, c, t, e, w, k, y, z

LEMMA DividedBy ==
  ASSUME NEW d \in Nat \ {0}, NEW x \in Nat
  PROVE  x \div d \in Nat /\ d * (x \div d) <= x /\ x < d * (x \div d) + d
OBVIOUS

LEMMA OnTheGrid ==
  ASSUME NEW d \in Nat \ {0}, NEW k \in Nat
  PROVE  (d * k + 1) % d = 1 % d
OBVIOUS

LEMMA MaxIs ==
  ASSUME NEW x \in Int, NEW y \in Int
  PROVE  Max({x, y}) = IF x <= y THEN y ELSE x
<1> DEFINE m == IF x <= y THEN y ELSE x
<1>1. m \in {x, y} /\ \A z \in {x, y} : m >= z
      OBVIOUS
<1>2. \A o \in {x, y} : (\A z \in {x, y} : o >= z) => o = m
      OBVIOUS
<1> HIDE DEF m
<1>3. Max({x, y}) = m
      BY <1>1, <1>2 DEF Max
<1> QED BY <1>3 DEF m

LEMMA MinIs ==
  ASSUME NEW x \in Int, NEW y \in Int
  PROVE  Min({x, y}) = IF x <= y THEN x ELSE y
<1> DEFINE m == IF x <= y THEN x ELSE y
<1>1. m \in {x, y} /\ \A z \in {x, y} : m <= z
      OBVIOUS
<1>2. \A o \in {x, y} : (\A z \in {x, y} : o <= z) => o = m
      OBVIOUS
<1> HIDE DEF m
<1>3. Min({x, y}) = m
      BY <1>1, <1>2 DEF Min
<1> QED BY <1>3 DEF m

\* As much goes as must, in whole hops, and never more than there is with the new samples.
LEMMA ExcessIs ==
  ASSUME fill \in 0..Capacity, NEW n \in Chunks
  PROVE  /\ Excess(n) \in Nat /\ fill + n - Excess(n) \in 0..Capacity
         /\ \E k \in Nat : Excess(n) = HopSize * k
<1> DEFINE over == Max({0, fill + n - Capacity})
           x == over + (HopSize - 1)
           k == x \div HopSize
           e == HopSize * k
<1>1. fill \in Int /\ n \in Nat /\ HopSize \in Nat \ {0} /\ Capacity \in Nat /\ HopSize <= Capacity
      BY RingConstants
<1>2. over = IF fill + n - Capacity < 0 THEN 0 ELSE fill + n - Capacity
      BY <1>1, MaxIs
<1> HIDE DEF over
<1>3. x \in Nat
  <2>1. over \in Nat /\ HopSize - 1 \in Nat
        BY <1>1, <1>2
  <2> QED BY <2>1
<1> HIDE DEF x
<1>4. k \in Nat /\ e <= x /\ x < e + HopSize
      BY <1>1, <1>3, DividedBy
<1> HIDE DEF k
<1>5. e \in Nat
      BY <1>1, <1>4
<1>6. Excess(n) = e
  <2>1. over + HopSize - 1 = x
        BY <1>1, <1>2 DEF x
  <2> QED BY <2>1 DEF Excess, e, k, over
<1>7. \E j \in Nat : Excess(n) = HopSize * j
      BY <1>4, <1>6 DEF e
<1>10. e = 0 \/ e >= HopSize
      BY <1>1, <1>4
<1> HIDE DEF e
<1>8. over <= e /\ e < over + HopSize
      BY <1>1, <1>2, <1>4, <1>5 DEF x
<1>9. fill + n - e \in 0..Capacity
      BY <1>1, <1>2, <1>5, <1>8, <1>10
<1> QED BY <1>5, <1>6, <1>7, <1>9

-----------------------------------------------------------------------------
LEMMA RingInitial == RingInit => RingInv
<1> SUFFICES ASSUME RingInit PROVE RingInv
      OBVIOUS
<1>1. HopSize * 0 = 0 /\ HopSize * taken = 0 /\ 0 \in 0..Capacity - 1 /\ 0 \in 0..MaxPushed
      BY RingConstants DEF RingInit
<1>2. buf \in [0..Capacity - 1 -> 0..MaxPushed]
      BY <1>1 DEF RingInit
<1>3. rows = <<>> /\ rows \in Seq(Frames) /\ DOMAIN rows = {}
      BY DEF RingInit
<1>4. Latest
  <2>1. 0..fill - 1 = {}
        BY DEF RingInit
  <2> QED BY <1>1, <2>1 DEF Latest, RingInit
<1>5. Unbroken
      BY <1>3 DEF Unbroken
<1>6. \E k \in Nat : droppedSamples = HopSize * k
      BY <1>1 DEF RingInit
<1>7. LastRow <= pushed - fill
      BY DEF LastRow, RingInit
<1> QED BY <1>1, <1>2, <1>3, <1>4, <1>5, <1>6, <1>7, RingConstants DEF RingInv, RingInit

\* What is so before every step.
LEMMA RingNow ==
  ASSUME RingInv
  PROVE  /\ buf \in [0..Capacity - 1 -> 0..MaxPushed] /\ start \in 0..Capacity - 1 /\ fill \in 0..Capacity
         /\ pushed \in Nat /\ fill \in Nat /\ taken \in Nat /\ shown \in 0..MaxPushed /\ rows \in Seq(Frames)
         /\ DOMAIN rows = 1..Len(rows) /\ Len(rows) \in Nat
         /\ \A r \in 1..Len(rows) : rows[r] \in Frames
         /\ pushed \in 0..MaxPushed
BY RingConstants DEF RingInv

\* What is written, cell by cell.
LEMMA WrittenIs ==
  ASSUME NEW p, NEW a, NEW b, NEW c \in 0..Capacity - 1
  PROVE  Written(p, a, b)[c] = IF (c - p) % Capacity <= b - a THEN a + ((c - p) % Capacity) ELSE buf[c]
BY Zenon DEF Written

LEMMA LastRowTyped == RingInv => LastRow \in Int
<1> SUFFICES ASSUME RingInv PROVE LastRow \in Int
      OBVIOUS
<1>1. CASE rows = <<>>
      BY <1>1, RingNow DEF LastRow
<1>2. CASE rows # <<>>
  <2>1. Len(rows) \in 1..Len(rows)
        BY <1>2, RingNow
  <2>2. rows[Len(rows)] \in Frames /\ 0 \in 0..FrameSize - 1
        BY <2>1, RingNow, RingConstants
  <2>3. rows[Len(rows)][0] \in 0..MaxPushed
        BY <2>2 DEF Frames
  <2> QED BY <1>2, <2>3 DEF LastRow
<1> QED BY <1>1, <1>2

LEMMA PushKeeps ==
  ASSUME RingInv, NEW n \in Chunks, Push(n)
  PROVE  RingInv'
<1> DEFINE drop == Excess(n)
           skip == Min({drop - fill, n})
<1>1. n \in Nat /\ drop \in Nat /\ fill + n - drop \in 0..Capacity
      BY ExcessIs, RingConstants, RingNow
<1>2. PICK k \in Nat : drop = HopSize * k
      BY ExcessIs, RingNow
<1>3. PICK j \in Nat : droppedSamples = HopSize * j
      BY DEF RingInv
<1>4. HopSize * (j + k) = HopSize * j + HopSize * k /\ j + k \in Nat
      BY RingConstants
<1> HIDE DEF drop
<1>5. skip = drop - fill
  <2>1. drop - fill <= n
        BY <1>1, RingNow, SMTT(60)
  <2> QED BY <1>1, <2>1, RingNow, MinIs, SMTT(60)
<1> HIDE DEF skip
<1>6. /\ pushed' = pushed + n /\ pushed' \in 0..MaxPushed
      /\ UNCHANGED <<taken, rows, broadcasting, shown>>
  <2>1. pushed' = pushed + n /\ pushed + n <= MaxPushed
        BY Zenon DEF Push
  <2>2. UNCHANGED <<taken, rows, broadcasting, shown>>
        BY Zenon DEF Push
  <2> QED BY <1>1, <2>1, <2>2, RingNow, RingConstants, SMTT(60)
<1> DEFINE first == pushed + skip + 1
           pos == (start + fill) % Capacity
<1>7. \/ /\ drop <= fill /\ start' = (start + drop) % Capacity /\ fill' = fill - drop + n
         /\ droppedSamples' = droppedSamples + drop /\ buf' = Written(pos, pushed + 1, pushed + n)
      \/ /\ drop > fill /\ start' = 0 /\ fill' = n - skip
         /\ droppedSamples' = droppedSamples + fill + skip /\ buf' = Written(0, first, pushed + n)
      BY Zenon DEF Push, drop, skip
<1>14. /\ Capacity \in Nat \ {0} /\ start \in 0..Capacity - 1 /\ fill \in 0..Capacity /\ fill \in Nat
       /\ pushed \in Nat /\ MaxPushed \in Nat /\ buf \in [0..Capacity - 1 -> 0..MaxPushed]
      BY RingConstants, RingNow
<1>13. droppedSamples \in Nat
  <2> DEFINE m == HopSize * j
  <2>1. m \in Nat /\ droppedSamples = m
        BY <1>3, RingConstants
  <2> HIDE DEF m
  <2> QED BY <2>1
<1>8. /\ fill' = fill + n - drop /\ fill' \in 0..Capacity /\ droppedSamples' = droppedSamples + drop
      /\ start' \in 0..Capacity - 1 /\ buf' \in [0..Capacity - 1 -> 0..MaxPushed]
      /\ \A i \in 0..fill' - 1 : buf'[(start' + i) % Capacity] = pushed' - fill' + i + 1
  <2>1. CASE drop <= fill
    <3>1. /\ start' = (start + drop) % Capacity /\ fill' = fill - drop + n
          /\ droppedSamples' = droppedSamples + drop /\ buf' = Written(pos, pushed + 1, pushed + n)
          BY <1>1, <1>7, <2>1, RingNow
    <3>2. fill' = fill + n - drop /\ fill' \in 0..Capacity
          BY <1>1, <3>1, RingNow, SMTT(60)
    <3>3. start' \in 0..Capacity - 1
      <4>1. drop \in 0..Capacity
            BY <1>1, <2>1, <1>14
      <4>2. (start + drop) % Capacity \in 0..Capacity - 1
            BY <1>14, <4>1, Cell, Zenon
      <4> QED BY <3>1, <4>2
    <3>4. pos \in 0..Capacity - 1
          BY Cell, RingConstants, RingNow
    <3> HIDE DEF pos
    <3>5. ASSUME NEW c \in 0..Capacity - 1, NEW g, g = (c - pos) % Capacity
          PROVE  /\ g \in 0..Capacity - 1
                 /\ buf'[c] = IF g <= n - 1 THEN pushed + 1 + g ELSE buf[c]
      <4>1. g \in 0..Capacity - 1
        <5>1. (c - pos) % Capacity = IF c < pos THEN c - pos + Capacity ELSE c - pos
              BY <3>4, Gap, RingConstants
        <5>2. g = IF c < pos THEN c - pos + Capacity ELSE c - pos
              BY <3>5, <5>1
        <5> QED BY <3>4, <5>2, RingConstants
      <4>2. buf'[c] = IF (c - pos) % Capacity <= (pushed + n) - (pushed + 1)
                      THEN pushed + 1 + ((c - pos) % Capacity) ELSE buf[c]
        <5>1. buf'[c] = Written(pos, pushed + 1, pushed + n)[c]
              BY <3>1
        <5>2. Written(pos, pushed + 1, pushed + n)[c] =
                IF (c - pos) % Capacity <= (pushed + n) - (pushed + 1)
                THEN pushed + 1 + ((c - pos) % Capacity) ELSE buf[c]
              BY WrittenIs, Zenon
        <5> QED BY <5>1, <5>2, Zenon
      <4>3. buf'[c] = IF g <= (pushed + n) - (pushed + 1) THEN pushed + 1 + g ELSE buf[c]
            BY <3>5, <4>2, Zenon
      <4> QED BY <1>1, <4>1, <4>3, RingNow, SMTT(60)
    <3>6. buf' \in [0..Capacity - 1 -> 0..MaxPushed]
      <4>1. ASSUME NEW c \in 0..Capacity - 1 PROVE buf'[c] \in 0..MaxPushed
        <5> DEFINE g == (c - pos) % Capacity
        <5>1. g \in 0..Capacity - 1 /\ buf'[c] = IF g <= n - 1 THEN pushed + 1 + g ELSE buf[c]
              BY <3>5, Zenon
        <5> HIDE DEF g
        <5>2. buf[c] \in 0..MaxPushed
              BY <1>14, <4>1
        <5> QED BY <1>1, <1>6, <1>14, <5>1, <5>2
      <4>2. buf' = [c \in 0..Capacity - 1 |-> buf'[c]]
            BY <3>1, Zenon DEF Written
      <4> QED BY <4>1, <4>2, Zenon
    <3>7. ASSUME NEW i \in 0..fill' - 1
          PROVE  buf'[(start' + i) % Capacity] = pushed' - fill' + i + 1
      <4> DEFINE c == (((start + drop) % Capacity) + i) % Capacity
                 g == (c - pos) % Capacity
                 h == (start + (drop + i)) % Capacity
      <4>1. i \in Nat /\ i \in 0..fill - drop + n - 1 /\ drop \in 0..fill
            BY <1>1, <1>14, <2>1, <3>2, <3>7
      <4>2. /\ c \in 0..Capacity - 1
            /\ drop + i >= fill => g = drop + i - fill
            /\ drop + i < fill => c = h /\ g >= n
        <5>1. fill - drop + n <= Capacity
              BY <1>1, <1>14
        <5> QED BY <1>1, <1>14, <4>1, <5>1, CellAfter, Zenon DEF pos
      <4> HIDE DEF c
      <4>3. g \in 0..Capacity - 1 /\ buf'[c] = IF g <= n - 1 THEN pushed + 1 + g ELSE buf[c]
            BY <3>5, <4>2, Zenon
      <4>4. ASSUME drop + i < fill PROVE buf[h] = pushed - fill + (drop + i) + 1
        <5>1. drop + i \in 0..fill - 1
              BY <1>1, <4>1, <4>4, RingNow, SMTT(60)
        <5> QED BY <5>1 DEF RingInv, Latest
      <4> HIDE DEF g, h
      <4>5. buf'[c] = pushed' - fill' + i + 1
            BY <1>1, <1>6, <1>14, <3>2, <4>1, <4>2, <4>3, <4>4
      <4> QED BY <3>1, <4>5 DEF c
    <3> QED BY <3>1, <3>2, <3>3, <3>6, <3>7
  <2>2. CASE drop > fill
    <3>1. /\ start' = 0 /\ fill' = n - skip
          /\ droppedSamples' = droppedSamples + fill + skip /\ buf' = Written(0, first, pushed + n)
          BY <1>1, <1>7, <2>2, RingNow
    <3>2. /\ fill' = fill + n - drop /\ fill' \in 0..Capacity
          BY <1>1, <1>5, <1>14, <2>2, <3>1
    <3>3. droppedSamples' = droppedSamples + drop
      <4>1. droppedSamples \in Nat
            BY <1>13
      <4> QED BY <1>1, <1>5, <2>2, <3>1, <4>1, RingNow, SMTT(60)
    <3>4. first \in Nat /\ first = pushed + (drop - fill) + 1 /\ skip \in 0..n
          BY <1>1, <1>5, <2>2, RingNow, SMTT(60)
    <3> HIDE DEF first
    <3>5. ASSUME NEW c \in 0..Capacity - 1
          PROVE  buf'[c] = IF c <= (pushed + n) - first THEN first + c ELSE buf[c]
      <4>1. (c - 0) % Capacity = c
        <5>1. 0 \in 0..Capacity - 1
              BY RingConstants
        <5>2. (c - 0) % Capacity = IF c < 0 THEN c - 0 + Capacity ELSE c - 0
              BY <5>1, Gap, RingConstants
        <5> QED BY <5>2
      <4>2. buf'[c] = IF (c - 0) % Capacity <= (pushed + n) - first
                      THEN first + ((c - 0) % Capacity) ELSE buf[c]
        <5>1. buf'[c] = Written(0, first, pushed + n)[c]
              BY <3>1
        <5>2. Written(0, first, pushed + n)[c] =
                IF (c - 0) % Capacity <= (pushed + n) - first
                THEN first + ((c - 0) % Capacity) ELSE buf[c]
              BY WrittenIs, Zenon
        <5> QED BY <5>1, <5>2, Zenon
      <4> QED BY <4>1, <4>2, Zenon
    <3>6. buf' \in [0..Capacity - 1 -> 0..MaxPushed]
      <4>1. ASSUME NEW c \in 0..Capacity - 1 PROVE buf'[c] \in 0..MaxPushed
        <5>1. buf[c] \in 0..MaxPushed
              BY <1>14, <4>1
        <5> QED BY <1>1, <1>6, <1>14, <3>4, <3>5, <4>1, <5>1
      <4>2. buf' = [c \in 0..Capacity - 1 |-> buf'[c]]
            BY <3>1, Zenon DEF Written
      <4> QED BY <4>1, <4>2, Zenon
    <3>7. ASSUME NEW i \in 0..fill' - 1
          PROVE  buf'[(start' + i) % Capacity] = pushed' - fill' + i + 1
      <4>1. (start' + i) % Capacity = i /\ i \in 0..Capacity - 1
        <5>1. i \in 0..Capacity - 1 /\ 0 \in 0..Capacity - 1
              BY <3>2, RingConstants
        <5>2. (i - 0) % Capacity = IF i < 0 THEN i - 0 + Capacity ELSE i - 0
              BY <5>1, Gap, RingConstants
        <5>3. start' + i = i - 0
              BY <3>1, <5>1
        <5> QED BY <5>1, <5>2, <5>3
      <4>2. buf'[i] = IF i <= (pushed + n) - first THEN first + i ELSE buf[i]
            BY <3>5, <4>1
      <4>3. buf'[i] = pushed' - fill' + i + 1
            BY <1>1, <1>6, <1>14, <3>2, <3>4, <3>7, <4>1, <4>2
      <4> QED BY <4>1, <4>3
    <3>8. start' \in 0..Capacity - 1
          BY <3>1, RingConstants
    <3> QED BY <3>2, <3>3, <3>6, <3>7, <3>8
  <2> QED BY <1>1, <2>1, <2>2, RingNow, SMTT(60)
<1>9. pushed' = fill' + HopSize * taken' + droppedSamples'
  <2> DEFINE m == HopSize * taken
  <2>1. m \in Nat /\ pushed = fill + m + droppedSamples /\ droppedSamples \in Nat
        BY <1>3, RingNow, RingConstants DEF RingInv, Latest
  <2> HIDE DEF m
  <2>2. pushed' = fill' + m + droppedSamples'
        BY <1>1, <1>6, <1>8, <1>14, <2>1
  <2> QED BY <1>6, <2>2 DEF m
<1>10. Unbroken' /\ LastRow' = LastRow
      BY <1>6 DEF Unbroken, LastRow, RingInv
<1>11. LastRow' <= pushed' - fill'
  <2>1. LastRow \in Int /\ LastRow <= pushed - fill
    <3>1. LastRow \in Int
          BY LastRowTyped
    <3> QED BY <3>1 DEF RingInv
  <2>2. pushed' - fill' = pushed - fill + drop
        BY <1>1, <1>6, <1>8, RingNow, SMTT(60)
  <2> QED BY <1>1, <1>10, <2>1, <2>2, RingNow, SMTT(60)
<1>12. \E i \in Nat : droppedSamples' = HopSize * i
      BY <1>2, <1>3, <1>4, <1>8
<1> QED BY <1>6, <1>8, <1>9, <1>10, <1>11, <1>12 DEF RingInv, Latest

LEMMA PopKeeps ==
  ASSUME RingInv, PopFrame
  PROVE  RingInv'
<1> DEFINE base == pushed - fill
           m == Len(rows)
           d == HopSize * taken
<1>1. /\ ~broadcasting /\ fill >= FrameSize /\ rows' = Append(rows, Frame)
      /\ start' = (start + HopSize) % Capacity /\ fill' = fill - HopSize /\ taken' = taken + 1
      /\ UNCHANGED <<buf, droppedSamples, pushed, broadcasting, shown>>
      BY Zenon DEF PopFrame
<1>2. /\ Capacity \in Nat \ {0} /\ FrameSize \in Nat \ {0} /\ HopSize \in Nat \ {0} /\ HopSize <= FrameSize
      /\ HopSize \in 0..Capacity /\ MaxPushed \in Nat /\ fill \in Nat /\ fill <= Capacity
      /\ start \in 0..Capacity - 1 /\ pushed \in 0..MaxPushed /\ taken \in Nat /\ m \in Nat
      BY RingConstants, RingNow
<1>3. PICK k \in Nat : droppedSamples = HopSize * k
      BY DEF RingInv
<1>4. HopSize * (taken + 1) = d + HopSize /\ HopSize * (taken + k) = d + HopSize * k
      /\ taken + k \in Nat /\ d \in Nat /\ droppedSamples \in Nat
      BY <1>2, <1>3
<1>5. pushed = fill + d + droppedSamples
      BY DEF RingInv, Latest
<1> HIDE DEF d
<1>6. base \in 0..MaxPushed - 1
  <2>1. fill > 0
        BY <1>1, <1>2
  <2> QED BY <1>2, <1>4, <1>5, <2>1
<1>7. base + 1 = HopSize * (taken + k) + 1
      BY <1>2, <1>3, <1>4, <1>5
<1>8. (base + 1) % HopSize = 1 % HopSize
      BY <1>2, <1>4, <1>7, OnTheGrid
<1>9. ASSUME NEW i \in 0..FrameSize - 1
      PROVE  Frame[i] = base + i + 1 /\ Frame[i] \in 0..MaxPushed
  <2>1. i \in 0..fill - 1
        BY <1>1, <1>2
  <2>2. Frame[i] = buf[(start + i) % Capacity]
        BY <1>9, Zenon DEF Frame
  <2>3. buf[(start + i) % Capacity] = pushed - fill + i + 1
        BY <2>1 DEF RingInv, Latest
  <2>4. Frame[i] = base + i + 1
        BY <2>2, <2>3
  <2> QED BY <1>2, <1>4, <1>5, <2>1, <2>4
<1>10. Frame \in Frames
  <2>1. Frame = [i \in 0..FrameSize - 1 |-> Frame[i]]
        BY Zenon DEF Frame
  <2> QED BY <1>9, <2>1, Zenon DEF Frames
<1>11. start' \in 0..Capacity - 1
  <2>1. (start + HopSize) % Capacity \in 0..Capacity - 1
        BY <1>2, Cell, Zenon
  <2> QED BY <1>1, <2>1
<1>12. fill' \in 0..Capacity /\ taken' \in Nat
      BY <1>1, <1>2
<1>13. Latest'
  <2>1. ASSUME NEW i \in 0..fill' - 1
        PROVE  buf'[(start' + i) % Capacity] = pushed' - fill' + i + 1
    <3> DEFINE h == (start + (HopSize + i)) % Capacity
               c == (((start + HopSize) % Capacity) + i) % Capacity
    <3>1. i \in Nat /\ HopSize + i < Capacity /\ HopSize + i \in 0..fill - 1
          BY <1>1, <1>2, <2>1
    <3>2. c = h
          BY <1>2, <3>1, WrappedTwice, Zenon
    <3>3. buf[h] = pushed - fill + (HopSize + i) + 1
          BY <3>1 DEF RingInv, Latest
    <3> HIDE DEF h, c
    <3>4. buf'[c] = pushed' - fill' + i + 1
          BY <1>1, <1>2, <3>1, <3>2, <3>3
    <3> QED BY <1>1, <3>4 DEF c
  <2>2. pushed' = fill' + HopSize * taken' + droppedSamples'
    <3>1. pushed' = fill' + (d + HopSize) + droppedSamples'
          BY <1>1, <1>2, <1>4, <1>5
    <3> QED BY <1>1, <1>4, <3>1
  <2> QED BY <2>1, <2>2 DEF Latest
<1>14. /\ rows' \in Seq(Frames) /\ Len(rows') = m + 1 /\ DOMAIN rows' = 1..m + 1 /\ rows' # <<>>
       /\ rows'[m + 1] = Frame /\ \A r \in 1..m : rows'[r] = rows[r]
  <2>1. rows \in Seq(Frames)
        BY RingNow
  <2>2. rows' \in Seq(Frames) /\ Len(rows') = m + 1 /\ DOMAIN rows' = 1..Len(rows')
        BY <1>1, <1>10, <2>1
  <2>3. rows'[m + 1] = Frame /\ \A r \in 1..m : rows'[r] = rows[r]
        BY <1>1, <1>10, <2>1
  <2>4. rows' # <<>>
        BY <1>2, <2>2
  <2> QED BY <2>2, <2>3, <2>4
<1>15. \A r \in 1..m : /\ \A i \in 0..FrameSize - 1 : rows[r][i] = rows[r][0] + i
                       /\ rows[r][0] % HopSize = 1 % HopSize
                       /\ rows[r][0] > IF r = 1 THEN shown ELSE rows[r - 1][0]
      BY RingNow DEF RingInv, Unbroken
<1>16. Frame[0] = base + 1
  <2>1. 0 \in 0..FrameSize - 1
        BY <1>2
  <2> QED BY <1>6, <1>9, <2>1
<1>17. Frame[0] > LastRow
  <2>1. LastRow \in Int /\ LastRow <= base
        BY LastRowTyped DEF RingInv
  <2> QED BY <1>6, <1>16, <2>1
<1>18. Unbroken'
  <2> SUFFICES ASSUME NEW r \in 1..m + 1
               PROVE  /\ \A i \in 0..FrameSize - 1 : rows'[r][i] = rows'[r][0] + i
                      /\ rows'[r][0] % HopSize = 1 % HopSize
                      /\ rows'[r][0] > IF r = 1 THEN shown' ELSE rows'[r - 1][0]
        BY <1>14 DEF Unbroken
  <2>1. CASE r <= m
    <3>1. r \in 1..m /\ (r # 1 => r - 1 \in 1..m)
          BY <1>2, <2>1
    <3>2. rows'[r] = rows[r] /\ (r # 1 => rows'[r - 1] = rows[r - 1]) /\ shown' = shown
          BY <1>1, <1>14, <3>1
    <3>3. /\ \A i \in 0..FrameSize - 1 : rows[r][i] = rows[r][0] + i
          /\ rows[r][0] % HopSize = 1 % HopSize
          /\ rows[r][0] > IF r = 1 THEN shown ELSE rows[r - 1][0]
          BY <1>15, <3>1, Zenon
    <3>4. (IF r = 1 THEN shown' ELSE rows'[r - 1][0]) = (IF r = 1 THEN shown ELSE rows[r - 1][0])
          BY <3>2
    <3> QED BY <3>2, <3>3, <3>4, Zenon
  <2>2. CASE r = m + 1
    <3>1. rows'[r] = Frame
          BY <1>14, <2>2
    <3>2. \A i \in 0..FrameSize - 1 : Frame[i] = Frame[0] + i
          BY <1>2, <1>6, <1>9, <1>16
    <3>3. Frame[0] % HopSize = 1 % HopSize
          BY <1>8, <1>16
    <3>4. Frame[0] > IF r = 1 THEN shown' ELSE rows'[r - 1][0]
      <4>1. CASE m = 0
        <5>1. rows = <<>> /\ r = 1
              BY <1>2, <2>2, <4>1, RingNow
        <5> QED BY <1>1, <1>17, <5>1 DEF LastRow
      <4>2. CASE m # 0
        <5>1. m \in 1..m /\ r - 1 = m /\ r # 1 /\ rows # <<>>
              BY <1>2, <2>2, <4>2
        <5>2. rows'[r - 1] = rows[m] /\ LastRow = rows[m][0]
              BY <1>14, <5>1 DEF LastRow
        <5> QED BY <1>17, <5>1, <5>2
      <4> QED BY <4>1, <4>2
    <3> QED BY <3>1, <3>2, <3>3, <3>4, Zenon
  <2> QED BY <1>2, <2>1, <2>2
<1>19. LastRow' <= pushed' - fill'
  <2>1. LastRow' = Frame[0]
        BY <1>14 DEF LastRow
  <2>2. pushed' - fill' = base + HopSize
        BY <1>1, <1>2
  <2> QED BY <1>2, <1>6, <1>16, <2>1, <2>2
<1>20. /\ buf' \in [0..Capacity - 1 -> 0..MaxPushed] /\ pushed' \in 0..MaxPushed /\ shown' \in 0..MaxPushed
       /\ \E i \in Nat : droppedSamples' = HopSize * i
      BY <1>1, <1>3, RingNow
<1>21. broadcasting' \in BOOLEAN /\ (broadcasting' => rows' # <<>>)
  <2>1. broadcasting' = broadcasting
        BY <1>1
  <2> QED BY <1>14, <2>1 DEF RingInv
<1> QED BY <1>11, <1>12, <1>13, <1>14, <1>18, <1>19, <1>20, <1>21 DEF RingInv

LEMMA BroadcastKeeps ==
  ASSUME RingInv, BroadcastRow
  PROVE  RingInv'
<1> DEFINE m == Len(rows)
<1>1. /\ broadcasting /\ shown' = Head(rows)[0] /\ rows' = Tail(rows)
      /\ broadcasting' = (Tail(rows) # <<>>)
      /\ UNCHANGED <<buf, start, fill, droppedSamples, pushed, taken>>
      BY Zenon DEF BroadcastRow
<1>2. rows # <<>>
      BY <1>1 DEF RingInv
<1>3. m \in Nat /\ m >= 1 /\ rows \in Seq(Frames)
      BY <1>2, RingNow
<1>4. Head(rows) = rows[1] /\ rows' \in Seq(Frames) /\ Len(rows') = m - 1 /\ DOMAIN rows' = 1..m - 1
  <2>1. Head(rows) = rows[1] /\ rows' \in Seq(Frames) /\ Len(rows') = m - 1
        BY <1>1, <1>2, <1>3
  <2> QED BY <2>1
<1>5. \A r \in 1..m - 1 : rows'[r] = rows[r + 1]
      BY <1>1, <1>2, <1>3
<1>6. \A r \in 1..m : /\ \A i \in 0..FrameSize - 1 : rows[r][i] = rows[r][0] + i
                      /\ rows[r][0] % HopSize = 1 % HopSize
                      /\ rows[r][0] > IF r = 1 THEN shown ELSE rows[r - 1][0]
      BY RingNow DEF RingInv, Unbroken
<1>7. shown' = rows[1][0] /\ shown' \in 0..MaxPushed
  <2>1. rows[1] \in Frames /\ 0 \in 0..FrameSize - 1
        BY <1>3, RingNow, RingConstants
  <2>2. rows[1][0] \in 0..MaxPushed
        BY <2>1 DEF Frames
  <2> QED BY <1>1, <1>4, <2>2
<1>8. Unbroken'
  <2> SUFFICES ASSUME NEW r \in 1..m - 1
               PROVE  /\ \A i \in 0..FrameSize - 1 : rows'[r][i] = rows'[r][0] + i
                      /\ rows'[r][0] % HopSize = 1 % HopSize
                      /\ rows'[r][0] > IF r = 1 THEN shown' ELSE rows'[r - 1][0]
        BY <1>4 DEF Unbroken
  <2>1. r + 1 \in 1..m /\ r + 1 # 1 /\ (r + 1) - 1 = r /\ rows'[r] = rows[r + 1]
        BY <1>3, <1>5
  <2>2. r # 1 => rows'[r - 1] = rows[r]
    <3>1. r # 1 => r - 1 \in 1..m - 1 /\ (r - 1) + 1 = r
          BY <1>3
    <3> QED BY <1>5, <3>1
  <2>3. (IF r = 1 THEN shown' ELSE rows'[r - 1][0]) = rows[r][0]
        BY <1>7, <2>2
  <2>4. /\ \A i \in 0..FrameSize - 1 : rows[r + 1][i] = rows[r + 1][0] + i
        /\ rows[r + 1][0] % HopSize = 1 % HopSize
        /\ rows[r + 1][0] > IF r + 1 = 1 THEN shown ELSE rows[(r + 1) - 1][0]
        BY <1>6, <2>1, Zenon
  <2>5. rows[r + 1][0] > rows[r][0]
        BY <2>1, <2>4
  <2> QED BY <2>1, <2>3, <2>4, <2>5, Zenon
<1>9. LastRow' = LastRow
  <2>1. CASE m = 1
    <3>1. rows' = <<>>
          BY <1>4, <2>1
    <3> QED BY <1>2, <1>7, <2>1, <3>1 DEF LastRow
  <2>2. CASE m # 1
    <3>1. rows' # <<>> /\ m - 1 \in 1..m - 1 /\ (m - 1) + 1 = m
          BY <1>3, <1>4, <2>2
    <3>2. rows'[m - 1] = rows[m]
          BY <1>5, <3>1
    <3> QED BY <1>2, <1>4, <3>1, <3>2 DEF LastRow
  <2> QED BY <2>1, <2>2
<1>10. Latest'
      BY <1>1 DEF RingInv, Latest
<1>11. LastRow' <= pushed' - fill'
      BY <1>1, <1>9 DEF RingInv
<1>12. broadcasting' \in BOOLEAN /\ (broadcasting' => rows' # <<>>)
      BY <1>1
<1>13. /\ buf' \in [0..Capacity - 1 -> 0..MaxPushed] /\ start' \in 0..Capacity - 1 /\ fill' \in 0..Capacity
       /\ pushed' \in 0..MaxPushed /\ taken' \in Nat /\ \E i \in Nat : droppedSamples' = HopSize * i
      BY <1>1 DEF RingInv
<1> QED BY <1>4, <1>7, <1>8, <1>10, <1>11, <1>12, <1>13 DEF RingInv

LEMMA RingKept ==
  ASSUME RingInv, [RingNext]_ringVars
  PROVE  RingInv'
<1>1. ASSUME NEW n \in Chunks, Push(n) PROVE RingInv'
      BY <1>1, PushKeeps
<1>2. ASSUME PopFrame PROVE RingInv'
      BY <1>2, PopKeeps
<1>3. ASSUME Drained PROVE RingInv'
  <2>1. /\ rows # <<>> /\ broadcasting' = TRUE
        /\ UNCHANGED <<buf, start, fill, droppedSamples, pushed, taken, rows, shown>>
        BY <1>3, Zenon DEF Drained
  <2>2. broadcasting' \in BOOLEAN /\ (broadcasting' => rows' # <<>>)
        BY <2>1
  <2> QED BY <2>1, <2>2 DEF RingInv, Latest, Unbroken, LastRow
<1>4. ASSUME BroadcastRow PROVE RingInv'
      BY <1>4, BroadcastKeeps
<1>5. ASSUME UNCHANGED ringVars PROVE RingInv'
      BY <1>5 DEF ringVars, RingInv, Latest, Unbroken, LastRow
<1> QED BY <1>1, <1>2, <1>3, <1>4, <1>5 DEF RingNext

LEMMA RingSays == RingInv => RingTypeOK /\ RingTrue
<1> SUFFICES ASSUME RingInv PROVE RingTypeOK /\ RingTrue
      OBVIOUS
<1>1. PICK k \in Nat : droppedSamples = HopSize * k
      BY DEF RingInv
<1> DEFINE d == HopSize * taken
           e == HopSize * k
<1>2. d \in Nat /\ e \in Nat /\ droppedSamples = e /\ pushed = fill + d + droppedSamples
  <2>1. taken \in Nat /\ HopSize \in Nat
        BY RingConstants, RingNow
  <2>2. d \in Nat /\ e \in Nat
        BY <2>1
  <2> QED BY <1>1, <2>2 DEF RingInv, Latest
<1> HIDE DEF d, e
<1>3. droppedSamples \in 0..MaxPushed
  <2>1. pushed \in 0..MaxPushed /\ fill \in Nat /\ MaxPushed \in Nat
        BY RingConstants, RingNow
  <2> QED BY <1>2, <2>1
<1>4. rows \in Seq([0..FrameSize - 1 -> 0..MaxPushed])
      BY RingNow DEF Frames
<1>5. RingTypeOK
      BY <1>3, <1>4, RingNow DEF RingTypeOK, RingInv
<1> QED BY <1>5 DEF RingInv, RingTrue

\* The waterfall's ring keeps its types, holds the latest samples whole and in order, and loses
\* none without counting it; no row is computed from samples of two stretches, and rows are
\* shown in the order of time and on the grid of hops (SpectrogramRing and _spectrogram_pump).
THEOREM RingHolds == RingSpec => [](RingTypeOK /\ RingTrue)
<1>1. RingInit => RingInv
      BY RingInitial
<1>2. RingInv /\ [RingNext]_ringVars => RingInv'
      BY RingKept
<1>3. RingInv => RingTypeOK /\ RingTrue
      BY RingSays
<1> QED BY <1>1, <1>2, <1>3, PTL DEF RingSpec

-----------------------------------------------------------------------------
(* The audio taps. *)

Places == {"read", "monitor", "enqueue", "calibration", "feed", "dead"}
Captures == [heard : Audios, active : BOOLEAN]
Sweeps == [to : Desks, audio : Audios, tried : 0..Combos]

\* The last chunk a calibration may have heard.
HeardLast == IF thread \in {"read", "dead"} THEN chunk ELSE chunk - 1

\* h is unbroken, and nothing in it is later than n.
Whole(h, n) ==
  /\ h \in Audios
  /\ \A i \in 1..Len(h) - 1 : h[i + 1] = h[i] + 1
  /\ \A i \in 1..Len(h) : h[i] <= n

\* A capture that goes on has heard chunk n.
Ongoing(c, n) == c.active /\ c.heard # <<>> => c.heard[Len(c.heard)] = n

AudioInv ==
  /\ capture \subseteq Captures /\ sweeps \subseteq Sweeps
  /\ \A c, d \in capture : c = d
  /\ \A c \in capture : Whole(c.heard, HeardLast) /\ (c.active => Len(c.heard) < MaxCapture)
  /\ \A s \in sweeps : Whole(s.audio, HeardLast)
  /\ thread # "dead" => \A c \in capture : Ongoing(c, HeardLast)
  /\ \A s, t \in sweeps : s # t => ToSet(s.audio) \cap ToSet(t.audio) = {}
  /\ \A s \in sweeps, c \in capture : ToSet(s.audio) \cap ToSet(c.heard) = {}

\* The chunk in hand is pushed once, so it is younger than the buffer until then.
BufferInv ==
  /\ buffer \in Seq(ChunkNumbers) /\ Len(buffer) <= MaxBuffer
  /\ \A i \in 1..Len(buffer) : buffer[i] >= played /\ buffer[i] >= since /\ buffer[i] <= chunk
  /\ \A i, j \in 1..Len(buffer) : i < j => buffer[i] <= buffer[j]
  /\ thread \in {"monitor", "enqueue"} => \A i \in 1..Len(buffer) : buffer[i] < chunk

ThreadInv ==
  /\ chunk \in ChunkNumbers /\ played \in ChunkNumbers /\ since \in ChunkNumbers
  /\ played <= chunk /\ since <= chunk
  /\ thread \in Places
  /\ thread \in Places \ {"read", "dead"} => chunk >= 1
  /\ tap \in BOOLEAN /\ stream \in {"none", "playing", "stalled"}

TapsInv == ThreadInv /\ BufferInv /\ AudioInv

-----------------------------------------------------------------------------
LEMMA TapsConstants ==
  /\ MaxChunk \in Nat /\ PerChunk \in Nat \ {0} /\ Block \in Nat \ {0} /\ MaxBuffer \in Nat
  /\ MinCapture \in Nat \ {0} /\ MaxCapture \in Nat \ {0} /\ Combos \in Nat /\ PerChunk <= MaxBuffer
  /\ ChunkNumbers = 0..MaxChunk
BY TapsAssumption DEF ChunkNumbers

LEMMA AudioIs ==
  ASSUME NEW h
  PROVE  h \in Audios <=> h \in Seq(ChunkNumbers) /\ Len(h) <= MaxCapture
<1>1. Audios = UNION {[1..m -> ChunkNumbers] : m \in 0..MaxCapture}
      BY DEF Audios, BoundedSeq, SeqOf
<1>2. ASSUME h \in Audios PROVE h \in Seq(ChunkNumbers) /\ Len(h) <= MaxCapture
  <2>1. PICK m \in 0..MaxCapture : h \in [1..m -> ChunkNumbers]
        BY <1>1, <1>2
  <2>2. m \in Nat /\ m <= MaxCapture
        BY <2>1, TapsConstants
  <2>3. h \in Seq(ChunkNumbers) /\ Len(h) = m
        BY <2>1, <2>2
  <2> QED BY <2>2, <2>3
<1>3. ASSUME h \in Seq(ChunkNumbers), Len(h) <= MaxCapture PROVE h \in Audios
  <2>1. Len(h) \in 0..MaxCapture /\ h \in [1..Len(h) -> ChunkNumbers]
        BY <1>3, TapsConstants
  <2> QED BY <1>1, <2>1
<1> QED BY <1>2, <1>3

LEMMA WholeLater ==
  ASSUME NEW h, NEW n \in Int, NEW m \in Int, n <= m, Whole(h, n)
  PROVE  Whole(h, m)
<1>1. h \in Seq(ChunkNumbers) /\ \A i \in 1..Len(h) : h[i] \in Int
      BY AudioIs, TapsConstants DEF Whole
<1>2. \A i \in 1..Len(h) : h[i] <= m
      BY <1>1 DEF Whole
<1> QED BY <1>2 DEF Whole

LEMMA ThreadNow ==
  ASSUME ThreadInv
  PROVE  /\ chunk \in Nat /\ chunk <= MaxChunk /\ played \in Nat /\ since \in Nat /\ HeardLast \in Int
         /\ played <= chunk /\ since <= chunk
         /\ HeardLast <= chunk
BY TapsConstants DEF ThreadInv, HeardLast

\* Steps that leave what was heard alone.
LEMMA AudioStays ==
  ASSUME AudioInv, capture' = capture, sweeps' = sweeps,
         HeardLast \in Int, HeardLast' \in Int, HeardLast <= HeardLast',
         thread' = "dead" \/ capture = {} \/ (HeardLast' = HeardLast /\ thread # "dead")
  PROVE  AudioInv'
<1>1. ASSUME NEW c \in capture
      PROVE  Whole(c.heard, HeardLast')
      BY WholeLater, Zenon DEF AudioInv
<1>2. ASSUME NEW s \in sweeps
      PROVE  Whole(s.audio, HeardLast')
      BY WholeLater, Zenon DEF AudioInv
<1>3. ASSUME thread' # "dead", NEW c \in capture
      PROVE  Ongoing(c, HeardLast')
      BY <1>3 DEF AudioInv
<1> QED BY <1>1, <1>2, <1>3 DEF AudioInv

LEMMA BufferStays ==
  ASSUME BufferInv, buffer' = buffer, played' = played, since' = since, chunk \in Int, chunk' \in Int,
         chunk <= chunk',
         thread' \in {"monitor", "enqueue"} => chunk < chunk' \/ (chunk' = chunk /\ thread \in {"monitor", "enqueue"})
  PROVE  BufferInv'
<1>1. \A i \in 1..Len(buffer) : buffer[i] \in Int
      BY TapsConstants DEF BufferInv
<1>2. \A i \in 1..Len(buffer) : buffer[i] <= chunk'
      BY <1>1 DEF BufferInv
<1>3. ASSUME thread' \in {"monitor", "enqueue"}, NEW i \in 1..Len(buffer) PROVE buffer[i] < chunk'
      BY <1>1, <1>3 DEF BufferInv
<1> QED BY <1>2, <1>3 DEF BufferInv

LEMMA ReadKeeps == ASSUME TapsInv, ReadChunk PROVE TapsInv'
<1>1. /\ thread = "read" /\ chunk < MaxChunk /\ chunk' = chunk + 1
      /\ thread' \in {"monitor", "calibration"}
      /\ UNCHANGED <<tap, stream, buffer, played, since, capture, sweeps>>
      BY DEF ReadChunk
<1>2. ThreadInv'
      BY <1>1, TapsConstants, ThreadNow DEF TapsInv, ThreadInv, Places
<1>3. HeardLast' = HeardLast /\ HeardLast \in Int /\ HeardLast' \in Int
      BY <1>1, ThreadNow DEF TapsInv, HeardLast
<1>4. AudioInv'
      BY <1>1, <1>3, AudioStays DEF TapsInv
<1>5. BufferInv'
  <2>1. chunk \in Int /\ chunk' \in Int /\ chunk < chunk' /\ chunk <= chunk'
        BY <1>1, ThreadNow DEF TapsInv
  <2> QED BY <1>1, <2>1, BufferStays DEF TapsInv
<1> QED BY <1>2, <1>4, <1>5 DEF TapsInv

LEMMA CallKeeps == ASSUME TapsInv, CallMonitor PROVE TapsInv'
<1>1. /\ thread = "monitor" /\ thread' \in {"calibration", "enqueue", "dead"}
      /\ UNCHANGED <<chunk, tap, stream, buffer, played, since, capture, sweeps>>
      BY DEF CallMonitor
<1>2. ThreadInv'
      BY <1>1 DEF TapsInv, ThreadInv, Places
<1>3. HeardLast \in Int /\ HeardLast' \in Int /\ HeardLast <= HeardLast' /\ (thread' # "dead" => HeardLast' = HeardLast)
      BY <1>1, ThreadNow DEF TapsInv, HeardLast
<1>4. AudioInv'
      BY <1>1, <1>3, AudioStays DEF TapsInv
<1>5. BufferInv'
  <2>1. chunk \in Int
        BY ThreadNow DEF TapsInv
  <2> QED BY <1>1, <2>1, BufferStays DEF TapsInv
<1> QED BY <1>2, <1>4, <1>5 DEF TapsInv

LEMMA TestKeeps == ASSUME TapsInv, TestCalibration PROVE TapsInv'
<1>1. /\ thread = "calibration" /\ thread' = IF capture # {} THEN "feed" ELSE "read"
      /\ UNCHANGED <<chunk, tap, stream, buffer, played, since, capture, sweeps>>
      BY DEF TestCalibration
<1>2. ThreadInv'
      BY <1>1 DEF TapsInv, ThreadInv, Places
<1>3. HeardLast \in Int /\ HeardLast' \in Int /\ HeardLast <= HeardLast' /\ (capture # {} => HeardLast' = HeardLast)
      BY <1>1, ThreadNow DEF TapsInv, HeardLast
<1>4. AudioInv'
      BY <1>1, <1>3, AudioStays DEF TapsInv
<1>5. BufferInv'
  <2>1. chunk \in Int
        BY ThreadNow DEF TapsInv
  <2> QED BY <1>1, <2>1, BufferStays DEF TapsInv
<1> QED BY <1>2, <1>4, <1>5 DEF TapsInv

LEMMA LeastIs == ASSUME NEW T \in SUBSET Nat, T # {} PROVE Min(T) \in T
<1>1. \E x \in T : \A y \in T : x <= y
      BY LeastNat
<1> QED BY <1>1 DEF Min

\* What is left of the buffer is younger than c, and in order.
LEMMA LeftFrom ==
  ASSUME BufferInv, NEW c
  PROVE  LET r == Kept(buffer, {i \in DOMAIN buffer : buffer[i] >= c})
         IN  /\ r \in Seq(ChunkNumbers)
             /\ \A i \in 1..Len(r) : \E k \in 1..Len(buffer) : r[i] = buffer[k] /\ buffer[k] >= c
             /\ \A i, j \in 1..Len(r) : i < j => r[i] <= r[j]
<1> DEFINE P == {i \in DOMAIN buffer : buffer[i] >= c}
           r == Kept(buffer, P)
<1>1. buffer \in Seq(ChunkNumbers)
      BY DEF BufferInv
<1>2. DOMAIN buffer = 1..Len(buffer)
      BY <1>1
<1>3. \A k \in P : k \in 1..Len(buffer) /\ buffer[k] >= c
      BY <1>2
<1> HIDE DEF P
<1>4. r \in Seq(ChunkNumbers) /\ LeftOf(r, buffer, P, Len(buffer))
      BY <1>1, KeptIs
<1> HIDE DEF r
<1>5. PICK rises \in [1..Len(r) -> P \cap 1..Len(buffer)] :
        /\ \A j \in 1..Len(r) : r[j] = buffer[rises[j]]
        /\ \A j, k \in 1..Len(r) : j < k => rises[j] < rises[k]
      BY <1>4 DEF LeftOf
<1>6. \A i \in 1..Len(r) : rises[i] \in 1..Len(buffer) /\ r[i] = buffer[rises[i]] /\ buffer[rises[i]] >= c
      BY <1>3, <1>5
<1>7. \A i, j \in 1..Len(buffer) : i < j => buffer[i] <= buffer[j]
      BY DEF BufferInv
<1>8. \A i, j \in 1..Len(r) : i < j => r[i] <= r[j]
      BY <1>5, <1>6, <1>7
<1>9. \A i \in 1..Len(r) : \E k \in 1..Len(buffer) : r[i] = buffer[k] /\ buffer[k] >= c
      BY <1>6
<1> QED BY <1>4, <1>8, <1>9 DEF r, P

\* One chunk always fits, because none of it is in the buffer yet.
LEMMA TrimmedIs ==
  ASSUME ThreadInv, BufferInv, thread = "enqueue"
  PROVE  /\ Trimmed \in Seq(ChunkNumbers) /\ Len(Trimmed) + PerChunk <= MaxBuffer
         /\ \A i \in 1..Len(Trimmed) : \E k \in 1..Len(buffer) : Trimmed[i] = buffer[k]
         /\ \A i, j \in 1..Len(Trimmed) : i < j => Trimmed[i] <= Trimmed[j]
<1> DEFINE Rest(c) == Kept(buffer, {i \in DOMAIN buffer : buffer[i] >= c})
           fitting == {c \in ToSet(buffer) \cup {chunk} : Len(Rest(c)) + PerChunk <= MaxBuffer}
<1>1. \A c : /\ Rest(c) \in Seq(ChunkNumbers)
             /\ \A i \in 1..Len(Rest(c)) : \E k \in 1..Len(buffer) : Rest(c)[i] = buffer[k] /\ buffer[k] >= c
             /\ \A i, j \in 1..Len(Rest(c)) : i < j => Rest(c)[i] <= Rest(c)[j]
  <2> TAKE c
  <2> QED BY LeftFrom
<1>2. Trimmed = Rest(Min(fitting))
      BY DEF Trimmed
<1> HIDE DEF Rest
<1>3. fitting \subseteq Nat
  <2>1. buffer \in Seq(ChunkNumbers) /\ chunk \in Nat /\ ChunkNumbers \subseteq Nat
        BY ThreadNow, TapsConstants DEF BufferInv
  <2>2. ToSet(buffer) \subseteq ChunkNumbers
        BY <2>1 DEF ToSet
  <2> QED BY <2>1, <2>2
<1>4. chunk \in fitting
  <2>1. \A k \in 1..Len(buffer) : buffer[k] < chunk /\ buffer[k] \in Int /\ chunk \in Int
        BY TapsConstants, ThreadNow, SMTT(60) DEF BufferInv
  <2>2. Len(Rest(chunk)) \in Nat
        BY <1>1
  <2>3. Len(Rest(chunk)) = 0
    <3> SUFFICES ASSUME 1 \in 1..Len(Rest(chunk)) PROVE FALSE
          BY <2>2
    <3>1. PICK k \in 1..Len(buffer) : Rest(chunk)[1] = buffer[k] /\ buffer[k] >= chunk
          BY <1>1
    <3> QED BY <2>1, <3>1
  <2> QED BY <2>3, TapsConstants
<1>5. Min(fitting) \in fitting
      BY <1>3, <1>4, LeastIs
<1>6. Len(Rest(Min(fitting))) + PerChunk <= MaxBuffer
      BY <1>5
<1> HIDE DEF fitting
<1> QED BY <1>1, <1>2, <1>6

LEMMA PushChunkKeeps == ASSUME TapsInv, PushChunk PROVE TapsInv'
<1> DEFINE fresh == [i \in 1..PerChunk |-> chunk]
           t == Trimmed
           b == t \o fresh
<1>1. /\ thread = "enqueue" /\ thread' = "calibration" /\ buffer' = b
      /\ UNCHANGED <<chunk, tap, stream, played, since, capture, sweeps>>
      BY Zenon DEF PushChunk
<1>2. ThreadInv'
      BY <1>1 DEF TapsInv, ThreadInv, Places
<1>3. HeardLast \in Int /\ HeardLast' = HeardLast
      BY <1>1, ThreadNow DEF TapsInv, HeardLast
<1>4. AudioInv'
      BY <1>1, <1>3, AudioStays DEF TapsInv
<1>5. /\ t \in Seq(ChunkNumbers) /\ Len(t) \in Nat /\ Len(t) + PerChunk <= MaxBuffer
      /\ \A i \in 1..Len(t) : \E k \in 1..Len(buffer) : t[i] = buffer[k]
      /\ \A i, j \in 1..Len(t) : i < j => t[i] <= t[j]
      BY <1>1, TrimmedIs DEF TapsInv
<1>6. chunk \in ChunkNumbers /\ PerChunk \in Nat /\ ChunkNumbers \subseteq Int /\ played <= chunk /\ since <= chunk
      BY TapsConstants DEF TapsInv, ThreadInv
<1>7. /\ fresh \in Seq(ChunkNumbers) /\ Len(fresh) = PerChunk
      /\ \A i \in 1..PerChunk : fresh[i] = chunk
      BY <1>6
<1> HIDE DEF fresh, t
<1>8. \A i \in 1..Len(t) : t[i] >= played /\ t[i] >= since /\ t[i] <= chunk
      BY <1>5 DEF TapsInv, BufferInv
<1>9. /\ b \in Seq(ChunkNumbers) /\ Len(b) = Len(t) + PerChunk
      /\ \A i \in 1..Len(t) + PerChunk : b[i] = IF i <= Len(t) THEN t[i] ELSE chunk
  <2>1. b \in Seq(ChunkNumbers) /\ Len(b) = Len(t) + PerChunk
        BY <1>5, <1>6, <1>7, SMTT(60)
  <2>2. ASSUME NEW i \in 1..Len(t) + PerChunk PROVE b[i] = IF i <= Len(t) THEN t[i] ELSE chunk
    <3>1. b[i] = IF i <= Len(t) THEN t[i] ELSE fresh[i - Len(t)]
          BY <1>5, <1>6, <1>7, <2>2
    <3>2. ~(i <= Len(t)) => i - Len(t) \in 1..PerChunk
          BY <1>5, <1>6
    <3> QED BY <1>7, <3>1, <3>2
  <2> QED BY <2>1, <2>2
<1> HIDE DEF b
<1>10. \A i \in 1..Len(b) : b[i] >= played /\ b[i] >= since /\ b[i] <= chunk
  <2> TAKE i \in 1..Len(b)
  <2>1. CASE i <= Len(t)
    <3>1. i \in 1..Len(t) /\ b[i] = t[i]
          BY <1>5, <1>6, <1>9, <2>1
    <3> QED BY <1>8, <3>1
  <2>2. CASE ~(i <= Len(t))
    <3>1. b[i] = chunk
          BY <1>9, <2>2
    <3> QED BY <1>6, <3>1
  <2> QED BY <2>1, <2>2
<1>11. \A i, j \in 1..Len(b) : i < j => b[i] <= b[j]
  <2> SUFFICES ASSUME NEW i \in 1..Len(b), NEW j \in 1..Len(b), i < j PROVE b[i] <= b[j]
        OBVIOUS
  <2>1. CASE j <= Len(t)
    <3>1. i \in 1..Len(t) /\ j \in 1..Len(t) /\ b[i] = t[i] /\ b[j] = t[j]
          BY <1>5, <1>6, <1>9, <2>1
    <3> QED BY <1>5, <3>1
  <2>2. CASE ~(j <= Len(t))
    <3>1. b[j] = chunk /\ b[i] <= chunk
          BY <1>9, <1>10, <2>2
    <3> QED BY <3>1
  <2> QED BY <2>1, <2>2
<1>12. BufferInv'
      BY <1>1, <1>5, <1>9, <1>10, <1>11 DEF BufferInv
<1> QED BY <1>2, <1>4, <1>12 DEF TapsInv

\* Nothing but the monitor's side changes.
LEMMA MonitorOnly ==
  ASSUME TapsInv, UNCHANGED <<chunk, thread, capture, sweeps>>
  PROVE  AudioInv'
<1>1. HeardLast \in Int /\ HeardLast' = HeardLast
      BY ThreadNow DEF TapsInv, HeardLast
<1> QED BY <1>1, AudioStays DEF TapsInv

LEMMA PlayKeeps == ASSUME TapsInv, PlayBlock PROVE TapsInv'
<1> DEFINE n == Min({Block, Len(buffer)})
           l == Len(buffer)
           b == SubSeq(buffer, n + 1, l)
<1>1. /\ n > 0 /\ played' = buffer[n] /\ buffer' = b
      /\ UNCHANGED <<chunk, thread, tap, stream, since, capture, sweeps>>
      BY Zenon DEF PlayBlock
<1>2. buffer \in Seq(ChunkNumbers) /\ l \in Nat
      BY DEF TapsInv, BufferInv
<1>3. n \in 1..l
  <2>1. n \in {Block, l}
    <3>1. {Block, l} \subseteq Nat /\ {Block, l} # {}
          BY <1>2, TapsConstants
    <3> QED BY <3>1, LeastIs
  <2>2. n <= l
    <3>1. \E x \in {Block, l} : \A y \in {Block, l} : x <= y
      <4>1. {Block, l} \in SUBSET Nat /\ {Block, l} # {}
            BY <1>2, TapsConstants
      <4> QED BY <4>1, LeastNat
    <3> QED BY <3>1 DEF Min
  <2> QED BY <1>1, <1>2, <2>1, <2>2, TapsConstants, SMTT(60)
<1> HIDE DEF n
<1>4. /\ b \in Seq(ChunkNumbers) /\ Len(b) = l - n
      /\ \A i \in 1..l - n : b[i] = buffer[n + i] /\ n + i \in 1..l /\ n < n + i
      BY <1>2, <1>3
<1>5. /\ \A i \in 1..l : buffer[i] >= played /\ buffer[i] >= since /\ buffer[i] <= chunk
      /\ \A i, j \in 1..l : i < j => buffer[i] <= buffer[j]
      /\ l <= MaxBuffer /\ MaxBuffer \in Nat
      /\ (thread \in {"monitor", "enqueue"} => \A i \in 1..l : buffer[i] < chunk)
      /\ \A i \in 1..l : buffer[i] \in Int
      BY <1>2, TapsConstants DEF TapsInv, BufferInv
<1>6. played' \in ChunkNumbers /\ played' <= chunk
      BY <1>1, <1>2, <1>3, <1>5
<1>7. ThreadInv'
      BY <1>1, <1>6 DEF TapsInv, ThreadInv
<1> HIDE DEF b, l
<1>8. BufferInv'
  <2>1. Len(b) <= MaxBuffer
        BY <1>2, <1>3, <1>4, <1>5
  <2>2. \A i \in 1..Len(b) : b[i] >= buffer[n] /\ b[i] >= since /\ b[i] <= chunk
        BY <1>3, <1>4, <1>5
  <2>3. \A i, j \in 1..Len(b) : i < j => b[i] <= b[j]
    <3> SUFFICES ASSUME NEW i \in 1..Len(b), NEW j \in 1..Len(b), i < j PROVE b[i] <= b[j]
          OBVIOUS
    <3>1. n + i < n + j /\ i \in 1..l - n /\ j \in 1..l - n
          BY <1>3, <1>4
    <3> QED BY <1>4, <1>5, <3>1
  <2>4. thread \in {"monitor", "enqueue"} => \A i \in 1..Len(b) : b[i] < chunk
        BY <1>4, <1>5
  <2> QED BY <1>1, <1>4, <2>1, <2>2, <2>3, <2>4 DEF BufferInv
<1> QED BY <1>1, <1>7, <1>8, MonitorOnly DEF TapsInv

LEMMA SwitchKeeps == ASSUME TapsInv, Stall \/ StartMonitor PROVE TapsInv'
<1>1. /\ UNCHANGED <<chunk, thread, buffer, played, since, capture, sweeps>>
      /\ tap' \in {tap, TRUE} /\ stream' \in {stream, "playing", "stalled"}
      BY DEF Stall, StartMonitor
<1>2. ThreadInv'
  <2>1. tap' \in BOOLEAN
        BY <1>1, Zenon DEF TapsInv, ThreadInv
  <2>2. stream' \in {"none", "playing", "stalled"}
        BY <1>1 DEF TapsInv, ThreadInv
  <2> QED BY <1>1, <2>1, <2>2 DEF TapsInv, ThreadInv
<1>3. BufferInv'
      BY <1>1 DEF TapsInv, BufferInv
<1> QED BY <1>1, <1>2, <1>3, MonitorOnly DEF TapsInv

LEMMA StopMonitorKeeps == ASSUME TapsInv, StopMonitor PROVE TapsInv'
<1>1. /\ UNCHANGED <<chunk, thread, played, capture, sweeps>>
      /\ tap' = FALSE /\ stream' = "none" /\ buffer' = <<>> /\ since' = chunk
      BY DEF StopMonitor
<1>2. ThreadInv'
  <2>1. tap' \in BOOLEAN
        BY <1>1, Zenon
  <2>2. since' <= chunk /\ since' \in ChunkNumbers
        BY <1>1, ThreadNow DEF TapsInv, ThreadInv
  <2> QED BY <1>1, <2>1, <2>2 DEF TapsInv, ThreadInv
<1>3. BufferInv'
  <2>1. buffer' \in Seq(ChunkNumbers) /\ Len(buffer') = 0 /\ 1..Len(buffer') = {}
        BY <1>1
  <2> QED BY <2>1, TapsConstants DEF BufferInv
<1> QED BY <1>1, <1>2, <1>3, MonitorOnly DEF TapsInv

-----------------------------------------------------------------------------
\* Where the thread and the monitor stay.
LEMMA CalibrationOnly ==
  ASSUME TapsInv, UNCHANGED <<chunk, thread, tap, stream, buffer, played, since>>
  PROVE  ThreadInv' /\ BufferInv' /\ HeardLast' = HeardLast
BY DEF TapsInv, ThreadInv, BufferInv, HeardLast

LEMMA ChunkFed ==
  ASSUME TapsInv, thread = "feed", NEW c \in capture
  PROVE  LET f == Fed(c)
         IN  /\ f \in Captures /\ Whole(f.heard, chunk) /\ (f.active => Len(f.heard) < MaxCapture)
             /\ Ongoing(f, chunk)
             /\ \A s \in sweeps : ToSet(s.audio) \cap ToSet(f.heard) = {}
<1> DEFINE h == c.heard
           l == Len(h)
           g == Append(h, chunk)
           f == Fed(c)
<1>1. /\ c \in Captures /\ h \in Audios /\ c.active \in BOOLEAN
      /\ Whole(h, HeardLast) /\ (c.active => l < MaxCapture)
      /\ Ongoing(c, HeardLast)
      /\ \A s \in sweeps : ToSet(s.audio) \cap ToSet(h) = {} /\ Whole(s.audio, HeardLast)
  <2>1. c \in Captures
        BY DEF TapsInv, AudioInv
  <2>2. h \in Audios /\ c.active \in BOOLEAN
        BY <2>1 DEF Captures
  <2> QED BY <2>1, <2>2 DEF TapsInv, AudioInv
<1>2. HeardLast = chunk - 1 /\ chunk \in ChunkNumbers /\ chunk \in Int /\ HeardLast \in Int /\ HeardLast <= chunk
      BY ThreadNow DEF HeardLast, TapsInv, ThreadInv
<1>3. h \in Seq(ChunkNumbers) /\ l \in Nat
      BY <1>1, AudioIs
<1>4. CASE ~c.active
  <2>1. f = c
        BY <1>4, Zenon DEF Fed
  <2>2. Whole(h, chunk)
        BY <1>1, <1>2, WholeLater
  <2> QED BY <1>1, <1>4, <2>1, <2>2 DEF Ongoing
<1>5. CASE c.active
  <2>1. f = [heard |-> g, active |-> l + 1 < MaxCapture]
        BY <1>5, Zenon DEF Fed
  <2>2. f.heard = g /\ (f.active => l + 1 < MaxCapture)
    <3> HIDE DEF g, f, l
    <3>1. f.heard = g /\ f.active = (l + 1 < MaxCapture)
          BY <2>1, Zenon
    <3> QED BY <3>1, Zenon
  <2>3. g \in Seq(ChunkNumbers) /\ Len(g) = l + 1 /\ g[l + 1] = chunk /\ \A i \in 1..l : g[i] = h[i]
        BY <1>2, <1>3
  <2>4. l + 1 <= MaxCapture
        BY <1>1, <1>3, <1>5, TapsConstants
  <2>5. g \in Audios
        BY <2>3, <2>4, AudioIs
  <2>6. f \in Captures
        BY <2>1, <2>5 DEF Captures
  <2> HIDE DEF f, g
  <2>7. \A i \in 1..l : h[i] \in Int /\ h[i] <= HeardLast
        BY <1>1, <1>3, TapsConstants DEF Whole
  <2>8. ASSUME NEW i \in 1..Len(g) PROVE g[i] <= chunk
    <3>1. i \in 1..l \/ i = l + 1
          BY <1>3, <2>3
    <3>2. CASE i = l + 1
          BY <1>2, <2>3, <3>2
    <3>3. ASSUME i \in 1..l PROVE g[i] <= chunk
      <4>1. h[i] \in Int /\ h[i] <= HeardLast /\ g[i] = h[i]
            BY <2>3, <2>7, <3>3
      <4> QED BY <1>2, <4>1
    <3> QED BY <3>1, <3>2, <3>3
  <2>9. \A i \in 1..Len(g) - 1 : g[i + 1] = g[i] + 1
    <3> TAKE i \in 1..Len(g) - 1
    <3>1. CASE i < l
      <4>1. i \in 1..l - 1 /\ i \in 1..l /\ i + 1 \in 1..l
            BY <1>3, <2>3, <3>1
      <4>2. h[i + 1] = h[i] + 1
            BY <1>1, <4>1 DEF Whole
      <4> QED BY <2>3, <4>1, <4>2
    <3>2. CASE ~(i < l)
      <4>1. i = l /\ l \in 1..l /\ h # <<>>
            BY <1>3, <2>3, <3>2
      <4>2. g[i] = h[l] /\ g[i + 1] = chunk
            BY <2>3, <4>1
      <4>3. h[l] = HeardLast
            BY <1>1, <1>5, <4>1 DEF Ongoing
      <4> QED BY <1>2, <4>2, <4>3
    <3> QED BY <3>1, <3>2
  <2>10. Whole(g, chunk)
        BY <2>5, <2>8, <2>9 DEF Whole
  <2>11. Ongoing(f, chunk)
        BY <2>2, <2>3 DEF Ongoing
  <2>12. ASSUME NEW s \in sweeps PROVE ToSet(s.audio) \cap ToSet(g) = {}
    <3>1. s.audio \in Seq(ChunkNumbers) /\ \A i \in 1..Len(s.audio) : s.audio[i] \in Int /\ s.audio[i] <= HeardLast
          BY <1>1, AudioIs, TapsConstants DEF Whole
    <3>2. ToSet(g) = ToSet(h) \cup {chunk}
      <4>1. DOMAIN g = 1..l + 1 /\ DOMAIN h = 1..l
            BY <1>3, <2>3
      <4>2. \A i \in 1..l + 1 : i \in 1..l \/ i = l + 1
            BY <1>3
      <4>3. \A i \in 1..l : i \in 1..l + 1
            BY <1>3
      <4>4. l + 1 \in 1..l + 1
            BY <1>3
      <4> QED BY <2>3, <4>1, <4>2, <4>3, <4>4 DEF ToSet
    <3>3. chunk \notin ToSet(s.audio)
      <4>1. DOMAIN s.audio = 1..Len(s.audio)
            BY <3>1
      <4>2. \A i \in 1..Len(s.audio) : s.audio[i] # chunk
            BY <1>2, <3>1
      <4> QED BY <4>1, <4>2 DEF ToSet
    <3> QED BY <1>1, <3>2, <3>3
  <2>13. f.active => Len(f.heard) < MaxCapture
        BY <1>3, <2>2, <2>3
  <2> QED BY <2>2, <2>6, <2>10, <2>11, <2>12, <2>13 DEF f
<1> QED BY <1>4, <1>5

LEMMA FeedKeeps == ASSUME TapsInv, Feed PROVE TapsInv'
<1>1. /\ thread = "feed" /\ capture' = {Fed(c) : c \in capture}
      /\ thread' \in {"dead", "read"} /\ (capture # {} => thread' = "read")
      /\ UNCHANGED <<chunk, tap, stream, buffer, played, since, sweeps>>
      BY DEF Feed
<1>2. ThreadInv'
      BY <1>1 DEF TapsInv, ThreadInv, Places
<1>3. HeardLast = chunk - 1 /\ HeardLast' = chunk /\ chunk \in Int /\ HeardLast \in Int /\ HeardLast <= chunk
      BY <1>1, ThreadNow DEF HeardLast, TapsInv
<1>4. BufferInv'
      BY <1>1, <1>3, BufferStays DEF TapsInv
<1>5. \A f \in capture' : \E c \in capture : f = Fed(c)
      BY <1>1
<1>6. \A f, g \in capture' : f = g
      BY <1>5 DEF TapsInv, AudioInv
<1>7. ASSUME NEW f \in capture'
      PROVE  /\ f \in Captures /\ Whole(f.heard, chunk) /\ (f.active => Len(f.heard) < MaxCapture)
             /\ Ongoing(f, chunk)
             /\ \A s \in sweeps : ToSet(s.audio) \cap ToSet(f.heard) = {}
  <2>1. PICK c \in capture : f = Fed(c)
        BY <1>5
  <2> QED BY <1>1, <2>1, ChunkFed
<1>8. ASSUME NEW s \in sweeps PROVE Whole(s.audio, chunk)
  <2>1. Whole(s.audio, HeardLast)
        BY DEF TapsInv, AudioInv
  <2> QED BY <1>3, <2>1, WholeLater
<1>9. AudioInv'
      BY <1>1, <1>3, <1>6, <1>7, <1>8, Zenon DEF TapsInv, AudioInv
<1> QED BY <1>2, <1>4, <1>9 DEF TapsInv

LEMMA StartKeeps == ASSUME TapsInv, NEW d \in Desks, CalibrationStart(d) PROVE TapsInv'
<1> DEFINE c0 == [heard |-> <<>>, active |-> TRUE]
<1>1. capture' = {c0} /\ sweeps' = sweeps
      /\ UNCHANGED <<chunk, thread, tap, stream, buffer, played, since>>
      BY DEF CalibrationStart
<1>2. c0.heard = <<>> /\ <<>> \in Seq(ChunkNumbers) /\ Len(<<>>) = 0
      OBVIOUS
<1>3. <<>> \in Audios /\ 0 < MaxCapture
  <2>1. 0 < MaxCapture /\ 0 <= MaxCapture
        BY TapsConstants
  <2>2. <<>> \in Audios
        BY <1>2, <2>1, AudioIs, Zenon
  <2> QED BY <2>1, <2>2
<1>4. c0 \in Captures
      BY <1>3 DEF Captures
<1>5. Whole(<<>>, HeardLast)
      BY <1>2, <1>3 DEF Whole
<1>6. Ongoing(c0, HeardLast)
      BY <1>2 DEF Ongoing
<1>7. ToSet(<<>>) = {}
      BY DEF ToSet
<1> HIDE DEF c0
<1>8. AudioInv'
      BY <1>1, <1>2, <1>3, <1>4, <1>5, <1>6, <1>7, CalibrationOnly DEF TapsInv, AudioInv
<1> QED BY <1>1, <1>8, CalibrationOnly DEF TapsInv

LEMMA StopKeeps == ASSUME TapsInv, NEW d \in Desks, CalibrationStop(d) PROVE TapsInv'
<1> DEFINE New(c) == [to |-> d, audio |-> c.heard, tried |-> 0]
           long == {x \in capture : Len(x.heard) >= MinCapture}
<1>1. /\ capture' = {} /\ sweeps' = sweeps \cup {New(c) : c \in long}
      /\ UNCHANGED <<chunk, thread, tap, stream, buffer, played, since>>
      BY Zenon DEF CalibrationStop
<1>2. HeardLast' = HeardLast /\ ThreadInv' /\ BufferInv'
      BY <1>1, CalibrationOnly
<1>3. ASSUME NEW c \in capture
      PROVE  /\ New(c) \in Sweeps /\ New(c).audio = c.heard /\ Whole(c.heard, HeardLast)
             /\ \A s \in sweeps : ToSet(s.audio) \cap ToSet(c.heard) = {}
             /\ \A e \in capture : e = c
  <2>1. c \in Captures /\ 0 \in 0..Combos
        BY TapsConstants DEF TapsInv, AudioInv
  <2>2. c.heard \in Audios
        BY <2>1 DEF Captures
  <2> QED BY <2>1, <2>2 DEF TapsInv, AudioInv, Sweeps
<1> HIDE DEF New
<1>4. ASSUME NEW s \in sweeps' PROVE s \in sweeps \/ \E c \in capture : s = New(c)
      BY <1>1
<1>5. \A s \in sweeps : s \in Sweeps /\ Whole(s.audio, HeardLast)
      BY DEF TapsInv, AudioInv
<1>6. \A s \in sweeps' : s \in Sweeps /\ Whole(s.audio, HeardLast)
      BY <1>3, <1>4, <1>5
<1>7. ASSUME NEW s \in sweeps', NEW t \in sweeps', s # t
      PROVE  ToSet(s.audio) \cap ToSet(t.audio) = {}
  <2>1. CASE s \in sweeps /\ t \in sweeps
        BY <1>7, <2>1 DEF TapsInv, AudioInv
  <2>2. CASE s \in sweeps /\ t \notin sweeps
        BY <1>3, <1>4, <2>2
  <2>3. CASE s \notin sweeps /\ t \in sweeps
    <3>1. PICK c \in capture : s = New(c)
          BY <1>4, <2>3
    <3>2. ToSet(t.audio) \cap ToSet(s.audio) = {}
          BY <1>3, <2>3, <3>1
    <3> QED BY <3>2
  <2>4. CASE s \notin sweeps /\ t \notin sweeps
        BY <1>3, <1>4, <1>7, <2>4
  <2> QED BY <2>1, <2>2, <2>3, <2>4
<1>8. AudioInv'
      BY <1>1, <1>2, <1>6, <1>7 DEF AudioInv
<1> QED BY <1>2, <1>8 DEF TapsInv

\* A sweep goes on with its audio, or is over.
LEMMA SweepKeeps == ASSUME TapsInv, NEW s \in sweeps, Advance(s) \/ SweepOver(s) PROVE TapsInv'
<1> DEFINE n == [s EXCEPT !.tried = @ + 1]
<1>1. /\ \A x \in sweeps' : x \in sweeps \ {s} \/ (x = n /\ s.tried < Combos)
      /\ UNCHANGED <<chunk, thread, tap, stream, buffer, played, since, capture>>
      BY DEF Advance, SweepOver
<1>2. thread' = thread /\ HeardLast' = HeardLast /\ ThreadInv' /\ BufferInv'
      BY <1>1, CalibrationOnly
<1>3. s \in Sweeps /\ n.audio = s.audio
      BY DEF TapsInv, AudioInv, Sweeps
<1>4. s.tried < Combos => n \in Sweeps
      BY TapsConstants DEF TapsInv, AudioInv, Sweeps
<1> HIDE DEF n
<1>5. \A x \in sweeps : x \in Sweeps /\ Whole(x.audio, HeardLast)
      BY DEF TapsInv, AudioInv
<1>6. \A x \in sweeps' : x \in Sweeps /\ Whole(x.audio, HeardLast)
      BY <1>1, <1>3, <1>4, <1>5
<1>7. ASSUME NEW x \in sweeps', NEW y \in sweeps', x # y
      PROVE  ToSet(x.audio) \cap ToSet(y.audio) = {}
  <2>1. \A q, r \in sweeps : q # r => ToSet(q.audio) \cap ToSet(r.audio) = {}
        BY DEF TapsInv, AudioInv
  <2>2. CASE x # n /\ y # n
        BY <1>1, <1>7, <2>1, <2>2
  <2>3. CASE x = n
    <3>1. y \in sweeps \ {s}
          BY <1>1, <1>7, <2>3
    <3> QED BY <1>3, <2>1, <2>3, <3>1
  <2>4. CASE y = n
    <3>1. x \in sweeps \ {s}
          BY <1>1, <1>7, <2>4
    <3> QED BY <1>3, <2>1, <2>4, <3>1
  <2> QED BY <2>2, <2>3, <2>4
<1>8. ASSUME NEW x \in sweeps', NEW c \in capture PROVE ToSet(x.audio) \cap ToSet(c.heard) = {}
  <2>1. \A q \in sweeps : ToSet(q.audio) \cap ToSet(c.heard) = {}
        BY DEF TapsInv, AudioInv
  <2> QED BY <1>1, <1>3, <2>1
<1>9. AudioInv'
      BY <1>1, <1>2, <1>6, <1>7, <1>8, ZenonT(60) DEF TapsInv, AudioInv
<1> QED BY <1>2, <1>9 DEF TapsInv

LEMMA TapsInitial == TapsInit => TapsInv
<1> SUFFICES ASSUME TapsInit PROVE TapsInv
      OBVIOUS
<1>1. /\ chunk = 0 /\ played = 0 /\ since = 0 /\ thread = "read" /\ buffer = <<>>
      /\ capture = {} /\ sweeps = {}
      BY DEF TapsInit
<1>2. tap \in BOOLEAN /\ stream \in {"none", "playing"}
  <2>1. tap \in BOOLEAN
        BY Zenon DEF TapsInit
  <2>2. stream = IF tap THEN "playing" ELSE "none"
        BY Zenon DEF TapsInit
  <2> QED BY <2>1, <2>2
<1>3. ThreadInv
      BY <1>1, <1>2, TapsConstants DEF ThreadInv, Places
<1>4. BufferInv
  <2>1. buffer \in Seq(ChunkNumbers) /\ Len(buffer) = 0 /\ 1..Len(buffer) = {}
        BY <1>1
  <2> QED BY <2>1, TapsConstants DEF BufferInv
<1>5. AudioInv
      BY <1>1 DEF AudioInv
<1> QED BY <1>3, <1>4, <1>5 DEF TapsInv

LEMMA TapsKept ==
  ASSUME TapsInv, [TapsNext]_tapsVars
  PROVE  TapsInv'
<1>1. ASSUME CaptureThread PROVE TapsInv'
      BY <1>1, ReadKeeps, CallKeeps, PushChunkKeeps, TestKeeps, FeedKeeps, Zenon DEF CaptureThread
<1>2. ASSUME PlayBlock \/ Stall \/ StartMonitor \/ StopMonitor PROVE TapsInv'
      BY <1>2, PlayKeeps, SwitchKeeps, StopMonitorKeeps
<1>3. ASSUME NEW d \in Desks, CalibrationStart(d) \/ CalibrationStop(d) PROVE TapsInv'
      BY <1>3, StartKeeps, StopKeeps
<1>4. ASSUME NEW s \in sweeps, Advance(s) \/ SweepOver(s) PROVE TapsInv'
      BY <1>4, SweepKeeps
<1>5. ASSUME UNCHANGED tapsVars PROVE TapsInv'
      BY <1>5 DEF tapsVars, TapsInv, ThreadInv, BufferInv, AudioInv, HeardLast
<1> QED BY <1>1, <1>2, <1>3, <1>4, <1>5 DEF TapsNext

LEMMA OneCapture == ASSUME NEW S, \A c, d \in S : c = d PROVE Cardinality(S) <= 1
<1>1. CASE S = {}
      BY <1>1, FS_EmptySet
<1>2. CASE S # {}
  <2>1. PICK x : S = {x}
        BY <1>2
  <2> QED BY <2>1, FS_Singleton
<1> QED BY <1>1, <1>2

LEMMA TapsSays == TapsInv => TapsTypeOK /\ TapsSound
<1> SUFFICES ASSUME TapsInv PROVE TapsTypeOK /\ TapsSound
      OBVIOUS
<1>1. TapsTypeOK
  <2>1. Cardinality(capture) <= 1
        BY OneCapture DEF TapsInv, AudioInv
  <2>2. \A c \in capture : c.heard \in Audios /\ c.active \in BOOLEAN
        BY DEF TapsInv, AudioInv, Captures
  <2>3. \A s \in sweeps : s.to \in Desks /\ s.audio \in Audios /\ s.tried \in 0..Combos
        BY DEF TapsInv, AudioInv, Sweeps
  <2> QED BY <2>1, <2>2, <2>3 DEF TapsTypeOK, TapsInv, ThreadInv, BufferInv, Places
<1>2. DOMAIN buffer = 1..Len(buffer) /\ Len(buffer) \in Nat
      BY DEF TapsInv, BufferInv
<1>3. KeepsUp
  <2>1. \A i \in 1..Len(buffer) - 1 : i \in 1..Len(buffer) /\ i + 1 \in 1..Len(buffer) /\ i < i + 1
        BY <1>2
  <2> QED BY <1>2, <2>1 DEF TapsInv, BufferInv, KeepsUp
<1>4. NothingStale
      BY <1>2 DEF TapsInv, BufferInv, NothingStale
<1>5. CalibrationWhole
  <2>1. \A h \in HeardOf : Whole(h, HeardLast)
        BY DEF HeardOf, TapsInv, AudioInv
  <2>2. \A h \in HeardOf : \A i \in 1..Len(h) - 1 : h[i + 1] = h[i] + 1
        BY <2>1 DEF Whole
  <2> QED BY <2>2 DEF CalibrationWhole, TapsInv, AudioInv
<1> QED BY <1>1, <1>3, <1>4, <1>5 DEF TapsSound

\* The capture fan-out keeps its types, the monitor's buffer stays within its second and plays
\* nothing out of order or from before it was switched off, and a calibration hears the channel
\* without a gap and shares no audio with another sweep (_audio_chunk_fanout, AudioMonitor,
\* CalibrationCapture), for any sizes of chunk, block, buffer and capture.
THEOREM TapsHold == TapsSpec => [](TapsTypeOK /\ TapsSound)
<1>1. TapsInit => TapsInv
      BY TapsInitial
<1>2. TapsInv /\ [TapsNext]_tapsVars => TapsInv'
      BY TapsKept
<1>3. TapsInv => TapsTypeOK /\ TapsSound
      BY TapsSays
<1> QED BY <1>1, <1>2, <1>3, PTL DEF TapsSpec

-----------------------------------------------------------------------------
(* Morse. *)

Runs == [down : BOOLEAN, length : Nat]

\* The recursion of Joined, and that it has a solution.
JoinTo(f, n, ss, gap) ==
  IF n = 0 THEN <<>> ELSE IF n = 1 THEN ss[1] ELSE f[n - 1] \o <<gap>> \o ss[n]

LEMMA JoinedSolves ==
  ASSUME NEW ss, NEW gap, NEW N \in Nat
  PROVE  \E f : f = [n \in 0..N |-> f[n]] /\ \A n \in 0..N : f[n] = JoinTo(f, n, ss, gap)
<1> DEFINE body(f, n) == JoinTo(f, n, ss, gap)
           T == {m \in Nat : \E f : f = [n \in 0..m |-> body(f, n)]}
<1>1. 0 \in T
  <2>1. [n \in 0..0 |-> <<>>] = [n \in 0..0 |-> body([k \in 0..0 |-> <<>>], n)]
        BY DEF JoinTo
  <2> HIDE DEF body
  <2> QED BY <2>1
<1>2. ASSUME NEW m \in Nat, m \in T PROVE m + 1 \in T
  <2>1. PICK f : f = [n \in 0..m |-> body(f, n)]
        BY <1>2
  <2> DEFINE g == [n \in 0..(m + 1) |-> IF n = m + 1 THEN body(f, n) ELSE f[n]]
  <2>2. \A n \in 0..(m + 1) : n # 0 => n - 1 \in 0..m /\ n - 1 \in 0..(m + 1) /\ n - 1 # m + 1
        OBVIOUS
  <2>3. \A n \in 0..(m + 1) : n # 0 => g[n - 1] = f[n - 1]
        BY <2>2
  <2> HIDE DEF g
  <2>4. \A n \in 0..(m + 1) : body(g, n) = body(f, n)
        BY <2>3, Zenon DEF JoinTo
  <2>5. \A n \in 0..(m + 1) : n # m + 1 => n \in 0..m
        OBVIOUS
  <2> HIDE DEF body
  <2>6. \A n \in 0..m : f[n] = body(f, n)
        BY <2>1
  <2>7. \A n \in 0..(m + 1) : (IF n = m + 1 THEN body(f, n) ELSE f[n]) = body(g, n)
        BY <2>4, <2>5, <2>6
  <2>8. g = [n \in 0..(m + 1) |-> body(g, n)]
        BY <2>7 DEF g
  <2> QED BY <2>8
<1> HIDE DEF T
<1>3. Nat \subseteq T
      BY <1>1, <1>2, NatIn
<1>4. PICK f : f = [n \in 0..N |-> body(f, n)]
      BY <1>3 DEF T
<1> HIDE DEF body
<1>5. f = [n \in 0..N |-> f[n]] /\ \A n \in 0..N : f[n] = body(f, n)
      BY <1>4
<1> QED BY <1>5 DEF body

\* What Joined returns, step by step.
LEMMA JoinedBy ==
  ASSUME NEW S, NEW ss \in Seq(Seq(S)), NEW gap \in S
  PROVE  \E f : /\ Joined(ss, gap) = f[Len(ss)] /\ f[0] = <<>>
                /\ \A n \in 1..Len(ss) :
                     /\ f[n] \in Seq(S)
                     /\ f[n] = IF n = 1 THEN ss[1] ELSE f[n - 1] \o <<gap>> \o ss[n]
<1> DEFINE N == Len(ss)
           upTo[n \in 0..N] ==
             IF n = 0 THEN <<>> ELSE IF n = 1 THEN ss[1] ELSE upTo[n - 1] \o <<gap>> \o ss[n]
           body(f, n) == JoinTo(f, n, ss, gap)
<1>1. N \in Nat /\ \A i \in 1..N : ss[i] \in Seq(S)
      OBVIOUS
<1>2. Joined(ss, gap) = upTo[N]
      BY DEF Joined
<1>3. upTo = CHOOSE f : f = [n \in 0..N |-> body(f, n)]
      BY DEF JoinTo
<1> HIDE DEF N, upTo
<1>4. \E f : f = [n \in 0..N |-> body(f, n)]
  <2>1. PICK f : f = [n \in 0..N |-> f[n]] /\ \A n \in 0..N : f[n] = JoinTo(f, n, ss, gap)
        BY <1>1, JoinedSolves
  <2> HIDE DEF body
  <2>2. \A n \in 0..N : f[n] = body(f, n)
        BY <2>1 DEF body
  <2>3. f = [n \in 0..N |-> body(f, n)]
        BY <2>1, <2>2
  <2> QED BY <2>3
<1> HIDE DEF body
<1>5. upTo = [n \in 0..N |-> body(upTo, n)]
      BY <1>3, <1>4
<1>6. \A n \in 0..N : upTo[n] = body(upTo, n)
      BY <1>5
<1> DEFINE T == {n \in Nat : n <= N => upTo[n] \in Seq(S)}
<1>7. 0 \in T
  <2>1. upTo[0] = <<>>
        BY <1>1, <1>6 DEF body, JoinTo
  <2>2. <<>> \in Seq(S)
        OBVIOUS
  <2> QED BY <2>1, <2>2
<1>8. ASSUME NEW n \in Nat, n \in T PROVE n + 1 \in T
  <2> SUFFICES ASSUME n + 1 <= N PROVE upTo[n + 1] \in Seq(S)
        OBVIOUS
  <2>1. n + 1 \in 0..N /\ n + 1 # 0 /\ (n + 1) - 1 = n /\ n + 1 \in 1..N /\ n <= N
        BY <1>1
  <2>2. upTo[n + 1] = IF n + 1 = 1 THEN ss[1] ELSE upTo[n] \o <<gap>> \o ss[n + 1]
        BY <1>6, <2>1 DEF body, JoinTo
  <2>3. upTo[n] \in Seq(S) /\ ss[n + 1] \in Seq(S)
        BY <1>1, <1>8, <2>1
  <2>4. upTo[n] \o <<gap>> \in Seq(S)
        BY <2>3
  <2>5. upTo[n] \o <<gap>> \o ss[n + 1] \in Seq(S)
        BY <2>3, <2>4
  <2>6. n + 1 = 1 => ss[1] = ss[n + 1]
        OBVIOUS
  <2> QED BY <2>2, <2>3, <2>5, <2>6
<1> HIDE DEF T
<1>9. Nat \subseteq T
      BY <1>7, <1>8, NatIn
<1>10. upTo[0] = <<>>
      BY <1>1, <1>6 DEF body, JoinTo
<1>11. ASSUME NEW n \in 1..N
       PROVE  /\ upTo[n] \in Seq(S)
              /\ upTo[n] = IF n = 1 THEN ss[1] ELSE upTo[n - 1] \o <<gap>> \o ss[n]
  <2>1. n \in T /\ n \in 0..N /\ n # 0 /\ n <= N
        BY <1>1, <1>9
  <2> QED BY <1>6, <2>1 DEF body, JoinTo, T
<1> QED BY <1>2, <1>10, <1>11 DEF N

LEMMA JoinedIs ==
  ASSUME NEW S, NEW ss \in Seq(Seq(S)), NEW gap \in S
  PROVE  Joined(ss, gap) \in Seq(S)
<1>1. PICK f : /\ Joined(ss, gap) = f[Len(ss)] /\ f[0] = <<>>
               /\ \A n \in 1..Len(ss) : f[n] \in Seq(S)
      BY JoinedBy, ZenonT(60)
<1>2. Len(ss) \in Nat /\ <<>> \in Seq(S)
      OBVIOUS
<1> QED BY <1>1, <1>2

LEMMA InBounds == ASSUME NEW S, NEW n \in Nat PROVE BoundedSeq(S, n) \subseteq Seq(S)
<1>1. BoundedSeq(S, n) = UNION {[1..m -> S] : m \in 0..n}
      BY DEF BoundedSeq, SeqOf
<1> QED BY <1>1

\* What a sender keys at u samples a dit.
KeyedAt(u) == {r \in Runs : r.down => r.length \in {u, 3 * u}}

LEMMA KeyedRuns == ASSUME NEW u, NEW s \in Seq(KeyedAt(u)) PROVE s \in Seq(Runs)
<1>1. KeyedAt(u) \subseteq Runs
      BY DEF KeyedAt
<1> HIDE DEF KeyedAt
<1> QED BY <1>1

LEMMA RunsKeyed ==
  ASSUME speed \in Nat
  PROVE  /\ Down(1) \in KeyedAt(speed) /\ Down(3) \in KeyedAt(speed)
         /\ \A n \in Nat : Up(n) \in KeyedAt(speed)
<1>1. \A n \in Nat : n * speed \in Nat
      OBVIOUS
<1> QED BY <1>1 DEF Down, Up, Runs, KeyedAt

LEMMA ElementsKeyed ==
  ASSUME speed \in Nat, NEW letter \in Letters
  PROVE  Elements(letter) \in Seq(KeyedAt(speed))
<1> DEFINE S == KeyedAt(speed)
           ss == [n \in DOMAIN letter |-> <<Down(IF letter[n] = "dit" THEN 1 ELSE 3)>>]
<1>1. letter \in Seq({"dit", "dah"})
      BY MorseAssumption
<1>2. DOMAIN letter = 1..Len(letter) /\ Len(letter) \in Nat
      BY <1>1
<1> HIDE DEF S
<1>3. \A n \in DOMAIN letter : <<Down(IF letter[n] = "dit" THEN 1 ELSE 3)>> \in Seq(S)
  <2> TAKE n \in DOMAIN letter
  <2>1. Down(IF letter[n] = "dit" THEN 1 ELSE 3) \in S
        BY RunsKeyed, Zenon DEF S
  <2> QED BY <2>1
<1>4. ss \in Seq(Seq(S)) /\ Up(1) \in S
      BY <1>2, <1>3, RunsKeyed DEF S
<1> HIDE DEF ss
<1>5. Joined(ss, Up(1)) \in Seq(S)
      BY <1>4, JoinedIs
<1> QED BY <1>5 DEF Elements, ss, S

LEMMA KeyingKeyed ==
  ASSUME speed \in Nat, NEW word \in Words
  PROVE  Keying(word) \in Seq(KeyedAt(speed))
<1> DEFINE S == KeyedAt(speed)
           ss == [n \in DOMAIN word |-> Elements(word[n])]
<1>1. word \in Seq(Letters)
      BY InBounds, MorseAssumption DEF Words
<1>2. DOMAIN word = 1..Len(word) /\ Len(word) \in Nat
      BY <1>1
<1> HIDE DEF S
<1>3. \A n \in DOMAIN word : Elements(word[n]) \in Seq(S)
      BY <1>1, <1>2, ElementsKeyed DEF S
<1>4. ss \in Seq(Seq(S)) /\ Up(3) \in S
      BY <1>2, <1>3, RunsKeyed DEF S
<1> HIDE DEF ss
<1>5. Joined(ss, Up(3)) \in Seq(S)
      BY <1>4, JoinedIs
<1> QED BY <1>5 DEF Keying, ss, S

\* What is keyed is a sequence of runs, and where the key is down one of one dit or three.
LEMMA SignalKeyed ==
  ASSUME speed \in Nat, NEW text \in Transmissions, NEW quiet \in Nat
  PROVE  Signal(text, quiet) \in Seq(KeyedAt(speed))
<1> DEFINE S == KeyedAt(speed)
           ss == [n \in DOMAIN text |-> Keying(text[n])]
<1>1. text \in Seq(Words)
      BY InBounds, MorseAssumption DEF Transmissions
<1>2. DOMAIN text = 1..Len(text) /\ Len(text) \in Nat
      BY <1>1
<1> HIDE DEF S
<1>3. \A n \in DOMAIN text : Keying(text[n]) \in Seq(S)
      BY <1>1, <1>2, KeyingKeyed DEF S
<1>4. ss \in Seq(Seq(S)) /\ Up(7) \in S /\ Up(quiet) \in S
      BY <1>2, <1>3, RunsKeyed DEF S
<1> HIDE DEF ss
<1>5. Joined(ss, Up(7)) \in Seq(S) /\ <<Up(quiet)>> \in Seq(S)
      BY <1>4, JoinedIs
<1>6. Joined(ss, Up(7)) \o <<Up(quiet)>> \in Seq(S)
      BY <1>5
<1> QED BY <1>6 DEF Signal, ss, S

MorseInv ==
  /\ keyed \in Seq(Runs) /\ cursor \in 0..Len(keyed) + 2
  /\ read \in Seq(Table \cup {Blank, Unknown})

LEMMA MorseStarts == MorseInit => MorseInv
<1> SUFFICES ASSUME MorseInit PROVE MorseInv
      OBVIOUS
<1>1. PICK quiet \in Silences : keyed = Signal(message, quiet)
      BY DEF MorseInit
<1>2. speed \in Nat /\ quiet \in Nat /\ message \in Transmissions
      BY MorseAssumption DEF MorseInit, Silences
<1>3. keyed \in Seq(Runs)
      BY <1>1, <1>2, SignalKeyed, KeyedRuns
<1> QED BY <1>3 DEF MorseInit, MorseInv

LEMMA MorseGoesOn == MorseInv /\ [MorseNext]_morseVars => MorseInv'
<1> SUFFICES ASSUME MorseInv, [MorseNext]_morseVars PROVE MorseInv'
      OBVIOUS
<1>1. keyed \in Seq(Runs) /\ Len(keyed) \in Nat /\ DOMAIN keyed = 1..Len(keyed)
      /\ cursor \in 0..Len(keyed) + 2 /\ read \in Seq(Table \cup {Blank, Unknown})
      BY DEF MorseInv
<1>2. Committed \in Seq(Table \cup {Blank, Unknown})
  <2>1. Read(symbol) \in Table \cup {Blank, Unknown}
        BY DEF Read
  <2> QED BY <1>1, <2>1 DEF Committed
<1>3. CASE Measure
      BY <1>1, <1>3 DEF Measure, MorseInv
<1>4. CASE KeyDown
      BY <1>1, <1>4 DEF KeyDown, MorseInv
<1>5. CASE KeyUp
  <2>1. Append(Committed, Blank) \in Seq(Table \cup {Blank, Unknown})
        BY <1>2
  <2>2. read' = AfterGap(keyed[cursor].length) /\ keyed' = keyed /\ cursor \in DOMAIN keyed
        /\ cursor' = cursor + 1
        BY <1>5, Zenon DEF KeyUp
  <2>3. AfterGap(keyed[cursor].length) \in {read, Committed, Append(Committed, Blank)}
        BY Zenon DEF AfterGap
  <2>4. read' \in Seq(Table \cup {Blank, Unknown})
        BY <1>1, <1>2, <2>1, <2>2, <2>3
  <2> QED BY <1>1, <2>2, <2>4 DEF MorseInv
<1>6. CASE Finish
      BY <1>1, <1>2, <1>6 DEF Finish, MorseInv
<1>7. CASE UNCHANGED morseVars
      BY <1>7 DEF morseVars, MorseInv
<1> QED BY <1>3, <1>4, <1>5, <1>6, <1>7 DEF MorseNext

\* The decoder's cursor stays within what was keyed, and what it reads are letters of the
\* table, blanks and question marks (CWDecoder._timing_decode), for any table and any speeds.
THEOREM MorseTyped == MorseSpec => []MorseTypeOK
<1>1. MorseInv => MorseTypeOK
      BY DEF MorseInv, MorseTypeOK
<1> QED BY <1>1, MorseStarts, MorseGoesOn, PTL DEF MorseSpec

-----------------------------------------------------------------------------
(* What is read: where the decoder gets to, run by run, when a dit is known *)
(* to be u samples.                                                        *)

Position == [symbol : Seq({"dit", "dah"}), read : Seq(Table \cup {Blank, Unknown})]

Complete(x) == IF x.symbol = <<>> THEN x.read ELSE Append(x.read, Read(x.symbol))

After(x, r, u) ==
  IF r.down
  THEN [symbol |-> Append(x.symbol, IF r.length < 2 * u THEN "dit" ELSE "dah"), read |-> x.read]
  ELSE IF r.length < 2 * u THEN x
  ELSE [symbol |-> <<>>,
        read |-> IF r.length < 5 * u THEN Complete(x) ELSE Append(Complete(x), Blank)]

\* q goes through the runs s.
RunsThrough(q, s, u) ==
  /\ q \in [0..Len(s) -> Position]
  /\ \A n \in 1..Len(s) : q[n] = After(q[n - 1], s[n], u)

\* From X the runs s bring the decoder to Y.
Brings(s, X, Y, u) == \A q : RunsThrough(q, s, u) /\ q[0] \in X => q[Len(s)] \in Y

\* No letter begun, and the letters rs read; or one begun, and rs when it is complete.
Between(rs) == {[symbol |-> <<>>, read |-> rs]}
Within(rs) == {x \in Position : x.symbol # <<>> /\ Complete(x) = rs}

LEMMA BringsBoth ==
  ASSUME NEW a \in Seq(Runs), NEW b \in Seq(Runs), NEW X, NEW Y, NEW Z, NEW u,
         Brings(a, X, Y, u), Brings(b, Y, Z, u)
  PROVE  Brings(a \o b, X, Z, u)
<1> SUFFICES ASSUME NEW q, RunsThrough(q, a \o b, u), q[0] \in X PROVE q[Len(a \o b)] \in Z
    BY DEF Brings
<1> DEFINE m == Len(a)
           n == Len(b)
           f == [i \in 0..m |-> q[i]]
           g == [i \in 0..n |-> q[m + i]]
<1>1. /\ m \in Nat /\ n \in Nat /\ Len(a \o b) = m + n
      /\ \A i \in 1..m : (a \o b)[i] = a[i]
      /\ \A i \in 1..n : (a \o b)[m + i] = b[i]
      OBVIOUS
<1>2. /\ q \in [0..(m + n) -> Position]
      /\ \A i \in 1..(m + n) : q[i] = After(q[i - 1], (a \o b)[i], u)
      BY <1>1 DEF RunsThrough
<1>3. /\ \A i \in 0..m : i \in 0..(m + n)
      /\ \A i \in 0..n : m + i \in 0..(m + n)
      /\ \A i \in 1..m : i \in 1..(m + n) /\ i \in 0..m /\ i - 1 \in 0..m
      /\ \A i \in 1..n : m + i \in 1..(m + n) /\ i \in 0..n /\ i - 1 \in 0..n /\ (m + i) - 1 = m + (i - 1)
      /\ 0 \in 0..m /\ m \in 0..m /\ 0 \in 0..n /\ n \in 0..n /\ m + 0 = m
      BY <1>1
<1>4. RunsThrough(f, a, u) /\ f[0] \in X
  <2>1. f \in [0..m -> Position]
        BY <1>2, <1>3
  <2>2. \A i \in 1..m : f[i] = After(f[i - 1], a[i], u)
    <3> TAKE i \in 1..m
    <3>1. f[i] = q[i] /\ f[i - 1] = q[i - 1]
          BY <1>3
    <3>2. q[i] = After(q[i - 1], a[i], u)
          BY <1>1, <1>2, <1>3
    <3> HIDE DEF f
    <3> QED BY <3>1, <3>2
  <2>3. f[0] \in X
        BY <1>3
  <2> QED BY <2>1, <2>2, <2>3 DEF RunsThrough
<1>5. f[m] \in Y
      BY <1>4 DEF Brings
<1>6. RunsThrough(g, b, u) /\ g[0] \in Y
  <2>1. g \in [0..n -> Position]
        BY <1>2, <1>3
  <2>2. \A i \in 1..n : g[i] = After(g[i - 1], b[i], u)
    <3> TAKE i \in 1..n
    <3>1. g[i] = q[m + i] /\ g[i - 1] = q[m + (i - 1)]
          BY <1>3
    <3>2. q[m + i] = After(q[m + (i - 1)], b[i], u)
      <4>1. q[m + i] = After(q[(m + i) - 1], (a \o b)[m + i], u)
            BY <1>2, <1>3
      <4>2. (a \o b)[m + i] = b[i] /\ (m + i) - 1 = m + (i - 1)
            BY <1>1, <1>3
      <4> HIDE DEF m, n
      <4> QED BY <4>1, <4>2
    <3> HIDE DEF g
    <3> QED BY <3>1, <3>2
  <2>3. g[0] = f[m]
        BY <1>3
  <2> QED BY <1>5, <2>1, <2>2, <2>3 DEF RunsThrough
<1>7. g[n] \in Z
      BY <1>6 DEF Brings
<1> QED BY <1>1, <1>3, <1>7

LEMMA BringsOne ==
  ASSUME NEW r, NEW X, NEW Y, NEW u,
         \A x \in Position : x \in X => After(x, r, u) \in Y
  PROVE  Brings(<<r>>, X, Y, u)
<1> SUFFICES ASSUME NEW q, RunsThrough(q, <<r>>, u), q[0] \in X PROVE q[1] \in Y
    BY DEF Brings
<1>1. q \in [0..1 -> Position] /\ 0 \in 0..1 /\ 1 \in 1..1
      BY DEF RunsThrough
<1>2. q[1] = After(q[1 - 1], <<r>>[1], u) /\ 1 - 1 = 0 /\ <<r>>[1] = r
      BY <1>1 DEF RunsThrough
<1> QED BY <1>1, <1>2

LEMMA BringsJoined ==
  ASSUME NEW ss \in Seq(Seq(Runs)), NEW gap \in Runs, NEW X, NEW Y, NEW u, Len(ss) # 0,
         \A n \in 1..Len(ss) : Brings(ss[n], X[n], Y[n], u),
         \A n \in 1..(Len(ss) - 1) : Brings(<<gap>>, Y[n], X[n + 1], u)
  PROVE  Brings(Joined(ss, gap), X[1], Y[Len(ss)], u)
<1> DEFINE N == Len(ss)
           S == Runs
<1>1. N \in Nat /\ \A i \in 1..N : ss[i] \in Seq(S)
      OBVIOUS
<1> HIDE DEF S
<1>2. PICK f : /\ Joined(ss, gap) = f[N] /\ f[0] = <<>>
               /\ \A n \in 1..N : /\ f[n] \in Seq(S)
                                  /\ f[n] = IF n = 1 THEN ss[1] ELSE f[n - 1] \o <<gap>> \o ss[n]
      BY JoinedBy DEF S
<1> DEFINE T == {n \in Nat : n + 1 <= N => Brings(f[n + 1], X[1], Y[n + 1], u)}
<1> HIDE DEF N
<1>3. 0 \in T
      BY <1>1, <1>2 DEF N
<1>4. ASSUME NEW n \in Nat, n \in T PROVE n + 1 \in T
  <2> SUFFICES ASSUME (n + 1) + 1 <= N PROVE Brings(f[(n + 1) + 1], X[1], Y[(n + 1) + 1], u)
        OBVIOUS
  <2> DEFINE k == n + 1
  <2>1. k \in 1..N /\ k \in 1..(N - 1) /\ k + 1 \in 1..N /\ k + 1 # 1 /\ (k + 1) - 1 = k
        BY <1>1
  <2>2. Brings(f[k], X[1], Y[k], u)
        BY <1>4, <2>1
  <2> HIDE DEF k, T
  <2>3. f[k + 1] = f[k] \o <<gap>> \o ss[k + 1] /\ f[k] \in Seq(S) /\ ss[k + 1] \in Seq(S)
        BY <1>1, <1>2, <2>1
  <2>4. f[k] \o <<gap>> \in Seq(S) /\ <<gap>> \in Seq(S)
        BY <2>3 DEF S
  <2>5. Brings(f[k] \o <<gap>>, X[1], X[k + 1], u)
        BY <2>1, <2>2, <2>3, <2>4, BringsBoth DEF S, N
  <2>6. Brings((f[k] \o <<gap>>) \o ss[k + 1], X[1], Y[k + 1], u)
        BY <2>1, <2>3, <2>4, <2>5, BringsBoth DEF S, N
  <2> QED BY <2>3, <2>6 DEF k
<1> HIDE DEF T
<1>5. N - 1 \in Nat /\ (N - 1) + 1 = N /\ N <= N
      BY <1>1 DEF N
<1>6. N - 1 \in T
      BY <1>3, <1>4, <1>5, NatIn
<1>7. Brings(f[N], X[1], Y[N], u)
      BY <1>5, <1>6 DEF T
<1> QED BY <1>2, <1>7 DEF N

LEMMA BringsWider ==
  ASSUME NEW s, NEW X, NEW Y, NEW V, NEW W, NEW u, Brings(s, X, Y, u), V \subseteq X, Y \subseteq W
  PROVE  Brings(s, V, W, u)
BY DEF Brings

\* The first n elements of a sequence, one by one.
LEMMA PrefixGrows ==
  ASSUME NEW S, NEW s \in Seq(S), NEW n \in 1..Len(s)
  PROVE  /\ s[n] \in S
         /\ SubSeq(s, 1, n - 1) \in Seq(S) /\ SubSeq(s, 1, n) \in Seq(S)
         /\ Append(SubSeq(s, 1, n - 1), s[n]) = SubSeq(s, 1, n)
<1>1. Len(s) \in Nat /\ n \in Nat /\ n - 1 \in Nat /\ n <= Len(s)
      OBVIOUS
<1>2. \A k \in 0..Len(s) : /\ SubSeq(s, 1, k) \in Seq(S) /\ Len(SubSeq(s, 1, k)) = k
                           /\ \A i \in 1..k : SubSeq(s, 1, k)[i] = s[i]
      BY <1>1
<1>3. s[n] \in S /\ n - 1 \in 0..Len(s) /\ n \in 0..Len(s)
      BY <1>1
<1> DEFINE a == SubSeq(s, 1, n - 1)
           b == SubSeq(s, 1, n)
<1>4. /\ a \in Seq(S) /\ Len(a) = n - 1 /\ \A i \in 1..(n - 1) : a[i] = s[i]
      /\ b \in Seq(S) /\ Len(b) = n /\ \A i \in 1..n : b[i] = s[i]
      BY <1>2, <1>3
<1> HIDE DEF a, b
<1> DEFINE c == Append(a, s[n])
<1>5. /\ c \in Seq(S) /\ Len(c) = n /\ c[n] = s[n]
      /\ \A i \in 1..(n - 1) : c[i] = a[i]
      BY <1>1, <1>3, <1>4
<1> HIDE DEF c
<1>6. \A i \in 1..n : c[i] = b[i]
  <2> TAKE i \in 1..n
  <2>1. i \in 1..(n - 1) \/ i = n
        BY <1>1
  <2> QED BY <1>4, <1>5, <2>1
<1>7. c = b
      BY <1>4, <1>5, <1>6
<1> QED BY <1>3, <1>4, <1>7 DEF a, b, c

LEMMA WholePrefix ==
  ASSUME NEW S, NEW s \in Seq(S)
  PROVE  SubSeq(s, 1, Len(s)) = s /\ SubSeq(s, 1, 0) = <<>>
OBVIOUS

\* The letters, blanks and question marks that can be read.
LEMMA ReadFits ==
  ASSUME NEW letter
  PROVE  Read(letter) \in Table \cup {Blank, Unknown} /\ Read(letter) # Blank
<1>1. ASSUME letter \in Table PROVE letter # Blank
  <2>1. letter \in Seq({"dit", "dah"})
        BY <1>1, MorseAssumption
  <2>2. ASSUME letter = Blank PROVE FALSE
    <3>1. Len(letter) = 1 /\ letter[1] = "blank"
          BY <2>2 DEF Blank
    <3>2. letter[1] \in {"dit", "dah"}
          BY <2>1, <3>1
    <3> QED BY <3>1, <3>2
  <2> QED BY <2>2
<1>2. Unknown # Blank
  <2>1. Unknown[1] = "unknown" /\ Blank[1] = "blank"
        BY DEF Unknown, Blank
  <2> QED BY <2>1
<1> QED BY <1>1, <1>2 DEF Read

\* Keying a letter: its elements are taken for what they are, and the gaps between them for
\* no end.
LEMMA LetterBrings ==
  ASSUME speed \in Nat \ {0}, NEW letter \in Letters,
         NEW rs \in Seq(Table \cup {Blank, Unknown})
  PROVE  Brings(Elements(letter), Between(rs), Within(Append(rs, Read(letter))), speed)
<1> DEFINE S == {"dit", "dah"}
           N == Len(letter)
           ss == [n \in DOMAIN letter |-> <<Down(IF letter[n] = "dit" THEN 1 ELSE 3)>>]
           At(n) == {[symbol |-> SubSeq(letter, 1, n), read |-> rs]}
           X == [n \in 1..N |-> At(n - 1)]
           Y == [n \in 1..N |-> At(n)]
<1>1. letter \in Seq(S) /\ N \in Nat /\ N # 0 /\ DOMAIN letter = 1..N
      BY MorseAssumption
<1>2. \A n \in 1..N : ss[n] = <<Down(IF letter[n] = "dit" THEN 1 ELSE 3)>>
      BY <1>1
<1>3. ss \in Seq(Seq(Runs)) /\ Len(ss) = N
  <2>1. \A n \in 1..N : <<Down(IF letter[n] = "dit" THEN 1 ELSE 3)>> \in Seq(Runs)
    <3> TAKE n \in 1..N
    <3>1. Down(IF letter[n] = "dit" THEN 1 ELSE 3) \in Runs
          BY RunsKeyed, Zenon DEF KeyedAt
    <3> QED BY <3>1
  <2> QED BY <1>1, <2>1
<1>4. Up(1) \in Runs
      BY RunsKeyed DEF KeyedAt
<1>5. /\ Down(1).down /\ Down(1).length = speed /\ Down(3).down /\ Down(3).length = 3 * speed
      /\ ~Up(1).down /\ Up(1).length = speed
      BY DEF Down, Up
<1> HIDE DEF ss
<1>6. ASSUME NEW n \in 1..N PROVE Brings(ss[n], X[n], Y[n], speed)
  <2> DEFINE r == Down(IF letter[n] = "dit" THEN 1 ELSE 3)
  <2>1. letter[n] \in S
        BY <1>1
  <2>2. r.down /\ r.length = IF letter[n] = "dit" THEN speed ELSE 3 * speed
        BY <1>5
  <2> HIDE DEF r
  <2>3. (IF r.length < 2 * speed THEN "dit" ELSE "dah") = letter[n]
        BY <2>1, <2>2
  <2>4. Append(SubSeq(letter, 1, n - 1), letter[n]) = SubSeq(letter, 1, n)
        BY <1>1, PrefixGrows
  <2> DEFINE x == [symbol |-> SubSeq(letter, 1, n - 1), read |-> rs]
  <2>8. x.symbol = SubSeq(letter, 1, n - 1) /\ x.read = rs
        OBVIOUS
  <2> HIDE DEF x
  <2>9. After(x, r, speed) = [symbol |-> SubSeq(letter, 1, n), read |-> rs]
        BY <2>2, <2>3, <2>4, <2>8, Zenon DEF After
  <2>5. \A y : y \in At(n - 1) => After(y, r, speed) \in At(n)
        BY <2>9 DEF x
  <2>6. X[n] = At(n - 1) /\ Y[n] = At(n)
        OBVIOUS
  <2>7. Brings(<<r>>, X[n], Y[n], speed)
        BY <2>5, <2>6, BringsOne
  <2> QED BY <1>2, <2>7 DEF r
<1>7. ASSUME NEW n \in 1..(N - 1) PROVE Brings(<<Up(1)>>, Y[n], X[n + 1], speed)
  <2>1. n \in 1..N /\ n + 1 \in 1..N /\ (n + 1) - 1 = n
        BY <1>1
  <2>2. Y[n] = At(n) /\ X[n + 1] = At(n)
        BY <2>1
  <2>3. \A x : x \in At(n) => After(x, Up(1), speed) \in At(n)
        BY <1>5 DEF After
  <2> QED BY <2>2, <2>3, BringsOne
<1>8. X[1] = Between(rs) /\ Y[N] \subseteq Within(Append(rs, Read(letter)))
  <2>1. SubSeq(letter, 1, 0) = <<>> /\ SubSeq(letter, 1, N) = letter /\ letter # <<>>
        BY <1>1, WholePrefix
  <2>2. 1 \in 1..N /\ N \in 1..N /\ 1 - 1 = 0
        BY <1>1
  <2>3. X[1] = Between(rs) /\ Y[N] = {[symbol |-> letter, read |-> rs]}
        BY <2>1, <2>2 DEF Between
  <2>4. [symbol |-> letter, read |-> rs] \in Within(Append(rs, Read(letter)))
        BY <1>1, <2>1 DEF Within, Position, Complete
  <2> QED BY <2>3, <2>4
<1> HIDE DEF X, Y, N
<1>9. Brings(Joined(ss, Up(1)), X[1], Y[N], speed)
      BY <1>1, <1>3, <1>4, <1>6, <1>7, BringsJoined
<1>10. Brings(Joined(ss, Up(1)), Between(rs), Within(Append(rs, Read(letter))), speed)
      BY <1>8, <1>9, BringsWider
<1> QED BY <1>10 DEF Elements, ss

\* A gap ends what it is as long as.
LEMMA GapsBring ==
  ASSUME speed \in Nat \ {0}, NEW rs \in Seq(Table \cup {Blank, Unknown})
  PROVE  /\ Brings(<<Up(1)>>, Within(rs), Within(rs), speed)
         /\ Brings(<<Up(3)>>, Within(rs), Between(rs), speed)
         /\ \A n \in {7, 9} : Brings(<<Up(n)>>, Within(rs), Between(Append(rs, Blank)), speed)
<1>1. \A n \in {1, 3, 7, 9} :
        /\ ~Up(n).down
        /\ Up(n).length < 2 * speed <=> n = 1
        /\ Up(n).length < 5 * speed <=> n \in {1, 3}
      BY DEF Up
<1>2. ASSUME NEW x \in Within(rs) PROVE After(x, Up(1), speed) = x
      BY <1>1 DEF After
<1>3. ASSUME NEW x \in Within(rs) PROVE After(x, Up(3), speed) = [symbol |-> <<>>, read |-> rs]
      BY <1>1 DEF After, Within
<1>4. ASSUME NEW x \in Within(rs), NEW n \in {7, 9}
      PROVE  After(x, Up(n), speed) = [symbol |-> <<>>, read |-> Append(rs, Blank)]
  <2>1. ~Up(n).down /\ ~(Up(n).length < 2 * speed) /\ ~(Up(n).length < 5 * speed)
        BY <1>1
  <2>2. Complete(x) = rs
        BY DEF Within
  <2> QED BY <2>1, <2>2, Zenon DEF After
<1>5. Brings(<<Up(1)>>, Within(rs), Within(rs), speed)
      BY <1>2, BringsOne
<1>6. Brings(<<Up(3)>>, Within(rs), Between(rs), speed)
      BY <1>3, BringsOne DEF Between
<1>7. ASSUME NEW n \in {7, 9}
      PROVE  Brings(<<Up(n)>>, Within(rs), Between(Append(rs, Blank)), speed)
      BY <1>4, BringsOne DEF Between
<1> QED BY <1>5, <1>6, <1>7

\* What a word reads.
WordRead(word) == [k \in DOMAIN word |-> Read(word[k])]

\* r and the first n elements of s.
Longer(r, s, n) == r \o SubSeq(s, 1, n)

LEMMA LongerGrows ==
  ASSUME NEW S, NEW r \in Seq(S), NEW s \in Seq(S), NEW n \in 1..Len(s)
  PROVE  /\ Longer(r, s, n - 1) \in Seq(S) /\ Longer(r, s, n) \in Seq(S)
         /\ Append(Longer(r, s, n - 1), s[n]) = Longer(r, s, n)
<1> DEFINE a == SubSeq(s, 1, n - 1)
           b == SubSeq(s, 1, n)
           e == s[n]
           k == Len(r)
           l == n - 1
<1>1. a \in Seq(S) /\ b \in Seq(S) /\ e \in S
      BY PrefixGrows
<1>2. /\ k \in Nat /\ l \in Nat /\ Len(a) = l /\ Len(b) = l + 1 /\ b[l + 1] = e
      /\ \A i \in 1..l : b[i] = a[i]
      OBVIOUS
<1> HIDE DEF a, b, e, l
<1> DEFINE p == r \o a
           c == Append(p, e)
           d == r \o b
<1>3. /\ p \in Seq(S) /\ Len(p) = k + l
      /\ \A i \in 1..(k + l) : p[i] = IF i <= k THEN r[i] ELSE a[i - k]
      BY <1>1, <1>2
<1>6. /\ d \in Seq(S) /\ Len(d) = k + Len(b)
      /\ \A i \in 1..(k + Len(b)) : d[i] = IF i <= k THEN r[i] ELSE b[i - k]
      BY <1>1
<1> HIDE DEF p, d
<1>9. \A i \in 1..Len(p) : i # Len(p) + 1
      BY <1>3
<1>7. /\ c \in Seq(S) /\ Len(c) = Len(p) + 1 /\ c[Len(p) + 1] = e
      /\ \A i \in 1..Len(p) : c[i] = p[i]
      BY <1>1, <1>3, <1>9
<1> HIDE DEF c, k
<1>8. ASSUME NEW i \in 1..Len(c) PROVE c[i] = d[i]
  <2>1. i \in 1..(k + l) \/ i = (k + l) + 1
        BY <1>2, <1>3, <1>7
  <2>2. CASE i \in 1..(k + l)
    <3>1. i \in 1..(k + Len(b)) /\ (i <= k \/ i - k \in 1..l)
          BY <1>2, <2>2
    <3> QED BY <1>2, <1>3, <1>6, <1>7, <2>2, <3>1
  <2>3. CASE i = (k + l) + 1
    <3>1. i \in 1..(k + Len(b)) /\ ~(i <= k) /\ i - k = l + 1
          BY <1>2, <2>3
    <3> QED BY <1>2, <1>3, <1>6, <1>7, <2>3, <3>1
  <2> QED BY <2>1, <2>2, <2>3
<1>10. Len(c) = Len(d)
      BY <1>2, <1>3, <1>6, <1>7
<1>4. c = d
      BY <1>6, <1>7, <1>8, <1>10, SMTT(60)
<1>5. p \in Seq(S) /\ d \in Seq(S)
      BY <1>3, <1>6
<1> QED BY <1>4, <1>5, Zenon DEF Longer, a, b, c, d, e, p

LEMMA AppendNothing == ASSUME NEW S, NEW a \in Seq(S) PROVE a \o <<>> = a /\ <<>> \o a = a
OBVIOUS

\* Keying a word: its letters are read in turn, the last one when it is complete.
LEMMA WordBrings ==
  ASSUME speed \in Nat \ {0}, NEW word \in Words,
         NEW rs \in Seq(Table \cup {Blank, Unknown})
  PROVE  Brings(Keying(word), Between(rs), Within(rs \o WordRead(word)), speed)
<1> DEFINE S == Table \cup {Blank, Unknown}
           N == Len(word)
           wr == WordRead(word)
           ss == [n \in DOMAIN word |-> Elements(word[n])]
           At(n) == Longer(rs, wr, n)
           X == [n \in 1..N |-> Between(At(n - 1))]
           Y == [n \in 1..N |-> Within(At(n))]
<1>1. word \in Seq(Letters) /\ N \in Nat /\ N # 0 /\ DOMAIN word = 1..N
  <2>1. word \in Seq(Letters) /\ word # <<>>
        BY InBounds, MorseAssumption DEF Words
  <2> QED BY <2>1
<1>2. wr \in Seq(S) /\ Len(wr) = N /\ \A n \in 1..N : wr[n] = Read(word[n])
  <2>1. \A n \in 1..N : Read(word[n]) \in S
        BY ReadFits
  <2> QED BY <1>1, <2>1 DEF WordRead
<1>3. ss \in Seq(Seq(Runs)) /\ Len(ss) = N /\ \A n \in 1..N : ss[n] = Elements(word[n])
  <2>1. \A n \in 1..N : Elements(word[n]) \in Seq(Runs)
        BY <1>1, ElementsKeyed, KeyedRuns
  <2> QED BY <1>1, <2>1
<1>4. Up(3) \in Runs
      BY RunsKeyed DEF KeyedAt
<1> HIDE DEF ss, wr, S
<1>5. ASSUME NEW n \in 1..N
      PROVE  At(n - 1) \in Seq(S) /\ At(n) \in Seq(S) /\ Append(At(n - 1), Read(word[n])) = At(n)
  <2>1. rs \in Seq(S) /\ wr \in Seq(S) /\ n \in 1..Len(wr)
        BY <1>2 DEF S
  <2> QED BY <1>2, <2>1, LongerGrows
<1> HIDE DEF At
<1>6. ASSUME NEW n \in 1..N PROVE Brings(ss[n], X[n], Y[n], speed)
  <2>1. At(n - 1) \in Seq(Table \cup {Blank, Unknown}) /\ word[n] \in Letters
        BY <1>1, <1>5 DEF S
  <2>2. Brings(Elements(word[n]), Between(At(n - 1)), Within(Append(At(n - 1), Read(word[n]))), speed)
        BY <2>1, LetterBrings
  <2>3. ss[n] = Elements(word[n]) /\ X[n] = Between(At(n - 1)) /\ Y[n] = Within(At(n))
        BY <1>3
  <2> QED BY <1>5, <2>2, <2>3
<1>7. ASSUME NEW n \in 1..(N - 1) PROVE Brings(<<Up(3)>>, Y[n], X[n + 1], speed)
  <2>1. n \in 1..N /\ n + 1 \in 1..N /\ (n + 1) - 1 = n
        BY <1>1
  <2>2. Y[n] = Within(At(n)) /\ X[n + 1] = Between(At(n))
        BY <2>1
  <2>3. At(n) \in Seq(Table \cup {Blank, Unknown})
        BY <1>5, <2>1 DEF S
  <2> QED BY <2>2, <2>3, GapsBring
<1>8. X[1] = Between(rs) /\ Y[N] = Within(rs \o wr)
  <2>1. SubSeq(wr, 1, 0) = <<>> /\ SubSeq(wr, 1, N) = wr
        BY <1>2, WholePrefix
  <2>2. 1 \in 1..N /\ N \in 1..N /\ 1 - 1 = 0 /\ rs \o <<>> = rs
        BY <1>1, AppendNothing
  <2>3. X[1] = Between(At(0)) /\ Y[N] = Within(At(N))
        BY <2>2
  <2> QED BY <2>1, <2>2, <2>3 DEF At, Longer
<1> HIDE DEF X, Y, N
<1>9. Brings(Joined(ss, Up(3)), X[1], Y[N], speed)
      BY <1>1, <1>3, <1>4, <1>6, <1>7, BringsJoined
<1> QED BY <1>8, <1>9 DEF Keying, ss, wr

LEMMA WordReads ==
  ASSUME NEW word \in Words
  PROVE  WordRead(word) \in Seq(Table \cup {Blank, Unknown})
<1> DEFINE S == Table \cup {Blank, Unknown}
<1>1. word \in Seq(Letters)
      BY InBounds, MorseAssumption DEF Words
<1>2. \A k \in DOMAIN word : Read(word[k]) \in S
      BY ReadFits
<1> HIDE DEF S
<1>3. WordRead(word) \in Seq(S)
      BY <1>1, <1>2 DEF WordRead
<1> QED BY <1>3 DEF S

\* Keying a text and the quiet after it: what has been read when all is keyed, or will be
\* when the last letter is complete, is the reference, with a blank if the quiet was long.
LEMMA SignalBrings ==
  ASSUME speed \in Nat \ {0}, NEW text \in Transmissions, NEW quiet \in Silences
  PROVE  /\ Reference(text) \in Seq(Table \cup {Blank, Unknown})
         /\ Brings(Signal(text, quiet), Between(<<>>),
                   Within(Reference(text)) \cup Between(Append(Reference(text), Blank)), speed)
<1> DEFINE S == Table \cup {Blank, Unknown}
           N == Len(text)
           ss == [n \in DOMAIN text |-> Keying(text[n])]
           rr == [n \in DOMAIN text |-> WordRead(text[n])]
<1>1. text \in Seq(Words) /\ N \in Nat /\ N # 0 /\ DOMAIN text = 1..N
  <2>1. text \in Seq(Words) /\ text # <<>>
        BY InBounds, MorseAssumption DEF Transmissions
  <2> QED BY <2>1
<1>2. rr \in Seq(Seq(S)) /\ Len(rr) = N /\ \A n \in 1..N : rr[n] = WordRead(text[n])
  <2>1. \A n \in 1..N : WordRead(text[n]) \in Seq(S)
        BY <1>1, WordReads
  <2> HIDE DEF S
  <2> QED BY <1>1, <2>1
<1>3. ss \in Seq(Seq(Runs)) /\ Len(ss) = N /\ \A n \in 1..N : ss[n] = Keying(text[n])
  <2>1. \A n \in 1..N : Keying(text[n]) \in Seq(Runs)
        BY <1>1, KeyingKeyed, KeyedRuns
  <2> QED BY <1>1, <2>1
<1>4. Up(7) \in Runs /\ Up(quiet) \in Runs
      BY RunsKeyed DEF KeyedAt, Silences
<1>5. Reference(text) = Joined(rr, Blank) /\ Signal(text, quiet) = Joined(ss, Up(7)) \o <<Up(quiet)>>
      BY Zenon DEF Reference, WordRead, Signal
<1> HIDE DEF ss, rr
<1>6. Blank \in S
      OBVIOUS
<1> HIDE DEF S
<1>7. PICK f : /\ Joined(rr, Blank) = f[N] /\ f[0] = <<>>
               /\ \A n \in 1..N : /\ f[n] \in Seq(S)
                                  /\ f[n] = IF n = 1 THEN rr[1] ELSE f[n - 1] \o <<Blank>> \o rr[n]
      BY <1>2, <1>6, JoinedBy
<1> DEFINE Pre(n) == IF n = 1 THEN <<>> ELSE Append(f[n - 1], Blank)
           X == [n \in 1..N |-> Between(Pre(n))]
           Y == [n \in 1..N |-> Within(f[n])]
<1>8. ASSUME NEW n \in 1..N PROVE Pre(n) \in Seq(S) /\ f[n] = Pre(n) \o rr[n]
  <2>1. CASE n = 1
    <3> DEFINE g == rr[n]
    <3>1. f[n] = g /\ g \in Seq(S) /\ Pre(n) = <<>>
          BY <1>2, <1>7, <2>1
    <3> HIDE DEF g, Pre
    <3>2. <<>> \o g = g /\ <<>> \in Seq(S)
          BY <3>1
    <3> QED BY <3>1, <3>2 DEF g
  <2>2. CASE n # 1
    <3> DEFINE g == f[n - 1]
    <3>1. n - 1 \in 1..N
          BY <1>1, <2>2
    <3>2. g \in Seq(S) /\ f[n] = g \o <<Blank>> \o rr[n] /\ Pre(n) = Append(g, Blank)
          BY <1>7, <2>2, <3>1
    <3> HIDE DEF g
    <3>3. Append(g, Blank) = g \o <<Blank>> /\ Append(g, Blank) \in Seq(S)
          BY <1>6, <3>2
    <3> QED BY <3>2, <3>3
  <2> QED BY <2>1, <2>2
<1> HIDE DEF Pre
<1>9. ASSUME NEW n \in 1..N PROVE Brings(ss[n], X[n], Y[n], speed)
  <2>1. Pre(n) \in Seq(Table \cup {Blank, Unknown}) /\ text[n] \in Words
        BY <1>1, <1>8 DEF S
  <2>2. Brings(Keying(text[n]), Between(Pre(n)), Within(Pre(n) \o WordRead(text[n])), speed)
        BY <2>1, WordBrings
  <2>3. ss[n] = Keying(text[n]) /\ X[n] = Between(Pre(n)) /\ Y[n] = Within(f[n])
        BY <1>3
  <2>4. f[n] = Pre(n) \o WordRead(text[n])
        BY <1>2, <1>8
  <2> QED BY <2>2, <2>3, <2>4
<1>10. ASSUME NEW n \in 1..(N - 1) PROVE Brings(<<Up(7)>>, Y[n], X[n + 1], speed)
  <2>1. n \in 1..N /\ n + 1 \in 1..N /\ (n + 1) - 1 = n /\ n + 1 # 1
        BY <1>1
  <2>2. Y[n] = Within(f[n]) /\ X[n + 1] = Between(Append(f[n], Blank))
        BY <2>1 DEF Pre
  <2>3. f[n] \in Seq(Table \cup {Blank, Unknown})
        BY <1>7, <2>1 DEF S
  <2> QED BY <2>2, <2>3, GapsBring
<1>11. X[1] = Between(<<>>) /\ Y[N] = Within(Reference(text)) /\ N \in 1..N
       BY <1>1, <1>5, <1>7 DEF Pre
<1>12. Reference(text) \in Seq(S)
       BY <1>5, <1>7, <1>11
<1> HIDE DEF X, Y, N
<1>13. Brings(Joined(ss, Up(7)), X[1], Y[N], speed)
       BY <1>1, <1>3, <1>4, <1>9, <1>10, BringsJoined
<1> DEFINE Z == Within(Reference(text)) \cup Between(Append(Reference(text), Blank))
<1>14. Brings(<<Up(quiet)>>, Within(Reference(text)), Z, speed)
  <2>1. /\ Brings(<<Up(1)>>, Within(Reference(text)), Within(Reference(text)), speed)
        /\ Brings(<<Up(9)>>, Within(Reference(text)), Between(Append(Reference(text), Blank)), speed)
        BY <1>12, GapsBring DEF S
  <2>2. quiet = 1 \/ quiet = 9
        BY DEF Silences
  <2> QED BY <2>1, <2>2, BringsWider
<1> HIDE DEF Z
<1>15. Joined(ss, Up(7)) \in Seq(Runs) /\ <<Up(quiet)>> \in Seq(Runs)
       BY <1>3, <1>4, JoinedIs
<1>16. Brings(Joined(ss, Up(7)) \o <<Up(quiet)>>, Between(<<>>), Z, speed)
       BY <1>11, <1>13, <1>14, <1>15, BringsBoth
<1> QED BY <1>5, <1>12, <1>16 DEF S, Z

\* With enough dits among the key-downs the percentile is the length of a dit.
LEMMA PercentileIsADit ==
  ASSUME speed \in Nat \ {0}, keyed \in Seq(KeyedAt(speed)), 3 * Dits >= Cardinality(Downs) + 3
  PROVE  Percentile33 = 100 * speed
<1> DEFINE D == {n \in Downs : keyed[n].length = speed}
           N == Cardinality(Downs)
           d == Cardinality(D)
<1>1. DOMAIN keyed = 1..Len(keyed) /\ Len(keyed) \in Nat
      OBVIOUS
<1>2. \A n \in Downs : keyed[n].length \in {speed, 3 * speed}
      BY <1>1 DEF Downs, KeyedAt
<1>3. IsFiniteSet(Downs) /\ D \subseteq Downs
  <2>1. IsFiniteSet(1..Len(keyed))
        BY <1>1, FS_Interval
  <2> QED BY <1>1, <2>1, FS_Subset DEF Downs
<1>4. N \in Nat /\ d \in Nat /\ d <= N /\ 3 * d >= N + 3
      BY <1>3, FS_CardinalityType, FS_Subset DEF Dits
<1>5. D # {}
  <2>1. Cardinality(D) # 0
        BY <1>4
  <2> HIDE DEF D
  <2> QED BY <2>1, FS_EmptySet
<1>6. ASSUME NEW k \in 1..d PROVE Ordered(k) = speed
  <2> DEFINE L == {keyed[n].length : n \in Downs}
             Shorter(v) == Cardinality({n \in Downs : keyed[n].length < v})
             AtMost(v) == Cardinality({n \in Downs : keyed[n].length <= v})
             Is(v) == Shorter(v) < k /\ k <= AtMost(v)
  <2>1. {n \in Downs : keyed[n].length < speed} = {}
        BY <1>2
  <2>2. {n \in Downs : keyed[n].length <= speed} = D
        BY <1>2
  <2>3. {n \in Downs : keyed[n].length < 3 * speed} = D
        BY <1>2
  <2>4. Shorter(speed) = 0 /\ AtMost(speed) = d /\ Shorter(3 * speed) = d
        BY <2>1, <2>2, <2>3, FS_EmptySet
  <2>7. Ordered(k) = CHOOSE v \in L : Is(v)
        BY DEF Ordered
  <2> HIDE DEF Shorter, AtMost, d
  <2>5. Is(speed) /\ ~Is(3 * speed)
        BY <1>4, <2>4
  <2>6. speed \in L /\ \A v \in L : v \in {speed, 3 * speed}
        BY <1>2, <1>5
  <2> HIDE DEF L, Is
  <2> QED BY <2>5, <2>6, <2>7
<1> DEFINE place == 33 * (N - 1)
           i == place \div 100
           rest == place % 100
<1> HIDE DEF N, d
<1>7. place \in Nat /\ i \in Nat /\ rest \in 0..99 /\ place = 100 * i + rest
  <2>1. place \in Nat
        BY <1>4
  <2> HIDE DEF place
  <2> QED BY <2>1
<1>8. i + 1 \in 1..d /\ i + 2 \in 1..d
  <2> HIDE DEF i, rest
  <2> QED BY <1>4, <1>7
<1>9. Ordered(i + 1) = speed /\ Ordered(i + 2) = speed
      BY <1>6, <1>8
<1>10. Percentile33 = 100 * Ordered(i + 1) + (rest * (Ordered(i + 2) - Ordered(i + 1)))
       BY DEF Percentile33, N
<1> HIDE DEF i, rest, place
<1>11. Ordered(i + 2) - Ordered(i + 1) = 0
       BY <1>9
<1> QED BY <1>7, <1>9, <1>10, <1>11

\* What the decoder stands for at the end of a signal, and the way it came there so far.
Ends(text) == Within(Reference(text)) \cup Between(Append(Reference(text), Blank))
Here == [symbol |-> symbol, read |-> read]

CameByRuns ==
  \E q \in [0..(cursor - 1) -> Position] :
    /\ q[0] \in Between(<<>>)
    /\ \A n \in 1..(cursor - 1) : q[n] = After(q[n - 1], keyed[n], speed)
    /\ q[cursor - 1] = Here

EnoughDits == 3 * Dits >= Cardinality(Downs) + 3

\* As long as there are dits enough the decoder is where the runs before its cursor bring it;
\* all of them bring it to the end of what was sent.
ReadInv ==
  /\ MorseInv /\ speed \in Nat \ {0} /\ symbol \in Seq({"dit", "dah"})
  /\ keyed \in Seq(KeyedAt(speed))
  /\ Reference(message) \in Seq(Table \cup {Blank, Unknown})
  /\ Brings(keyed, Between(<<>>), Ends(message), speed)
  /\ cursor = 0 => symbol = <<>> /\ read = <<>>
  /\ EnoughDits /\ cursor \in 1..(Len(keyed) + 1) => CameByRuns
  /\ ReadAsSent

\* The last element and the rest.
LEMMA LastAndFront ==
  ASSUME NEW S, NEW s \in Seq(S), NEW e \in S
  PROVE  Append(s, e) # <<>> /\ Last(Append(s, e)) = e /\ Front(Append(s, e)) = s
<1> DEFINE t == Append(s, e)
<1>1. t \in Seq(S) /\ Len(t) = Len(s) + 1 /\ t[Len(t)] = e /\ \A i \in 1..Len(s) : t[i] = s[i]
      OBVIOUS
<1>2. t # <<>> /\ Last(t) = e
      BY <1>1 DEF Last
<1> DEFINE f == Front(t)
<1> HIDE DEF t
<1>3. f \in Seq(S) /\ Len(f) = Len(s) /\ \A i \in 1..Len(s) : f[i] = t[i]
      BY <1>1 DEF Front
<1> HIDE DEF f
<1>4. f = s
      BY <1>1, <1>3
<1> QED BY <1>2, <1>4 DEF f, t

LEMMA StrippedIs ==
  ASSUME NEW rs \in Seq(Table \cup {Blank, Unknown}), NEW e \in Table \cup {Blank, Unknown}
  PROVE  Stripped(Append(rs, e)) = IF e = Blank THEN rs ELSE Append(rs, e)
<1>1. Append(rs, e) # <<>> /\ Last(Append(rs, e)) = e /\ Front(Append(rs, e)) = rs
      BY LastAndFront
<1> QED BY <1>1, Zenon DEF Stripped

LEMMA AfterFits ==
  ASSUME NEW x \in Position, NEW r, NEW u
  PROVE  After(x, r, u) \in Position
<1> DEFINE S == Table \cup {Blank, Unknown}
           e == Read(x.symbol)
<1>1. x.symbol \in Seq({"dit", "dah"}) /\ x.read \in Seq(S) /\ x = [symbol |-> x.symbol, read |-> x.read]
      BY DEF Position
<1>2. e \in S /\ Blank \in S
      BY ReadFits
<1> HIDE DEF S, e
<1>3. Complete(x) \in Seq(S) /\ Append(Complete(x), Blank) \in Seq(S)
  <2>1. Append(x.read, e) \in Seq(S)
        BY <1>1, <1>2
  <2>2. Complete(x) \in Seq(S)
        BY <1>1, <2>1 DEF Complete, e
  <2> QED BY <1>2, <2>2
<1>4. ASSUME NEW sym \in Seq({"dit", "dah"}), NEW rs \in Seq(S)
      PROVE  [symbol |-> sym, read |-> rs] \in Position
      BY DEF Position, S
<1>5. CASE r.down
  <2> DEFINE y == Append(x.symbol, IF r.length < 2 * u THEN "dit" ELSE "dah")
  <2>1. y \in Seq({"dit", "dah"})
        BY <1>1
  <2>2. After(x, r, u) = [symbol |-> y, read |-> x.read]
        BY <1>5 DEF After
  <2> HIDE DEF y
  <2> QED BY <1>1, <1>4, <2>1, <2>2
<1>6. CASE ~r.down
  <2>1. <<>> \in Seq({"dit", "dah"})
        OBVIOUS
  <2>2. After(x, r, u) \in {x, [symbol |-> <<>>, read |-> Complete(x)],
                            [symbol |-> <<>>, read |-> Append(Complete(x), Blank)]}
        BY <1>6, Zenon DEF After
  <2> QED BY <1>3, <1>4, <2>1, <2>2
<1> QED BY <1>5, <1>6

\* A step of the decoder is what a run does when a dit is as long as it is.
LEMMA StepIsAfter ==
  ASSUME ReadInv, EnoughDits, KeyDown \/ KeyUp
  PROVE  /\ Here' = After(Here, keyed[cursor], speed) /\ Here' \in Position
         /\ cursor \in 1..Len(keyed) /\ cursor' = cursor + 1 /\ UNCHANGED <<message, speed, keyed>>
<1> DEFINE r == keyed[cursor]
<1>1. cursor \in 1..Len(keyed) /\ cursor' = cursor + 1 /\ UNCHANGED <<message, speed, keyed>>
      BY DEF KeyDown, KeyUp, ReadInv
<1>2. r.length \in Nat /\ r.down \in BOOLEAN
      BY <1>1 DEF ReadInv, KeyedAt, Runs
<1>3. Percentile33 = 100 * speed
      BY PercentileIsADit DEF ReadInv, EnoughDits
<1> HIDE DEF r
<1>4. (Under(r.length, 2) <=> r.length < 2 * speed) /\ (Under(r.length, 5) <=> r.length < 5 * speed)
      BY <1>2, <1>3 DEF Under, ReadInv
<1>5. /\ Here.symbol = symbol /\ Here.read = read /\ Complete(Here) = Committed
      /\ Here' = [symbol |-> symbol', read |-> read']
      BY DEF Here, Complete, Committed
<1>6. Here \in Position
      BY DEF Here, Position, ReadInv, MorseInv
<1>7. ASSUME KeyDown PROVE Here' = After(Here, r, speed)
  <2>1. /\ r.down /\ symbol' = Append(symbol, IF Under(r.length, 2) THEN "dit" ELSE "dah")
        /\ read' = read
        BY <1>7, Zenon DEF KeyDown, r
  <2> QED BY <1>4, <1>5, <2>1, Zenon DEF After
<1>8. ASSUME KeyUp PROVE Here' = After(Here, r, speed)
  <2>1. /\ ~r.down /\ read' = AfterGap(r.length)
        /\ symbol' = IF Under(r.length, 2) THEN symbol ELSE <<>>
        BY <1>8, Zenon DEF KeyUp, r
  <2>2. CASE Under(r.length, 2)
    <3>1. Here' = Here
          BY <2>1, <2>2, Zenon DEF AfterGap, Here
    <3>2. After(Here, r, speed) = Here
          BY <1>4, <2>1, <2>2, Zenon DEF After
    <3> QED BY <3>1, <3>2
  <2>3. CASE ~Under(r.length, 2)
    <3>1. symbol' = <<>> /\ read' = IF Under(r.length, 5) THEN Committed ELSE Append(Committed, Blank)
          BY <2>1, <2>3, Zenon DEF AfterGap
    <3>2. After(Here, r, speed)
            = [symbol |-> <<>>,
               read |-> IF Under(r.length, 5) THEN Committed ELSE Append(Committed, Blank)]
          BY <1>4, <1>5, <2>1, <2>3, Zenon DEF After
    <3> QED BY <1>5, <3>1, <3>2, Zenon
  <2> QED BY <2>2, <2>3
<1>9. Here' = After(Here, r, speed)
      BY <1>7, <1>8
<1>10. Here' \in Position
       BY <1>6, <1>9, AfterFits
<1> QED BY <1>1, <1>9, <1>10 DEF r

LEMMA CameFurther ==
  ASSUME ReadInv, EnoughDits, KeyDown \/ KeyUp, CameByRuns
  PROVE  CameByRuns'
<1> DEFINE c == cursor
<1>1. /\ Here' = After(Here, keyed[c], speed) /\ Here' \in Position
      /\ c \in 1..Len(keyed) /\ cursor' = c + 1 /\ keyed' = keyed /\ speed' = speed
      BY StepIsAfter
<1>2. c \in Nat /\ (c + 1) - 1 = c /\ 0 \in 0..(c - 1) /\ \A n \in 1..c : n = c \/ n \in 1..(c - 1)
  <2>1. c \in 1..Len(keyed) /\ Len(keyed) \in Nat
        BY <1>1 DEF ReadInv
  <2> HIDE DEF c
  <2> QED BY <2>1
<1>3. PICK q \in [0..(c - 1) -> Position] :
        /\ q[0] \in Between(<<>>)
        /\ \A n \in 1..(c - 1) : q[n] = After(q[n - 1], keyed[n], speed)
        /\ q[c - 1] = Here
      BY DEF CameByRuns
<1> DEFINE new == Here'
<1> HIDE DEF c, new
<1> DEFINE p == [n \in 0..c |-> IF n = c THEN new ELSE q[n]]
<1>4. new \in Position /\ new = After(Here, keyed[c], speed)
      BY <1>1 DEF new
<1>5. \A n \in 0..c : n # c => n \in 0..(c - 1)
      BY <1>2
<1>6. p \in [0..c -> Position]
      BY <1>3, <1>4, <1>5
<1>7. p[c] = new /\ \A n \in 0..(c - 1) : p[n] = q[n]
      BY <1>2
<1> HIDE DEF p
<1>8. ASSUME NEW n \in 1..c PROVE p[n] = After(p[n - 1], keyed[n], speed)
  <2>1. n - 1 \in 0..(c - 1)
        BY <1>2
  <2>2. CASE n = c
        BY <1>3, <1>4, <1>7, <2>1, <2>2
  <2>3. CASE n \in 1..(c - 1)
    <3>1. n \in 0..(c - 1)
          BY <2>3
    <3> QED BY <1>3, <1>7, <2>1, <2>3, <3>1
  <2> QED BY <1>2, <2>2, <2>3
<1>9. p[0] \in Between(<<>>)
      BY <1>2, <1>3, <1>7
<1>10. \E p1 \in [0..c -> Position] :
         /\ p1[0] \in Between(<<>>)
         /\ \A n \in 1..c : p1[n] = After(p1[n - 1], keyed[n], speed)
         /\ p1[c] = new
       BY <1>6, <1>7, <1>8, <1>9
<1>11. cursor' - 1 = c
       BY <1>1, <1>2
<1> QED BY <1>1, <1>10, <1>11 DEF CameByRuns, new

\* When all runs are read, what is committed is what was sent.
LEMMA EndIsReference ==
  ASSUME ReadInv, EnoughDits, cursor = Len(keyed) + 1
  PROVE  Stripped(Committed) = Reference(message)
<1> DEFINE S == Table \cup {Blank, Unknown}
           ref == Reference(message)
           e == Read(symbol)
<1>1. keyed \in Seq(Runs) /\ Len(keyed) \in Nat /\ cursor - 1 = Len(keyed) /\ cursor \in 1..(Len(keyed) + 1)
      BY DEF ReadInv, MorseInv
<1>2. CameByRuns
      BY <1>1 DEF ReadInv
<1>3. PICK q \in [0..Len(keyed) -> Position] :
        /\ q[0] \in Between(<<>>)
        /\ \A n \in 1..Len(keyed) : q[n] = After(q[n - 1], keyed[n], speed)
        /\ q[Len(keyed)] = Here
      BY <1>1, <1>2 DEF CameByRuns
<1>4. Here \in Ends(message)
      BY <1>3 DEF ReadInv, Brings, RunsThrough
<1>5. /\ ref \in Seq(S) /\ read \in Seq(S) /\ e \in S /\ e # Blank /\ Blank \in S
      /\ Here.symbol = symbol /\ Here.read = read /\ Complete(Here) = Committed
      BY ReadFits DEF ReadInv, MorseInv, Here, Complete, Committed
<1>6. CASE Here \in Within(ref)
  <2>1. symbol # <<>> /\ Committed = ref
        BY <1>5, <1>6 DEF Within
  <2>2. Committed = Append(read, e)
        BY <2>1 DEF Committed
  <2> HIDE DEF e, ref
  <2>3. Stripped(Append(read, e)) = Append(read, e)
        BY <1>5, StrippedIs
  <2> QED BY <2>1, <2>2, <2>3 DEF ref
<1>7. CASE Here \in Between(Append(ref, Blank))
  <2>1. symbol = <<>> /\ read = Append(ref, Blank)
        BY <1>5, <1>7 DEF Between
  <2>2. Committed = Append(ref, Blank)
        BY <2>1 DEF Committed
  <2> HIDE DEF ref
  <2>3. Stripped(Append(ref, Blank)) = ref
        BY <1>5, StrippedIs
  <2> QED BY <2>2, <2>3 DEF ref
<1> QED BY <1>4, <1>6, <1>7 DEF Ends

\* What is read is what was sent (CWDecoder._timing_decode), for any text, any table of
\* letters and any speed: provided a third and one more of the elements are dits, so that the
\* percentile falls on a dit.
THEOREM MorseReadAsSent == MorseSpec => []ReadAsSent
<1>1. MorseInit => ReadInv
  <2> SUFFICES ASSUME MorseInit PROVE ReadInv
      OBVIOUS
  <2>1. PICK quiet \in Silences : keyed = Signal(message, quiet)
        BY DEF MorseInit
  <2>2. speed \in Nat \ {0} /\ quiet \in Nat /\ message \in Transmissions
        BY MorseAssumption DEF MorseInit, Silences
  <2>3. keyed \in Seq(KeyedAt(speed))
        BY <2>1, <2>2, SignalKeyed
  <2>4. /\ Reference(message) \in Seq(Table \cup {Blank, Unknown})
        /\ Brings(keyed, Between(<<>>), Ends(message), speed)
        BY <2>1, <2>2, SignalBrings DEF Ends
  <2>5. MorseInv /\ cursor = 0 /\ symbol = <<>> /\ read = <<>> /\ Len(keyed) \in Nat
        BY MorseStarts DEF MorseInit, MorseInv
  <2>6. ReadAsSent
        BY <2>5 DEF ReadAsSent
  <2> QED BY <2>2, <2>3, <2>4, <2>5, <2>6 DEF ReadInv
<1>2. ReadInv /\ [MorseNext]_morseVars => ReadInv'
  <2> SUFFICES ASSUME ReadInv, [MorseNext]_morseVars PROVE ReadInv'
      OBVIOUS
  <2> DEFINE Sent == /\ speed \in Nat \ {0} /\ keyed \in Seq(KeyedAt(speed))
                     /\ Reference(message) \in Seq(Table \cup {Blank, Unknown})
                     /\ Brings(keyed, Between(<<>>), Ends(message), speed)
  <2>1. MorseInv'
        BY MorseGoesOn DEF ReadInv
  <2>2. UNCHANGED <<message, speed, keyed>>
        BY Zenon DEF MorseNext, Measure, KeyDown, KeyUp, Finish, morseVars
  <2>3. Sent' /\ (EnoughDits' <=> EnoughDits)
        BY <2>2 DEF ReadInv, EnoughDits, Dits, Downs
  <2>4. cursor \in 0..(Len(keyed) + 2) /\ Len(keyed) \in Nat
        BY DEF ReadInv, MorseInv
  <2>5. CASE Measure
    <3>1. cursor' = 1 /\ symbol' = <<>> /\ read' = <<>>
          BY <2>5 DEF Measure, ReadInv
    <3>2. CameByRuns'
      <4> DEFINE p == [n \in 0..0 |-> Here']
      <4>1. Here' = [symbol |-> <<>>, read |-> <<>>] /\ Here' \in Position
            BY <3>1 DEF Here, Position
      <4>2. p \in [0..0 -> Position] /\ p[0] = Here' /\ p[0] \in Between(<<>>)
            BY <4>1 DEF Between
      <4> HIDE DEF p
      <4> QED BY <3>1, <4>2 DEF CameByRuns
    <3>3. ReadAsSent'
          BY <2>2, <2>4, <3>1 DEF ReadAsSent
    <3> QED BY <2>1, <2>3, <3>1, <3>2, <3>3 DEF ReadInv
  <2>6. CASE KeyDown \/ KeyUp
    <3>1. cursor \in 1..Len(keyed) /\ cursor' = cursor + 1
          BY <2>6 DEF KeyDown, KeyUp, ReadInv
    <3>2. symbol' \in Seq({"dit", "dah"})
      <4>1. CASE KeyDown
            BY <4>1 DEF KeyDown, ReadInv
      <4>2. CASE KeyUp
            BY <4>2 DEF KeyUp, ReadInv
      <4> QED BY <2>6, <4>1, <4>2
    <3>3. EnoughDits => CameByRuns'
          BY <2>4, <2>6, <3>1, CameFurther DEF ReadInv
    <3>4. ReadAsSent'
          BY <2>2, <2>4, <3>1 DEF ReadAsSent
    <3>5. cursor' # 0
          BY <3>1
    <3> QED BY <2>1, <2>3, <3>2, <3>3, <3>4, <3>5 DEF ReadInv
  <2>7. CASE Finish
    <3>1. cursor = Len(keyed) + 1 /\ cursor' = Len(keyed) + 2 /\ symbol' = <<>> /\ read' = Committed
          BY <2>7 DEF Finish
    <3>2. ReadAsSent'
      <4>1. EnoughDits => Stripped(read') = Reference(message)
            BY <3>1, EndIsReference
      <4> QED BY <2>2, <2>3, <4>1 DEF ReadAsSent, EnoughDits
    <3>3. cursor' # 0 /\ cursor' \notin 1..(Len(keyed') + 1)
          BY <2>2, <2>4, <3>1
    <3> QED BY <2>1, <2>3, <3>1, <3>2, <3>3 DEF ReadInv
  <2>8. CASE UNCHANGED morseVars
    <3>1. UNCHANGED <<message, speed, keyed, cursor, symbol, read>>
          BY <2>8 DEF morseVars
    <3>2. CameByRuns' <=> CameByRuns
          BY <3>1 DEF CameByRuns, Here
    <3>3. ReadAsSent' <=> ReadAsSent
          BY <3>1 DEF ReadAsSent, Dits, Downs
    <3> QED BY <2>1, <2>3, <3>1, <3>2, <3>3 DEF ReadInv
  <2> QED BY <2>5, <2>6, <2>7, <2>8 DEF MorseNext
<1>3. ReadInv => ReadAsSent
      BY DEF ReadInv
<1> QED BY <1>1, <1>2, <1>3, PTL DEF MorseSpec
=============================================================================
