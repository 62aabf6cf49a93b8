---------------------------- MODULE SpectroRing -----------------------------
(***************************************************************************)
(* The waterfall: the capture thread pushes raw samples into a ring, and a *)
(* task on the event loop takes overlapping frames out of it, turns each   *)
(* into a row and broadcasts the rows one after the other.  When the ring  *)
(* is full the oldest samples go.  A sample is its number in the stream    *)
(* (from 1; 0 is an unwritten cell), a row the number of its frame's first *)
(* sample.                                                                 *)
(***************************************************************************)
EXTENDS Integers, Sequences, FiniteSetsExt

CONSTANTS
  FrameSize, HopSize, CapacityFrames,
  Chunks,      \* sizes of the chunks pushed: the ring takes any
  MaxPushed    \* samples pushed (bound of the model)

ASSUME RingAssumption ==
  /\ HopSize \in 1..FrameSize /\ FrameSize \in Nat
  /\ {CapacityFrames, MaxPushed} \cup Chunks \subseteq Nat \ {0}

Capacity == FrameSize + HopSize * CapacityFrames

VARIABLES
  buf, start, fill,   \* the ring
  droppedSamples,     \* counted when samples are evicted
  pushed,             \* samples pushed so far
  taken,              \* frames popped so far
  rows,               \* rows computed and not yet broadcast, in order
  broadcasting,            \* the task is broadcasting: it pops no frame meanwhile
  shown               \* the last row broadcast

ringVars == <<buf, start, fill, droppedSamples, pushed, taken, rows, broadcasting, shown>>

RingInit ==
  /\ buf = [i \in 0..Capacity - 1 |-> 0] /\ start = 0 /\ fill = 0
  /\ droppedSamples = 0 /\ pushed = 0 /\ taken = 0
  /\ rows = <<>> /\ broadcasting = FALSE /\ shown = 0

-----------------------------------------------------------------------------
\* mutant of Excess: drops no more than it must.
ExcessExact(n) == Max({0, fill + n - Capacity})

\* What must go for n more samples, in whole hops.
Excess(n) ==
  LET over == Max({0, fill + n - Capacity})
  IN HopSize * ((over + HopSize - 1) \div HopSize)

\* mutant of Written: does not wrap around.
WrittenToTheEnd(pos, first, last) ==
  [i \in 0..Capacity - 1 |-> IF i >= pos /\ i - pos <= last - first THEN first + i - pos ELSE buf[i]]

\* The samples first..last are written from cell pos on, around the end.
Written(pos, first, last) ==
  [i \in 0..Capacity - 1 |->
     LET k == (i - pos) % Capacity IN IF k <= last - first THEN first + k ELSE buf[i]]

Push(n) ==
  LET drop == Excess(n)
      skip == Min({drop - fill, n})  \* of the new samples, when the old ones do not suffice
  IN /\ pushed + n <= MaxPushed
     /\ pushed' = pushed + n
     /\ \/ /\ drop <= fill
           /\ start' = (start + drop) % Capacity
           /\ fill' = fill - drop + n
           /\ droppedSamples' = droppedSamples + drop
           /\ buf' = Written((start + fill) % Capacity, pushed + 1, pushed + n)
        \/ /\ drop > fill
           /\ start' = 0
           /\ fill' = n - skip
           /\ droppedSamples' = droppedSamples + fill + skip
           /\ buf' = Written(0, pushed + skip + 1, pushed + n)
     /\ UNCHANGED <<taken, rows, broadcasting, shown>>

Frame == [i \in 0..FrameSize - 1 |-> buf[(start + i) % Capacity]]

PopFrame ==
  /\ ~broadcasting /\ fill >= FrameSize
  /\ rows' = Append(rows, Frame)
  /\ start' = (start + HopSize) % Capacity
  /\ fill' = fill - HopSize
  /\ taken' = taken + 1
  /\ UNCHANGED <<buf, droppedSamples, pushed, broadcasting, shown>>

Drained == \* no frame is left; the verdicts of the cycle are read, the rows go out
  /\ ~broadcasting /\ fill < FrameSize /\ rows # <<>>
  /\ broadcasting' = TRUE
  /\ UNCHANGED <<buf, start, fill, droppedSamples, pushed, taken, rows, shown>>

BroadcastRow ==
  /\ broadcasting
  /\ shown' = Head(rows)[0]
  /\ rows' = Tail(rows)
  /\ broadcasting' = (Tail(rows) # <<>>)
  /\ UNCHANGED <<buf, start, fill, droppedSamples, pushed, taken>>

RingNext == (\E n \in Chunks : Push(n)) \/ PopFrame \/ Drained \/ BroadcastRow

RingSpec == RingInit /\ [][RingNext]_ringVars

-----------------------------------------------------------------------------
\* Types of the ring.
RingTypeOK ==
  /\ buf \in [0..Capacity - 1 -> 0..MaxPushed]
  /\ start \in 0..Capacity - 1 /\ fill \in 0..Capacity
  /\ {droppedSamples, pushed, shown} \subseteq 0..MaxPushed /\ taken \in Nat
  /\ rows \in Seq([0..FrameSize - 1 -> 0..MaxPushed]) /\ broadcasting \in BOOLEAN

\* The ring holds the latest samples, whole and in order, and every sample is
\* accounted for as held, passed or dropped.
Latest ==
  /\ \A i \in 0..fill - 1 : buf[(start + i) % Capacity] = pushed - fill + i + 1
  /\ pushed = fill + HopSize * taken + droppedSamples

\* No row is computed from samples of two stretches, rows come in the order of time,
\* and evictions leave them on the grid of hops.
Unbroken ==
  \A r \in DOMAIN rows :
    /\ \A i \in 0..FrameSize - 1 : rows[r][i] = rows[r][0] + i
    /\ rows[r][0] % HopSize = 1 % HopSize
    /\ rows[r][0] > IF r = 1 THEN shown ELSE rows[r - 1][0]

RingTrue == Latest /\ Unbroken

=============================================================================
