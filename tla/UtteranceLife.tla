--------------------------- MODULE UtteranceLife ---------------------------
(***************************************************************************)
(* What the capture side of backend/stt promises the transcription side:   *)
(* utterances are numbered in the order they begin, one is open at a time, *)
(* and each is a run of partial slices closed by at most one final         *)
(* segment.  An utterance may end without one (too short, or nothing left  *)
(* to send), and a pause of the receiver may cut it off; either way it is  *)
(* over before the next one begins and is never heard of again.            *)
(*                                                                         *)
(* CaptureLoop is the program; CaptureLoop!Life is the refinement.         *)
(***************************************************************************)
EXTENDS Naturals

CONSTANT MaxUtt             \* bound on the number of utterances

VARIABLE fate               \* what has been heard of each utterance

Fates == {"none", "open", "partial", "final", "dropped", "cut"}
Live == {"open", "partial"}

Init == fate = [u \in 1 .. MaxUtt |-> "none"]

CanBegin(f, u) == /\ f[u] = "none"
                  /\ \A v \in 1 .. u - 1 : f[v] \notin Live \cup {"none"}

Begins(f) == {[f EXCEPT ![u] = "open"] : u \in {v \in 1 .. MaxUtt : CanBegin(f, v)}}

Ends(f) == {[f EXCEPT ![u] = how] : u \in {v \in 1 .. MaxUtt : f[v] \in Live},
                                    how \in {"final", "dropped"}}

Begin == fate' \in Begins(fate)

Slice == \E u \in 1 .. MaxUtt : /\ fate[u] \in Live
                                /\ fate' = [fate EXCEPT ![u] = "partial"]

End == fate' \in Ends(fate)

\* The carrier drops and the next utterance begins within one chunk.
EndAndBegin == \E f \in Ends(fate) : fate' \in Begins(f)

Cut == \E u \in 1 .. MaxUtt : /\ fate[u] \in Live
                              /\ fate' = [fate EXCEPT ![u] = "cut"]

Next == Begin \/ Slice \/ End \/ EndAndBegin \/ Cut

Spec == Init /\ [][Next]_fate
=============================================================================
