----------------------------- MODULE Transcript -----------------------------
(***************************************************************************)
(* What the operators are promised of the transcript of an utterance: it   *)
(* grows while the utterance is received, it is finalized at most once,    *)
(* the final text never erases what was shown (a second pass may put       *)
(* better words in its place, but not less than half as many), and a       *)
(* finalized transcript is not touched again.                              *)
(***************************************************************************)
EXTENDS Naturals, FiniteSets

CONSTANTS Utterances, Pieces    \* pieces: what one captured segment says

VARIABLES shown,                \* the text the clients see of an utterance
          final                 \* utterances whose final text was published

Init == /\ shown = [u \in Utterances |-> {}]
        /\ final = {}

Grow(u, text) == /\ u \notin final
                 /\ shown' = [shown EXCEPT ![u] = @ \cup text]
                 /\ UNCHANGED final

\* The final text keeps all that was shown, or replaces it.
Keeps(u, text) == \/ shown[u] \subseteq text
                  \/ 2 * Cardinality(text) >= Cardinality(shown[u])

Finish(u, text) == /\ u \notin final
                   /\ Keeps(u, text)
                   /\ shown' = [shown EXCEPT ![u] = text]
                   /\ final' = final \cup {u}

Next == \E u \in Utterances, text \in SUBSET Pieces : Grow(u, text) \/ Finish(u, text)

Spec == Init /\ [][Next]_<<shown, final>>
=============================================================================
