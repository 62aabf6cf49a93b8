------------------------- MODULE SerialTransmitter -------------------------
(***************************************************************************)
(* What the transmit pipeline of backend/server.py promises its users: one *)
(* transmitter shared by every operator and plugin.  Payloads are numbered *)
(* in the order they were accepted; they go on the air one at a time, in   *)
(* that order, each at most once.  A payload may be given up before it     *)
(* airs (operator abort, BREAK BREAK, busy channel, synthesis failure) but *)
(* never after a later one has been aired.                                 *)
(*                                                                         *)
(* TxPump is the program; TxPump!Serial is the refinement.                 *)
(***************************************************************************)
EXTENDS Naturals

CONSTANT MaxTx              \* bound on the number of payloads accepted

VARIABLES
  accepted,                 \* how many payloads have been accepted so far
  onAir,                    \* the payload holding the PTT line, 0 if none
  aired                     \* the payloads that have held the PTT line

vars == <<accepted, onAir, aired>>

Init == accepted = 0 /\ onAir = 0 /\ aired = {}

Accept == /\ accepted < MaxTx
          /\ accepted' = accepted + 1
          /\ UNCHANGED <<onAir, aired>>

KeyUp == \E n \in 1 .. accepted :
            /\ onAir = 0
            /\ \A m \in aired : m < n
            /\ onAir' = n
            /\ aired' = aired \cup {n}
            /\ UNCHANGED accepted

KeyDown == /\ onAir # 0
           /\ onAir' = 0
           /\ UNCHANGED <<accepted, aired>>

Next == Accept \/ KeyUp \/ KeyDown

Spec == Init /\ [][Next]_vars
=============================================================================
