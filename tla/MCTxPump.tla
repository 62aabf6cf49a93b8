------------------------------ MODULE MCTxPump ------------------------------
(* Instances of TxPump for TLC: two payloads, one operator and one BREAK BREAK *)
(* handler; the cfgs choose the kinds of payload and the disturbances.        *)
EXTENDS TxPump
=============================================================================
