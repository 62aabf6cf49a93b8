---------------------------- MODULE MCSttControl ----------------------------
(* Model-checking instance of SttControl: three requests are enough for two to *)
(* overlap while a third begins; the cfgs give the constants.                 *)
EXTENDS SttControl
=============================================================================
