------------------------------ MODULE MCCapture ------------------------------
(* Model-checking instance of CaptureLoop: the constants are in the cfgs.     *)
EXTENDS CaptureLoop
=============================================================================
