--------------------------- MODULE MCTranscription ---------------------------
(* Model-checking instances of Transcription: an utterance that may be too long *)
(* for the final pass, or have its final pass truncated, before a shorter one.  *)
EXTENDS Transcription

LongFirst == <<3, 1>>
OneSlice == [u \in Uids |-> 1]
=============================================================================
