----------------------------- MODULE MCRecorder -----------------------------
(***************************************************************************)
(* Recorder for TLC: the sizes of the codec in units of 128 words.          *)
(***************************************************************************)
EXTENDS Recorder
=============================================================================
