-------------------------- MODULE MCTranscriptRace --------------------------
(***************************************************************************)
(* TLC's instance of TranscriptRace: the scripts of MCRuntime.              *)
(***************************************************************************)
EXTENDS MCRuntime, TranscriptRace
=============================================================================
