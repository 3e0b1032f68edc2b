-------------------------- MODULE MCTranscription --------------------------
(* Captures with the same audio.                                           *)
EXTENDS Transcription

CONSTANTS c1, c2, a1

SameAudio == [c \in Capture |-> a1]
=============================================================================
