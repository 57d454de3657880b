----------------------------- MODULE MCVoiceCall -----------------------------
(* Small instances of VoiceCall: one line, two callers.                    *)
EXTENDS VoiceCall

CONSTANTS k1, k2
=============================================================================
