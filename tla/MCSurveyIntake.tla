---------------------------- MODULE MCSurveyIntake ----------------------------
(* Small instances of SurveyIntake: every message comes from one phone.    *)
EXTENDS SurveyIntake, TLC

CONSTANTS ann, m1, m2, d1, d2, f1, f2

MCSender == [m \in Messages |-> ann]

MCOrder == (m1 :> 1) @@ (m2 :> 2) @@ (d1 :> 1) @@ (d2 :> 2) @@ (f1 :> 1) @@ (f2 :> 2)

(* START and HELP matter after a STOP or after a text, so they come second. *)
MCScripts == {b \in [Messages -> {"text", "stop", "start", "help"}] : b[m1] \in {"text", "stop"}}
=============================================================================
