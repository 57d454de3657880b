----------------------------- MODULE MCLauncher -----------------------------
(* Three launchers one after the other, or two together.                   *)
EXTENDS Launcher

MCFaults == {"death", "crash", "abort", "fail"}
MCCasts == {[pids |-> 3, together |-> FALSE], [pids |-> 2, together |-> TRUE]}
=============================================================================
