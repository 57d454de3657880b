--------------------------- MODULE MCApplications ---------------------------
(* Instances of Applications for TLC. *)
EXTENDS Applications, TLC
CONSTANTS v1, t1, x1, x2, x3, d1, d2, caller
TwoAndOne == (x1 :> v1 @@ x2 :> v1 @@ x3 :> t1)
OnePhone == (v1 :> caller @@ t1 :> caller)
CallAndText == {{x1, x2, x3}, {x1, x3, d1, d2}}
=============================================================================
