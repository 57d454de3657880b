----------------------------- MODULE MCTenancy -----------------------------
(* Instances of Tenancy for TLC. *)
EXTENDS Tenancy, TLC
CONSTANTS p1, p2, s1, t1, t2
TwoPages == (p1 :> t1 @@ p2 :> t2)
Acts == [calm |-> 5, busy |-> 3]
=============================================================================
