------------------------------ MODULE MCSmsRelay ------------------------------
(***************************************************************************)
(* Small instances of SmsRelay for TLC.                                    *)
(***************************************************************************)
EXTENDS SmsRelay, TLC

CONSTANTS owner, ann, bob, a1, a2, c1, c2, sweep

(* Tenants that only answer requests are interchangeable.                  *)
Symmetry == Permutations(Phones \ {Owner}) \union Permutations(Callers)
            \union Permutations(Apps)
=============================================================================
