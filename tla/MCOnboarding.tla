---------------------------- MODULE MCOnboarding ----------------------------
(* Instances of Onboarding for TLC. *)
EXTENDS Onboarding, TLC
CONSTANTS Ann, ann, f1, f2, k1, k2, g1, g2
LowerCase == (Ann :> ann @@ ann :> ann)
MixedCase == (f1 :> Ann @@ f2 :> Ann)
FormsOrStaff == {{f1, f2}, {f2, k1, k2}, {f2, k1, g1}, {k1, g1, g2}}
=============================================================================
