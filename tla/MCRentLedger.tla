---------------------------- MODULE MCRentLedger ----------------------------
(* Instances of RentLedger for TLC: two months of rent of 2 with a late fee *)
(* of 1, payments that cover less and more than one charge.                *)
EXTENDS RentLedger, TLC
CONSTANTS p1, p2, h1, h2

MCAmount == [p \in Payments |-> IF p = p1 THEN 3 ELSE 2]
World(n, ordered, dying, racing) ==
    [deliveries |-> n, inOrder |-> ordered, crashes |-> dying, overlap |-> racing]
Worlds == {World(1, TRUE, FALSE, FALSE), World(2, FALSE, TRUE, FALSE), World(2, FALSE, TRUE, TRUE)}
Sym == Permutations({h1, h2})
=============================================================================
