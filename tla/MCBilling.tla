------------------------------ MODULE MCBilling ------------------------------
(* Instances of Billing for TLC. *)
EXTENDS Billing
CONSTANTS l1, l2, l3, t1, t2
PlansOrMonths == {[who |-> {l1}, tabs |-> {t1, t2}, months |-> 0, events |-> 2],
                  [who |-> {l2}, tabs |-> {t1, t2}, months |-> 0, events |-> 3],
                  [who |-> {l2, l3}, tabs |-> {}, months |-> 2, events |-> 0]}
=============================================================================
