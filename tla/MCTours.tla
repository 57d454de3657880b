------------------------------ MODULE MCTours ------------------------------
(* Instances of Tours for TLC. *)
EXTENDS Tours, TLC
CONSTANTS w1, w2, v1, s1, s2
Sundays == [weekday |-> 0, date |-> None, start |-> 0, end |-> 3, step |-> 2]
OneMonday == [weekday |-> None, date |-> 1, start |-> 2, end |-> 3, step |-> 1]
OneEach == (s1 :> Sundays @@ s2 :> OneMonday)
GuestsOrLandlord ==
  {[who |-> {w1, v1}, fails |-> 0, acts |-> 2], [who |-> {w1, v1}, fails |-> 1, acts |-> 0],
   [who |-> {w1, w2}, fails |-> 2, acts |-> 0]}
=============================================================================
