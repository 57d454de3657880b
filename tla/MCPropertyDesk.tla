--------------------------- MODULE MCPropertyDesk ---------------------------
(* Instances of PropertyDesk for TLC. *)
EXTENDS PropertyDesk, TLC
CONSTANTS p1, p2, t1, t2, r1, r2, n1, n2

Settings == {"sid", "token", "url"}
NoEnv == [f \in Settings |-> 0]
Typed == {"url" :> 2, "sid" :> 0, "sid" :> 1 @@ "token" :> 1 @@ "url" :> 1}
Ready == [f \in Settings |-> 1]

Desk(ops, most, mishaps, there, plan) ==
  [ops |-> ops, begun |-> most, haps |-> mishaps, live |-> there, limit |-> plan]
NoDesk == Desk({}, 0, 0, {p1, p2}, 2)
DeskMeetings ==
  {Desk({"add", "drop"}, 4, 0, {p1}, 1),
   Desk({"add", "reorder", "drop"}, 3, 0, {p1}, 1),
   Desk({"delete", "draft", "call", "toggle", "drop"}, 3, 1, {p1}, 1),
   Desk({"create", "add", "delete"}, 4, 0, {}, 1),
   Desk({"photo", "unphoto", "delete"}, 5, 0, {p1}, 1)}

Phone(ops, most, edits, mishaps, stored) ==
  [ops |-> ops, reqs |-> most, saves |-> edits, haps |-> mishaps, conf |-> stored]
NoPhone == Phone({}, 0, 0, 0, Ready)
PhoneMeetings ==
  {Phone({"assign", "release"}, 3, 0, 1, Ready),
   Phone({"assign", "call"}, 2, 1, 0, NoEnv),
   Phone({"assign", "start", "status"}, 3, 0, 1, Ready),
   Phone({"start"}, 2, 1, 0, Ready),
   Phone({"status"}, 1, 1, 1, Ready)}

Both ==
  {<<Desk({"delete", "toggle"}, 1, 0, {p1}, 1), Phone({"assign", "release"}, 2, 0, 0, Ready)>>,
   <<Desk({"delete"}, 1, 0, {p1}, 1), Phone({"assign", "status"}, 2, 0, 0, Ready)>>}

Pairs == (DeskMeetings \X {NoPhone}) \cup ({NoDesk} \X PhoneMeetings) \cup Both
DeskPlays == {pair[1] : pair \in Pairs}
PhonePlays == {pair[2] : pair \in Pairs}
Sym == Permutations({r1, r2}) \cup Permutations({t1, t2}) \cup Permutations({n1, n2})
=============================================================================
