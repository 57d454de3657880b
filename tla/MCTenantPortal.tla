--------------------------- MODULE MCTenantPortal ---------------------------
(* Instances of TenantPortal for TLC. *)
EXTENDS TenantPortal, TLC
CONSTANTS t1, t2, d1, r1, r2

ASSUME CareAssumption == Care!TenantCareAssumption

Rent(ops, presses, visits, haps) ==
  [ops |-> ops, ends |-> FALSE, connect |-> TRUE, linked |-> TRUE,
   presses |-> presses, visits |-> visits, haps |-> haps]
NoRent == Rent({}, 0, 0, 0)
RentMeetings ==
  {[Rent({"pay"}, 3, 2, 1) EXCEPT !.ends = TRUE],
   Rent({"link", "unlink"}, 3, 2, 1),
   [Rent({"link"}, 3, 2, 0) EXCEPT !.linked = FALSE],
   Rent({"pay", "unlink"}, 2, 2, 0),
   [Rent({"pay"}, 1, 1, 0) EXCEPT !.connect = FALSE],
   Rent({"record", "refund"}, 3, 2, 1),
   Rent({"pay", "refund"}, 3, 2, 1),
   Rent({"profile", "password"}, 3, 2, 1)}

Writing(ops, presses, visits, edits, haps) ==
  [ops |-> ops, presses |-> presses, visits |-> visits, edits |-> edits, haps |-> haps]
NoWriting == Writing({}, 0, 0, 0, 0)
CareMeetings ==
  {Writing({"status", "notes"}, 3, 2, 0, 0),
   Writing({"status", "prio", "call"}, 3, 2, 0, 1),
   Writing({"submit", "status"}, 3, 2, 0, 1),
   Writing({"send", "reply", "mark"}, 3, 2, 0, 1),
   Writing({"notice", "resend", "retext", "serve"}, 2, 0, 2, 1)}

Both == <<[Rent({"pay"}, 1, 1, 0) EXCEPT !.ends = TRUE], Writing({"submit"}, 1, 1, 0, 0)>>

RentPlays == RentMeetings \cup {NoRent, Both[1]}
CarePlays == CareMeetings \cup {NoWriting, Both[2]}
Pairs == (RentMeetings \X {NoWriting}) \cup ({NoRent} \X CareMeetings) \cup {Both}
Sym == Permutations({t1, t2}) \cup Permutations({r1, r2})
=============================================================================
