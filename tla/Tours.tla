------------------------------- MODULE Tours -------------------------------
(***************************************************************************)
(* Tours of one property: the slot rows a landlord offers, the list of     *)
(* free times worked out from them, and bookings made on the tenant site   *)
(* (apps/tenant-site), in a phone call or a text conversation              *)
(* (apps/server), and followed up on the dashboard (apps/dashboard).       *)
(*                                                                         *)
(* A booking row stores a start time only.  No index makes the time        *)
(* unique: every booking request looks for a live row of that very time    *)
(* and then inserts, in two steps.                                         *)
(***************************************************************************)
EXTENDS Integers, FiniteSets

CONSTANTS
  Web,          \* visitors with the booking page open
  Callers,      \* people who talk to the AI, by phone or by text
  Tabs,         \* open Tours pages of the dashboard
  SlotIds,      \* slot rows the landlord may add
  OfferOf,      \* [SlotIds -> Offer]: what the form of each is filled with
  DayLength,    \* units in a day, the code's minutes
  Week,         \* days in a week, and days ahead that are offered
  MaxTime,      \* bound: the last instant of the clock
  MaxBookings,  \* bound: booking rows ever made
  Casts,        \* bound: who takes part together, how many answers and mails get lost and
                \* how often the landlord changes a slot or a booking
  None

Guests == Web \cup Callers
Offer ==
  [weekday : Nat \cup {None}, date : Nat \cup {None},
   start : Nat, end : Nat, step : Nat \ {0}]

ASSUME ToursAssumption ==
  /\ DayLength \in Nat \ {0} /\ Week \in Nat \ {0}
  /\ MaxTime \in Nat /\ MaxBookings \in Nat
  /\ Casts \subseteq [who : SUBSET Guests, fails : Nat, acts : Nat]
  /\ Web \cap Callers = {} /\ IsFiniteSet(Guests)
  /\ OfferOf \in [SlotIds -> Offer]
  /\ \A s \in SlotIds :   \* what POST .../tours/slots lets in
       /\ (OfferOf[s].weekday = None) # (OfferOf[s].date = None)
       /\ OfferOf[s].start < OfferOf[s].end /\ OfferOf[s].end <= DayLength
  /\ None \notin Nat \cup SlotIds

Ids == 1..MaxBookings
Try == {1, 2}     \* a guest whose answer got lost may send once more

VARIABLES
  cast,
  now,      \* the clock
  slot,     \* [SlotIds -> "none" | "on" | "off"]: the TourSlot rows
  made,     \* booking rows made so far
  row,      \* [Ids -> TourBooking]
  guest,    \* [Guests -> what the booking page or the conversation knows]
  req,      \* [Guests \X Try -> a booking request on the server]
  tab,      \* [Tabs -> what a Tours page of the dashboard shows]
  fails, acts,
  peak,     \* history: most requests for a time that were past their check at once
  told,     \* history: what the landlord was mailed
  withdrawn \* history: bookings their guest canceled, the mail step behind them

rows  == <<made, row>>
ghost == <<peak, told, withdrawn>>
setting == <<cast, now>>
tourVars  == <<setting, slot, rows, guest, req, tab, fails, acts, ghost>>

-----------------------------------------------------------------------------
(* Slots, times and lists *)

Day(t) == t \div DayLength
Times == 0..(DayLength * (Day(MaxTime) + Week + 2) - 1)
\* the times a slot row is cut into
Starts(o) ==
  {x \in o.start..o.end : (x - o.start) % o.step = 0 /\ x + o.step <= o.end}

Matches(o, d) == o.weekday = d % Week \/ o.date = d

\* what is left of the slots in S on days d1..d2 once the times in booked are taken out
AvailableSlots(S, booked, d1, d2) ==
  UNION {{[t |-> e[2] * DayLength + x, slot |-> e[1]] :
             x \in {y \in Starts(OfferOf[e[1]]) : e[2] * DayLength + y \notin booked}} :
         e \in {f \in S \X (d1..d2) : Matches(OfferOf[f[1]], f[2])}}

Made == 1..made
LiveBookings(t) == {b \in Made : row[b].t = t /\ row[b].status # "canceled"}
Active == {s \in SlotIds : slot[s] = "on"}
\* days listed and bookings fetched, for a list that starts at from
Window(g, from) ==
  [from |-> from, to |-> from + Week * DayLength, d1 |-> Day(from),
   d2 |-> IF g \in Web THEN Day(from) + Week - 1 ELSE Day(from) + Week]

Entry == [t : Times, slot : SlotIds]
Booking ==
  [t : Times, slot : SlotIds, who : Guests, revived : BOOLEAN,
   status : {"confirmed", "completed", "no_show", "canceled"}]
SlotStatus == {"none", "on", "off", "deleted"}
NoWindow == [from |-> 0, to |-> 0, d1 |-> 0, d2 |-> 0]
NewGuest ==
  [st |-> "new", slots |-> {}, window |-> NoWindow, list |-> {}, asof |-> 0, try |-> 1, b |-> 0]
NoReq == [pc |-> "idle", pick |-> None, b |-> 0]

TourTypeOK ==
  /\ cast \in Casts
  /\ now \in 0..MaxTime
  /\ slot \in [SlotIds -> SlotStatus]
  /\ made \in 0..MaxBookings /\ DOMAIN row = Made /\ \A b \in Made : row[b] \in Booking
  /\ \A g \in Guests :
       /\ guest[g].st \in {"new", "reading", "listed", "waiting", "done", "canceling", "canceled"}
       /\ guest[g].slots \subseteq SlotIds /\ guest[g].list \subseteq Entry
       /\ guest[g].asof \in 0..made /\ guest[g].try \in Try /\ guest[g].b \in 0..made
  /\ \A r \in Guests \X Try :
       /\ req[r].pc \in {"idle", "sent", "free", "inserted", "over"}
       /\ req[r].pick \in Entry \cup {None} /\ req[r].b \in 0..made
  /\ tab \in [Tabs -> [shown : SUBSET Ids, slots : [SlotIds -> SlotStatus]]]
  /\ fails \in 0..cast.fails /\ acts \in 0..cast.acts
  /\ peak \in [Times -> 0..Cardinality(Guests \X Try)]
  /\ told \subseteq Ids \X {"new", "canceled"} /\ withdrawn \subseteq Made

TourInit ==
  /\ cast \in Casts
  /\ now = 0 /\ slot \in [SlotIds -> {"none", "on"}]
  /\ made = 0 /\ row = <<>>
  /\ guest = [g \in Guests |-> NewGuest]
  /\ req = [r \in Guests \X Try |-> NoReq]
  /\ tab = [l \in Tabs |-> [shown |-> {}, slots |-> slot]]
  /\ fails = 0 /\ acts = 0
  /\ peak = [t \in Times |-> 0] /\ told = {} /\ withdrawn = {}

-----------------------------------------------------------------------------
(* The list of free times: two queries *)

\* the page asks from today's midnight, the AI from now or from a date it was given
ListSlots(g) ==
  /\ g \in cast.who /\ (guest[g].st = "new" \/ (g \in Callers /\ guest[g].st = "listed"))
  /\ \E from \in IF g \in Web THEN {Day(now) * DayLength}
                              ELSE {now, (Day(now) + 1) * DayLength} :
       guest' = [guest EXCEPT ![g] =
            [@ EXCEPT !.st = "reading", !.slots = Active, !.window = Window(g, from), !.list = {}]]
  /\ UNCHANGED <<setting, slot, rows, req, tab, fails, acts, ghost>>

ListBookings(g) ==
  /\ guest[g].st = "reading"
  /\ LET w == guest[g].window
         booked == {row[b].t : b \in {c \in Made : row[c].status # "canceled"
                                                   /\ row[c].t \in w.from..w.to}}
     IN guest' = [guest EXCEPT ![g] =
          [@ EXCEPT !.st = "listed", !.slots = {}, !.asof = made,
                    !.list = AvailableSlots(guest[g].slots, booked, w.d1, w.d2)]]
  /\ UNCHANGED <<setting, slot, rows, req, tab, fails, acts, ghost>>

-----------------------------------------------------------------------------
(* Booking: POST /api/tours/book, and bookTour of the AI's schedule_tour *)

SubmitTour(g) ==
  LET r == <<g, guest[g].try>> IN
  /\ guest[g].st = "listed" /\ req[r].pc \in {"idle", "over"}
  /\ \E e \in guest[g].list : req' = [req EXCEPT ![r] = [pc |-> "sent", pick |-> e, b |-> 0]]
  /\ guest' = [guest EXCEPT ![g].st = "waiting"]
  /\ UNCHANGED <<setting, slot, rows, tab, fails, acts, ghost>>

\* the guest hears how request r ended; one given up on is not listened to
TourAnswer(r, st) ==
  IF guest[r[1]].st = "waiting" /\ guest[r[1]].try = r[2]
  THEN [guest EXCEPT ![r[1]] =
         IF st = "done" THEN [NewGuest EXCEPT !.st = st, !.try = r[2], !.b = req[r].b]
                        ELSE [@ EXCEPT !.st = st]]
  ELSE guest

\* mutant: the list was right, so nothing is looked up again
CheckNothing(r) ==
  /\ req[r].pc = "sent"
  /\ req' = [req EXCEPT ![r].pc = "free"]
  /\ UNCHANGED <<setting, slot, rows, guest, tab, fails, acts, ghost>>

Past(t) == {q \in Guests \X Try : req[q].pc = "free" /\ req[q].pick.t = t}

Check(r) ==
  LET t == req[r].pick.t IN
  /\ req[r].pc = "sent"
  /\ IF LiveBookings(t) # {}
     THEN req' = [req EXCEPT ![r].pc = "over"] /\ guest' = TourAnswer(r, "listed") /\ UNCHANGED peak
     ELSE /\ req' = [req EXCEPT ![r].pc = "free"] /\ UNCHANGED guest
          /\ peak' = IF peak[t] <= Cardinality(Past(t))
                     THEN [peak EXCEPT ![t] = Cardinality(Past(t)) + 1] ELSE peak
  /\ UNCHANGED <<setting, slot, rows, tab, fails, acts, told, withdrawn>>
Insert(r) ==
  /\ req[r].pc = "free" /\ made < MaxBookings
  /\ made' = made + 1
  /\ row' = [b \in 1..(made + 1) |-> IF b \in Made THEN row[b] ELSE
       [t |-> req[r].pick.t, slot |-> req[r].pick.slot, who |-> r[1], revived |-> FALSE,
        status |-> "confirmed"]]
  /\ req' = [req EXCEPT ![r] = [@ EXCEPT !.pc = "inserted", !.b = made + 1]]
  /\ UNCHANGED <<setting, slot, guest, tab, fails, acts, ghost>>

\* mutant: the landlord's mail goes out for bookings of the site only
MailSite(r, ok) ==
  /\ req[r].pc = "inserted"
  /\ IF ok THEN fails' = fails ELSE fails < cast.fails /\ fails' = fails + 1
  /\ told' = IF ok /\ r[1] \in Web THEN told \cup {<<req[r].b, "new">>} ELSE told
  /\ req' = [req EXCEPT ![r].pc = "over"]
  /\ guest' = TourAnswer(r, "done")
  /\ UNCHANGED <<setting, slot, rows, tab, acts, peak, withdrawn>>

\* the mails, which may fail without failing the request, and the answer
MailBooked(r, ok) ==
  /\ req[r].pc = "inserted"
  /\ IF ok THEN fails' = fails ELSE fails < cast.fails /\ fails' = fails + 1
  /\ told' = IF ok THEN told \cup {<<req[r].b, "new">>} ELSE told
  /\ req' = [req EXCEPT ![r].pc = "over"]
  /\ guest' = TourAnswer(r, "done")
  /\ UNCHANGED <<setting, slot, rows, tab, acts, peak, withdrawn>>

\* a query fails: 500, or a failed tool call
RequestFails(r) ==
  /\ req[r].pc \in {"sent", "free"} /\ fails < cast.fails
  /\ fails' = fails + 1
  /\ req' = [req EXCEPT ![r].pc = "over"]
  /\ guest' = TourAnswer(r, "listed")
  /\ UNCHANGED <<setting, slot, rows, tab, acts, ghost>>

\* the connection breaks: the page shows an error while the request goes on
AnswerLost(g) ==
  /\ guest[g].st = "waiting" /\ guest[g].try = 1 /\ g \in Web /\ fails < cast.fails
  /\ fails' = fails + 1
  /\ guest' = [guest EXCEPT ![g] = [@ EXCEPT !.st = "listed", !.try = 2]]
  /\ UNCHANGED <<setting, slot, rows, req, tab, acts, ghost>>

-----------------------------------------------------------------------------
(* PUT /api/tours/bookings/[bookingId]: the guest cancels *)

CancelRead(g) ==
  /\ guest[g].st = "done" /\ g \in Web /\ row[guest[g].b].status # "canceled"
  /\ guest' = [guest EXCEPT ![g].st = "canceling"]
  /\ UNCHANGED <<setting, slot, rows, req, tab, fails, acts, ghost>>

CancelWrite(g, ok) ==
  LET b == guest[g].b IN
  /\ guest[g].st = "canceling"
  /\ IF ok THEN fails' = fails ELSE fails < cast.fails /\ fails' = fails + 1
  /\ row' = [row EXCEPT ![b].status = "canceled"]
  /\ told' = IF ok THEN told \cup {<<b, "canceled">>} ELSE told
  /\ withdrawn' = withdrawn \cup {b}
  /\ guest' = [guest EXCEPT ![g].st = "canceled"]
  /\ UNCHANGED <<setting, slot, made, req, tab, acts, peak>>

-----------------------------------------------------------------------------
(* The dashboard *)

LandlordActs == acts < cast.acts /\ acts' = acts + 1

AddSlot(l, s) ==   \* the form; the page then loads the slots again
  /\ slot[s] = "none" /\ LandlordActs
  /\ slot' = [slot EXCEPT ![s] = "on"]
  /\ tab' = [tab EXCEPT ![l].slots = slot']
  /\ UNCHANGED <<setting, rows, guest, req, fails, ghost>>

\* the buttons of a slot the page shows: each sends what it makes of the page's own state,
\* and the route answers 404 when the row is gone
ChangeSlot(l, s, to) ==
  /\ tab[l].slots[s] \in {"on", "off"} \ {to} /\ LandlordActs
  /\ IF slot[s] \in {"on", "off"}
     THEN slot' = [slot EXCEPT ![s] = to] /\ tab' = [tab EXCEPT ![l].slots[s] = to]
     ELSE UNCHANGED <<slot, tab>>
  /\ UNCHANGED <<setting, rows, guest, req, fails, ghost>>

OpenPage(l) ==
  /\ tab' = [tab EXCEPT ![l] =
       [shown |-> {b \in Made : row[b].status = "confirmed"}, slots |-> slot]]
  /\ UNCHANGED <<setting, slot, rows, guest, req, fails, acts, ghost>>

\* the buttons of a booking the page shows as confirmed; the route overwrites the status
SetStatus(l, b, s) ==
  /\ b \in tab[l].shown /\ LandlordActs
  /\ row' = [row EXCEPT ![b] =
       [@ EXCEPT !.status = s,
                 !.revived = row[b].revived \/ (row[b].status = "canceled" /\ s # "canceled")]]
  /\ tab' = [tab EXCEPT ![l].shown = @ \ {b}]
  /\ UNCHANGED <<setting, slot, made, guest, req, fails, ghost>>

Tick ==
  /\ now < MaxTime /\ now' = now + 1
  /\ UNCHANGED <<cast, slot, rows, guest, req, tab, fails, acts, ghost>>

GuestStep(g) ==
  ListSlots(g) \/ ListBookings(g) \/ SubmitTour(g) \/ AnswerLost(g)
  \/ CancelRead(g) \/ \E ok \in BOOLEAN : CancelWrite(g, ok)
RequestStep(r) ==
  Check(r) \/ Insert(r) \/ RequestFails(r) \/ \E ok \in BOOLEAN : MailBooked(r, ok)
LandlordStep(l) ==
  \/ OpenPage(l)
  \/ \E s \in SlotIds : AddSlot(l, s) \/ \E to \in {"on", "off", "deleted"} : ChangeSlot(l, s, to)
  \/ \E b \in Made, s \in {"completed", "no_show", "canceled"} : SetStatus(l, b, s)

TourNext ==
  \/ \E g \in Guests : GuestStep(g)
  \/ \E r \in Guests \X Try : RequestStep(r)
  \/ \E l \in Tabs : LandlordStep(l)
  \/ Tick

TourSpec == TourInit /\ [][TourNext]_tourVars

-----------------------------------------------------------------------------
\* A time gets at most as many live bookings as requests for it were past their check at
\* the same moment.  Bookings a stale dashboard page brought back from "canceled" are left
\* out: those come on top (tours/page.tsx handleBookingAction).
LiveBounded ==
  \A t \in Times : Cardinality({b \in LiveBookings(t) : ~row[b].revived}) <= peak[t]

\* "Tour Scheduled!" is only ever shown to a guest whose own booking is in the table, at the
\* time that was picked, and it is live unless the guest or the landlord canceled it.
ScheduledIsBooked ==
  \A g \in Guests : guest[g].st = "done" =>
    /\ guest[g].b \in Made
    /\ row[guest[g].b].who = g /\ row[guest[g].b].t = req[<<g, guest[g].try>>].pick.t

\* A time that is still offered to a guest was free of every booking older than the list,
\* canceled ones aside, as far as the bookings query looked.  The site's query covers its
\* days; the AI's leaves the hours before "now" and most of its last day out
\* (tour-service.ts:20, tour-utils.ts:109), so only bookTour's own check refuses those.
OfferedWasFree ==
  \A g \in Guests : \A e \in guest[g].list :
    \A b \in LiveBookings(e.t) :
      \/ b > guest[g].asof \/ row[b].revived
      \/ g \in Callers /\ e.t \notin guest[g].window.from..guest[g].window.to

\* Two tours that run at the same time come from two slot rows, from overlapping requests
\* for one time or from a stale page: times cut from one row never overlap.
OverlapNeedsTwoSlots ==
  \A b, c \in Made :
    LET len(x) == OfferOf[row[x].slot].step IN
    (/\ row[b].t < row[c].t /\ row[c].t < row[b].t + len(b)) => row[b].slot # row[c].slot

\* The landlord is mailed about every booking made and every booking withdrawn by its guest,
\* whichever way it came in, but for the mails that failed.
LandlordTold ==
  LET owed == {<<b, "new">> : b \in {c \in Made : \A r \in Guests \X Try :
                                        ~(req[r].pc = "inserted" /\ req[r].b = c)}}
              \cup {<<b, "canceled">> : b \in withdrawn}
  IN Cardinality(owed \ told) <= fails

\* A time is given to one visitor, as far as the look-ups before the insert can
\* see (bookTour, getAvailableSlots).
SlotsKept == TourTypeOK /\ LiveBounded /\ OfferedWasFree /\ OverlapNeedsTwoSlots

\* What guest and landlord are told is what the table says (tours/page.tsx, the
\* mails of bookTour and of the cancel route).
PeopleTold == ScheduledIsBooked /\ LandlordTold
=============================================================================
