------------------------- MODULE TenantCare_proofs --------------------------
(***************************************************************************)
(* Proofs about maintenance requests, letters and notices, as they run in  *)
(* TenantPortal, for any tabs, requests, texts and mishaps, and of what    *)
(* both halves of the portal promise together.                             *)
(*                                                                         *)
(* As on the rent pages, what is made and still owed is weighed against    *)
(* what was meant (AskedInv). The stamps of a maintenance request agree    *)
(* with its status while nobody holds a status read before another's write *)
(* (ResolvedInv). Texts after STOP are counted with the sendings past      *)
(* their check (CaughtInv); the letter at a notice's key is the one its    *)
(* sending put there, while sendings do not overlap (LinkInv); a sending   *)
(* about to mark its notice stands for one text (MarkInv). Stages and      *)
(* types are in CareTyped.                                                 *)
(***************************************************************************)
EXTENDS RentPages_proofs

-----------------------------------------------------------------------------
(* Counts and indices                                                      *)

LEMMA CareFinite == IsFiniteSet(Reqs) /\ IsFiniteSet(Desks) /\ IsFiniteSet(Tabs)
BY RentFacts, FS_Subset DEF Screens

\* the instance's own name for the number of members of a set
LEMMA CareCount == ASSUME NEW S PROVE Care!Cardinality(S) = Cardinality(S)
BY Zenon DEF Cardinality, Care!Cardinality

-----------------------------------------------------------------------------
(* Maintenance requests, messages and notices: types                       *)

Columns == {"old", "new"}
Ticket == [status : Care!Open \cup Care!Done, resolved : BOOLEAN, notes : Columns, prio : Columns]
Letter == [by : {"landlord", "tenant"}, read : BOOLEAN]
Notice == [text : Nat, served : BOOLEAN, sent : BOOLEAN]
Text   == [i : Nat, ver : Nat, got : Nat, late : BOOLEAN]
PageOps == Care!DeskOp \cup Care!TabOp
CarePcs == {"idle", "read", "write", "create", "check", "upload", "send", "mark"}
CareReqs ==
  [op : PageOps \cup {"none", "notice", "text"}, pc : CarePcs, scr : Care!Screens \cup {Care!Nobody}, i : Nat,
   val : Columns \cup Care!Open \cup Care!Done, seen : Care!Open \cup Care!Done, ver : Nat]
TicketPages == {"desk_tickets", "tab_tickets"}
LetterPages == {"desk_messages", "tab_messages"}
CareScreens ==
  [at : {"none"} \cup TicketPages \cup LetterPages, need : BOOLEAN, seen : Seq(Ticket) \cup Seq(Letter),
   busy : SUBSET PageOps, again : SUBSET PageOps, sent : BOOLEAN]

\* how many of each thing there are so far
CareSizes == [tickets |-> Len(tickets), letters |-> Len(letters), notices |-> Len(notices)]
CareCounts == [tickets : Nat, letters : Nat, notices : Nat]
CareGrow(m, n) == m.tickets <= n.tickets /\ m.letters <= n.letters /\ m.notices <= n.notices

\* which stages a request of each kind goes through, and what it knows there
CareTurn(q, n) ==
  \/ q.op = "none" /\ q.pc = "idle" /\ q.scr = Care!Nobody
  \/ q.op = "status" /\ q.pc \in {"read", "write"} /\ q.i \in 1..n.tickets /\ q.val \in Care!Open \cup Care!Done
  \/ q.op \in {"notes", "prio"} /\ q.pc = "write" /\ q.i \in 1..n.tickets /\ q.val \in Columns
  \/ q.op = "submit" /\ q.pc \in {"read", "write"}
  \/ q.op \in {"send", "reply"} /\ q.pc = "write"
  \/ q.op = "mark" /\ q.pc = "write" /\ q.i \in 1..n.letters
  \/ q.op = "notice" /\ q.pc = "create" /\ q.scr = Care!Nobody
  \/ /\ q.op = "text" /\ q.pc \in {"read", "check", "upload", "send", "mark"}
     /\ q.i \in 1..n.notices /\ q.scr = Care!Nobody

CareReqOK(q, n) == q \in CareReqs /\ CareTurn(q, n)
\* a request's page is still the one it was sent from
Linked(q, pg) == q.scr # Care!Nobody => q.scr \in Care!Screens /\ pg[q.scr].at = Care!PageOf(q.op)

CarePageOK(p, n) ==
  /\ p \in CareScreens
  /\ p.at \in TicketPages => p.seen \in Seq(Ticket) /\ Len(p.seen) <= n.tickets
  /\ p.at \in LetterPages => p.seen \in Seq(Letter) /\ Len(p.seen) <= n.letters
  /\ p.at = "none" => ~p.need
  /\ \A op \in p.again : Care!PageOf(op) = p.at

CareReqsTyped == careReq \in [Reqs -> CareReqs] /\ \A r \in Reqs : CareReqOK(careReq[r], CareSizes)
CareLinked == \A r \in Reqs : Linked(careReq[r], carePage)
CarePagesTyped == carePage \in [Care!Screens -> CareScreens] /\ \A s \in Care!Screens : CarePageOK(carePage[s], CareSizes)

RowsTyped ==
  /\ tickets \in Seq(Ticket) /\ letters \in Seq(Letter)
  /\ notices \in Seq(Notice) /\ stored \in Seq(Nat) /\ Len(stored) = Len(notices)
  /\ \A i \in 1..Len(notices) : stored[i] <= notices[i].text
TextsTyped ==
  /\ texts \in Seq(Text)
  /\ \A k \in 1..Len(texts) :
       /\ texts[k].i \in 1..Len(notices)
       /\ texts[k].ver <= notices[texts[k].i].text /\ texts[k].got <= notices[texts[k].i].text
CareBudgets == [presses : Nat, visits : Nat, edits : Nat, haps : Nat]
CareRest ==
  /\ lease \in BOOLEAN /\ overdue \in BOOLEAN /\ opted \in BOOLEAN
  /\ careBudget \in CareBudgets /\ careWishes \in Nat /\ echoes \in Nat /\ caught \in Nat
  /\ mixed \subseteq 1..Len(tickets) /\ crossed \subseteq 1..Len(notices)
\* a text past its first step names a version there has been
VersionsOK == \A r \in Reqs : careReq[r].op = "text" /\ careReq[r].pc # "read" => careReq[r].ver <= notices[careReq[r].i].text
CareTyped == RowsTyped /\ TextsTyped /\ CareRest /\ CareReqsTyped /\ CareLinked /\ CarePagesTyped /\ VersionsOK

LEMMA PageNames ==
  /\ PageOps = {"status", "notes", "prio", "send", "submit", "reply", "mark"}
  /\ \A op \in {"status", "notes", "prio"} : Care!PageOf(op) = "desk_tickets"
  /\ Care!PageOf("send") = "desk_messages" /\ Care!PageOf("submit") = "tab_tickets"
  /\ Care!PageOf("reply") = "tab_messages" /\ Care!PageOf("mark") = "tab_messages"
BY DEF Care!PageOf, PageOps, Care!DeskOp, Care!TabOp

LEMMA PagesAre == Care!DeskPages = {"desk_tickets", "desk_messages"} /\ Care!TabPages = {"tab_tickets", "tab_messages"}
<1>1. Care!DeskPages = {"desk_tickets", "desk_messages"}
  BY PageNames DEF Care!DeskPages, Care!DeskOp
<1>2. Care!TabPages = {"tab_tickets", "tab_messages"}
  BY PageNames DEF Care!TabPages, Care!TabOp
<1> QED BY <1>1, <1>2

LEMMA CareSizesTyped == ASSUME RowsTyped PROVE CareSizes \in CareCounts
BY DEF RowsTyped, CareSizes, CareCounts

LEMMA CareSizesNext == ASSUME RowsTyped' PROVE CareSizes' \in CareCounts
BY DEF RowsTyped, CareSizes, CareCounts

LEMMA CareGrowSame == ASSUME RowsTyped PROVE CareGrow(CareSizes, CareSizes)
BY DEF CareGrow, CareSizes, RowsTyped

\* nothing a request or a page knows of goes away
LEMMA CareReqGrows == ASSUME NEW q, NEW m \in CareCounts, NEW n \in CareCounts, CareReqOK(q, m), CareGrow(m, n)
  PROVE CareReqOK(q, n)
<1>1. 1..m.tickets \subseteq 1..n.tickets /\ 1..m.letters \subseteq 1..n.letters /\ 1..m.notices \subseteq 1..n.notices
  BY DEF CareGrow, CareCounts
<1> QED BY <1>1 DEF CareReqOK, CareTurn

LEMMA CarePageGrows == ASSUME NEW p, NEW m \in CareCounts, NEW n \in CareCounts, CarePageOK(p, m), CareGrow(m, n)
  PROVE CarePageOK(p, n)
<1>1. p.at \in TicketPages => Len(p.seen) <= n.tickets
  <2> SUFFICES ASSUME p.at \in TicketPages PROVE Len(p.seen) <= n.tickets
    OBVIOUS
  <2>1. Len(p.seen) \in Nat /\ Len(p.seen) <= m.tickets
    BY DEF CarePageOK
  <2> QED BY <2>1 DEF CareGrow, CareCounts
<1>2. p.at \in LetterPages => Len(p.seen) <= n.letters
  <2> SUFFICES ASSUME p.at \in LetterPages PROVE Len(p.seen) <= n.letters
    OBVIOUS
  <2>1. Len(p.seen) \in Nat /\ Len(p.seen) <= m.letters
    BY DEF CarePageOK
  <2> QED BY <2>1 DEF CareGrow, CareCounts
<1> QED BY <1>1, <1>2 DEF CarePageOK

LEMMA CareIdle == \A n : CareReqOK(Care!Idle, n) /\ \A pg : Linked(Care!Idle, pg)
BY DEF CareReqOK, CareReqs, Care!Idle, CareTurn, CarePcs, Care!Nobody, Columns, Care!Open, Care!Done, Linked

LEMMA CareClosed == \A n \in CareCounts : CarePageOK(Care!Closed, n)
<1>1. Care!Closed \in CareScreens
  BY DEF CareScreens, Care!Closed
<1> QED BY <1>1 DEF CarePageOK, Care!Closed, TicketPages, LetterPages

\* a request goes on; the pages are where they were
LEMMA CareReqGoes == ASSUME CareTyped, RowsTyped', CareGrow(CareSizes, CareSizes'), NEW r \in Reqs, NEW new,
    CareReqOK(new, CareSizes'), Care!Goes(r, new)
  PROVE CareReqsTyped'
<1>1. \A x \in Reqs : careReq'[x] = IF x = r THEN new ELSE careReq[x]
  BY DEF Care!Goes, CareTyped, CareReqsTyped
<1>2. \A x \in Reqs : CareReqOK(careReq[x], CareSizes')
  BY CareReqGrows, CareSizesTyped, CareSizesNext DEF CareTyped, CareReqsTyped
<1>3. careReq' \in [Reqs -> CareReqs]
  BY DEF Care!Goes, CareTyped, CareReqsTyped, CareReqOK
<1> QED BY <1>1, <1>2, <1>3 DEF CareReqsTyped

LEMMA CareReqsStay == ASSUME CareTyped, RowsTyped', CareGrow(CareSizes, CareSizes'), careReq' = careReq
  PROVE CareReqsTyped'
<1>2. \A x \in Reqs : CareReqOK(careReq[x], CareSizes')
  BY CareReqGrows, CareSizesTyped, CareSizesNext DEF CareTyped, CareReqsTyped
<1> QED BY <1>2 DEF CareReqsTyped, CareTyped

\* links hold while pages stay where they are
LEMMA LinksStay == ASSUME CareTyped, \A s \in Care!Screens : carePage'[s].at = carePage[s].at,
    \A x \in Reqs : careReq'[x].scr = Care!Nobody \/ (careReq'[x].scr = careReq[x].scr /\ careReq'[x].op = careReq[x].op)
  PROVE CareLinked'
BY DEF CareTyped, CareLinked, Linked

LEMMA LinkGoes == ASSUME CareTyped, \A s \in Care!Screens : carePage'[s].at = carePage[s].at, NEW r \in Reqs, NEW new,
    Care!Goes(r, new), Linked(new, carePage)
  PROVE CareLinked'
<1>1. \A x \in Reqs : careReq'[x] = IF x = r THEN new ELSE careReq[x]
  BY DEF Care!Goes, CareTyped, CareReqsTyped
<1> QED BY <1>1 DEF CareTyped, CareLinked, Linked

\* a page changes, the others stay
LEMMA CarePageChanges == ASSUME CareTyped, RowsTyped', CareGrow(CareSizes, CareSizes'), NEW s, NEW new,
    CarePageOK(new, CareSizes'), carePage' = [carePage EXCEPT ![s] = new]
  PROVE /\ CarePagesTyped' /\ \A x \in Care!Screens : carePage'[x] = IF x = s THEN new ELSE carePage[x]
        /\ new.at = carePage[s].at => \A x \in Care!Screens : carePage'[x].at = carePage[x].at
<1>1. \A x \in Care!Screens : carePage'[x] = IF x = s THEN new ELSE carePage[x]
  BY DEF CareTyped, CarePagesTyped
<1>2. \A x \in Care!Screens : CarePageOK(carePage[x], CareSizes')
  BY CarePageGrows, CareSizesTyped, CareSizesNext DEF CareTyped, CarePagesTyped
<1>3. carePage' \in [Care!Screens -> CareScreens]
  BY DEF CareTyped, CarePagesTyped, CarePageOK
<1> QED BY <1>1, <1>2, <1>3 DEF CarePagesTyped

LEMMA CarePagesStay == ASSUME CareTyped, RowsTyped', CareGrow(CareSizes, CareSizes'), carePage' = carePage
  PROVE CarePagesTyped' /\ \A x \in Care!Screens : carePage'[x].at = carePage[x].at
<1>2. \A x \in Care!Screens : CarePageOK(carePage[x], CareSizes')
  BY CarePageGrows, CareSizesTyped, CareSizesNext DEF CareTyped, CarePagesTyped
<1> QED BY <1>2 DEF CarePagesTyped, CareTyped

\* what a page does with an answer keeps it a page of its kind
LEMMA CareHearsOK == ASSUME NEW p, NEW q, NEW n \in CareCounts, NEW ok \in BOOLEAN, NEW made,
    CarePageOK(p, n), q.op \in PageOps, p.at = Care!PageOf(q.op),
    ok /\ q.op = "submit" => made \in Ticket /\ Len(p.seen) + 1 <= n.tickets,
    ok /\ q.op = "reply" => made \in Letter /\ Len(p.seen) + 1 <= n.letters
  PROVE CarePageOK(Care!Hears(p, q, ok, made), n) /\ Care!Hears(p, q, ok, made).at = p.at
<1> DEFINE p1 == [p EXCEPT !.busy = @ \ {q.op}]
           h == Care!Hears(p, q, ok, made)
<1>0. /\ p1 \in CareScreens /\ p1.at = p.at /\ p1.seen = p.seen /\ p1.need = p.need /\ p1.again = p.again
      /\ CarePageOK(p1, n)
  BY DEF CarePageOK, CareScreens
<1> HIDE DEF p1
<1>1. CASE ~ok
  <2>1. h = [p1 EXCEPT !.again = @ \cup ({q.op} \ {"mark"})]
    BY <1>1 DEF Care!Hears, p1
  <2> HIDE DEF h
  <2>2. /\ h \in CareScreens /\ h.at = p.at /\ h.seen = p.seen /\ h.need = p.need
        /\ h.again \subseteq p.again \cup {q.op}
    BY <1>0, <2>1 DEF CareScreens
  <2>3. CarePageOK(h, n) /\ h.at = p.at
    BY <2>2 DEF CarePageOK
  <2> QED BY <2>3 DEF h
<1>2. CASE ok /\ q.op \in {"status", "notes", "prio"}
  <2>1. h = [p1 EXCEPT !.need = TRUE, !.busy = {}]
    BY <1>2 DEF Care!Hears, p1, Care!Reloaded
  <2>4. p.at # "none"
    BY <1>2, PageNames
  <2> HIDE DEF h
  <2>2. /\ h \in CareScreens /\ h.at = p.at /\ h.seen = p.seen /\ h.again = p.again
    BY <1>0, <2>1 DEF CareScreens
  <2>3. CarePageOK(h, n) /\ h.at = p.at
    BY <2>2, <2>4 DEF CarePageOK
  <2> QED BY <2>3 DEF h
<1>3. CASE ok /\ q.op = "send"
  <2>1. h = [p1 EXCEPT !.sent = TRUE, !.need = TRUE, !.again = @ \ {"send"}]
    BY <1>3 DEF Care!Hears, p1
  <2>4. p.at # "none"
    BY <1>3, PageNames
  <2> HIDE DEF h
  <2>2. /\ h \in CareScreens /\ h.at = p.at /\ h.seen = p.seen /\ h.again \subseteq p.again
    BY <1>0, <2>1 DEF CareScreens
  <2>3. CarePageOK(h, n) /\ h.at = p.at
    BY <2>2, <2>4 DEF CarePageOK
  <2> QED BY <2>3 DEF h
<1>4. CASE ok /\ q.op \in {"submit", "reply"}
  <2>1. h = [p1 EXCEPT !.seen = Append(@, made), !.again = @ \ {q.op}]
    BY <1>4 DEF Care!Hears, p1
  <2> HIDE DEF h
  <2>5. p.at # "none"
    BY <1>4, PageNames
  <2>6. CASE q.op = "submit"
    <3>1. p.at \in TicketPages /\ p.at \notin LetterPages
      BY <2>6, PageNames DEF TicketPages, LetterPages
    <3>2. p.seen \in Seq(Ticket)
      BY <3>1 DEF CarePageOK
    <3>3. Append(p.seen, made) \in Seq(Ticket) /\ Len(Append(p.seen, made)) = Len(p.seen) + 1
      BY <1>4, <2>6, <3>2
    <3>4. /\ h \in CareScreens /\ h.at = p.at /\ h.seen = Append(p.seen, made) /\ h.again \subseteq p.again
      BY <1>0, <2>1, <3>3 DEF CareScreens
    <3>5. Len(h.seen) <= n.tickets
      BY <1>4, <2>6, <3>3, <3>4
    <3>6. CarePageOK(h, n) /\ h.at = p.at
      BY <2>5, <3>1, <3>3, <3>4, <3>5 DEF CarePageOK
    <3> QED BY <3>6 DEF h
  <2>7. CASE q.op = "reply"
    <3>1. p.at \in LetterPages /\ p.at \notin TicketPages
      BY <2>7, PageNames DEF TicketPages, LetterPages
    <3>2. p.seen \in Seq(Letter)
      BY <3>1 DEF CarePageOK
    <3>3. Append(p.seen, made) \in Seq(Letter) /\ Len(Append(p.seen, made)) = Len(p.seen) + 1
      BY <1>4, <2>7, <3>2
    <3>4. /\ h \in CareScreens /\ h.at = p.at /\ h.seen = Append(p.seen, made) /\ h.again \subseteq p.again
      BY <1>0, <2>1, <3>3 DEF CareScreens
    <3>5. Len(h.seen) <= n.letters
      BY <1>4, <2>7, <3>3, <3>4
    <3>6. CarePageOK(h, n) /\ h.at = p.at
      BY <2>5, <3>1, <3>3, <3>4, <3>5 DEF CarePageOK
    <3> QED BY <3>6 DEF h
  <2> QED BY <1>4, <2>6, <2>7
<1>5. CASE ok /\ q.op = "mark"
  <2>1. h = [p1 EXCEPT !.seen[q.i].read = TRUE]
    BY <1>5 DEF Care!Hears, p1
  <2> DEFINE new == [p.seen EXCEPT ![q.i].read = TRUE]
  <2>2. p.at \in LetterPages /\ p.at \notin TicketPages /\ p.at # "none"
    BY <1>5, PageNames DEF TicketPages, LetterPages
  <2>3. p.seen \in Seq(Letter)
    BY <2>2 DEF CarePageOK
  <2>4. new \in Seq(Letter) /\ Len(new) = Len(p.seen)
    <3>0. DOMAIN p.seen = 1..Len(p.seen)
      BY <2>3
    <3>9. new = [k \in DOMAIN p.seen |-> IF k = q.i THEN [p.seen[k] EXCEPT !.read = TRUE] ELSE p.seen[k]]
      OBVIOUS
    <3>1. new = [k \in 1..Len(p.seen) |-> IF k = q.i THEN [p.seen[k] EXCEPT !.read = TRUE] ELSE p.seen[k]]
      BY <3>0, <3>9
    <3>2. \A k \in 1..Len(p.seen) : p.seen[k] \in Letter
      BY <2>3
    <3>3. \A k \in 1..Len(p.seen) : [p.seen[k] EXCEPT !.read = TRUE] \in Letter
      BY <3>2 DEF Letter
    <3>4. new \in [1..Len(p.seen) -> Letter]
      <4> HIDE DEF new, Letter
      <4> QED BY <3>1, <3>2, <3>3
    <3>5. Len(p.seen) \in Nat
      BY <2>3
    <3> HIDE DEF new, Letter
    <3>6. new \in Seq(Letter)
      BY <3>4, <3>5
    <3>7. DOMAIN new = 1..Len(p.seen)
      BY <3>4
    <3> QED BY <3>5, <3>6, <3>7
  <2>5. h = [p1 EXCEPT !.seen = new]
    BY <1>0, <2>1
  <2> HIDE DEF h, new
  <2>6. /\ h \in CareScreens /\ h.at = p.at /\ h.seen = new /\ h.again = p.again
    BY <1>0, <2>4, <2>5 DEF CareScreens
  <2>7. CarePageOK(h, n) /\ h.at = p.at
    BY <2>2, <2>4, <2>6 DEF CarePageOK
  <2> QED BY <2>7 DEF h
<1> QED BY <1>1, <1>2, <1>3, <1>4, <1>5, PageNames

\* what an answer carries fits the page that asked
MadeFits(q, ok, made) ==
  /\ ok /\ q.op = "submit" => made \in Ticket /\ Len(tickets') >= Len(tickets) + 1
  /\ ok /\ q.op = "reply" => made \in Letter /\ Len(letters') >= Len(letters) + 1

LEMMA CareHeardTyped == ASSUME CareTyped, RowsTyped', CareGrow(CareSizes, CareSizes'), NEW q, NEW ok \in BOOLEAN, NEW made,
    q.scr # Care!Nobody => q.op \in PageOps, Linked(q, carePage), MadeFits(q, ok, made), carePage' = Care!Heard(q, ok, made)
  PROVE CarePagesTyped' /\ \A s \in Care!Screens : carePage'[s].at = carePage[s].at
<1>1. CASE q.scr = Care!Nobody
  BY <1>1, CarePagesStay DEF Care!Heard
<1>2. CASE q.scr # Care!Nobody
  <2> DEFINE p == carePage[q.scr]
  <2>1. q.scr \in Care!Screens /\ p.at = Care!PageOf(q.op) /\ q.op \in PageOps
    BY <1>2 DEF Linked
  <2>2. carePage' = [carePage EXCEPT ![q.scr] = Care!Hears(p, q, ok, made)]
    BY <1>2 DEF Care!Heard
  <2>3. CarePageOK(p, CareSizes)
    BY <2>1 DEF CareTyped, CarePagesTyped
  <2>4. CareSizes \in CareCounts /\ CareSizes' \in CareCounts
    BY CareSizesTyped, CareSizesNext DEF CareTyped
  <2>5. CarePageOK(p, CareSizes')
    BY <2>3, <2>4, CarePageGrows
  <2>6. CareSizes.tickets = Len(tickets) /\ CareSizes.letters = Len(letters) /\ CareSizes'.tickets = Len(tickets') /\ CareSizes'.letters = Len(letters')
    BY DEF CareSizes
  <2>7. ok /\ q.op = "submit" => made \in Ticket /\ Len(p.seen) + 1 <= CareSizes'.tickets
    <3> SUFFICES ASSUME ok, q.op = "submit" PROVE made \in Ticket /\ Len(p.seen) + 1 <= CareSizes'.tickets
      OBVIOUS
    <3>1. p.at \in TicketPages
      BY <2>1, PageNames DEF TicketPages
    <3>2. Len(p.seen) \in Nat /\ Len(p.seen) <= CareSizes.tickets
      BY <2>3, <3>1 DEF CarePageOK
    <3>3. made \in Ticket /\ Len(tickets') >= Len(tickets) + 1
      BY DEF MadeFits
    <3> QED BY <2>4, <2>6, <3>2, <3>3 DEF CareCounts
  <2>8. ok /\ q.op = "reply" => made \in Letter /\ Len(p.seen) + 1 <= CareSizes'.letters
    <3> SUFFICES ASSUME ok, q.op = "reply" PROVE made \in Letter /\ Len(p.seen) + 1 <= CareSizes'.letters
      OBVIOUS
    <3>1. p.at \in LetterPages
      BY <2>1, PageNames DEF LetterPages
    <3>2. Len(p.seen) \in Nat /\ Len(p.seen) <= CareSizes.letters
      BY <2>3, <3>1 DEF CarePageOK
    <3>3. made \in Letter /\ Len(letters') >= Len(letters) + 1
      BY DEF MadeFits
    <3> QED BY <2>4, <2>6, <3>2, <3>3 DEF CareCounts
  <2> HIDE DEF p
  <2>9. CarePageOK(Care!Hears(p, q, ok, made), CareSizes') /\ Care!Hears(p, q, ok, made).at = p.at
    BY <2>1, <2>4, <2>5, <2>7, <2>8, CareHearsOK
  <2> QED BY <2>2, <2>9, CarePageChanges DEF p
<1> QED BY <1>1, <1>2

\* a request that has a page is one a page sends
LEMMA PageSends == ASSUME CareTyped, NEW r \in Reqs, careReq[r].scr # Care!Nobody PROVE careReq[r].op \in PageOps
BY DEF CareTyped, CareReqsTyped, CareReqOK, CareTurn, PageOps, Care!DeskOp, Care!TabOp

LEMMA CareEnds == ASSUME CareTyped, RowsTyped', CareGrow(CareSizes, CareSizes'), NEW r \in Reqs, NEW ok \in BOOLEAN, NEW made,
    MadeFits(careReq[r], ok, made), Care!Ends(r, ok, made)
  PROVE CareReqsTyped' /\ CareLinked' /\ CarePagesTyped' /\ \A x \in Reqs : careReq'[x] = IF x = r THEN Care!Idle ELSE careReq[x]
<1>1. CarePagesTyped' /\ \A s \in Care!Screens : carePage'[s].at = carePage[s].at
  BY CareHeardTyped, PageSends DEF Care!Ends, CareTyped, CareLinked
<1>2. CareReqsTyped' /\ CareLinked'
  BY <1>1, CareReqGoes, LinkGoes, CareIdle DEF Care!Ends
<1>3. \A x \in Reqs : careReq'[x] = IF x = r THEN Care!Idle ELSE careReq[x]
  BY DEF Care!Ends, Care!Goes, CareTyped, CareReqsTyped
<1> QED BY <1>1, <1>2, <1>3

-----------------------------------------------------------------------------
(* Maintenance requests, messages and notices: every step keeps the types  *)

Quiet == UNCHANGED <<tickets, letters, Care!mail>>

LEMMA CareStoresStay == ASSUME CareTyped, Quiet
  PROVE RowsTyped' /\ TextsTyped' /\ CareSizes' = CareSizes /\ CareGrow(CareSizes, CareSizes')
<1>1. RowsTyped' /\ TextsTyped' /\ CareSizes' = CareSizes
  BY DEF CareTyped, RowsTyped, TextsTyped, Quiet, Care!mail, CareSizes
<1> QED BY <1>1, CareGrowSame DEF CareTyped

LEMMA CareSpend == ASSUME CareTyped, NEW k \in {"presses", "visits", "edits", "haps"}, Care!Spend(k)
  PROVE careBudget' \in CareBudgets /\ careBudget'.haps = IF k = "haps" THEN careBudget.haps + 1 ELSE careBudget.haps
BY DEF Care!Spend, CareTyped, CareRest, CareBudgets

\* a request's version stays good while it stays, and the notices' texts go up
PastRead(q) == q.op = "text" /\ q.pc # "read"
TextsGoUp == \A i \in 1..Len(notices) : notices'[i].text \in Nat /\ notices[i].text <= notices'[i].text

LEMMA TextsUp == ASSUME CareTyped, notices' = notices PROVE TextsGoUp
<1>1. \A i \in 1..Len(notices) : notices[i] \in Notice
  BY DEF CareTyped, RowsTyped
<1> QED BY <1>1 DEF TextsGoUp, Notice

LEMMA TextReqAt == ASSUME CareTyped, NEW r \in Reqs, careReq[r].op = "text"
  PROVE /\ careReq[r].i \in 1..Len(notices) /\ careReq[r].ver \in Nat /\ notices[careReq[r].i].text \in Nat
        /\ careReq[r].scr = Care!Nobody
<1>1. careReq[r].i \in 1..Len(notices) /\ careReq[r].ver \in Nat /\ careReq[r].scr = Care!Nobody
  BY DEF CareTyped, CareReqsTyped, CareReqOK, CareTurn, CareReqs, CareSizes
<1>2. notices[careReq[r].i] \in Notice
  BY <1>1 DEF CareTyped, RowsTyped
<1> QED BY <1>1, <1>2 DEF Notice

LEMMA VersionsStay == ASSUME CareTyped, TextsGoUp,
    \A x \in Reqs : PastRead(careReq'[x]) => PastRead(careReq[x]) /\ careReq'[x].i = careReq[x].i /\ careReq'[x].ver = careReq[x].ver
  PROVE VersionsOK'
<1> SUFFICES ASSUME NEW x \in Reqs, careReq'[x].op = "text", careReq'[x].pc # "read"
    PROVE careReq'[x].ver <= notices'[careReq'[x].i].text
  BY DEF VersionsOK
<1>1. PastRead(careReq[x]) /\ careReq'[x].i = careReq[x].i /\ careReq'[x].ver = careReq[x].ver
  BY DEF PastRead
<1>2. careReq[x].ver <= notices[careReq[x].i].text
  BY <1>1 DEF CareTyped, VersionsOK, PastRead
<1>3. careReq[x].i \in 1..Len(notices) /\ careReq[x].ver \in Nat /\ notices[careReq[x].i].text \in Nat
  BY <1>1, TextReqAt DEF PastRead
<1>4. notices'[careReq[x].i].text \in Nat /\ notices[careReq[x].i].text <= notices'[careReq[x].i].text
  BY <1>3 DEF TextsGoUp
<1> QED BY <1>1, <1>2, <1>3, <1>4

\* one request goes on
LEMMA VersionGoes == ASSUME CareTyped, TextsGoUp, NEW r \in Reqs, NEW new, Care!Goes(r, new),
    PastRead(new) => PastRead(careReq[r]) /\ new.i = careReq[r].i /\ new.ver = careReq[r].ver
  PROVE VersionsOK'
<1>1. \A x \in Reqs : careReq'[x] = IF x = r THEN new ELSE careReq[x]
  BY DEF Care!Goes, CareTyped, CareReqsTyped
<1> QED BY <1>1, VersionsStay

LEMMA IdleUnread == ~PastRead(Care!Idle)
BY DEF PastRead, Care!Idle

\* nothing but a request and its page changes
LEMMA ReqStep == ASSUME CareTyped, Quiet, CareRest', carePage' = carePage, NEW r \in Reqs, NEW new, Care!Goes(r, new),
    CareReqOK(new, CareSizes), Linked(new, carePage),
    PastRead(new) => PastRead(careReq[r]) /\ new.i = careReq[r].i /\ new.ver = careReq[r].ver
  PROVE CareTyped'
<1>1. RowsTyped' /\ TextsTyped' /\ CareSizes' = CareSizes /\ CareGrow(CareSizes, CareSizes')
  BY CareStoresStay
<1>2. CareReqsTyped'
  BY <1>1, CareReqGoes
<1>3. CarePagesTyped' /\ CareLinked'
  BY <1>1, CarePagesStay, LinkGoes
<1>4. VersionsOK'
  BY VersionGoes, TextsUp DEF Quiet, Care!mail
<1> QED BY <1>1, <1>2, <1>3, <1>4 DEF CareTyped

\* a button is pressed
LEMMA CarePressTyped == ASSUME CareTyped, Quiet, CareRest', NEW s \in Care!Screens, NEW op \in PageOps, NEW r \in Reqs, NEW new,
    carePage' = [carePage EXCEPT ![s].busy = @ \cup {op}], Care!Goes(r, new), CareReqOK(new, CareSizes),
    new.op = op, new.scr = s, carePage[s].at = Care!PageOf(op)
  PROVE CareTyped'
<1>1. RowsTyped' /\ TextsTyped' /\ CareSizes' = CareSizes /\ CareGrow(CareSizes, CareSizes')
  BY CareStoresStay
<1>2. CareReqsTyped'
  BY <1>1, CareReqGoes
<1>3. CarePagesTyped' /\ \A x \in Care!Screens : carePage'[x].at = carePage[x].at
  <2> DEFINE p == [carePage[s] EXCEPT !.busy = @ \cup {op}]
  <2>1. carePage' = [carePage EXCEPT ![s] = p]
    OBVIOUS
  <2>2. CarePageOK(carePage[s], CareSizes')
    BY <1>1 DEF CareTyped, CarePagesTyped
  <2>3. /\ p \in CareScreens /\ p.at = carePage[s].at /\ p.seen = carePage[s].seen /\ p.need = carePage[s].need
        /\ p.again = carePage[s].again
    BY <2>2 DEF CarePageOK, CareScreens
  <2> HIDE DEF p
  <2>4. CarePageOK(p, CareSizes')
    BY <2>2, <2>3 DEF CarePageOK
  <2> QED BY <1>1, <2>1, <2>3, <2>4, CarePageChanges
<1>4. CareLinked'
  <2>1. Linked(new, carePage)
    BY DEF Linked
  <2> QED BY <1>3, <2>1, LinkGoes
<1>5. VersionsOK'
  <2>1. ~PastRead(new)
    BY DEF PastRead, PageOps, Care!DeskOp, Care!TabOp
  <2> QED BY <2>1, VersionGoes, TextsUp DEF Quiet, Care!mail
<1> QED BY <1>1, <1>2, <1>3, <1>4, <1>5 DEF CareTyped

\* a request ends and its page hears of it
LEMMA EndStep == ASSUME CareTyped, RowsTyped', TextsTyped', CareGrow(CareSizes, CareSizes'), CareRest', TextsGoUp,
    NEW r \in Reqs, NEW ok \in BOOLEAN, NEW made, MadeFits(careReq[r], ok, made), Care!Ends(r, ok, made)
  PROVE CareTyped'
<1>1. CareReqsTyped' /\ CareLinked' /\ CarePagesTyped'
  BY CareEnds
<1>2. VersionsOK'
  BY VersionGoes, IdleUnread DEF Care!Ends
<1> QED BY <1>1, <1>2 DEF CareTyped

LEMMA CareRestStays == ASSUME CareTyped, UNCHANGED <<Care!world, Care!past>>, Len(tickets') >= Len(tickets), Len(tickets') \in Nat,
    Len(notices') = Len(notices), careBudget' \in CareBudgets
  PROVE CareRest'
<1>1. 1..Len(tickets) \subseteq 1..Len(tickets')
  BY DEF CareTyped, RowsTyped
<1> QED BY <1>1 DEF CareTyped, CareRest, Care!world, Care!past

LEMMA RestQuiet == ASSUME CareTyped, UNCHANGED <<Care!world, Care!past>>, Quiet, careBudget' \in CareBudgets
  PROVE CareRest'
BY CareRestStays DEF Quiet, Care!mail, CareTyped, RowsTyped

LEMMA CareBudgetStays == ASSUME CareTyped, careBudget' = careBudget PROVE careBudget' \in CareBudgets
BY DEF CareTyped, CareRest

LEMMA VisitTyped == ASSUME CareTyped, NEW s \in Care!Screens, NEW at \in Care!DeskPages \cup Care!TabPages, Care!Visit(s, at)
  PROVE CareTyped'
<1>1. Quiet /\ CareRest'
  BY CareSpend, RestQuiet DEF Care!Visit, Quiet, Care!mail
<1>2. RowsTyped' /\ TextsTyped' /\ CareSizes' = CareSizes /\ CareGrow(CareSizes, CareSizes')
  BY <1>1, CareStoresStay
<1>3. \A x \in Reqs : careReq'[x] = IF careReq[x].scr = s THEN [careReq[x] EXCEPT !.scr = Care!Nobody] ELSE careReq[x]
  BY DEF Care!Visit
<1>4. \A x \in Reqs : /\ careReq'[x] \in CareReqs /\ careReq'[x].op = careReq[x].op /\ careReq'[x].pc = careReq[x].pc /\ careReq'[x].i = careReq[x].i
                     /\ careReq'[x].val = careReq[x].val /\ careReq'[x].ver = careReq[x].ver
                     /\ careReq'[x].scr = IF careReq[x].scr = s THEN Care!Nobody ELSE careReq[x].scr
  BY <1>3 DEF CareTyped, CareReqsTyped, CareReqs
<1>5. CareReqsTyped'
  <2>1. \A x \in Reqs : CareTurn(careReq[x], CareSizes)
    BY DEF CareTyped, CareReqsTyped, CareReqOK
  <2>2. \A x \in Reqs : CareTurn(careReq'[x], CareSizes')
    BY <1>2, <1>4, <2>1 DEF CareTurn
  <2>3. careReq' \in [Reqs -> CareReqs]
    BY <1>4 DEF Care!Visit
  <2> QED BY <1>4, <2>2, <2>3 DEF CareReqsTyped, CareReqOK
<1> DEFINE new == [Care!Closed EXCEPT !.at = at, !.need = TRUE]
<1>6. CarePageOK(new, CareSizes')
  <2>4. Care!Closed \in CareScreens /\ Care!Closed.seen = <<>> /\ Care!Closed.again = {}
    <3>1. CareSizes' \in CareCounts
      BY <1>2, CareSizesNext
    <3> QED BY <3>1, CareClosed DEF CarePageOK, Care!Closed
  <2>5. at \in {"none"} \cup TicketPages \cup LetterPages
    BY PagesAre DEF TicketPages, LetterPages
  <2>1. new \in CareScreens /\ new.seen = <<>> /\ new.at = at /\ new.again = {}
    <3> HIDE DEF Care!Closed
    <3> QED BY <2>4, <2>5 DEF CareScreens
  <2>2. CareSizes' \in CareCounts
    BY <1>2, CareSizesNext
  <2>3. at # "none"
    BY PagesAre
  <2> HIDE DEF new
  <2> QED BY <2>1, <2>2, <2>3 DEF CarePageOK, CareCounts
<1>7. carePage' = [carePage EXCEPT ![s] = new]
  BY DEF Care!Visit
<1> HIDE DEF new
<1>8. CarePagesTyped' /\ \A x \in Care!Screens : carePage'[x] = IF x = s THEN new ELSE carePage[x]
  <2>1. ASSUME NEW v, CarePageOK(v, CareSizes'), carePage' = [carePage EXCEPT ![s] = v]
        PROVE CarePagesTyped' /\ \A x \in Care!Screens : carePage'[x] = IF x = s THEN v ELSE carePage[x]
    <3>1. RowsTyped' /\ CareGrow(CareSizes, CareSizes')
      BY <1>2
    <3>2. CarePagesTyped'
      BY <2>1, <3>1, CarePageChanges
    <3>3. \A x \in Care!Screens : carePage'[x] = IF x = s THEN v ELSE carePage[x]
      BY <2>1 DEF CareTyped, CarePagesTyped
    <3> QED BY <3>2, <3>3
  <2> QED BY <1>6, <1>7, <2>1
<1>9. CareLinked'
  BY <1>4, <1>8 DEF CareTyped, CareLinked, Linked
<1>10. VersionsOK'
  BY <1>4, VersionsStay, TextsUp DEF Care!Visit, Care!mail, PastRead
<1> QED BY <1>1, <1>2, <1>5, <1>8, <1>9, <1>10 DEF CareTyped

LEMMA PageStepTyped == ASSUME CareTyped, Quiet, CareRest', careReq' = careReq, NEW s \in Care!Screens, NEW new,
    CarePageOK(new, CareSizes), new.at = carePage[s].at, carePage' = [carePage EXCEPT ![s] = new]
  PROVE CareTyped'
<1>1. RowsTyped' /\ TextsTyped' /\ CareSizes' = CareSizes /\ CareGrow(CareSizes, CareSizes')
  BY CareStoresStay
<1>2. CarePagesTyped' /\ \A x \in Care!Screens : carePage'[x].at = carePage[x].at
  BY <1>1, CarePageChanges
<1>3. CareReqsTyped' /\ CareLinked'
  BY <1>1, <1>2, CareReqsStay, LinksStay
<1>4. VersionsOK'
  BY VersionsStay, TextsUp DEF Quiet, Care!mail
<1> QED BY <1>1, <1>2, <1>3, <1>4 DEF CareTyped

LEMMA CareLoadTyped == ASSUME CareTyped, NEW s \in Care!Screens, Care!Load(s) PROVE CareTyped'
<1>1. Quiet /\ CareRest' /\ careReq' = careReq
  BY CareBudgetStays, RestQuiet DEF Care!Load, Quiet, Care!mail
<1> DEFINE p == carePage[s]
           rows == IF p.at \in {"desk_tickets", "tab_tickets"} THEN tickets ELSE letters
           new == [p EXCEPT !.need = FALSE, !.seen = rows]
<1>2. CarePageOK(p, CareSizes) /\ p.need
  BY DEF CareTyped, CarePagesTyped, Care!Load
<1>3. carePage' = [carePage EXCEPT ![s] = new]
  BY DEF Care!Load
<1> HIDE DEF p
<1>4. tickets \in Seq(Ticket) /\ letters \in Seq(Letter)
  BY DEF CareTyped, RowsTyped
<1>5. /\ new \in CareScreens /\ new.at = p.at /\ new.again = p.again /\ new.need = FALSE /\ new.seen = rows
  BY <1>2, <1>4 DEF CarePageOK, CareScreens
<1>6. CarePageOK(new, CareSizes)
  <2>1. p.at \in TicketPages => rows = tickets
    BY DEF TicketPages
  <2>2. p.at \in LetterPages => rows = letters
    BY DEF LetterPages
  <2>3. CareSizes.tickets = Len(tickets) /\ CareSizes.letters = Len(letters) /\ Len(tickets) \in Nat /\ Len(letters) \in Nat
    BY <1>4 DEF CareSizes
  <2> HIDE DEF new, rows
  <2> QED BY <1>2, <1>4, <1>5, <2>1, <2>2, <2>3 DEF CarePageOK
<1> HIDE DEF new
<1> QED BY <1>1, <1>3, <1>5, <1>6, PageStepTyped DEF p

LEMMA CareFlagTyped == ASSUME CareTyped, NEW s \in Care!Screens, Care!LoadFails(s) \/ Care!ModalCloses(s) PROVE CareTyped'
<1>1. Quiet /\ CareRest' /\ careReq' = careReq
  BY CareBudgetStays, CareSpend, RestQuiet DEF Care!LoadFails, Care!ModalCloses, Quiet, Care!mail
<1> DEFINE p == carePage[s]
<1>2. CarePageOK(p, CareSizes)
  BY DEF CareTyped, CarePagesTyped
<1>3. PICK new : new \in {[p EXCEPT !.need = FALSE], [p EXCEPT !.sent = FALSE]} /\ carePage' = [carePage EXCEPT ![s] = new]
  BY DEF Care!LoadFails, Care!ModalCloses
<1> HIDE DEF p
<1>4. /\ new \in CareScreens /\ new.at = p.at /\ new.again = p.again /\ new.seen = p.seen /\ (new.need = FALSE \/ new.need = p.need)
  BY <1>2, <1>3 DEF CarePageOK, CareScreens
<1>5. CarePageOK(new, CareSizes)
  BY <1>2, <1>4 DEF CarePageOK
<1> QED BY <1>1, <1>3, <1>4, <1>5, PageStepTyped DEF p

\* what a button of the pages sends
LEMMA SeenAt == ASSUME CareTyped, NEW s \in Care!Screens, NEW i \in DOMAIN carePage[s].seen
  PROVE /\ carePage[s].at \in TicketPages => i \in 1..CareSizes.tickets /\ i \in Nat
        /\ carePage[s].at \in LetterPages => i \in 1..CareSizes.letters /\ i \in Nat
<1>1. CarePageOK(carePage[s], CareSizes) /\ CareSizes \in CareCounts
  BY CareSizesTyped DEF CareTyped, CarePagesTyped
<1>2. ASSUME carePage[s].at \in TicketPages PROVE i \in 1..CareSizes.tickets /\ i \in Nat
  <2>1. carePage[s].seen \in Seq(Ticket) /\ Len(carePage[s].seen) <= CareSizes.tickets
    BY <1>1, <1>2 DEF CarePageOK
  <2>2. i \in 1..Len(carePage[s].seen) /\ Len(carePage[s].seen) \in Nat
    BY <2>1
  <2> QED BY <1>1, <2>1, <2>2 DEF CareCounts
<1>3. ASSUME carePage[s].at \in LetterPages PROVE i \in 1..CareSizes.letters /\ i \in Nat
  <2>1. carePage[s].seen \in Seq(Letter) /\ Len(carePage[s].seen) <= CareSizes.letters
    BY <1>1, <1>3 DEF CarePageOK
  <2>2. i \in 1..Len(carePage[s].seen) /\ Len(carePage[s].seen) \in Nat
    BY <2>1
  <2> QED BY <1>1, <2>1, <2>2 DEF CareCounts
<1> QED BY <1>2, <1>3

LEMMA PressStatusTyped == ASSUME CareTyped, NEW s \in Care!Screens, NEW r \in Reqs, Care!PressStatus(s, r) PROVE CareTyped'
<1>1. PICK i \in DOMAIN carePage[s].seen, v \in Care!Open \cup Care!Done :
        Care!Goes(r, [Care!Idle EXCEPT !.op = "status", !.pc = "read", !.scr = s, !.i = i, !.val = v])
  BY DEF Care!PressStatus
<1>2. Quiet /\ CareRest'
  BY CareSpend, RestQuiet DEF Care!PressStatus, Care!Press, Quiet, Care!mail
<1>3. carePage[s].at = Care!PageOf("status") /\ carePage' = [carePage EXCEPT ![s].busy = @ \cup {"status"}]
  BY DEF Care!PressStatus, Care!Press, Care!Ready, Care!Offered
<1>4. i \in 1..CareSizes.tickets /\ i \in Nat
  BY <1>3, SeenAt, PageNames DEF TicketPages
<1> DEFINE new == [Care!Idle EXCEPT !.op = "status", !.pc = "read", !.scr = s, !.i = i, !.val = v]
<1>5. new \in CareReqs /\ new.op = "status" /\ new.pc = "read" /\ new.scr = s /\ new.i = i /\ new.val = v
  BY <1>4 DEF CareReqs, Care!Idle, CarePcs, PageOps, Care!DeskOp, Care!Open, Care!Done, Columns
<1>6. Care!Goes(r, new)
  BY <1>1
<1> HIDE DEF new
<1>7. CareReqOK(new, CareSizes)
  BY <1>4, <1>5 DEF CareReqOK, CareTurn
<1>8. "status" \in PageOps
  BY PageNames
<1> QED BY <1>2, <1>3, <1>5, <1>6, <1>7, <1>8, CarePressTyped

LEMMA PressColumnTyped == ASSUME CareTyped, NEW s \in Care!Screens, NEW r \in Reqs, NEW col \in {"notes", "prio"}, Care!PressColumn(s, r, col)
  PROVE CareTyped'
<1>1. PICK i \in DOMAIN carePage[s].seen, v \in Columns :
        Care!Goes(r, [Care!Idle EXCEPT !.op = col, !.pc = "write", !.scr = s, !.i = i, !.val = v])
  BY DEF Care!PressColumn, Columns
<1>2. Quiet /\ CareRest'
  BY CareSpend, RestQuiet DEF Care!PressColumn, Care!Press, Quiet, Care!mail
<1>3. carePage[s].at = Care!PageOf(col) /\ carePage' = [carePage EXCEPT ![s].busy = @ \cup {col}]
  BY DEF Care!PressColumn, Care!Press, Care!Ready, Care!Offered
<1>4. i \in 1..CareSizes.tickets /\ i \in Nat
  BY <1>3, SeenAt, PageNames DEF TicketPages
<1> DEFINE new == [Care!Idle EXCEPT !.op = col, !.pc = "write", !.scr = s, !.i = i, !.val = v]
<1>5. new \in CareReqs /\ new.op = col /\ new.pc = "write" /\ new.scr = s /\ new.i = i /\ new.val = v
  BY <1>4 DEF CareReqs, Care!Idle, CarePcs, PageOps, Care!DeskOp, Care!Open, Care!Done, Columns
<1>6. Care!Goes(r, new)
  BY <1>1
<1> HIDE DEF new
<1>7. CareReqOK(new, CareSizes)
  BY <1>4, <1>5 DEF CareReqOK, CareTurn
<1>8. col \in PageOps
  BY PageNames
<1> QED BY <1>2, <1>3, <1>5, <1>6, <1>7, <1>8, CarePressTyped

LEMMA PressWriteTyped == ASSUME CareTyped, NEW s \in Care!Screens, NEW r \in Reqs, NEW op, Care!PressWrite(s, r, op)
  PROVE CareTyped'
<1>1. op \in {"send", "submit", "reply"} /\ Care!Goes(r, [Care!Idle EXCEPT !.op = op, !.pc = IF op = "submit" THEN "read" ELSE "write", !.scr = s])
  BY DEF Care!PressWrite
<1>2. Quiet
  BY DEF Care!PressWrite, Quiet, Care!mail
<1>9. CareRest'
  <2>1. careBudget' \in CareBudgets
    BY CareSpend DEF Care!PressWrite, Care!Press
  <2>2. careWishes' \in Nat /\ echoes' \in Nat
    <3>1. careWishes \in Nat /\ echoes \in Nat
      BY DEF CareTyped, CareRest
    <3>2. careWishes' \in {careWishes, careWishes + 1} /\ echoes' \in {echoes, echoes + 1}
      BY DEF Care!PressWrite, Care!Meant
    <3> QED BY <3>1, <3>2
  <2> QED BY <1>2, <2>1, <2>2 DEF CareTyped, CareRest, Care!PressWrite, Care!world, Quiet, Care!mail
<1>3. carePage[s].at = Care!PageOf(op) /\ carePage' = [carePage EXCEPT ![s].busy = @ \cup {op}]
  BY DEF Care!PressWrite, Care!Press, Care!Ready, Care!Offered
<1> DEFINE new == [Care!Idle EXCEPT !.op = op, !.pc = IF op = "submit" THEN "read" ELSE "write", !.scr = s]
<1>5. new \in CareReqs /\ new.op = op /\ new.pc = (IF op = "submit" THEN "read" ELSE "write") /\ new.scr = s
  BY <1>1 DEF CareReqs, Care!Idle, CarePcs, PageOps, Care!DeskOp, Care!TabOp, Care!Open, Care!Done, Columns
<1>6. Care!Goes(r, new)
  BY <1>1
<1> HIDE DEF new
<1>7. CareReqOK(new, CareSizes)
  BY <1>1, <1>5 DEF CareReqOK, CareTurn
<1>8. op \in PageOps
  BY <1>1, PageNames
<1> QED BY <1>2, <1>3, <1>5, <1>6, <1>7, <1>8, <1>9, CarePressTyped

LEMMA ExpandTyped == ASSUME CareTyped, NEW s \in Care!Screens, NEW r \in Reqs, Care!Expand(s, r) PROVE CareTyped'
<1>1. PICK i \in DOMAIN carePage[s].seen : Care!Goes(r, [Care!Idle EXCEPT !.op = "mark", !.pc = "write", !.scr = s, !.i = i])
  BY DEF Care!Expand
<1>2. Quiet /\ CareRest'
  BY CareSpend, RestQuiet DEF Care!Expand, Quiet, Care!mail
<1>3. carePage[s].at = Care!PageOf("mark") /\ carePage' = carePage
  BY DEF Care!Expand, Care!Offered
<1>4. i \in 1..CareSizes.letters /\ i \in Nat
  BY <1>3, SeenAt, PageNames DEF LetterPages
<1> DEFINE new == [Care!Idle EXCEPT !.op = "mark", !.pc = "write", !.scr = s, !.i = i]
<1>5. new \in CareReqs /\ new.op = "mark" /\ new.pc = "write" /\ new.scr = s /\ new.i = i
  BY <1>4 DEF CareReqs, Care!Idle, CarePcs, PageOps, Care!TabOp, Care!Open, Care!Done, Columns
<1>6. Care!Goes(r, new)
  BY <1>1
<1> HIDE DEF new
<1>7. CareReqOK(new, CareSizes) /\ Linked(new, carePage) /\ ~PastRead(new)
  BY <1>3, <1>4, <1>5 DEF CareReqOK, CareTurn, Linked, PastRead
<1> QED BY <1>2, <1>3, <1>6, <1>7, ReqStep

\* a row of a table changes, or one is added
LEMMA SeqPut == ASSUME NEW S, NEW seq \in Seq(S), NEW i, NEW v \in S
  PROVE /\ [seq EXCEPT ![i] = v] \in Seq(S) /\ Len([seq EXCEPT ![i] = v]) = Len(seq)
        /\ \A k \in 1..Len(seq) : [seq EXCEPT ![i] = v][k] = IF k = i THEN v ELSE seq[k]
        /\ DOMAIN [seq EXCEPT ![i] = v] = 1..Len(seq)
<1>0. DOMAIN seq = 1..Len(seq) /\ Len(seq) \in Nat /\ \A k \in 1..Len(seq) : seq[k] \in S
  OBVIOUS
<1> DEFINE new == [seq EXCEPT ![i] = v]
<1>1. new = [k \in 1..Len(seq) |-> IF k = i THEN v ELSE seq[k]]
  BY <1>0
<1> HIDE DEF new
<1>2. new \in [1..Len(seq) -> S]
  BY <1>0, <1>1
<1>3. new \in Seq(S) /\ DOMAIN new = 1..Len(seq)
  BY <1>0, <1>2
<1>4. Len(new) = Len(seq)
  BY <1>0, <1>3
<1> QED BY <1>1, <1>3, <1>4 DEF new

LEMMA SeqAdd == ASSUME NEW S, NEW seq \in Seq(S), NEW v \in S
  PROVE /\ Append(seq, v) \in Seq(S) /\ Len(Append(seq, v)) = Len(seq) + 1 /\ Len(seq) \in Nat
        /\ \A k \in 1..Len(seq) : Append(seq, v)[k] = seq[k]
        /\ Append(seq, v)[Len(seq) + 1] = v
OBVIOUS

LEMMA ReqAt == ASSUME CareTyped, NEW r \in Reqs
  PROVE careReq[r] \in CareReqs /\ CareReqOK(careReq[r], CareSizes) /\ CareTurn(careReq[r], CareSizes) /\ Linked(careReq[r], carePage)
BY DEF CareTyped, CareReqsTyped, CareReqOK, CareLinked

LEMMA TicketAt == ASSUME CareTyped, NEW i \in 1..Len(tickets) PROVE tickets[i] \in Ticket
BY DEF CareTyped, RowsTyped
LEMMA NoticeAt == ASSUME CareTyped, NEW i \in 1..Len(notices) PROVE notices[i] \in Notice /\ stored[i] \in Nat /\ stored[i] <= notices[i].text
BY DEF CareTyped, RowsTyped

\* only the tickets or the letters change
LEMMA TicketRows == ASSUME CareTyped, tickets' \in Seq(Ticket), Len(tickets') >= Len(tickets), UNCHANGED <<letters, Care!mail>>
  PROVE RowsTyped' /\ TextsTyped' /\ CareGrow(CareSizes, CareSizes') /\ TextsGoUp
<1>1. RowsTyped' /\ TextsTyped' /\ TextsGoUp
  BY TextsUp DEF CareTyped, RowsTyped, TextsTyped, Care!mail
<1>2. Len(letters) \in Nat /\ Len(notices) \in Nat
  BY DEF CareTyped, RowsTyped
<1>3. CareGrow(CareSizes, CareSizes')
  BY <1>2 DEF CareGrow, CareSizes, Care!mail
<1> QED BY <1>1, <1>3

LEMMA LetterRows == ASSUME CareTyped, letters' \in Seq(Letter), Len(letters') >= Len(letters), UNCHANGED <<tickets, Care!mail>>
  PROVE RowsTyped' /\ TextsTyped' /\ CareGrow(CareSizes, CareSizes') /\ TextsGoUp
<1>1. RowsTyped' /\ TextsTyped' /\ TextsGoUp
  BY TextsUp DEF CareTyped, RowsTyped, TextsTyped, Care!mail
<1>2. Len(tickets) \in Nat /\ Len(notices) \in Nat
  BY DEF CareTyped, RowsTyped
<1>3. CareGrow(CareSizes, CareSizes')
  BY <1>2 DEF CareGrow, CareSizes, Care!mail
<1> QED BY <1>1, <1>3

LEMMA NewTyped == Care!NewTicket \in Ticket /\ (\A by \in {"landlord", "tenant"} : Care!NewLetter(by) \in Letter) /\ Care!NewNotice \in Notice
BY DEF Care!NewTicket, Care!NewLetter, Care!NewNotice, Ticket, Letter, Notice, Care!Open, Columns

LEMMA SubmitReadTyped == ASSUME CareTyped, NEW r \in Reqs, Care!SubmitRead(r) PROVE CareTyped'
<1>1. Quiet /\ CareRest'
  BY CareBudgetStays, RestQuiet DEF Care!SubmitRead, Quiet, Care!mail
<1>2. CASE lease
  <2> DEFINE new == [careReq[r] EXCEPT !.pc = "write"]
  <2>1. Care!Goes(r, new) /\ carePage' = carePage /\ careReq[r].op = "submit"
    BY <1>2 DEF Care!SubmitRead, Care!At
  <2>2. careReq[r] \in CareReqs /\ Linked(careReq[r], carePage)
    BY ReqAt
  <2>3. /\ new \in CareReqs /\ new.op = "submit" /\ new.pc = "write" /\ new.scr = careReq[r].scr
    BY <2>1, <2>2 DEF CareReqs, CarePcs
  <2> HIDE DEF new
  <2>4. CareReqOK(new, CareSizes) /\ Linked(new, carePage) /\ ~PastRead(new)
    BY <2>1, <2>2, <2>3 DEF CareReqOK, CareTurn, Linked, PastRead
  <2> QED BY <1>1, <2>1, <2>4, ReqStep
<1>3. CASE ~lease
  <2>1. Care!Ends(r, FALSE, {})
    BY <1>3 DEF Care!SubmitRead
  <2>2. PICK c \in BOOLEAN : c = FALSE
    OBVIOUS
  <2>3. Care!Ends(r, c, {}) /\ MadeFits(careReq[r], c, {})
    BY <2>1, <2>2 DEF MadeFits
  <2>4. RowsTyped' /\ TextsTyped' /\ CareGrow(CareSizes, CareSizes') /\ TextsGoUp
    BY <1>1, CareStoresStay, TextsUp DEF Quiet, Care!mail
  <2> QED BY <1>1, <2>3, <2>4, EndStep
<1> QED BY <1>2, <1>3

LEMMA SubmitWriteTyped == ASSUME CareTyped, NEW r \in Reqs, Care!SubmitWrite(r) PROVE CareTyped'
<1>1. tickets' \in Seq(Ticket) /\ Len(tickets') = Len(tickets) + 1 /\ Len(tickets) \in Nat
  <2>1. tickets \in Seq(Ticket) /\ tickets' = Append(tickets, Care!NewTicket)
    BY DEF CareTyped, RowsTyped, Care!SubmitWrite
  <2> QED BY <2>1, NewTyped, SeqAdd
<1>2. RowsTyped' /\ TextsTyped' /\ CareGrow(CareSizes, CareSizes') /\ TextsGoUp
  BY <1>1, TicketRows DEF Care!SubmitWrite
<1>3. CareRest'
  BY <1>1, CareBudgetStays, CareRestStays DEF Care!SubmitWrite, Care!mail
<1>4. PICK c \in BOOLEAN : c = TRUE
  OBVIOUS
<1>5. Care!Ends(r, c, Care!NewTicket) /\ MadeFits(careReq[r], c, Care!NewTicket)
  <2>1. careReq[r].op = "submit" /\ Care!Ends(r, TRUE, Care!NewTicket)
    BY DEF Care!SubmitWrite, Care!At
  <2>2. MadeFits(careReq[r], c, Care!NewTicket)
    BY <1>1, <2>1, NewTyped DEF MadeFits
  <2> QED BY <1>4, <2>1, <2>2
<1> QED BY <1>2, <1>3, <1>5, EndStep

LEMMA CalledTyped == ASSUME CareTyped, Care!Called PROVE CareTyped'
<1>1. tickets' \in Seq(Ticket) /\ Len(tickets') = Len(tickets) + 1 /\ Len(tickets) \in Nat
  <2>1. tickets \in Seq(Ticket) /\ tickets' = Append(tickets, Care!NewTicket)
    BY DEF CareTyped, RowsTyped, Care!Called
  <2> QED BY <2>1, NewTyped, SeqAdd
<1>2. RowsTyped' /\ TextsTyped' /\ CareGrow(CareSizes, CareSizes') /\ TextsGoUp
  BY <1>1, TicketRows DEF Care!Called
<1>3. CareRest'
  <2>1. careBudget' \in CareBudgets
    BY CareSpend DEF Care!Called
  <2>2. 1..Len(tickets) \subseteq 1..Len(tickets')
    BY <1>1
  <2>3. careWishes \in Nat /\ careWishes' = careWishes + 1
    BY DEF CareTyped, CareRest, Care!Called
  <2>4. careWishes' \in Nat
    BY <2>3
  <2> QED BY <2>1, <2>2, <2>4 DEF CareTyped, CareRest, Care!Called, Care!world, Care!mail
<1>4. CareReqsTyped' /\ CareLinked' /\ CarePagesTyped'
  BY <1>2, CareReqsStay, CarePagesStay, LinksStay DEF Care!Called
<1>5. VersionsOK'
  BY <1>2, VersionsStay DEF Care!Called
<1> QED BY <1>2, <1>3, <1>4, <1>5 DEF CareTyped

LEMMA StatusReadTyped == ASSUME CareTyped, NEW r \in Reqs, Care!StatusRead(r) PROVE CareTyped'
<1>1. Quiet
  BY DEF Care!StatusRead, Quiet, Care!mail
<1>2. /\ careReq[r] \in CareReqs /\ CareTurn(careReq[r], CareSizes) /\ Linked(careReq[r], carePage) /\ careReq[r].op = "status"
      /\ careReq[r].pc = "read" /\ carePage' = carePage
  BY ReqAt DEF Care!StatusRead, Care!At
<1>3. careReq[r].i \in 1..Len(tickets) /\ careReq[r].val \in Care!Open \cup Care!Done
  BY <1>2 DEF CareTurn, CareSizes
<1>4. CareRest'
  <2>1. mixed' \subseteq 1..Len(tickets)
    BY <1>3 DEF Care!StatusRead, CareTyped, CareRest
  <2> QED BY <2>1 DEF Care!StatusRead, CareTyped, CareRest, Care!world, Care!mail
<1>5. tickets[careReq[r].i] \in Ticket
  BY <1>3, TicketAt
<1> DEFINE new == [careReq[r] EXCEPT !.pc = "write", !.seen = tickets[careReq[r].i].status]
<1>6. Care!Goes(r, new)
  BY DEF Care!StatusRead
<1>7. /\ new \in CareReqs /\ new.op = "status" /\ new.pc = "write" /\ new.scr = careReq[r].scr /\ new.i = careReq[r].i /\ new.val = careReq[r].val
  BY <1>2, <1>5 DEF CareReqs, CarePcs, Ticket
<1> HIDE DEF new
<1>8. CareReqOK(new, CareSizes) /\ Linked(new, carePage) /\ ~PastRead(new)
  BY <1>2, <1>3, <1>7 DEF CareReqOK, CareTurn, CareSizes, Linked, PastRead
<1> QED BY <1>1, <1>2, <1>4, <1>6, <1>8, ReqStep

LEMMA TicketSetTyped == ASSUME CareTyped, NEW r \in Reqs, NEW row \in Ticket, tickets' = [tickets EXCEPT ![careReq[r].i] = row],
    Care!Ends(r, TRUE, {}), UNCHANGED <<Care!world, letters, Care!mail, careBudget, Care!past>>, careReq[r].op \notin {"submit", "reply"}
  PROVE CareTyped'
<1>1. tickets' \in Seq(Ticket) /\ Len(tickets') = Len(tickets) /\ Len(tickets) \in Nat
  <2>1. tickets \in Seq(Ticket)
    BY DEF CareTyped, RowsTyped
  <2>2. PICK i : i = careReq[r].i
    OBVIOUS
  <2>3. tickets' = [tickets EXCEPT ![i] = row]
    BY <2>2
  <2>4. tickets' \in Seq(Ticket) /\ Len(tickets') = Len(tickets)
    BY <2>1, <2>3, SeqPut
  <2> QED BY <2>1, <2>4
<1>2. RowsTyped' /\ TextsTyped' /\ CareGrow(CareSizes, CareSizes') /\ TextsGoUp
  BY <1>1, TicketRows
<1>3. CareRest'
  BY <1>1, CareBudgetStays, CareRestStays DEF Care!mail
<1>4. PICK c \in BOOLEAN : c = TRUE
  OBVIOUS
<1>5. Care!Ends(r, c, {}) /\ MadeFits(careReq[r], c, {})
  BY <1>4 DEF MadeFits
<1> QED BY <1>2, <1>3, <1>5, EndStep

LEMMA StatusWriteTyped == ASSUME CareTyped, NEW r \in Reqs, Care!StatusWrite(r) PROVE CareTyped'
<1> DEFINE i == careReq[r].i
           v == careReq[r].val
           row == [tickets[i] EXCEPT !.status = v, !.resolved = Care!Resolved(tickets[i], careReq[r].seen, v)]
<1>1. CareTurn(careReq[r], CareSizes) /\ careReq[r].op = "status" /\ careReq[r].seen \in Care!Open \cup Care!Done
  BY ReqAt DEF Care!StatusWrite, Care!At, CareReqs
<1>2. i \in 1..Len(tickets) /\ v \in Care!Open \cup Care!Done
  BY <1>1 DEF CareTurn, CareSizes
<1>3. tickets[i] \in Ticket
  BY <1>2, TicketAt
<1>4. Care!Resolved(tickets[i], careReq[r].seen, v) \in BOOLEAN
  BY <1>1, <1>2, <1>3 DEF Care!Resolved, Ticket
<1>5. row \in Ticket
  BY <1>2, <1>3, <1>4 DEF Ticket
<1>6. tickets' = [tickets EXCEPT ![i] = row]
  BY <1>3 DEF Care!StatusWrite, Ticket
<1> HIDE DEF row
<1> QED BY <1>1, <1>5, <1>6, TicketSetTyped DEF Care!StatusWrite

LEMMA ColumnWriteTyped == ASSUME CareTyped, NEW r \in Reqs, Care!ColumnWrite(r) PROVE CareTyped'
<1> DEFINE i == careReq[r].i
           v == careReq[r].val
           row == [tickets[i] EXCEPT ![careReq[r].op] = v]
<1>1. CareTurn(careReq[r], CareSizes) /\ careReq[r].op \in {"notes", "prio"}
  BY ReqAt DEF Care!ColumnWrite
<1>2. i \in 1..Len(tickets) /\ v \in Columns
  BY <1>1 DEF CareTurn, CareSizes
<1>3. tickets[i] \in Ticket
  BY <1>2, TicketAt
<1>5. row \in Ticket
  BY <1>1, <1>2, <1>3 DEF Ticket
<1>6. tickets' = [tickets EXCEPT ![i] = row]
  BY DEF Care!ColumnWrite
<1> HIDE DEF row
<1> QED BY <1>1, <1>5, <1>6, TicketSetTyped DEF Care!ColumnWrite

LEMMA LetterWriteTyped == ASSUME CareTyped, NEW r \in Reqs, Care!LetterWrite(r) PROVE CareTyped'
<1> DEFINE new == Care!NewLetter(IF careReq[r].op = "send" THEN "landlord" ELSE "tenant")
<1>0. new \in Letter
  BY NewTyped
<1> HIDE DEF new
<1>1. letters' \in Seq(Letter) /\ Len(letters') = Len(letters) + 1 /\ Len(letters) \in Nat
  <2>1. letters \in Seq(Letter) /\ letters' = Append(letters, new)
    BY DEF CareTyped, RowsTyped, Care!LetterWrite, new
  <2> QED BY <1>0, <2>1, SeqAdd
<1>2. RowsTyped' /\ TextsTyped' /\ CareGrow(CareSizes, CareSizes') /\ TextsGoUp
  BY <1>1, LetterRows DEF Care!LetterWrite
<1>3. CareRest'
  <2>1. Len(tickets) \in Nat
    BY DEF CareTyped, RowsTyped
  <2> QED BY <2>1, CareBudgetStays, CareRestStays DEF Care!LetterWrite, Care!mail
<1>4. PICK c \in BOOLEAN : c = TRUE
  OBVIOUS
<1>5. Care!Ends(r, c, new) /\ MadeFits(careReq[r], c, new)
  <2>1. careReq[r].op \in {"send", "reply"} /\ Care!Ends(r, TRUE, new)
    BY DEF Care!LetterWrite, new
  <2>2. MadeFits(careReq[r], c, new)
    BY <1>0, <1>1, <2>1 DEF MadeFits
  <2> QED BY <1>4, <2>1, <2>2
<1> QED BY <1>2, <1>3, <1>5, EndStep

LEMMA MarkWriteTyped == ASSUME CareTyped, NEW r \in Reqs, Care!MarkWrite(r) PROVE CareTyped'
<1> DEFINE i == careReq[r].i
           row == [letters[i] EXCEPT !.read = TRUE]
<1>1. CareTurn(careReq[r], CareSizes) /\ careReq[r].op = "mark"
  BY ReqAt DEF Care!MarkWrite, Care!At
<1>2. i \in 1..Len(letters)
  BY <1>1 DEF CareTurn, CareSizes
<1>3. letters \in Seq(Letter) /\ letters[i] \in Letter
  BY <1>2 DEF CareTyped, RowsTyped
<1>4. row \in Letter
  BY <1>3 DEF Letter
<1>5. letters' = [letters EXCEPT ![i] = row]
  BY DEF Care!MarkWrite
<1> HIDE DEF row
<1>6. letters' \in Seq(Letter) /\ Len(letters') = Len(letters) /\ Len(letters) \in Nat
  <2>1. PICK v \in Letter : letters' = [letters EXCEPT ![i] = v]
    BY <1>4, <1>5
  <2>2. letters \in Seq(Letter)
    BY <1>3
  <2> HIDE DEF i
  <2> QED BY <2>1, <2>2, SeqPut
<1>7. RowsTyped' /\ TextsTyped' /\ CareGrow(CareSizes, CareSizes') /\ TextsGoUp
  BY <1>6, LetterRows DEF Care!MarkWrite
<1>8. CareRest'
  <2>1. Len(tickets) \in Nat
    BY DEF CareTyped, RowsTyped
  <2> QED BY <2>1, CareBudgetStays, CareRestStays DEF Care!MarkWrite, Care!mail
<1>9. PICK c \in BOOLEAN : c = TRUE
  OBVIOUS
<1>10. Care!Ends(r, c, {}) /\ MadeFits(careReq[r], c, {})
  BY <1>1, <1>9 DEF Care!MarkWrite, MadeFits
<1> QED BY <1>7, <1>8, <1>10, EndStep

\* a request without a page goes on, and the notices with it
LEMMA TextStep == ASSUME CareTyped, RowsTyped', TextsTyped', CareGrow(CareSizes, CareSizes'), CareRest', TextsGoUp, carePage' = carePage,
    NEW r \in Reqs, NEW new, Care!Goes(r, new), CareReqOK(new, CareSizes'), new.scr = Care!Nobody,
    PastRead(new) => PastRead(careReq[r]) /\ new.i = careReq[r].i /\ new.ver = careReq[r].ver
  PROVE CareTyped'
<1>1. CareReqsTyped'
  BY CareReqGoes
<1>2. CarePagesTyped' /\ \A x \in Care!Screens : carePage'[x].at = carePage[x].at
  BY CarePagesStay
<1>3. CareLinked'
  <2>1. Linked(new, carePage)
    BY DEF Linked
  <2> QED BY <1>2, <2>1, LinkGoes
<1>4. VersionsOK'
  BY VersionGoes
<1> QED BY <1>1, <1>2, <1>3, <1>4 DEF CareTyped

\* what a sending knows when it goes on
LEMMA TextTurn == ASSUME CareTyped, NEW r \in Reqs, careReq[r].op = "text", NEW pc \in {"check", "upload", "send", "mark"}
  PROVE LET new == [careReq[r] EXCEPT !.pc = pc] IN
        /\ CareReqOK(new, CareSizes) /\ new.scr = Care!Nobody /\ new.i = careReq[r].i /\ new.ver = careReq[r].ver
        /\ new.op = "text" /\ new.pc = pc
<1> DEFINE new == [careReq[r] EXCEPT !.pc = pc]
<1>1. careReq[r] \in CareReqs /\ CareTurn(careReq[r], CareSizes)
  BY ReqAt
<1>2. /\ new \in CareReqs /\ new.op = "text" /\ new.pc = pc /\ new.scr = careReq[r].scr /\ new.i = careReq[r].i /\ new.ver = careReq[r].ver
  BY <1>1 DEF CareReqs, CarePcs
<1> HIDE DEF new
<1>3. CareReqOK(new, CareSizes) /\ new.scr = Care!Nobody
  BY <1>1, <1>2 DEF CareReqOK, CareTurn
<1> QED BY <1>2, <1>3 DEF new

\* one notice is rewritten, its text going up at most
LEMMA NoticePut == ASSUME CareTyped, NEW i \in 1..Len(notices), NEW row \in Notice, row.text >= notices[i].text,
    notices' = [notices EXCEPT ![i] = row], UNCHANGED <<tickets, letters, stored, texts>>
  PROVE RowsTyped' /\ TextsTyped' /\ CareGrow(CareSizes, CareSizes') /\ TextsGoUp /\ Len(notices') = Len(notices)
        /\ \A k \in 1..Len(notices) : notices'[k] = IF k = i THEN row ELSE notices[k]
<1>1. notices \in Seq(Notice) /\ \A k \in 1..Len(notices) : notices[k] \in Notice
  BY NoticeAt DEF CareTyped, RowsTyped
<1>2. /\ notices' \in Seq(Notice) /\ Len(notices') = Len(notices) /\ Len(notices) \in Nat
      /\ \A k \in 1..Len(notices) : notices'[k] = IF k = i THEN row ELSE notices[k]
  BY <1>1, SeqPut
<1>3. \A k \in 1..Len(notices) : notices[k].text \in Nat /\ notices'[k].text \in Nat /\ notices[k].text <= notices'[k].text
  <2>1. row.text \in Nat /\ \A k \in 1..Len(notices) : notices[k].text \in Nat
    BY <1>1 DEF Notice
  <2> QED BY <1>2, <2>1
<1>4. RowsTyped'
  <2>1. ASSUME NEW k \in 1..Len(notices) PROVE stored[k] <= notices'[k].text
    <3>1. stored[k] \in Nat /\ stored[k] <= notices[k].text
      BY NoticeAt
    <3> QED BY <1>3, <3>1
  <2> QED BY <1>2, <2>1 DEF CareTyped, RowsTyped
<1>5. TextsTyped'
  <2>1. ASSUME NEW k \in 1..Len(texts)
        PROVE texts[k].i \in 1..Len(notices) /\ texts[k].ver <= notices'[texts[k].i].text /\ texts[k].got <= notices'[texts[k].i].text
    <3>1. texts[k] \in Text /\ texts[k].i \in 1..Len(notices) /\ texts[k].ver <= notices[texts[k].i].text /\ texts[k].got <= notices[texts[k].i].text
      BY DEF CareTyped, TextsTyped
    <3>2. texts[k].ver \in Nat /\ texts[k].got \in Nat
      BY <3>1 DEF Text
    <3> QED BY <1>3, <3>1, <3>2
  <2> QED BY <1>2, <2>1 DEF CareTyped, TextsTyped
<1>6. CareGrow(CareSizes, CareSizes')
  <2>1. CareSizes' = CareSizes
    BY <1>2 DEF CareSizes
  <2> QED BY <2>1, CareGrowSame DEF CareTyped
<1> QED BY <1>2, <1>3, <1>4, <1>5, <1>6 DEF TextsGoUp

LEMMA NoticeCheckTyped == ASSUME CareTyped, NEW r \in Reqs, Care!NoticeCheck(r) PROVE CareTyped'
<1>1. Quiet /\ CareRest'
  BY CareSpend, RestQuiet DEF Care!NoticeCheck, Quiet, Care!mail
<1> DEFINE new == [Care!Idle EXCEPT !.op = "notice", !.pc = "create"]
<1>2. new \in CareReqs /\ new.op = "notice" /\ new.pc = "create" /\ new.scr = Care!Nobody
  BY DEF CareReqs, Care!Idle, CarePcs, Care!Open, Columns
<1>3. Care!Goes(r, new) /\ carePage' = carePage
  BY DEF Care!NoticeCheck
<1> HIDE DEF new
<1>4. CareReqOK(new, CareSizes) /\ Linked(new, carePage) /\ ~PastRead(new)
  BY <1>2 DEF CareReqOK, CareTurn, Linked, PastRead
<1> QED BY <1>1, <1>3, <1>4, ReqStep

LEMMA NoticeCreateRows == ASSUME CareTyped, NEW r \in Reqs, Care!NoticeCreate(r)
  PROVE /\ RowsTyped' /\ TextsTyped' /\ CareGrow(CareSizes, CareSizes') /\ TextsGoUp
        /\ Len(notices') = Len(notices) + 1 /\ Len(notices) \in Nat
        /\ \A k \in 1..Len(notices) : notices'[k] = notices[k] /\ stored'[k] = stored[k]
        /\ notices'[Len(notices) + 1] = Care!NewNotice /\ stored'[Len(notices) + 1] = 0
<1>1. notices \in Seq(Notice) /\ notices' = Append(notices, Care!NewNotice) /\ Care!NewNotice \in Notice
  BY NewTyped DEF CareTyped, RowsTyped, Care!NoticeCreate
<1>2. stored \in Seq(Nat) /\ stored' = Append(stored, 0) /\ Len(stored) = Len(notices)
  BY DEF CareTyped, RowsTyped, Care!NoticeCreate
<1>3. /\ notices' \in Seq(Notice) /\ Len(notices') = Len(notices) + 1 /\ Len(notices) \in Nat
      /\ \A k \in 1..Len(notices) : notices'[k] = notices[k]
      /\ notices'[Len(notices) + 1] = Care!NewNotice
  BY <1>1, SeqAdd
<1>4. /\ stored' \in Seq(Nat) /\ Len(stored') = Len(notices) + 1
      /\ \A k \in 1..Len(notices) : stored'[k] = stored[k]
      /\ stored'[Len(notices) + 1] = 0
  BY <1>2, SeqAdd
<1>5. TextsGoUp
  <2>1. \A k \in 1..Len(notices) : notices[k].text \in Nat
    BY NoticeAt DEF Notice
  <2> QED BY <1>3, <2>1 DEF TextsGoUp
<1>6. RowsTyped'
  <2>1. Care!NewNotice.text = 1
    BY DEF Care!NewNotice
  <2>2. ASSUME NEW k \in 1..Len(notices') PROVE stored'[k] <= notices'[k].text
    <3>1. CASE k = Len(notices) + 1
      BY <1>3, <1>4, <2>1, <3>1
    <3>2. CASE k # Len(notices) + 1
      <4>1. k \in 1..Len(notices)
        BY <1>3, <3>2
      <4> QED BY <1>3, <1>4, <4>1, NoticeAt
    <3> QED BY <3>1, <3>2
  <2>3. UNCHANGED <<tickets, letters>>
    BY DEF Care!NoticeCreate
  <2> QED BY <1>3, <1>4, <2>2, <2>3 DEF CareTyped, RowsTyped
<1>7. TextsTyped'
  <2>1. 1..Len(notices) \subseteq 1..Len(notices')
    BY <1>3
  <2>2. texts' = texts
    BY DEF Care!NoticeCreate
  <2> QED BY <1>3, <2>1, <2>2 DEF CareTyped, TextsTyped
<1>8. CareGrow(CareSizes, CareSizes')
  <2>1. Len(tickets) \in Nat /\ Len(letters) \in Nat
    BY DEF CareTyped, RowsTyped
  <2> QED BY <1>3, <2>1 DEF CareGrow, CareSizes, Care!NoticeCreate
<1> QED BY <1>3, <1>4, <1>5, <1>6, <1>7, <1>8

LEMMA NoticeCreateTyped == ASSUME CareTyped, NEW r \in Reqs, Care!NoticeCreate(r) PROVE CareTyped'
<1>1. /\ RowsTyped' /\ TextsTyped' /\ CareGrow(CareSizes, CareSizes') /\ TextsGoUp
      /\ Len(notices') = Len(notices) + 1 /\ Len(notices) \in Nat
  BY NoticeCreateRows
<1>2. CareRest'
  <2>1. 1..Len(notices) \subseteq 1..Len(notices')
    BY <1>1
  <2> QED BY <2>1 DEF CareTyped, CareRest, Care!NoticeCreate, Care!world, Care!past
<1>0. PICK j \in Nat : j = Len(notices) + 1
  BY <1>1
<1> DEFINE new == [Care!Idle EXCEPT !.op = "text", !.pc = "read", !.i = j]
<1>3. new \in CareReqs /\ new.op = "text" /\ new.pc = "read" /\ new.scr = Care!Nobody /\ new.i = Len(notices) + 1
  BY <1>0 DEF CareReqs, Care!Idle, CarePcs, Care!Open, Columns
<1>4. Care!Goes(r, new) /\ carePage' = carePage
  BY <1>0 DEF Care!NoticeCreate
<1> HIDE DEF new
<1>5. new.i \in 1..CareSizes'.notices
  BY <1>1, <1>3 DEF CareSizes
<1>6. CareReqOK(new, CareSizes') /\ ~PastRead(new)
  BY <1>3, <1>5 DEF CareReqOK, CareTurn, PastRead
<1> QED BY <1>1, <1>2, <1>3, <1>4, <1>6, TextStep

LEMMA ResendTyped == ASSUME CareTyped, NEW r \in Reqs, NEW i \in 1..Len(notices), Care!Resend(r, i) PROVE CareTyped'
<1>1. Quiet /\ CareRest'
  BY CareSpend, RestQuiet DEF Care!Resend, Quiet, Care!mail
<1> DEFINE new == [Care!Idle EXCEPT !.op = "text", !.pc = "read", !.i = i]
<1>0. i \in Nat
  OBVIOUS
<1>2. new \in CareReqs /\ new.op = "text" /\ new.pc = "read" /\ new.scr = Care!Nobody /\ new.i = i
  BY <1>0 DEF CareReqs, Care!Idle, CarePcs, Care!Open, Columns
<1>3. Care!Goes(r, new) /\ carePage' = carePage
  BY DEF Care!Resend
<1> HIDE DEF new
<1>4. CareReqOK(new, CareSizes) /\ Linked(new, carePage) /\ ~PastRead(new)
  BY <1>2 DEF CareReqOK, CareTurn, Linked, PastRead, CareSizes
<1> QED BY <1>1, <1>3, <1>4, ReqStep

LEMMA TextReadTyped == ASSUME CareTyped, NEW r \in Reqs, Care!TextRead(r) PROVE CareTyped'
<1>1. Quiet
  BY DEF Care!TextRead, Quiet, Care!mail
<1>2. careReq[r].op = "text" /\ careReq[r].pc = "read" /\ carePage' = carePage
  BY DEF Care!TextRead, Care!At
<1>3. careReq[r] \in CareReqs /\ CareTurn(careReq[r], CareSizes)
  BY ReqAt
<1>4. careReq[r].i \in 1..Len(notices) /\ careReq[r].scr = Care!Nobody /\ notices[careReq[r].i].text \in Nat
  BY <1>2, TextReqAt
<1>5. CareRest'
  <2>1. crossed' \subseteq 1..Len(notices)
    BY <1>4 DEF Care!TextRead, CareTyped, CareRest
  <2> QED BY <2>1 DEF Care!TextRead, CareTyped, CareRest, Care!world, Care!mail
<1> DEFINE new == [careReq[r] EXCEPT !.pc = "check", !.ver = notices[careReq[r].i].text]
<1>6. Care!Goes(r, new)
  BY DEF Care!TextRead
<1>7. /\ new \in CareReqs /\ new.op = "text" /\ new.pc = "check" /\ new.scr = Care!Nobody /\ new.i = careReq[r].i
      /\ new.ver = notices[careReq[r].i].text
  BY <1>2, <1>3, <1>4 DEF CareReqs, CarePcs
<1> HIDE DEF new
<1>8. CareReqOK(new, CareSizes)
  BY <1>4, <1>7 DEF CareReqOK, CareTurn, CareSizes
<1>9. RowsTyped' /\ TextsTyped' /\ CareSizes' = CareSizes /\ CareGrow(CareSizes, CareSizes')
  BY <1>1, CareStoresStay
<1>10. CareReqsTyped' /\ CareLinked' /\ CarePagesTyped'
  <2>1. CareReqsTyped'
    BY <1>6, <1>8, <1>9, CareReqGoes
  <2>2. CarePagesTyped' /\ \A x \in Care!Screens : carePage'[x].at = carePage[x].at
    BY <1>2, <1>9, CarePagesStay
  <2>3. Linked(new, carePage)
    BY <1>7 DEF Linked
  <2> QED BY <1>6, <2>1, <2>2, <2>3, LinkGoes
<1>11. VersionsOK'
  <2>1. \A x \in Reqs : careReq'[x] = IF x = r THEN new ELSE careReq[x]
    BY <1>6 DEF Care!Goes, CareTyped, CareReqsTyped
  <2>2. notices' = notices /\ new.ver <= notices[new.i].text
    BY <1>1, <1>4, <1>7 DEF Quiet, Care!mail
  <2> QED BY <2>1, <2>2 DEF CareTyped, VersionsOK
<1> QED BY <1>5, <1>9, <1>10, <1>11 DEF CareTyped

LEMMA TextCheckTyped == ASSUME CareTyped, NEW r \in Reqs, Care!TextCheck(r) PROVE CareTyped'
<1>1. Quiet /\ CareRest' /\ carePage' = carePage
  BY CareBudgetStays, RestQuiet DEF Care!TextCheck, Quiet, Care!mail
<1>2. CASE opted
  <2>1. Care!Goes(r, Care!Idle)
    BY <1>2 DEF Care!TextCheck
  <2> QED BY <1>1, <2>1, CareIdle, IdleUnread, ReqStep
<1>3. CASE ~opted
  <2> DEFINE new == [careReq[r] EXCEPT !.pc = "upload"]
  <2>1. Care!Goes(r, new) /\ careReq[r].op = "text" /\ careReq[r].pc = "check"
    BY <1>3 DEF Care!TextCheck, Care!At
  <2>2. CareReqOK(new, CareSizes) /\ new.scr = Care!Nobody /\ new.i = careReq[r].i /\ new.ver = careReq[r].ver
    BY <2>1, TextTurn
  <2>3. PastRead(careReq[r])
    BY <2>1 DEF PastRead
  <2> HIDE DEF new
  <2>4. Linked(new, carePage)
    BY <2>2 DEF Linked
  <2> QED BY <1>1, <2>1, <2>2, <2>3, <2>4, ReqStep
<1> QED BY <1>2, <1>3

LEMMA UploadRows == ASSUME CareTyped, NEW r \in Reqs, Care!TextUpload(r)
  PROVE /\ RowsTyped' /\ TextsTyped' /\ CareSizes' = CareSizes /\ CareGrow(CareSizes, CareSizes') /\ TextsGoUp
        /\ \A k \in 1..Len(notices) : stored'[k] = IF k = careReq[r].i THEN careReq[r].ver ELSE stored[k]
<1>1. careReq[r].op = "text" /\ careReq[r].pc = "upload"
  BY DEF Care!TextUpload, Care!At
<1>2. careReq[r].i \in 1..Len(notices) /\ careReq[r].ver \in Nat
  BY <1>1, TextReqAt
<1>3. careReq[r].ver <= notices[careReq[r].i].text
  BY <1>1 DEF CareTyped, VersionsOK
<1>4. stored \in Seq(Nat) /\ Len(stored) = Len(notices) /\ stored' = [stored EXCEPT ![careReq[r].i] = careReq[r].ver]
  BY DEF CareTyped, RowsTyped, Care!TextUpload
<1>5. /\ stored' \in Seq(Nat) /\ Len(stored') = Len(notices)
      /\ \A k \in 1..Len(notices) : stored'[k] = IF k = careReq[r].i THEN careReq[r].ver ELSE stored[k]
  <2> DEFINE v == careReq[r].ver
             i == careReq[r].i
  <2>1. v \in Nat /\ stored' = [stored EXCEPT ![i] = v]
    BY <1>2, <1>4
  <2>2. stored \in Seq(Nat) /\ Len(stored) = Len(notices)
    BY <1>4
  <2> HIDE DEF v, i
  <2>3. /\ stored' \in Seq(Nat) /\ Len(stored') = Len(notices)
        /\ \A k \in 1..Len(notices) : stored'[k] = IF k = i THEN v ELSE stored[k]
    BY <2>1, <2>2, SeqPut
  <2> QED BY <2>3 DEF v, i
<1>6. UNCHANGED <<tickets, letters, notices, texts>>
  BY DEF Care!TextUpload
<1>7. RowsTyped'
  <2>1. \A k \in 1..Len(notices) : stored'[k] <= notices[k].text
    BY <1>3, <1>5, NoticeAt
  <2> QED BY <1>5, <1>6, <2>1 DEF CareTyped, RowsTyped
<1>8. TextsTyped'
  BY <1>6 DEF CareTyped, TextsTyped
<1>9. CareSizes' = CareSizes
  BY <1>6 DEF CareSizes
<1>10. CareGrow(CareSizes, CareSizes') /\ TextsGoUp
  BY <1>6, <1>9, CareGrowSame, TextsUp DEF CareTyped
<1> QED BY <1>5, <1>7, <1>8, <1>9, <1>10

LEMMA TextUploadTyped == ASSUME CareTyped, NEW r \in Reqs, Care!TextUpload(r) PROVE CareTyped'
<1>1. RowsTyped' /\ TextsTyped' /\ CareSizes' = CareSizes /\ CareGrow(CareSizes, CareSizes') /\ TextsGoUp
  BY UploadRows
<1>2. CareRest'
  BY DEF CareTyped, CareRest, Care!TextUpload, Care!world, Care!past
<1> DEFINE new == [careReq[r] EXCEPT !.pc = "send"]
<1>3. Care!Goes(r, new) /\ careReq[r].op = "text" /\ careReq[r].pc = "upload" /\ carePage' = carePage
  BY DEF Care!TextUpload, Care!At
<1>4. CareReqOK(new, CareSizes) /\ new.scr = Care!Nobody /\ new.i = careReq[r].i /\ new.ver = careReq[r].ver
  BY <1>3, TextTurn
<1>5. PastRead(careReq[r])
  BY <1>3 DEF PastRead
<1> HIDE DEF new
<1>6. CareReqOK(new, CareSizes')
  BY <1>1, <1>4
<1> QED BY <1>1, <1>2, <1>3, <1>4, <1>5, <1>6, TextStep

LEMMA SendRows == ASSUME CareTyped, NEW r \in Reqs, Care!TextSend(r)
  PROVE /\ RowsTyped' /\ TextsTyped' /\ CareSizes' = CareSizes /\ CareGrow(CareSizes, CareSizes') /\ TextsGoUp
        /\ texts \in Seq(Text) /\ Len(texts) \in Nat
        /\ texts' # texts => texts' = Append(texts, [i |-> careReq[r].i, ver |-> careReq[r].ver, got |-> 0, late |-> opted])
        /\ [i |-> careReq[r].i, ver |-> careReq[r].ver, got |-> 0, late |-> opted] \in Text
<1>1. careReq[r].op = "text" /\ careReq[r].pc = "send"
  BY DEF Care!TextSend, Care!At
<1>2. careReq[r].i \in 1..Len(notices) /\ careReq[r].ver \in Nat /\ notices[careReq[r].i].text \in Nat
  BY <1>1, TextReqAt
<1>3. careReq[r].ver <= notices[careReq[r].i].text
  BY <1>1 DEF CareTyped, VersionsOK
<1> DEFINE new == [i |-> careReq[r].i, ver |-> careReq[r].ver, got |-> 0, late |-> opted]
<1>4. new \in Text
  BY <1>2 DEF Text, CareTyped, CareRest
<1>5. texts \in Seq(Text) /\ texts' \in {texts, Append(texts, new)}
  BY DEF CareTyped, TextsTyped, Care!TextSend
<1>6. UNCHANGED <<tickets, letters, notices, stored>>
  BY DEF Care!TextSend
<1>7. RowsTyped' /\ CareSizes' = CareSizes /\ TextsGoUp
  BY <1>6, TextsUp DEF CareTyped, RowsTyped, CareSizes
<1>8. CareGrow(CareSizes, CareSizes')
  BY <1>7, CareGrowSame DEF CareTyped
<1>9. TextsTyped'
  <2>1. CASE texts' = texts
    BY <1>6, <2>1 DEF CareTyped, TextsTyped
  <2>2. CASE texts' = Append(texts, new)
    <3>0. new.i = careReq[r].i /\ new.ver = careReq[r].ver /\ new.got = 0
      OBVIOUS
    <3> HIDE DEF new
    <3>1. texts' \in Seq(Text) /\ Len(texts') = Len(texts) + 1 /\ Len(texts) \in Nat /\ texts'[Len(texts) + 1] = new
          /\ \A k \in 1..Len(texts) : texts'[k] = texts[k]
      BY <1>4, <1>5, <2>2, SeqAdd
    <3>2. ASSUME NEW k \in 1..Len(texts')
          PROVE texts'[k].i \in 1..Len(notices) /\ texts'[k].ver <= notices[texts'[k].i].text /\ texts'[k].got <= notices[texts'[k].i].text
      <4>1. CASE k = Len(texts) + 1
        BY <1>2, <1>3, <3>0, <3>1, <4>1
      <4>2. CASE k # Len(texts) + 1
        <5>1. k \in 1..Len(texts) /\ texts'[k] = texts[k]
          BY <3>1, <4>2
        <5> QED BY <5>1 DEF CareTyped, TextsTyped
      <4> QED BY <4>1, <4>2
    <3> QED BY <1>6, <3>1, <3>2 DEF TextsTyped
  <2> QED BY <1>5, <2>1, <2>2
<1>10. Len(texts) \in Nat
  BY <1>5
<1> QED BY <1>4, <1>5, <1>7, <1>8, <1>9, <1>10

LEMMA TextSendTyped == ASSUME CareTyped, NEW r \in Reqs, Care!TextSend(r) PROVE CareTyped'
<1>1. RowsTyped' /\ TextsTyped' /\ CareSizes' = CareSizes /\ CareGrow(CareSizes, CareSizes') /\ TextsGoUp
  BY SendRows
<1>2. CareRest' /\ carePage' = carePage
  BY DEF CareTyped, CareRest, Care!TextSend, Care!world, Care!past
<1>3. careReq[r].op = "text" /\ careReq[r].pc = "send"
  BY DEF Care!TextSend, Care!At
<1>4. CASE Care!Goes(r, Care!Idle)
  <2>1. CareReqOK(Care!Idle, CareSizes') /\ Care!Idle.scr = Care!Nobody
    BY CareIdle DEF Care!Idle
  <2> QED BY <1>1, <1>2, <1>4, <2>1, IdleUnread, TextStep
<1> DEFINE new == [careReq[r] EXCEPT !.pc = "mark"]
<1>5. CASE Care!Goes(r, new)
  <2>1. CareReqOK(new, CareSizes) /\ new.scr = Care!Nobody /\ new.i = careReq[r].i /\ new.ver = careReq[r].ver
    BY <1>3, TextTurn
  <2>2. PastRead(careReq[r])
    BY <1>3 DEF PastRead
  <2> HIDE DEF new
  <2>3. CareReqOK(new, CareSizes')
    BY <1>1, <2>1
  <2> QED BY <1>1, <1>2, <1>5, <2>1, <2>2, <2>3, TextStep
<1> QED BY <1>4, <1>5 DEF Care!TextSend

LEMMA TextMarkTyped == ASSUME CareTyped, NEW r \in Reqs, Care!TextMark(r)
  PROVE CareTyped' /\ Len(notices') = Len(notices)
        /\ \A k \in 1..Len(notices) : notices'[k].text = notices[k].text /\ notices'[k].sent = (k = careReq[r].i \/ notices[k].sent)
<1>1. careReq[r].op = "text" /\ careReq[r].pc = "mark"
  BY DEF Care!TextMark, Care!At
<1> DEFINE i == careReq[r].i
           row == [notices[i] EXCEPT !.sent = TRUE]
<1>2. i \in 1..Len(notices)
  BY <1>1, TextReqAt
<1>3. notices[i] \in Notice
  BY <1>2, NoticeAt
<1>4. row \in Notice /\ row.text >= notices[i].text /\ row.text = notices[i].text /\ row.sent = TRUE
  <2> DEFINE old == notices[i]
  <2>1. old \in Notice /\ row = [old EXCEPT !.sent = TRUE]
    BY <1>3
  <2> HIDE DEF old, row
  <2>2. row \in Notice /\ row.text = old.text /\ row.sent = TRUE /\ old.text \in Nat
    BY <2>1 DEF Notice
  <2>3. row.text >= old.text
    BY <2>2
  <2> QED BY <2>2, <2>3 DEF old
<1>5. notices' = [notices EXCEPT ![i] = row]
  BY DEF Care!TextMark
<1> HIDE DEF row, i
<1>6. /\ RowsTyped' /\ TextsTyped' /\ CareGrow(CareSizes, CareSizes') /\ TextsGoUp /\ Len(notices') = Len(notices)
      /\ \A k \in 1..Len(notices) : notices'[k] = IF k = i THEN row ELSE notices[k]
  BY <1>2, <1>4, <1>5, NoticePut DEF Care!TextMark
<1>7. CareRest' /\ carePage' = carePage /\ Care!Goes(r, Care!Idle)
  BY <1>6 DEF CareTyped, CareRest, Care!TextMark, Care!world, Care!past
<1>8. CareReqOK(Care!Idle, CareSizes') /\ Care!Idle.scr = Care!Nobody
  BY CareIdle DEF Care!Idle
<1>9. CareTyped'
  BY <1>6, <1>7, <1>8, IdleUnread, TextStep
<1>10. \A k \in 1..Len(notices) : notices'[k].text = notices[k].text /\ notices'[k].sent = (k = i \/ notices[k].sent)
  <2>1. \A k \in 1..Len(notices) : notices[k].sent \in BOOLEAN
    BY NoticeAt DEF Notice
  <2> QED BY <1>4, <1>6, <2>1
<1> QED BY <1>6, <1>9, <1>10 DEF i

LEMMA EditTyped == ASSUME CareTyped, NEW i \in 1..Len(notices), Care!Retext(i) \/ Care!Serve(i)
  PROVE /\ CareTyped' /\ Len(notices') = Len(notices) /\ TextsGoUp
        /\ \A k \in 1..Len(notices) : notices'[k].sent = notices[k].sent
<1>0. notices[i] \in Notice
  BY NoticeAt
<1>1. PICK row \in Notice : row.text >= notices[i].text /\ row.sent = notices[i].sent /\ notices' = [notices EXCEPT ![i] = row]
  <2>1. CASE Care!Retext(i)
    <3> DEFINE row == [notices[i] EXCEPT !.text = @ + 1]
    <3>1. row \in Notice /\ row.text >= notices[i].text /\ row.sent = notices[i].sent
      BY <1>0 DEF Notice
    <3>2. notices' = [notices EXCEPT ![i] = row]
      BY <2>1 DEF Care!Retext
    <3> HIDE DEF row
    <3> QED BY <3>1, <3>2
  <2>2. CASE Care!Serve(i)
    <3> DEFINE row == [notices[i] EXCEPT !.served = TRUE]
    <3>3. row \in Notice /\ row.text = notices[i].text /\ row.sent = notices[i].sent /\ notices[i].text \in Nat
      BY <1>0 DEF Notice
    <3>1. row \in Notice /\ row.text >= notices[i].text /\ row.sent = notices[i].sent
      BY <3>3
    <3>2. notices' = [notices EXCEPT ![i] = row]
      BY <2>2 DEF Care!Serve
    <3> HIDE DEF row
    <3> QED BY <3>1, <3>2
  <2> QED BY <2>1, <2>2
<1>2. /\ RowsTyped' /\ TextsTyped' /\ CareGrow(CareSizes, CareSizes') /\ TextsGoUp /\ Len(notices') = Len(notices)
      /\ \A k \in 1..Len(notices) : notices'[k] = IF k = i THEN row ELSE notices[k]
  BY <1>1, NoticePut DEF Care!Retext, Care!Serve
<1>3. careReq' = careReq /\ carePage' = carePage /\ UNCHANGED <<Care!world, Care!past, tickets>>
  BY DEF Care!Retext, Care!Serve
<1>4. CareRest'
  <2>1. careBudget' \in CareBudgets
    BY CareSpend DEF Care!Retext, Care!Serve
  <2> QED BY <1>2, <1>3, <2>1 DEF CareTyped, CareRest, Care!world, Care!past
<1>5. CareReqsTyped' /\ CareLinked' /\ CarePagesTyped'
  BY <1>2, <1>3, CareReqsStay, CarePagesStay, LinksStay
<1>6. VersionsOK'
  BY <1>2, <1>3, VersionsStay
<1> QED BY <1>1, <1>2, <1>4, <1>5, <1>6 DEF CareTyped

LEMMA FetchTyped == ASSUME CareTyped, NEW k \in 1..Len(texts), Care!Fetch(k)
  PROVE /\ CareTyped' /\ Len(texts') = Len(texts)
        /\ \A j \in 1..Len(texts) : /\ texts'[j].i = texts[j].i /\ texts'[j].ver = texts[j].ver /\ texts'[j].late = texts[j].late
                                    /\ texts'[j].got = IF j = k THEN stored[texts[j].i] ELSE texts[j].got
<1>1. /\ texts \in Seq(Text) /\ texts[k] \in Text /\ texts[k].i \in 1..Len(notices)
      /\ texts[k].ver <= notices[texts[k].i].text
  BY DEF CareTyped, TextsTyped
<1>2. stored[texts[k].i] \in Nat /\ stored[texts[k].i] <= notices[texts[k].i].text
  BY <1>1, NoticeAt
<1> DEFINE row == [texts[k] EXCEPT !.got = stored[texts[k].i]]
<1>3. row \in Text /\ row.i = texts[k].i /\ row.ver = texts[k].ver /\ row.late = texts[k].late /\ row.got = stored[texts[k].i]
  BY <1>1, <1>2 DEF Text
<1>4. texts' = [texts EXCEPT ![k] = row]
  BY DEF Care!Fetch
<1> HIDE DEF row
<1>5. /\ texts' \in Seq(Text) /\ Len(texts') = Len(texts) /\ Len(texts) \in Nat
      /\ \A j \in 1..Len(texts) : texts'[j] = IF j = k THEN row ELSE texts[j]
  BY <1>1, <1>3, <1>4, SeqPut
<1>6. UNCHANGED <<tickets, letters, notices, stored, careReq, carePage, careBudget, Care!world, Care!past>>
  BY DEF Care!Fetch
<1>7. RowsTyped' /\ CareSizes' = CareSizes
  BY <1>6 DEF CareTyped, RowsTyped, CareSizes
<1>8. TextsTyped'
  <2>1. ASSUME NEW j \in 1..Len(texts)
        PROVE /\ texts'[j].i \in 1..Len(notices) /\ texts'[j].ver <= notices[texts'[j].i].text
              /\ texts'[j].got <= notices[texts'[j].i].text
    <3>1. CASE j = k
      BY <1>1, <1>2, <1>3, <1>5, <3>1
    <3>2. CASE j # k
      BY <1>5, <3>2 DEF CareTyped, TextsTyped
    <3> QED BY <3>1, <3>2
  <2> QED BY <1>5, <1>6, <2>1 DEF TextsTyped
<1>9. CareRest'
  BY <1>6 DEF CareTyped, CareRest, Care!world, Care!past
<1>10. CareReqsTyped' /\ CareLinked' /\ CarePagesTyped' /\ VersionsOK'
  BY <1>6, <1>7 DEF CareTyped, CareReqsTyped, CareLinked, CarePagesTyped, VersionsOK
<1>11. CareTyped'
  BY <1>7, <1>8, <1>9, <1>10 DEF CareTyped
<1> QED BY <1>3, <1>5, <1>11

LEMMA WorldTyped == ASSUME CareTyped, Care!Stop \/ Care!Start \/ Care!RentPaid \/ Care!LeaseEnds PROVE CareTyped'
<1>1. UNCHANGED <<tickets, letters, notices, stored, texts, careReq, carePage>>
  BY DEF Care!Stop, Care!Start, Care!RentPaid, Care!LeaseEnds, Care!mail
<1>2. RowsTyped' /\ TextsTyped' /\ CareSizes' = CareSizes /\ VersionsOK'
  BY <1>1 DEF CareTyped, RowsTyped, TextsTyped, CareSizes, VersionsOK
<1>3. CareReqsTyped' /\ CareLinked' /\ CarePagesTyped'
  BY <1>1, <1>2 DEF CareTyped, CareReqsTyped, CareLinked, CarePagesTyped
<1>4. CareRest'
  <2>1. CASE Care!Stop
    <3> DEFINE S == {r \in Reqs : careReq[r].op = "text" /\ careReq[r].pc \in {"upload", "send"}}
    <3>1. S \subseteq Reqs /\ IsFiniteSet(Reqs) /\ caught' = caught + Care!Cardinality(S)
      BY <2>1, CareFinite DEF Care!Stop
    <3> HIDE DEF S
    <3>2. caught' \in Nat
      <4>1. caught \in Nat
        BY DEF CareTyped, CareRest
      <4>2. Care!Cardinality(S) = Cardinality(S)
        BY CareCount
      <4>3. Cardinality(S) \in Nat
        BY <3>1, FS_Subset, FS_CardinalityType
      <4> QED BY <3>1, <4>1, <4>2, <4>3
    <3>3. careBudget' \in CareBudgets
      BY <2>1, CareSpend DEF Care!Stop
    <3> QED BY <1>1, <2>1, <3>2, <3>3 DEF CareTyped, CareRest, Care!Stop
  <2>2. CASE Care!Start
    <3>3. careBudget' \in CareBudgets
      BY <2>2, CareSpend DEF Care!Start
    <3> QED BY <1>1, <2>2, <3>3 DEF CareTyped, CareRest, Care!Start, Care!past
  <2>3. CASE Care!RentPaid \/ Care!LeaseEnds
    BY <1>1, <2>3 DEF CareTyped, CareRest, Care!RentPaid, Care!LeaseEnds, Care!past
  <2> QED BY <2>1, <2>2, <2>3
<1> QED BY <1>2, <1>3, <1>4 DEF CareTyped

LEMMA CareDieTyped == ASSUME CareTyped, NEW r \in Reqs, Care!Die(r) PROVE CareTyped'
<1>1. Quiet /\ CareRest'
  BY CareSpend, RestQuiet DEF Care!Die, Quiet, Care!mail
<1>2. RowsTyped' /\ TextsTyped' /\ CareGrow(CareSizes, CareSizes') /\ TextsGoUp
  BY <1>1, CareStoresStay, TextsUp DEF Quiet, Care!mail
<1>3. PICK c \in BOOLEAN : c = FALSE
  OBVIOUS
<1>4. Care!Ends(r, FALSE, {})
  BY DEF Care!Die
<1>5. Care!Ends(r, c, {}) /\ MadeFits(careReq[r], c, {})
  BY <1>3, <1>4 DEF MadeFits
<1> QED BY <1>1, <1>2, <1>5, EndStep

LEMMA CareAnswerLostTyped == ASSUME CareTyped, NEW r \in Reqs, Care!AnswerLost(r) PROVE CareTyped'
<1>1. Quiet /\ CareRest'
  BY CareSpend, RestQuiet DEF Care!AnswerLost, Quiet, Care!mail
<1>2. RowsTyped' /\ TextsTyped' /\ CareSizes' = CareSizes /\ CareGrow(CareSizes, CareSizes') /\ TextsGoUp
  BY <1>1, CareStoresStay, TextsUp DEF Quiet, Care!mail
<1>3. PICK c \in BOOLEAN : c = FALSE
  OBVIOUS
<1>4. carePage' = Care!Heard(careReq[r], FALSE, {}) /\ careReq[r].scr # Care!Nobody
  BY DEF Care!AnswerLost
<1>5. carePage' = Care!Heard(careReq[r], c, {}) /\ MadeFits(careReq[r], c, {})
  BY <1>3, <1>4 DEF MadeFits
<1>6. careReq[r] \in CareReqs /\ CareTurn(careReq[r], CareSizes) /\ Linked(careReq[r], carePage)
  BY ReqAt
<1>7. CarePagesTyped' /\ \A s \in Care!Screens : carePage'[s].at = carePage[s].at
  BY <1>2, <1>5, <1>6, CareHeardTyped, PageSends
<1> DEFINE new == [careReq[r] EXCEPT !.scr = Care!Nobody]
<1>8. Care!Goes(r, new)
  BY DEF Care!AnswerLost
<1>9. /\ new \in CareReqs /\ new.op = careReq[r].op /\ new.pc = careReq[r].pc /\ new.scr = Care!Nobody /\ new.i = careReq[r].i
      /\ new.val = careReq[r].val /\ new.ver = careReq[r].ver
  BY <1>6 DEF CareReqs
<1> HIDE DEF new
<1>10. CareReqOK(new, CareSizes') /\ Linked(new, carePage)
  BY <1>2, <1>6, <1>9 DEF CareReqOK, CareTurn, Linked
<1>11. CareReqsTyped' /\ CareLinked'
  BY <1>2, <1>7, <1>8, <1>10, CareReqGoes, LinkGoes
<1>12. VersionsOK'
  BY <1>2, <1>8, <1>9, VersionGoes DEF PastRead
<1> QED BY <1>1, <1>2, <1>7, <1>11, <1>12 DEF CareTyped

LEMMA CareStepTyped == ASSUME CareTyped, Care!Next PROVE CareTyped'
<1>1. notices \in Seq(Notice) /\ texts \in Seq(Text)
  BY DEF CareTyped, RowsTyped, TextsTyped
<1>2. DOMAIN notices = 1..Len(notices) /\ DOMAIN texts = 1..Len(texts)
  BY <1>1
<1>3. ASSUME NEW s \in Care!Screens, Care!PageStep(s) PROVE CareTyped'
  <2>1. CASE \E at \in Care!DeskPages \cup Care!TabPages : Care!Visit(s, at)
    BY <2>1, VisitTyped
  <2>2. CASE Care!Load(s) \/ Care!LoadFails(s) \/ Care!ModalCloses(s)
    BY <2>2, CareLoadTyped, CareFlagTyped
  <2>3. ASSUME NEW r \in Reqs, \/ Care!PressStatus(s, r) \/ Care!PressColumn(s, r, "notes") \/ Care!PressColumn(s, r, "prio")
                               \/ Care!Expand(s, r) PROVE CareTyped'
    BY <2>3, PressStatusTyped, PressColumnTyped, ExpandTyped
  <2>4. ASSUME NEW r \in Reqs, NEW op \in {"send", "submit", "reply"}, Care!PressWrite(s, r, op) PROVE CareTyped'
    BY <2>4, PressWriteTyped
  <2> QED BY <1>3, <2>1, <2>2, <2>3, <2>4 DEF Care!PageStep
<1>4. ASSUME NEW r \in Reqs, Care!ServerStep(r) PROVE CareTyped'
  BY <1>2, <1>4, SubmitReadTyped, SubmitWriteTyped, StatusReadTyped, StatusWriteTyped, ColumnWriteTyped, LetterWriteTyped,
     MarkWriteTyped, NoticeCheckTyped, NoticeCreateTyped, ResendTyped, TextReadTyped, TextCheckTyped, TextUploadTyped,
     TextSendTyped, TextMarkTyped DEF Care!ServerStep
<1> QED BY <1>2, <1>3, <1>4, CareAnswerLostTyped, CareDieTyped, EditTyped, FetchTyped, CalledTyped, WorldTyped DEF Care!Next

-----------------------------------------------------------------------------
(* A ticket or a letter is made as often as somebody meant it              *)

MakingOps == {"send", "submit", "reply"}
Waiting == {r \in Reqs : careReq[r].op \in MakingOps}
\* a page that asks to try again, and is not trying
Retries(p) == \E op \in MakingOps : op \in p.again \ p.busy
Asking == {s \in Care!Screens : Retries(carePage[s])}
CareOwed == Cardinality(Waiting) + Cardinality(Asking)
CareMade == Len(tickets) + Len(letters) + CareOwed
CareMeant == careWishes + echoes + careBudget.haps
AskedInv == CareMade <= CareMeant

LEMMA WaitFinite == IsFiniteSet(Waiting) /\ IsFiniteSet(Asking) /\ Cardinality(Waiting) \in Nat /\ Cardinality(Asking) \in Nat /\ CareOwed \in Nat
<1>1. IsFiniteSet(Reqs) /\ IsFiniteSet(Care!Screens)
  BY CareFinite, FS_Union DEF Care!Screens
<1>2. Waiting \subseteq Reqs /\ Asking \subseteq Care!Screens
  BY DEF Waiting, Asking
<1>3. IsFiniteSet(Waiting) /\ Cardinality(Waiting) \in Nat
  BY <1>1, <1>2, CardSame
<1>4. IsFiniteSet(Asking) /\ Cardinality(Asking) \in Nat
  BY <1>1, <1>2, CardSame
<1> QED BY <1>3, <1>4 DEF CareOwed

LEMMA WaitFiniteNext == Cardinality(Waiting)' \in Nat /\ Cardinality(Asking)' \in Nat /\ CareOwed' \in Nat
<1>1. IsFiniteSet(Reqs) /\ IsFiniteSet(Care!Screens)
  BY CareFinite, FS_Union DEF Care!Screens
<1>2. Waiting' \subseteq Reqs /\ Asking' \subseteq Care!Screens
  BY DEF Waiting, Asking
<1>5. Cardinality(Waiting)' = Cardinality(Waiting') /\ Cardinality(Asking)' = Cardinality(Asking')
  OBVIOUS
<1>3. Cardinality(Waiting)' \in Nat
  BY <1>1, <1>2, <1>5, CardSame
<1>4. Cardinality(Asking)' \in Nat
  BY <1>1, <1>2, <1>5, CardSame
<1> QED BY <1>3, <1>4 DEF CareOwed

LEMMA CareSums == ASSUME CareTyped
  PROVE Len(tickets) \in Nat /\ Len(letters) \in Nat /\ CareOwed \in Nat /\ careWishes \in Nat /\ echoes \in Nat /\ careBudget.haps \in Nat
        /\ CareMade \in Nat /\ CareMeant \in Nat
<1>1. Len(tickets) \in Nat /\ Len(letters) \in Nat /\ careWishes \in Nat /\ echoes \in Nat /\ careBudget.haps \in Nat
  BY DEF CareTyped, RowsTyped, CareRest, CareBudgets
<1> QED BY <1>1, WaitFinite DEF CareMade, CareMeant

LEMMA CareSumsNext == ASSUME CareTyped'
  PROVE Len(tickets)' \in Nat /\ Len(letters)' \in Nat /\ CareOwed' \in Nat /\ careWishes' \in Nat /\ echoes' \in Nat /\ careBudget'.haps \in Nat
        /\ CareMade' \in Nat /\ CareMeant' \in Nat
<1>1. Len(tickets)' \in Nat /\ Len(letters)' \in Nat /\ careWishes' \in Nat /\ echoes' \in Nat /\ careBudget'.haps \in Nat
  BY DEF CareTyped, RowsTyped, CareRest, CareBudgets
<1> QED BY <1>1, WaitFiniteNext DEF CareMade, CareMeant

LEMMA WaitGoes == ASSUME CareTyped, NEW r \in Reqs, NEW new, Care!Goes(r, new)
  PROVE /\ Cardinality(Waiting)' \in Nat /\ Cardinality(Waiting)' <= Cardinality(Waiting) + 1
        /\ (new.op \in MakingOps => careReq[r].op \in MakingOps) => Cardinality(Waiting)' <= Cardinality(Waiting)
        /\ careReq[r].op \in MakingOps /\ new.op \notin MakingOps => Cardinality(Waiting)' + 1 <= Cardinality(Waiting)
<1>1. \A x \in Reqs : careReq'[x] = IF x = r THEN new ELSE careReq[x]
  BY DEF Care!Goes, CareTyped, CareReqsTyped
<1>2. IsFiniteSet(Waiting)
  BY WaitFinite
<1>3. Waiting' \subseteq Waiting \cup {r}
  BY <1>1 DEF Waiting
<1>4. (new.op \in MakingOps => careReq[r].op \in MakingOps) => Waiting' \subseteq Waiting
  BY <1>1 DEF Waiting
<1>5. careReq[r].op \in MakingOps /\ new.op \notin MakingOps => Waiting' \subseteq Waiting \ {r} /\ r \in Waiting
  BY <1>1 DEF Waiting
<1>6. Cardinality(Waiting)' = Cardinality(Waiting')
  OBVIOUS
<1> QED BY <1>2, <1>3, <1>4, <1>5, <1>6, CardGain, CardSame, CardDrop

LEMMA AskShrinks == ASSUME \A s \in Care!Screens : Retries(carePage'[s]) => Retries(carePage[s])
  PROVE Cardinality(Asking)' \in Nat /\ Cardinality(Asking)' <= Cardinality(Asking)
<1>1. Asking' \subseteq Asking
  BY DEF Asking
<1>2. Cardinality(Asking)' = Cardinality(Asking')
  OBVIOUS
<1> QED BY <1>1, <1>2, WaitFinite, CardSame

LEMMA AskGains == ASSUME NEW x, \A s \in Care!Screens : s # x /\ Retries(carePage'[s]) => Retries(carePage[s])
  PROVE Cardinality(Asking)' \in Nat /\ Cardinality(Asking)' <= Cardinality(Asking) + 1
<1>1. Asking' \subseteq Asking \cup {x}
  BY DEF Asking
<1>2. Cardinality(Asking)' = Cardinality(Asking')
  OBVIOUS
<1> QED BY <1>1, <1>2, WaitFinite, CardGain

LEMMA AskDrops == ASSUME NEW x \in Care!Screens, \A s \in Care!Screens : Retries(carePage'[s]) => s # x /\ Retries(carePage[s]), Retries(carePage[x])
  PROVE Cardinality(Asking)' \in Nat /\ Cardinality(Asking)' + 1 <= Cardinality(Asking)
<1>1. Asking' \subseteq Asking \ {x} /\ x \in Asking
  BY DEF Asking
<1>2. Cardinality(Asking)' = Cardinality(Asking')
  OBVIOUS
<1> QED BY <1>1, <1>2, WaitFinite, CardDrop

\* no retry is asked for on a page of another kind
LEMMA RetriesOwn == ASSUME NEW p, NEW n, CarePageOK(p, n), NEW op \in MakingOps, op \in p.again
  PROVE p.at = Care!PageOf(op) /\ \A o \in MakingOps : Care!PageOf(o) = p.at => o = op
BY PageNames DEF CarePageOK, MakingOps

\* a page hears of a success, or of something else than a letter or a ticket
LEMMA HearsRetries == ASSUME NEW p, NEW q, NEW n, NEW ok \in BOOLEAN, NEW made,
    CarePageOK(p, n), q.op \in PageOps, p.at = Care!PageOf(q.op), ok \/ q.op \notin MakingOps, Retries(Care!Hears(p, q, ok, made))
  PROVE Retries(p)
<1> DEFINE p1 == [p EXCEPT !.busy = @ \ {q.op}]
           h == Care!Hears(p, q, ok, made)
<1>0. p1 \in CareScreens /\ p1.again = p.again /\ p1.busy = p.busy \ {q.op} /\ p1.at = p.at /\ p \in CareScreens
  BY DEF CarePageOK, CareScreens
<1> HIDE DEF p1
<1>9. PICK op \in MakingOps : op \in h.again \ h.busy
  BY DEF Retries
<1>1. CASE ~ok
  <2>1. h = [p1 EXCEPT !.again = @ \cup ({q.op} \ {"mark"})]
    BY <1>1 DEF Care!Hears, p1
  <2> HIDE DEF h
  <2>2. h.again \subseteq p.again \cup {q.op} /\ h.busy = p.busy \ {q.op}
    BY <1>0, <2>1 DEF CareScreens
  <2>3. op # q.op
    BY <1>1
  <2> QED BY <1>9, <2>2, <2>3 DEF Retries
<1>2. CASE ok /\ q.op \in {"status", "notes", "prio"}
  <2>1. h = [p1 EXCEPT !.need = TRUE, !.busy = {}]
    BY <1>2 DEF Care!Hears, p1, Care!Reloaded
  <2> HIDE DEF h
  <2>2. h.again = p.again
    BY <1>0, <2>1 DEF CareScreens
  <2>3. p.at = Care!PageOf(op)
    BY <1>9, <2>2, RetriesOwn
  <2>4. p.at = "desk_tickets"
    BY <1>2, PageNames
  <2> QED BY <2>3, <2>4, PageNames DEF MakingOps
<1>3. CASE ok /\ q.op = "send"
  <2>1. h = [p1 EXCEPT !.sent = TRUE, !.need = TRUE, !.again = @ \ {"send"}]
    BY <1>3 DEF Care!Hears, p1
  <2> HIDE DEF h
  <2>2. h.again = p.again \ {"send"} /\ h.busy = p.busy \ {q.op}
    BY <1>0, <2>1 DEF CareScreens
  <2> QED BY <1>3, <1>9, <2>2 DEF Retries
<1>4. CASE ok /\ q.op \in {"submit", "reply"}
  <2>1. h = [p1 EXCEPT !.seen = Append(@, made), !.again = @ \ {q.op}]
    BY <1>4 DEF Care!Hears, p1
  <2> HIDE DEF h
  <2>2. h.again = p.again \ {q.op} /\ h.busy = p.busy \ {q.op}
    BY <1>0, <2>1 DEF CareScreens
  <2> QED BY <1>4, <1>9, <2>2 DEF Retries
<1>5. CASE ok /\ q.op = "mark"
  <2>1. h = [p1 EXCEPT !.seen[q.i].read = TRUE]
    BY <1>5 DEF Care!Hears, p1
  <2> HIDE DEF h
  <2>2. h.again = p.again /\ h.busy = p.busy \ {q.op}
    BY <1>0, <2>1 DEF CareScreens
  <2>3. op # q.op
    BY <1>5 DEF MakingOps
  <2> QED BY <1>9, <2>2, <2>3 DEF Retries
<1> QED BY <1>1, <1>2, <1>3, <1>4, <1>5, PageNames

LEMMA CareHeardAsks == ASSUME CareTyped, NEW q, NEW ok \in BOOLEAN, NEW made, q.scr # Care!Nobody => q.op \in PageOps, Linked(q, carePage),
    carePage' = Care!Heard(q, ok, made)
  PROVE /\ Cardinality(Asking)' \in Nat /\ Cardinality(Asking)' <= Cardinality(Asking) + 1
        /\ ok \/ q.op \notin MakingOps => Cardinality(Asking)' <= Cardinality(Asking)
<1>1. CASE q.scr = Care!Nobody
  <2>1. carePage' = carePage
    BY <1>1 DEF Care!Heard
  <2> QED BY <2>1, AskShrinks, WaitFinite
<1>2. CASE q.scr # Care!Nobody
  <2>1. q.scr \in Care!Screens /\ carePage[q.scr].at = Care!PageOf(q.op) /\ q.op \in PageOps
    BY <1>2 DEF Linked
  <2>2. \A x \in Care!Screens : carePage'[x] = IF x = q.scr THEN Care!Hears(carePage[q.scr], q, ok, made) ELSE carePage[x]
    BY <1>2 DEF Care!Heard, CareTyped, CarePagesTyped
  <2>3. Cardinality(Asking)' \in Nat /\ Cardinality(Asking)' <= Cardinality(Asking) + 1
    <3>1. PICK x : x = q.scr
      OBVIOUS
    <3>2. \A s \in Care!Screens : s # x /\ Retries(carePage'[s]) => Retries(carePage[s])
      BY <2>2, <3>1
    <3> QED BY <3>2, AskGains
  <2>4. CarePageOK(carePage[q.scr], CareSizes)
    BY <2>1 DEF CareTyped, CarePagesTyped
  <2>5. ASSUME ok \/ q.op \notin MakingOps PROVE Cardinality(Asking)' <= Cardinality(Asking)
    <3>1. Retries(Care!Hears(carePage[q.scr], q, ok, made)) => Retries(carePage[q.scr])
      BY <2>1, <2>4, <2>5, HearsRetries
    <3>2. \A s \in Care!Screens : Retries(carePage'[s]) => Retries(carePage[s])
      BY <2>2, <3>1
    <3> QED BY <3>2, AskShrinks
  <2> QED BY <2>3, <2>5
<1> QED BY <1>1, <1>2

\* a request ends and its page hears of it
LEMMA CareEndOwes == ASSUME CareTyped, NEW r \in Reqs, NEW ok \in BOOLEAN, NEW made, Care!Ends(r, ok, made)
  PROVE /\ CareOwed' <= CareOwed
        /\ ok /\ careReq[r].op \in MakingOps => CareOwed' + 1 <= CareOwed
<1> DEFINE W == Cardinality(Waiting)
           A == Cardinality(Asking)
<1>1. /\ A' \in Nat /\ A' <= A + 1 /\ (ok \/ careReq[r].op \notin MakingOps => A' <= A)
  <2>1. Linked(careReq[r], carePage) /\ (careReq[r].scr # Care!Nobody => careReq[r].op \in PageOps)
    BY ReqAt, PageSends
  <2> QED BY <2>1, CareHeardAsks DEF Care!Ends
<1>2. Care!Idle.op \notin MakingOps
  BY DEF Care!Idle, MakingOps
<1>3. W' \in Nat /\ W' <= W /\ (careReq[r].op \in MakingOps => W' + 1 <= W)
  BY <1>2, WaitGoes DEF Care!Ends
<1>4. W \in Nat /\ A \in Nat
  BY WaitFinite
<1>5. CareOwed = W + A /\ CareOwed' = W' + A'
  BY DEF CareOwed
<1> QED BY <1>1, <1>3, <1>4, <1>5

LEMMA CareGoesOwes == ASSUME CareTyped, NEW r \in Reqs, NEW new, Care!Goes(r, new), new.op \in MakingOps => careReq[r].op \in MakingOps,
    \A s \in Care!Screens : Retries(carePage'[s]) => Retries(carePage[s])
  PROVE CareOwed' <= CareOwed
<1> DEFINE W == Cardinality(Waiting)
           A == Cardinality(Asking)
<1>1. A' \in Nat /\ A' <= A
  BY AskShrinks
<1>3. W' \in Nat /\ W' <= W
  BY WaitGoes
<1>4. W \in Nat /\ A \in Nat
  BY WaitFinite
<1>5. CareOwed = W + A /\ CareOwed' = W' + A'
  BY DEF CareOwed
<1> QED BY <1>1, <1>3, <1>4, <1>5

LEMMA CareQuietOwes == ASSUME CareTyped, \A r \in Reqs : careReq'[r].op = careReq[r].op, \A s \in Care!Screens : Retries(carePage'[s]) => Retries(carePage[s])
  PROVE CareOwed' <= CareOwed
<1> DEFINE W == Cardinality(Waiting)
           A == Cardinality(Asking)
<1>1. A' \in Nat /\ A' <= A
  BY AskShrinks
<1>3. W' = W
  BY DEF Waiting
<1>4. W \in Nat /\ A \in Nat
  BY WaitFinite
<1>5. CareOwed = W + A /\ CareOwed' = W' + A'
  BY DEF CareOwed
<1> QED BY <1>1, <1>3, <1>4, <1>5

\* plain numbers: tickets, letters, owed; wishes, echoes, mishaps; and the same after a step
CareCovers(t, l, o, w, e, h, t2, l2, o2, w2, e2, h2) == t2 + l2 + o2 + w + e + h <= t + l + o + w2 + e2 + h2
CareMoves == CareCovers(Len(tickets), Len(letters), CareOwed, careWishes, echoes, careBudget.haps,
                        Len(tickets'), Len(letters'), CareOwed', careWishes', echoes', careBudget'.haps)

LEMMA CareAllSums == ASSUME CareTyped, CareTyped'
  PROVE /\ Len(tickets) \in Nat /\ Len(letters) \in Nat /\ CareOwed \in Nat /\ careWishes \in Nat /\ echoes \in Nat /\ careBudget.haps \in Nat
        /\ Len(tickets') \in Nat /\ Len(letters') \in Nat /\ CareOwed' \in Nat /\ careWishes' \in Nat /\ echoes' \in Nat /\ careBudget'.haps \in Nat
BY CareSums, CareSumsNext

LEMMA CareBalance == ASSUME CareTyped, CareTyped', AskedInv, CareMoves PROVE AskedInv'
<1> DEFINE In(t, l, o, w, e, h) == t + l + o <= w + e + h
           Both(t, l, o, w, e, h, t2, l2, o2, w2, e2, h2) ==
             CareCovers(t, l, o, w, e, h, t2, l2, o2, w2, e2, h2) /\ In(t, l, o, w, e, h)
<1>1. ASSUME NEW t \in Nat, NEW l \in Nat, NEW o \in Nat, NEW w \in Nat, NEW e \in Nat, NEW h \in Nat,
             NEW t2 \in Nat, NEW l2 \in Nat, NEW o2 \in Nat, NEW w2 \in Nat, NEW e2 \in Nat, NEW h2 \in Nat,
             Both(t, l, o, w, e, h, t2, l2, o2, w2, e2, h2)
      PROVE In(t2, l2, o2, w2, e2, h2)
  BY <1>1 DEF CareCovers
<1>2. Both(Len(tickets), Len(letters), CareOwed, careWishes, echoes, careBudget.haps,
           Len(tickets'), Len(letters'), CareOwed', careWishes', echoes', careBudget'.haps)
  BY DEF CareMoves, AskedInv, CareMade, CareMeant
<1> HIDE DEF Both, In
<1>3. In(Len(tickets'), Len(letters'), CareOwed', careWishes', echoes', careBudget'.haps)
  BY <1>1, <1>2, CareAllSums
<1> QED BY <1>3 DEF In, AskedInv, CareMade, CareMeant

\* nothing was made, nothing is owed
LEMMA AskedQuiet == ASSUME CareTyped, CareTyped', AskedInv, Len(tickets') = Len(tickets), Len(letters') = Len(letters),
    CareOwed' <= CareOwed, careWishes' = careWishes, echoes' = echoes, careBudget'.haps >= careBudget.haps
  PROVE AskedInv'
<1> DEFINE Fit(t, l, o, w, e, h, t2, l2, o2, w2, e2, h2) == t2 = t /\ l2 = l /\ o2 <= o /\ w2 = w /\ e2 = e /\ h2 >= h
<1>1. ASSUME NEW t \in Nat, NEW l \in Nat, NEW o \in Nat, NEW w \in Nat, NEW e \in Nat, NEW h \in Nat,
             NEW t2 \in Nat, NEW l2 \in Nat, NEW o2 \in Nat, NEW w2 \in Nat, NEW e2 \in Nat, NEW h2 \in Nat,
             Fit(t, l, o, w, e, h, t2, l2, o2, w2, e2, h2)
      PROVE CareCovers(t, l, o, w, e, h, t2, l2, o2, w2, e2, h2)
  BY <1>1 DEF CareCovers
<1>2. Fit(Len(tickets), Len(letters), CareOwed, careWishes, echoes, careBudget.haps,
          Len(tickets'), Len(letters'), CareOwed', careWishes', echoes', careBudget'.haps)
  OBVIOUS
<1> HIDE DEF Fit
<1>3. CareMoves
  BY <1>1, <1>2, CareAllSums DEF CareMoves
<1> QED BY <1>3, CareBalance

\* one was made of those owed
LEMMA AskedMade == ASSUME CareTyped, CareTyped', AskedInv,
    \/ Len(tickets') = Len(tickets) + 1 /\ Len(letters') = Len(letters)
    \/ Len(tickets') = Len(tickets) /\ Len(letters') = Len(letters) + 1,
    CareOwed' + 1 <= CareOwed, careWishes' = careWishes, echoes' = echoes, careBudget'.haps = careBudget.haps
  PROVE AskedInv'
<1> DEFINE Fit(t, l, o, w, e, h, t2, l2, o2, w2, e2, h2) ==
             ((t2 = t + 1 /\ l2 = l) \/ (t2 = t /\ l2 = l + 1)) /\ o2 + 1 <= o /\ w2 = w /\ e2 = e /\ h2 = h
<1>1. ASSUME NEW t \in Nat, NEW l \in Nat, NEW o \in Nat, NEW w \in Nat, NEW e \in Nat, NEW h \in Nat,
             NEW t2 \in Nat, NEW l2 \in Nat, NEW o2 \in Nat, NEW w2 \in Nat, NEW e2 \in Nat, NEW h2 \in Nat,
             Fit(t, l, o, w, e, h, t2, l2, o2, w2, e2, h2)
      PROVE CareCovers(t, l, o, w, e, h, t2, l2, o2, w2, e2, h2)
  BY <1>1 DEF CareCovers
<1>2. Fit(Len(tickets), Len(letters), CareOwed, careWishes, echoes, careBudget.haps,
          Len(tickets'), Len(letters'), CareOwed', careWishes', echoes', careBudget'.haps)
  OBVIOUS
<1> HIDE DEF Fit
<1>3. CareMoves
  BY <1>1, <1>2, CareAllSums DEF CareMoves
<1> QED BY <1>3, CareBalance

\* a wish, an echo or a mishap pays for one more
LEMMA AskedPaid == ASSUME CareTyped, CareTyped', AskedInv,
    \/ Len(tickets') = Len(tickets) + 1 /\ CareOwed' <= CareOwed
    \/ Len(tickets') = Len(tickets) /\ CareOwed' <= CareOwed + 1,
    Len(letters') = Len(letters),
    \/ careWishes' = careWishes + 1 /\ echoes' = echoes /\ careBudget'.haps = careBudget.haps
    \/ careWishes' = careWishes /\ echoes' = echoes + 1 /\ careBudget'.haps = careBudget.haps
    \/ careWishes' = careWishes /\ echoes' = echoes /\ careBudget'.haps = careBudget.haps + 1
  PROVE AskedInv'
<1> DEFINE Fit(t, l, o, w, e, h, t2, l2, o2, w2, e2, h2) ==
             /\ (t2 = t + 1 /\ o2 <= o) \/ (t2 = t /\ o2 <= o + 1)
             /\ l2 = l
             /\ \/ w2 = w + 1 /\ e2 = e /\ h2 = h
                \/ w2 = w /\ e2 = e + 1 /\ h2 = h
                \/ w2 = w /\ e2 = e /\ h2 = h + 1
<1>1. ASSUME NEW t \in Nat, NEW l \in Nat, NEW o \in Nat, NEW w \in Nat, NEW e \in Nat, NEW h \in Nat,
             NEW t2 \in Nat, NEW l2 \in Nat, NEW o2 \in Nat, NEW w2 \in Nat, NEW e2 \in Nat, NEW h2 \in Nat,
             Fit(t, l, o, w, e, h, t2, l2, o2, w2, e2, h2)
      PROVE CareCovers(t, l, o, w, e, h, t2, l2, o2, w2, e2, h2)
  BY <1>1 DEF CareCovers
<1>2. Fit(Len(tickets), Len(letters), CareOwed, careWishes, echoes, careBudget.haps,
          Len(tickets'), Len(letters'), CareOwed', careWishes', echoes', careBudget'.haps)
  OBVIOUS
<1> HIDE DEF Fit
<1>3. CareMoves
  BY <1>1, <1>2, CareAllSums DEF CareMoves
<1> QED BY <1>3, CareBalance

LEMMA LenKept == ASSUME NEW S, NEW T, NEW a \in Seq(S), NEW b \in Seq(T), DOMAIN a = DOMAIN b PROVE Len(a) = Len(b)
OBVIOUS

-----------------------------------------------------------------------------

LEMMA VisitAsked == ASSUME CareTyped, CareTyped', AskedInv, NEW s \in Care!Screens, NEW at \in Care!DeskPages \cup Care!TabPages, Care!Visit(s, at)
  PROVE AskedInv'
<1>1. \A x \in Reqs : careReq'[x].op = careReq[x].op
  BY DEF Care!Visit, CareTyped, CareReqsTyped, CareReqs
<1>2. \A x \in Care!Screens : Retries(carePage'[x]) => Retries(carePage[x])
  <2>1. \A x \in Care!Screens : carePage'[x] = IF x = s THEN [Care!Closed EXCEPT !.at = at, !.need = TRUE] ELSE carePage[x]
    BY DEF Care!Visit, CareTyped, CarePagesTyped
  <2>2. ~Retries([Care!Closed EXCEPT !.at = at, !.need = TRUE])
    BY DEF Retries, Care!Closed
  <2> QED BY <2>1, <2>2
<1>3. CareOwed' <= CareOwed
  BY <1>1, <1>2, CareQuietOwes
<1>4. careBudget'.haps = careBudget.haps
  BY CareSpend DEF Care!Visit
<1> QED BY <1>3, <1>4, CareSums, AskedQuiet DEF Care!Visit, Care!past

LEMMA PageAsked == ASSUME CareTyped, CareTyped', AskedInv, NEW s \in Care!Screens, Care!Load(s) \/ Care!LoadFails(s) \/ Care!ModalCloses(s)
  PROVE AskedInv'
<1>0. carePage[s] \in CareScreens
  BY DEF CareTyped, CarePagesTyped
<1>1. careReq' = careReq
  BY DEF Care!Load, Care!LoadFails, Care!ModalCloses
<1>2. \A x \in Care!Screens : carePage'[x].again = carePage[x].again /\ carePage'[x].busy = carePage[x].busy
  BY <1>0 DEF Care!Load, Care!LoadFails, Care!ModalCloses, CareTyped, CarePagesTyped, CareScreens
<1>3. CareOwed' <= CareOwed
  BY <1>1, <1>2, CareQuietOwes DEF Retries
<1>4. careBudget'.haps >= careBudget.haps
  <2>1. careBudget' = careBudget \/ Care!Spend("haps")
    BY DEF Care!Load, Care!LoadFails, Care!ModalCloses
  <2> QED BY <2>1, CareSpend, CareSums
<1> QED BY <1>3, <1>4, AskedQuiet DEF Care!Load, Care!LoadFails, Care!ModalCloses, Care!past

LEMMA PressAsked == ASSUME CareTyped, CareTyped', AskedInv, NEW s \in Care!Screens, NEW r \in Reqs,
    Care!PressStatus(s, r) \/ Care!PressColumn(s, r, "notes") \/ Care!PressColumn(s, r, "prio")
  PROVE AskedInv'
<1>1. PICK op \in {"status", "notes", "prio"} : Care!Press(s, r, op) /\ \E i, v, pc : Care!Goes(r, [Care!Idle EXCEPT !.op = op, !.pc = pc, !.scr = s, !.i = i, !.val = v])
  <2>1. CASE Care!PressStatus(s, r)
    BY <2>1 DEF Care!PressStatus
  <2>2. CASE Care!PressColumn(s, r, "notes") \/ Care!PressColumn(s, r, "prio")
    BY <2>2 DEF Care!PressColumn
  <2> QED BY <2>1, <2>2
<1>2. PICK new : Care!Goes(r, new) /\ new.op \notin MakingOps
  <2>1. PICK i, v, pc : Care!Goes(r, [Care!Idle EXCEPT !.op = op, !.pc = pc, !.scr = s, !.i = i, !.val = v])
    BY <1>1
  <2>2. [Care!Idle EXCEPT !.op = op, !.pc = pc, !.scr = s, !.i = i, !.val = v].op = op
    BY DEF Care!Idle
  <2> QED BY <1>1, <2>1, <2>2 DEF MakingOps
<1>3. \A x \in Care!Screens : Retries(carePage'[x]) => Retries(carePage[x])
  <2>0. carePage[s] \in CareScreens
    BY DEF CareTyped, CarePagesTyped
  <2>1. \A x \in Care!Screens : carePage'[x].again = carePage[x].again /\ carePage[x].busy \subseteq carePage'[x].busy
    BY <1>1, <2>0 DEF Care!Press, CareTyped, CarePagesTyped, CareScreens
  <2> QED BY <2>1 DEF Retries
<1>4. CareOwed' <= CareOwed
  BY <1>2, <1>3, CareGoesOwes
<1>5. careBudget'.haps >= careBudget.haps
  <2>1. careBudget'.haps = careBudget.haps
    BY <1>1, CareSpend DEF Care!Press
  <2> QED BY <2>1, CareSums
<1>6. UNCHANGED <<tickets, letters, Care!past>>
  BY DEF Care!PressStatus, Care!PressColumn
<1> QED BY <1>4, <1>5, <1>6, AskedQuiet DEF Care!past

LEMMA ExpandAsked == ASSUME CareTyped, CareTyped', AskedInv, NEW s \in Care!Screens, NEW r \in Reqs, Care!Expand(s, r)
  PROVE AskedInv'
<1>2. PICK new : Care!Goes(r, new) /\ new.op \notin MakingOps
  <2>1. PICK i : Care!Goes(r, [Care!Idle EXCEPT !.op = "mark", !.pc = "write", !.scr = s, !.i = i])
    BY DEF Care!Expand
  <2>2. [Care!Idle EXCEPT !.op = "mark", !.pc = "write", !.scr = s, !.i = i].op = "mark"
    BY DEF Care!Idle
  <2> QED BY <2>1, <2>2 DEF MakingOps
<1>4. CareOwed' <= CareOwed
  BY <1>2, CareGoesOwes DEF Care!Expand
<1>5. careBudget'.haps = careBudget.haps
  BY CareSpend DEF Care!Expand
<1> QED BY <1>4, <1>5, CareSums, AskedQuiet DEF Care!Expand, Care!past

LEMMA PressWriteAsked == ASSUME CareTyped, CareTyped', AskedInv, NEW s \in Care!Screens, NEW r \in Reqs, NEW op, Care!PressWrite(s, r, op)
  PROVE AskedInv'
<1>1. op \in MakingOps /\ Care!Press(s, r, op) /\ Care!Meant(s, op)
  BY DEF Care!PressWrite, MakingOps
<1>2. /\ \A x \in Care!Screens : carePage'[x].again = carePage[x].again
      /\ \A x \in Care!Screens : \A o \in carePage[x].busy : o \in carePage'[x].busy
      /\ op \in carePage'[s].busy
  <2>0. carePage[s] \in CareScreens
    BY DEF CareTyped, CarePagesTyped
  <2> DEFINE p == [carePage[s] EXCEPT !.busy = @ \cup {op}]
  <2>1. p.again = carePage[s].again /\ p.busy = carePage[s].busy \cup {op}
    BY <2>0 DEF CareScreens
  <2>2. \A x \in Care!Screens : carePage'[x] = IF x = s THEN p ELSE carePage[x]
    BY <1>1 DEF Care!Press, CareTyped, CarePagesTyped
  <2> HIDE DEF p
  <2> QED BY <2>1, <2>2
<1>3. \A x \in Care!Screens : Retries(carePage'[x]) => Retries(carePage[x])
  <2> SUFFICES ASSUME NEW x \in Care!Screens, NEW o \in MakingOps, o \in carePage'[x].again, o \notin carePage'[x].busy
      PROVE o \in carePage[x].again /\ o \notin carePage[x].busy
    BY DEF Retries
  <2> QED BY <1>2
<1> DEFINE W == Cardinality(Waiting)
           A == Cardinality(Asking)
<1>4. W' \in Nat /\ W' <= W + 1 /\ A' \in Nat /\ A' <= A /\ W \in Nat /\ A \in Nat
  <2>1. PICK new : Care!Goes(r, new)
    BY DEF Care!PressWrite
  <2> QED BY <1>3, <2>1, WaitGoes, AskShrinks, WaitFinite
<1>5. CareOwed = W + A /\ CareOwed' = W' + A'
  BY DEF CareOwed
<1>6. CareOwed' <= CareOwed + 1
  BY <1>4, <1>5
<1>7. careBudget'.haps = careBudget.haps /\ Len(tickets') = Len(tickets) /\ Len(letters') = Len(letters)
  BY <1>1, CareSpend DEF Care!Press, Care!PressWrite
<1>8. CASE op \in carePage[s].again /\ ~(op = "send" /\ carePage[s].sent)
  <2>1. careWishes' = careWishes /\ echoes' = echoes
    BY <1>1, <1>8 DEF Care!Meant
  <2>2. op \notin carePage[s].busy /\ carePage[s].at = Care!PageOf(op) /\ CarePageOK(carePage[s], CareSizes)
    BY <1>1 DEF Care!Press, Care!Ready, Care!Offered, CareTyped, CarePagesTyped
  <2>3. Retries(carePage[s])
    BY <1>1, <1>8, <2>2 DEF Retries
  <2>4. ~Retries(carePage'[s])
    <3> SUFFICES ASSUME NEW o \in MakingOps, o \in carePage'[s].again, o \notin carePage'[s].busy PROVE FALSE
      BY DEF Retries
    <3>1. o \in carePage[s].again /\ o # op
      BY <1>2
    <3>2. Care!PageOf(o) = carePage[s].at
      BY <2>2, <3>1 DEF CarePageOK
    <3> QED BY <1>1, <1>8, <2>2, <3>1, <3>2, RetriesOwn
  <2>5. A' + 1 <= A
    BY <1>3, <2>3, <2>4, AskDrops
  <2>6. CareOwed' <= CareOwed
    BY <1>4, <1>5, <2>5
  <2>7. careBudget'.haps >= careBudget.haps
    BY <1>7, CareSums
  <2> QED BY <1>7, <2>1, <2>6, <2>7, AskedQuiet
<1>9. CASE ~(op \in carePage[s].again /\ ~(op = "send" /\ carePage[s].sent))
  <2>1. \/ careWishes' = careWishes + 1 /\ echoes' = echoes
        \/ careWishes' = careWishes /\ echoes' = echoes + 1
    BY <1>1, <1>9 DEF Care!Meant
  <2> QED BY <1>6, <1>7, <2>1, AskedPaid
<1> QED BY <1>8, <1>9

\* a request without a page, or one whose page hears nothing yet, goes on
LEMMA GoesAsked == ASSUME CareTyped, CareTyped', AskedInv, NEW r \in Reqs, NEW new, Care!Goes(r, new),
    new.op \in MakingOps => careReq[r].op \in MakingOps, carePage' = carePage, UNCHANGED <<tickets, letters, careWishes, echoes>>,
    careBudget'.haps = careBudget.haps
  PROVE AskedInv'
<1>1. CareOwed' <= CareOwed
  BY CareGoesOwes
<1>2. careBudget'.haps >= careBudget.haps
  BY CareSums
<1>3. Len(tickets') = Len(tickets) /\ Len(letters') = Len(letters)
  OBVIOUS
<1> QED BY <1>1, <1>2, <1>3, AskedQuiet

\* a request ends that made nothing now
LEMMA EndAsked == ASSUME CareTyped, CareTyped', AskedInv, NEW r \in Reqs, NEW ok \in BOOLEAN, NEW made, Care!Ends(r, ok, made),
    Len(tickets') = Len(tickets), Len(letters') = Len(letters), UNCHANGED <<careWishes, echoes>>, careBudget'.haps >= careBudget.haps
  PROVE AskedInv'
<1>1. CareOwed' <= CareOwed
  BY CareEndOwes
<1> QED BY <1>1, AskedQuiet

\* a request ends with the ticket or the letter it made
LEMMA MadeAsked == ASSUME CareTyped, CareTyped', AskedInv, NEW r \in Reqs, NEW made, Care!Ends(r, TRUE, made), careReq[r].op \in MakingOps,
    \/ Len(tickets') = Len(tickets) + 1 /\ Len(letters') = Len(letters)
    \/ Len(tickets') = Len(tickets) /\ Len(letters') = Len(letters) + 1,
    UNCHANGED <<careWishes, echoes, careBudget>>
  PROVE AskedInv'
<1>1. PICK c \in BOOLEAN : c = TRUE
  OBVIOUS
<1>2. Care!Ends(r, c, made)
  BY <1>1
<1>3. CareOwed' + 1 <= CareOwed
  BY <1>1, <1>2, CareEndOwes
<1> QED BY <1>3, AskedMade

\* nothing is requested or answered
LEMMA StandsAsked == ASSUME CareTyped, CareTyped', AskedInv, careReq' = careReq, carePage' = carePage,
    UNCHANGED <<tickets, letters, careWishes, echoes>>, careBudget'.haps = careBudget.haps
  PROVE AskedInv'
<1>1. CareOwed' <= CareOwed
  BY CareQuietOwes
<1>2. careBudget'.haps >= careBudget.haps
  BY CareSums
<1>3. Len(tickets') = Len(tickets) /\ Len(letters') = Len(letters)
  OBVIOUS
<1> QED BY <1>1, <1>2, <1>3, AskedQuiet

LEMMA SubmitReadAsked == ASSUME CareTyped, CareTyped', AskedInv, NEW r \in Reqs, Care!SubmitRead(r) PROVE AskedInv'
<1>1. UNCHANGED <<tickets, letters, careWishes, echoes, careBudget>>
  BY DEF Care!SubmitRead, Care!past
<1>2. CASE lease
  <2>1. Care!Goes(r, [careReq[r] EXCEPT !.pc = "write"]) /\ carePage' = carePage
    BY <1>2 DEF Care!SubmitRead
  <2>2. [careReq[r] EXCEPT !.pc = "write"].op = careReq[r].op
    BY ReqAt DEF CareReqs
  <2>3. PICK new : Care!Goes(r, new) /\ new.op = careReq[r].op
    BY <2>1, <2>2
  <2> QED BY <1>1, <2>1, <2>3, GoesAsked
<1>3. CASE ~lease
  <2>1. Care!Ends(r, FALSE, {})
    BY <1>3 DEF Care!SubmitRead
  <2>2. PICK c \in BOOLEAN : Care!Ends(r, c, {})
    BY <2>1
  <2>3. careBudget'.haps >= careBudget.haps /\ Len(tickets') = Len(tickets) /\ Len(letters') = Len(letters)
    BY <1>1, CareSums
  <2> QED BY <1>1, <2>2, <2>3, EndAsked
<1> QED BY <1>2, <1>3

LEMMA SubmitWriteAsked == ASSUME CareTyped, CareTyped', AskedInv, NEW r \in Reqs, Care!SubmitWrite(r) PROVE AskedInv'
<1>1. Care!Ends(r, TRUE, Care!NewTicket) /\ careReq[r].op \in MakingOps /\ letters' = letters /\ UNCHANGED <<careWishes, echoes, careBudget>>
  BY DEF Care!SubmitWrite, Care!past, Care!At, MakingOps
<1>2. Len(tickets') = Len(tickets) + 1
  <2>1. tickets \in Seq(Ticket) /\ tickets' = Append(tickets, Care!NewTicket)
    BY DEF CareTyped, RowsTyped, Care!SubmitWrite
  <2> QED BY <2>1, NewTyped, SeqAdd
<1> QED BY <1>1, <1>2, MadeAsked

LEMMA CalledAsked == ASSUME CareTyped, CareTyped', AskedInv, Care!Called PROVE AskedInv'
<1>1. careReq' = careReq /\ carePage' = carePage /\ letters' = letters /\ careWishes' = careWishes + 1 /\ echoes' = echoes
  BY DEF Care!Called
<1>2. Len(tickets') = Len(tickets) + 1
  <2>1. tickets \in Seq(Ticket) /\ tickets' = Append(tickets, Care!NewTicket)
    BY DEF CareTyped, RowsTyped, Care!Called
  <2> QED BY <2>1, NewTyped, SeqAdd
<1>3. CareOwed' <= CareOwed
  BY <1>1, CareQuietOwes
<1>4. careBudget'.haps = careBudget.haps
  BY CareSpend DEF Care!Called
<1>5. Len(letters') = Len(letters)
  BY <1>1
<1> QED BY <1>1, <1>2, <1>3, <1>4, <1>5, AskedPaid

\* the rows of a table change in place
LEMMA RowSetAsked == ASSUME CareTyped, CareTyped', AskedInv, NEW r \in Reqs, Care!StatusWrite(r) \/ Care!ColumnWrite(r) \/ Care!MarkWrite(r)
  PROVE AskedInv'
<1>1. Care!Ends(r, TRUE, {}) /\ UNCHANGED <<careWishes, echoes, careBudget>> /\ DOMAIN tickets' = DOMAIN tickets /\ DOMAIN letters' = DOMAIN letters
  BY DEF Care!StatusWrite, Care!ColumnWrite, Care!MarkWrite, Care!past
<1>2. tickets \in Seq(Ticket) /\ tickets' \in Seq(Ticket) /\ letters \in Seq(Letter) /\ letters' \in Seq(Letter)
  BY DEF CareTyped, RowsTyped
<1>3. Len(tickets') = Len(tickets) /\ Len(letters') = Len(letters)
  BY <1>1, <1>2, LenKept
<1>4. PICK c \in BOOLEAN : Care!Ends(r, c, {})
  BY <1>1
<1>5. careBudget'.haps >= careBudget.haps
  BY <1>1, CareSums
<1> QED BY <1>1, <1>3, <1>4, <1>5, EndAsked

LEMMA LetterWriteAsked == ASSUME CareTyped, CareTyped', AskedInv, NEW r \in Reqs, Care!LetterWrite(r) PROVE AskedInv'
<1>1. PICK made \in Letter : Care!Ends(r, TRUE, made) /\ letters' = Append(letters, made)
  BY NewTyped DEF Care!LetterWrite
<1>2. careReq[r].op \in MakingOps /\ tickets' = tickets /\ UNCHANGED <<careWishes, echoes, careBudget>>
  BY DEF Care!LetterWrite, Care!past, MakingOps
<1>3. Len(letters') = Len(letters) + 1
  <2>1. letters \in Seq(Letter)
    BY DEF CareTyped, RowsTyped
  <2> QED BY <1>1, <2>1, SeqAdd
<1>4. Len(tickets') = Len(tickets)
  BY <1>2
<1> QED BY <1>1, <1>2, <1>3, <1>4, MadeAsked

\* the sending of a notice makes no ticket and no letter
LEMMA NoticeAsked == ASSUME CareTyped, CareTyped', AskedInv, NEW r \in Reqs,
    \/ Care!StatusRead(r) \/ Care!NoticeCheck(r) \/ Care!NoticeCreate(r) \/ (\E i \in 1..Len(notices) : Care!Resend(r, i))
    \/ Care!TextRead(r) \/ Care!TextCheck(r) \/ Care!TextUpload(r) \/ Care!TextSend(r) \/ Care!TextMark(r)
  PROVE AskedInv'
<1>1. carePage' = carePage /\ UNCHANGED <<tickets, letters, careWishes, echoes>>
  BY DEF Care!StatusRead, Care!NoticeCheck, Care!NoticeCreate, Care!Resend, Care!TextRead, Care!TextCheck, Care!TextUpload, Care!TextSend, Care!TextMark, Care!past
<1>2. careBudget'.haps = careBudget.haps
  <2>1. CASE Care!NoticeCheck(r) \/ \E i \in 1..Len(notices) : Care!Resend(r, i)
    BY <2>1, CareSpend DEF Care!NoticeCheck, Care!Resend
  <2>2. CASE Care!StatusRead(r) \/ Care!NoticeCreate(r) \/ Care!TextRead(r) \/ Care!TextCheck(r) \/ Care!TextUpload(r) \/ Care!TextSend(r) \/ Care!TextMark(r)
    BY <2>2 DEF Care!StatusRead, Care!NoticeCreate, Care!TextRead, Care!TextCheck, Care!TextUpload, Care!TextSend, Care!TextMark
  <2> QED BY <2>1, <2>2
<1>3. PICK new : Care!Goes(r, new) /\ (new.op \in MakingOps => careReq[r].op \in MakingOps)
  <2>0. \A x : [careReq[r] EXCEPT !.pc = x].op = careReq[r].op
    BY ReqAt DEF CareReqs
  <2>1. CASE Care!StatusRead(r)
    <3> DEFINE new == [careReq[r] EXCEPT !.pc = "write", !.seen = tickets[careReq[r].i].status]
    <3>1. Care!Goes(r, new)
      BY <2>1 DEF Care!StatusRead
    <3>2. new.op = careReq[r].op
      BY ReqAt DEF CareReqs
    <3> HIDE DEF new
    <3> QED BY <3>1, <3>2
  <2>2. CASE Care!NoticeCheck(r)
    <3>1. [Care!Idle EXCEPT !.op = "notice", !.pc = "create"].op = "notice"
      BY DEF Care!Idle
    <3> QED BY <2>2, <3>1 DEF Care!NoticeCheck, MakingOps
  <2>3. CASE Care!NoticeCreate(r)
    <3>1. [Care!Idle EXCEPT !.op = "text", !.pc = "read", !.i = Len(notices) + 1].op = "text"
      BY DEF Care!Idle
    <3> QED BY <2>3, <3>1 DEF Care!NoticeCreate, MakingOps
  <2>4. ASSUME NEW i \in 1..Len(notices), Care!Resend(r, i) PROVE \E new : Care!Goes(r, new) /\ (new.op \in MakingOps => careReq[r].op \in MakingOps)
    <3>1. [Care!Idle EXCEPT !.op = "text", !.pc = "read", !.i = i].op = "text"
      BY DEF Care!Idle
    <3> QED BY <2>4, <3>1 DEF Care!Resend, MakingOps
  <2>5. CASE Care!TextRead(r)
    <3> DEFINE new == [careReq[r] EXCEPT !.pc = "check", !.ver = notices[careReq[r].i].text]
    <3>1. Care!Goes(r, new)
      BY <2>5 DEF Care!TextRead
    <3>2. new.op = careReq[r].op
      BY ReqAt DEF CareReqs
    <3> HIDE DEF new
    <3> QED BY <3>1, <3>2
  <2>6. CASE Care!TextCheck(r) \/ Care!TextUpload(r) \/ Care!TextSend(r) \/ Care!TextMark(r)
    <3>1. Care!Idle.op \notin MakingOps
      BY DEF Care!Idle, MakingOps
    <3> QED BY <2>0, <2>6, <3>1 DEF Care!TextCheck, Care!TextUpload, Care!TextSend, Care!TextMark
  <2> QED BY <2>1, <2>2, <2>3, <2>4, <2>5, <2>6
<1> QED BY <1>1, <1>2, <1>3, GoesAsked

LEMMA CareDieAsked == ASSUME CareTyped, CareTyped', AskedInv, NEW r \in Reqs, Care!Die(r) PROVE AskedInv'
<1>1. Care!Ends(r, FALSE, {}) /\ UNCHANGED <<tickets, letters, careWishes, echoes>>
  BY DEF Care!Die, Care!past
<1>2. PICK c \in BOOLEAN : Care!Ends(r, c, {})
  BY <1>1
<1>3. careBudget'.haps >= careBudget.haps
  BY CareSpend, CareSums DEF Care!Die
<1>4. Len(tickets') = Len(tickets) /\ Len(letters') = Len(letters)
  BY <1>1
<1> QED BY <1>1, <1>2, <1>3, <1>4, EndAsked

\* a page that hears of an error may ask to try again, while the request goes on
LEMMA CareAnswerLostAsked == ASSUME CareTyped, CareTyped', AskedInv, NEW r \in Reqs, Care!AnswerLost(r) PROVE AskedInv'
<1>1. UNCHANGED <<tickets, letters, careWishes, echoes>> /\ carePage' = Care!Heard(careReq[r], FALSE, {}) /\ Care!Spend("haps")
  BY DEF Care!AnswerLost, Care!past
<1>2. PICK new : Care!Goes(r, new) /\ new.op = careReq[r].op
  <2>1. Care!Goes(r, [careReq[r] EXCEPT !.scr = Care!Nobody]) /\ [careReq[r] EXCEPT !.scr = Care!Nobody].op = careReq[r].op
    BY ReqAt DEF Care!AnswerLost, CareReqs
  <2> QED BY <2>1
<1> DEFINE W == Cardinality(Waiting)
           A == Cardinality(Asking)
<1>3. W' \in Nat /\ W' <= W
  BY <1>2, WaitGoes
<1>4. A' \in Nat /\ A' <= A + 1
  <2>1. PICK c \in BOOLEAN : carePage' = Care!Heard(careReq[r], c, {})
    BY <1>1
  <2>2. Linked(careReq[r], carePage) /\ (careReq[r].scr # Care!Nobody => careReq[r].op \in PageOps)
    BY ReqAt, PageSends
  <2> QED BY <2>1, <2>2, CareHeardAsks
<1>5. W \in Nat /\ A \in Nat
  BY WaitFinite
<1>6. CareOwed = W + A /\ CareOwed' = W' + A'
  BY DEF CareOwed
<1>7. CareOwed' <= CareOwed + 1
  BY <1>3, <1>4, <1>5, <1>6
<1>8. careBudget'.haps = careBudget.haps + 1
  BY <1>1, CareSpend
<1>9. Len(tickets') = Len(tickets) /\ Len(letters') = Len(letters) /\ careWishes' = careWishes /\ echoes' = echoes
  BY <1>1
<1> HIDE DEF W, A
<1> QED BY <1>7, <1>8, <1>9, AskedPaid

LEMMA CareStandsAsked == ASSUME CareTyped, CareTyped', AskedInv,
    \/ \E i \in 1..Len(notices) : Care!Retext(i) \/ Care!Serve(i)
    \/ \E k \in 1..Len(texts) : Care!Fetch(k)
    \/ Care!Stop \/ Care!Start \/ Care!RentPaid \/ Care!LeaseEnds
  PROVE AskedInv'
<1>1. careReq' = careReq /\ carePage' = carePage /\ UNCHANGED <<tickets, letters, careWishes, echoes>>
  BY DEF Care!Retext, Care!Serve, Care!Fetch, Care!Stop, Care!Start, Care!RentPaid, Care!LeaseEnds, Care!past
<1>2. careBudget'.haps = careBudget.haps
  <2>1. careBudget' = careBudget \/ Care!Spend("edits")
    BY DEF Care!Retext, Care!Serve, Care!Fetch, Care!Stop, Care!Start, Care!RentPaid, Care!LeaseEnds
  <2> QED BY <2>1, CareSpend
<1> QED BY <1>1, <1>2, StandsAsked

LEMMA CareStepAsked == ASSUME CareTyped, AskedInv, Care!Next PROVE AskedInv'
<1>0. CareTyped'
  BY CareStepTyped
<1>1. notices \in Seq(Notice) /\ texts \in Seq(Text)
  BY DEF CareTyped, RowsTyped, TextsTyped
<1>2. DOMAIN notices = 1..Len(notices) /\ DOMAIN texts = 1..Len(texts)
  BY <1>1
<1>3. ASSUME NEW s \in Care!Screens, Care!PageStep(s) PROVE AskedInv'
  <2>1. CASE \E at \in Care!DeskPages \cup Care!TabPages : Care!Visit(s, at)
    BY <1>0, <2>1, VisitAsked
  <2>2. CASE Care!Load(s) \/ Care!LoadFails(s) \/ Care!ModalCloses(s)
    BY <1>0, <2>2, PageAsked
  <2>3. ASSUME NEW r \in Reqs, \/ Care!PressStatus(s, r) \/ Care!PressColumn(s, r, "notes") \/ Care!PressColumn(s, r, "prio")
                               \/ Care!Expand(s, r) PROVE AskedInv'
    BY <1>0, <2>3, PressAsked, ExpandAsked
  <2>4. ASSUME NEW r \in Reqs, NEW op \in {"send", "submit", "reply"}, Care!PressWrite(s, r, op) PROVE AskedInv'
    BY <1>0, <2>4, PressWriteAsked
  <2> QED BY <1>3, <2>1, <2>2, <2>3, <2>4 DEF Care!PageStep
<1>4. ASSUME NEW r \in Reqs, Care!ServerStep(r) PROVE AskedInv'
  BY <1>0, <1>2, <1>4, SubmitReadAsked, SubmitWriteAsked, RowSetAsked, LetterWriteAsked, NoticeAsked DEF Care!ServerStep
<1> QED BY <1>0, <1>2, <1>3, <1>4, CareAnswerLostAsked, CareDieAsked, CareStandsAsked, CalledAsked DEF Care!Next

-----------------------------------------------------------------------------
(* A request that is done has its stamp                                    *)

Rewrites(q) == q.op = "status" /\ q.pc = "write"
Stamped(i) ==
  /\ tickets[i].resolved => tickets[i].status \in Care!Done
  /\ tickets[i].status \in Care!Done /\ i \notin mixed => tickets[i].resolved
\* what a status update has read is still so, unless another one overlaps it
ReadIsSo(q) == Rewrites(q) /\ q.i \notin mixed => q.seen = tickets[q.i].status
OneRewrites(q1, q2) == Rewrites(q1) /\ Rewrites(q2) /\ q1.i = q2.i => q1.i \in mixed
ResolvedInv ==
  /\ \A i \in 1..Len(tickets) : Stamped(i)
  /\ \A r \in Reqs : ReadIsSo(careReq[r])
  /\ \A r \in Reqs : \A q \in Reqs \ {r} : OneRewrites(careReq[r], careReq[q])

\* status updates under way, apart from those that end
RewritesStand ==
  \A x \in Reqs : Rewrites(careReq'[x]) => Rewrites(careReq[x]) /\ careReq'[x].i = careReq[x].i /\ careReq'[x].seen = careReq[x].seen
\* statuses and stamps of the tickets there were; new tickets are open
StampsStand ==
  /\ \A i \in 1..Len(tickets) : tickets'[i].status = tickets[i].status /\ tickets'[i].resolved = tickets[i].resolved
  /\ \A i \in 1..Len(tickets') : i \notin 1..Len(tickets) => tickets'[i] = Care!NewTicket

LEMMA ResolvedStays == ASSUME CareTyped, ResolvedInv, RewritesStand, StampsStand, mixed' = mixed PROVE ResolvedInv'
<1>0. \A x \in Reqs : Rewrites(careReq[x]) => careReq[x].i \in 1..Len(tickets)
  BY ReqAt DEF Rewrites, CareTurn, CareSizes
<1>1. ASSUME NEW i \in 1..Len(tickets') PROVE Stamped(i)'
  <2>1. CASE i \in 1..Len(tickets)
    BY <2>1 DEF ResolvedInv, Stamped, StampsStand
  <2>2. CASE i \notin 1..Len(tickets)
    <3>1. tickets'[i] = Care!NewTicket
      BY <2>2 DEF StampsStand
    <3>2. Care!NewTicket.resolved = FALSE /\ Care!NewTicket.status \notin Care!Done
      BY DEF Care!NewTicket, Care!Done
    <3> QED BY <3>1, <3>2 DEF Stamped
  <2> QED BY <2>1, <2>2
<1>2. ASSUME NEW x \in Reqs PROVE ReadIsSo(careReq[x])'
  <2> SUFFICES ASSUME Rewrites(careReq'[x]), careReq'[x].i \notin mixed PROVE careReq'[x].seen = tickets'[careReq'[x].i].status
    BY DEF ReadIsSo, Rewrites
  <2>1. Rewrites(careReq[x]) /\ careReq'[x].i = careReq[x].i /\ careReq'[x].seen = careReq[x].seen
    BY DEF RewritesStand
  <2>2. careReq[x].seen = tickets[careReq[x].i].status
    BY <2>1 DEF ResolvedInv, ReadIsSo
  <2> QED BY <1>0, <2>1, <2>2 DEF StampsStand
<1>3. ASSUME NEW x \in Reqs, NEW y \in Reqs \ {x} PROVE OneRewrites(careReq[x], careReq[y])'
  <2> SUFFICES ASSUME Rewrites(careReq'[x]), Rewrites(careReq'[y]), careReq'[x].i = careReq'[y].i PROVE careReq'[x].i \in mixed
    BY DEF OneRewrites, Rewrites
  <2>1. Rewrites(careReq[x]) /\ careReq'[x].i = careReq[x].i /\ Rewrites(careReq[y]) /\ careReq'[y].i = careReq[y].i
    BY DEF RewritesStand
  <2> QED BY <2>1 DEF ResolvedInv, OneRewrites
<1> QED BY <1>1, <1>2, <1>3 DEF ResolvedInv

LEMMA GoesStand == ASSUME CareTyped, NEW r \in Reqs, NEW new, Care!Goes(r, new), ~Rewrites(new) PROVE RewritesStand
<1>1. \A x \in Reqs : careReq'[x] = IF x = r THEN new ELSE careReq[x]
  BY DEF Care!Goes, CareTyped, CareReqsTyped
<1> QED BY <1>1 DEF RewritesStand

LEMMA StampsStay == ASSUME tickets' = tickets PROVE StampsStand
BY DEF StampsStand

LEMMA IdleRewrites == ~Rewrites(Care!Idle)
BY DEF Rewrites, Care!Idle

\* pages and their presses; a press of "Update" has read no ticket yet
LEMMA PageResolved == ASSUME CareTyped, ResolvedInv, NEW s \in Care!Screens, Care!PageStep(s) PROVE ResolvedInv'
<1>1. tickets' = tickets /\ mixed' = mixed
  BY DEF Care!PageStep, Care!Visit, Care!Load, Care!LoadFails, Care!ModalCloses, Care!PressStatus, Care!PressColumn, Care!Expand, Care!PressWrite, Care!past
<1>2. RewritesStand
  <2>1. ASSUME NEW at \in Care!DeskPages \cup Care!TabPages, Care!Visit(s, at) PROVE RewritesStand
    <3>1. ASSUME NEW x \in Reqs PROVE careReq'[x].op = careReq[x].op /\ careReq'[x].pc = careReq[x].pc /\ careReq'[x].i = careReq[x].i /\ careReq'[x].seen = careReq[x].seen
      BY <2>1, ReqAt DEF Care!Visit, CareReqs
    <3> QED BY <3>1 DEF RewritesStand, Rewrites
  <2>2. CASE Care!Load(s) \/ Care!LoadFails(s) \/ Care!ModalCloses(s)
    <3>1. careReq' = careReq
      BY <2>2 DEF Care!Load, Care!LoadFails, Care!ModalCloses
    <3> QED BY <3>1 DEF RewritesStand
  <2>3. ASSUME NEW r \in Reqs, Care!PressStatus(s, r) PROVE RewritesStand
    <3>1. PICK i, v : Care!Goes(r, [Care!Idle EXCEPT !.op = "status", !.pc = "read", !.scr = s, !.i = i, !.val = v])
      BY <2>3 DEF Care!PressStatus
    <3>2. [Care!Idle EXCEPT !.op = "status", !.pc = "read", !.scr = s, !.i = i, !.val = v].pc = "read"
      BY DEF Care!Idle
    <3>3. PICK new : Care!Goes(r, new) /\ new.pc = "read"
      BY <3>1, <3>2
    <3> QED BY <3>3, GoesStand DEF Rewrites
  <2>4. ASSUME NEW r \in Reqs, NEW col \in {"notes", "prio"}, Care!PressColumn(s, r, col) PROVE RewritesStand
    <3>1. PICK i, v : Care!Goes(r, [Care!Idle EXCEPT !.op = col, !.pc = "write", !.scr = s, !.i = i, !.val = v])
      BY <2>4 DEF Care!PressColumn
    <3>2. [Care!Idle EXCEPT !.op = col, !.pc = "write", !.scr = s, !.i = i, !.val = v].op = col
      BY DEF Care!Idle
    <3>3. PICK new : Care!Goes(r, new) /\ new.op = col
      BY <3>1, <3>2
    <3> QED BY <3>3, GoesStand DEF Rewrites
  <2>5. ASSUME NEW r \in Reqs, Care!Expand(s, r) PROVE RewritesStand
    <3>1. PICK i : Care!Goes(r, [Care!Idle EXCEPT !.op = "mark", !.pc = "write", !.scr = s, !.i = i])
      BY <2>5 DEF Care!Expand
    <3>2. [Care!Idle EXCEPT !.op = "mark", !.pc = "write", !.scr = s, !.i = i].op = "mark"
      BY DEF Care!Idle
    <3>3. PICK new : Care!Goes(r, new) /\ new.op = "mark"
      BY <3>1, <3>2
    <3> QED BY <3>3, GoesStand DEF Rewrites
  <2>6. ASSUME NEW r \in Reqs, NEW op \in {"send", "submit", "reply"}, Care!PressWrite(s, r, op) PROVE RewritesStand
    <3> DEFINE new == [Care!Idle EXCEPT !.op = op, !.pc = IF op = "submit" THEN "read" ELSE "write", !.scr = s]
    <3>1. Care!Goes(r, new)
      BY <2>6 DEF Care!PressWrite
    <3>2. new.op = op
      BY DEF Care!Idle
    <3> HIDE DEF new
    <3> QED BY <3>1, <3>2, GoesStand DEF Rewrites
  <2> QED BY <2>1, <2>2, <2>3, <2>4, <2>5, <2>6 DEF Care!PageStep
<1> QED BY <1>1, <1>2, StampsStay, ResolvedStays

LEMMA NewStamps == ASSUME CareTyped, tickets' = Append(tickets, Care!NewTicket) PROVE StampsStand
<1>1. tickets \in Seq(Ticket) /\ Care!NewTicket \in Ticket
  BY NewTyped DEF CareTyped, RowsTyped
<1>2. Len(tickets') = Len(tickets) + 1 /\ Len(tickets) \in Nat /\ tickets'[Len(tickets) + 1] = Care!NewTicket
      /\ \A k \in 1..Len(tickets) : tickets'[k] = tickets[k]
  BY <1>1, SeqAdd
<1> QED BY <1>2 DEF StampsStand

LEMMA ColumnStamps == ASSUME CareTyped, NEW r \in Reqs, Care!ColumnWrite(r) PROVE StampsStand
<1> DEFINE i == careReq[r].i
           v == careReq[r].val
           row == [tickets[i] EXCEPT ![careReq[r].op] = v]
<1>1. CareTurn(careReq[r], CareSizes) /\ careReq[r].op \in {"notes", "prio"}
  BY ReqAt DEF Care!ColumnWrite
<1>2. i \in 1..Len(tickets) /\ v \in Columns
  BY <1>1 DEF CareTurn, CareSizes
<1>3. tickets[i] \in Ticket
  BY <1>2, TicketAt
<1>4. row \in Ticket /\ row.status = tickets[i].status /\ row.resolved = tickets[i].resolved
  BY <1>1, <1>2, <1>3 DEF Ticket
<1>5. tickets' = [tickets EXCEPT ![i] = row]
  BY DEF Care!ColumnWrite
<1>6. tickets \in Seq(Ticket)
  BY DEF CareTyped, RowsTyped
<1> HIDE DEF row, i
<1>7. Len(tickets') = Len(tickets) /\ \A k \in 1..Len(tickets) : tickets'[k] = IF k = i THEN row ELSE tickets[k]
  BY <1>4, <1>5, <1>6, SeqPut
<1> QED BY <1>4, <1>7 DEF StampsStand

LEMMA StatusReadResolved == ASSUME CareTyped, ResolvedInv, NEW r \in Reqs, Care!StatusRead(r) PROVE ResolvedInv'
<1> DEFINE j == careReq[r].i
           new == [careReq[r] EXCEPT !.pc = "write", !.seen = tickets[careReq[r].i].status]
<1>1. Care!Goes(r, new) /\ tickets' = tickets /\ careReq[r].pc = "read"
  BY DEF Care!StatusRead, Care!At
<1>2. mixed' = IF \E q \in Reqs : Rewrites(careReq[q]) /\ careReq[q].i = j THEN mixed \cup {j} ELSE mixed
  BY DEF Care!StatusRead, Care!At, Rewrites
<1>3. new.i = j /\ new.seen = tickets[j].status
  BY ReqAt DEF CareReqs
<1> HIDE DEF new, j
<1>4. \A x \in Reqs : careReq'[x] = IF x = r THEN new ELSE careReq[x]
  BY <1>1 DEF Care!Goes, CareTyped, CareReqsTyped
<1>5. mixed \subseteq mixed' /\ ~Rewrites(careReq[r])
  BY <1>1, <1>2 DEF Rewrites
<1>6. ASSUME NEW i \in 1..Len(tickets) PROVE Stamped(i)'
  BY <1>1, <1>5 DEF Stamped, ResolvedInv
<1>7. ASSUME NEW x \in Reqs PROVE ReadIsSo(careReq[x])'
  BY <1>1, <1>3, <1>4, <1>5 DEF ResolvedInv, ReadIsSo, Rewrites
<1>8. ASSUME NEW x \in Reqs, NEW y \in Reqs \ {x} PROVE OneRewrites(careReq[x], careReq[y])'
  <2> SUFFICES ASSUME Rewrites(careReq'[x]), Rewrites(careReq'[y]), careReq'[x].i = careReq'[y].i PROVE careReq'[x].i \in mixed'
    BY DEF OneRewrites, Rewrites
  <2>1. CASE x = r
    <3>1. Rewrites(careReq[y]) /\ careReq[y].i = j /\ careReq'[x].i = j
      BY <1>3, <1>4, <2>1
    <3> QED BY <1>2, <3>1
  <2>2. CASE y = r
    <3>1. Rewrites(careReq[x]) /\ careReq[x].i = j /\ careReq'[x].i = j
      BY <1>3, <1>4, <2>2
    <3> QED BY <1>2, <3>1
  <2>3. CASE x # r /\ y # r
    BY <1>4, <1>5, <2>3 DEF ResolvedInv, OneRewrites
  <2> QED BY <2>1, <2>2, <2>3
<1> QED BY <1>1, <1>6, <1>7, <1>8 DEF ResolvedInv

LEMMA StatusWriteResolved == ASSUME CareTyped, ResolvedInv, NEW r \in Reqs, Care!StatusWrite(r) PROVE ResolvedInv'
<1> DEFINE j == careReq[r].i
           v == careReq[r].val
           row == [tickets[j] EXCEPT !.status = v, !.resolved = Care!Resolved(tickets[j], careReq[r].seen, v)]
<1>1. CareTurn(careReq[r], CareSizes) /\ Rewrites(careReq[r]) /\ careReq[r].op = "status" /\ careReq[r].seen \in Care!Open \cup Care!Done
  BY ReqAt DEF Care!StatusWrite, Care!At, CareReqs, Rewrites
<1>2. j \in 1..Len(tickets) /\ v \in Care!Open \cup Care!Done
  BY <1>1 DEF CareTurn, CareSizes
<1>3. tickets[j] \in Ticket
  BY <1>2, TicketAt
<1>4. Care!Resolved(tickets[j], careReq[r].seen, v) \in BOOLEAN
  BY <1>1, <1>2, <1>3 DEF Care!Resolved, Ticket
<1>5. row \in Ticket /\ row.status = v /\ row.resolved = Care!Resolved(tickets[j], careReq[r].seen, v)
  BY <1>2, <1>3, <1>4 DEF Ticket
<1>6. tickets' = [tickets EXCEPT ![j] = row]
  BY <1>3 DEF Care!StatusWrite, Ticket
<1>7. mixed' = mixed /\ Care!Goes(r, Care!Idle)
  BY DEF Care!StatusWrite, Care!Ends, Care!past
<1>8. row.resolved => v \in Care!Done
  BY <1>2, <1>5 DEF Care!Resolved, Care!Open, Care!Done
<1>9. v \in Care!Done /\ j \notin mixed => row.resolved
  <2> SUFFICES ASSUME v \in Care!Done, j \notin mixed PROVE row.resolved
    OBVIOUS
  <2>1. CASE careReq[r].seen \in Care!Open
    BY <1>5, <2>1 DEF Care!Resolved, Care!Open, Care!Done
  <2>2. CASE careReq[r].seen \in Care!Done
    <3>1. careReq[r].seen = tickets[j].status
      BY <1>1 DEF ResolvedInv, ReadIsSo
    <3>2. tickets[j].resolved
      BY <1>2, <2>2, <3>1 DEF ResolvedInv, Stamped
    <3> QED BY <1>5, <2>2, <3>2 DEF Care!Resolved, Care!Open, Care!Done
  <2> QED BY <1>1, <2>1, <2>2
<1> HIDE DEF row, v
<1>10. Len(tickets') = Len(tickets) /\ \A k \in 1..Len(tickets) : tickets'[k] = IF k = j THEN row ELSE tickets[k]
  <2>1. tickets \in Seq(Ticket)
    BY DEF CareTyped, RowsTyped
  <2> HIDE DEF j
  <2> QED BY <1>5, <1>6, <2>1, SeqPut
<1>11. \A x \in Reqs : careReq'[x] = IF x = r THEN Care!Idle ELSE careReq[x]
  BY <1>7 DEF Care!Goes, CareTyped, CareReqsTyped
<1>12. ASSUME NEW i \in 1..Len(tickets') PROVE Stamped(i)'
  <2>1. CASE i = j
    BY <1>5, <1>7, <1>8, <1>9, <1>10, <2>1 DEF Stamped
  <2>2. CASE i # j
    BY <1>7, <1>10, <2>2 DEF Stamped, ResolvedInv
  <2> QED BY <2>1, <2>2
<1>13. ASSUME NEW x \in Reqs PROVE ReadIsSo(careReq[x])'
  <2> SUFFICES ASSUME Rewrites(careReq'[x]), careReq'[x].i \notin mixed PROVE careReq'[x].seen = tickets'[careReq'[x].i].status
    BY <1>7 DEF ReadIsSo, Rewrites
  <2>1. x # r /\ careReq'[x] = careReq[x]
    BY <1>11, IdleRewrites
  <2>2. careReq[x].i # j
    BY <1>1, <2>1 DEF ResolvedInv, OneRewrites
  <2>3. careReq[x].i \in 1..Len(tickets)
    BY <2>1, ReqAt DEF Rewrites, CareTurn, CareSizes
  <2> QED BY <1>10, <2>1, <2>2, <2>3 DEF ResolvedInv, ReadIsSo
<1>14. ASSUME NEW x \in Reqs, NEW y \in Reqs \ {x} PROVE OneRewrites(careReq[x], careReq[y])'
  BY <1>7, <1>11, IdleRewrites DEF ResolvedInv, OneRewrites, Rewrites
<1> QED BY <1>12, <1>13, <1>14 DEF ResolvedInv

LEMMA CareStepResolved == ASSUME CareTyped, ResolvedInv, Care!Next PROVE ResolvedInv'
<1>1. ASSUME NEW r \in Reqs, Care!SubmitRead(r) PROVE ResolvedInv'
  <2>1. tickets' = tickets /\ mixed' = mixed /\ careReq[r].op = "submit"
    BY <1>1 DEF Care!SubmitRead, Care!past, Care!At
  <2>2. [careReq[r] EXCEPT !.pc = "write"].op = careReq[r].op
    BY ReqAt DEF CareReqs
  <2>3. PICK new : Care!Goes(r, new) /\ ~Rewrites(new)
    BY <1>1, <2>1, <2>2, IdleRewrites DEF Care!SubmitRead, Care!Ends, Rewrites
  <2> QED BY <2>1, <2>3, GoesStand, StampsStay, ResolvedStays
<1>2. ASSUME NEW r \in Reqs, Care!SubmitWrite(r) PROVE ResolvedInv'
  BY <1>2, NewStamps, GoesStand, IdleRewrites, ResolvedStays DEF Care!SubmitWrite, Care!Ends, Care!past
<1>3. ASSUME NEW r \in Reqs, Care!ColumnWrite(r) PROVE ResolvedInv'
  BY <1>3, ColumnStamps, GoesStand, IdleRewrites, ResolvedStays DEF Care!ColumnWrite, Care!Ends, Care!past
<1>4. ASSUME NEW r \in Reqs, Care!LetterWrite(r) \/ Care!MarkWrite(r) \/ Care!Die(r) PROVE ResolvedInv'
  BY <1>4, StampsStay, GoesStand, IdleRewrites, ResolvedStays DEF Care!LetterWrite, Care!MarkWrite, Care!Die, Care!Ends, Care!past
<1>5. ASSUME NEW r \in Reqs, Care!NoticeCheck(r) \/ Care!NoticeCreate(r) \/ (\E i \in DOMAIN notices : Care!Resend(r, i)) PROVE ResolvedInv'
  <2>1. tickets' = tickets /\ mixed' = mixed
    BY <1>5 DEF Care!NoticeCheck, Care!NoticeCreate, Care!Resend, Care!past
  <2>2. /\ \A i : [Care!Idle EXCEPT !.op = "text", !.pc = "read", !.i = i].op = "text"
        /\ [Care!Idle EXCEPT !.op = "notice", !.pc = "create"].op = "notice"
    BY DEF Care!Idle
  <2>3. PICK new : Care!Goes(r, new) /\ ~Rewrites(new)
    BY <1>5, <2>2 DEF Care!NoticeCheck, Care!NoticeCreate, Care!Resend, Rewrites
  <2> QED BY <2>1, <2>3, GoesStand, StampsStay, ResolvedStays
<1>6. ASSUME NEW r \in Reqs, Care!TextRead(r) PROVE ResolvedInv'
  <2> DEFINE new == [careReq[r] EXCEPT !.pc = "check", !.ver = notices[careReq[r].i].text]
  <2>1. tickets' = tickets /\ mixed' = mixed /\ Care!Goes(r, new) /\ careReq[r].op = "text"
    BY <1>6 DEF Care!TextRead, Care!At
  <2>2. new.op = careReq[r].op
    BY ReqAt DEF CareReqs
  <2> HIDE DEF new
  <2> QED BY <2>1, <2>2, GoesStand, StampsStay, ResolvedStays DEF Rewrites
<1>7. ASSUME NEW r \in Reqs, Care!TextCheck(r) \/ Care!TextUpload(r) \/ Care!TextSend(r) \/ Care!TextMark(r) PROVE ResolvedInv'
  <2>1. tickets' = tickets /\ mixed' = mixed /\ careReq[r].op = "text"
    BY <1>7 DEF Care!TextCheck, Care!TextUpload, Care!TextSend, Care!TextMark, Care!At, Care!past
  <2>2. \A x : [careReq[r] EXCEPT !.pc = x].op = careReq[r].op
    BY ReqAt DEF CareReqs
  <2>3. PICK new : Care!Goes(r, new) /\ ~Rewrites(new)
    BY <1>7, <2>1, <2>2, IdleRewrites DEF Care!TextCheck, Care!TextUpload, Care!TextSend, Care!TextMark, Rewrites
  <2> QED BY <2>1, <2>3, GoesStand, StampsStay, ResolvedStays
<1>8. ASSUME NEW r \in Reqs, Care!AnswerLost(r) PROVE ResolvedInv'
  <2>1. tickets' = tickets /\ mixed' = mixed /\ Care!Goes(r, [careReq[r] EXCEPT !.scr = Care!Nobody])
    BY <1>8 DEF Care!AnswerLost, Care!past
  <2>2. ASSUME NEW x \in Reqs PROVE careReq'[x].op = careReq[x].op /\ careReq'[x].pc = careReq[x].pc /\ careReq'[x].i = careReq[x].i /\ careReq'[x].seen = careReq[x].seen
    BY <2>1, ReqAt DEF Care!Goes, CareReqs, CareTyped, CareReqsTyped
  <2>3. RewritesStand
    BY <2>2 DEF RewritesStand, Rewrites
  <2> QED BY <2>1, <2>3, StampsStay, ResolvedStays
<1>9. CASE \/ \E i \in DOMAIN notices : Care!Retext(i) \/ Care!Serve(i)
           \/ \E k \in DOMAIN texts : Care!Fetch(k)
           \/ Care!Stop \/ Care!Start \/ Care!RentPaid \/ Care!LeaseEnds
  <2>1. tickets' = tickets /\ mixed' = mixed /\ careReq' = careReq
    BY <1>9 DEF Care!Retext, Care!Serve, Care!Fetch, Care!Stop, Care!Start, Care!RentPaid, Care!LeaseEnds, Care!past
  <2>3. RewritesStand
    BY <2>1 DEF RewritesStand
  <2> QED BY <2>1, <2>3, StampsStay, ResolvedStays
<1>10. CASE Care!Called
  <2>1. mixed' = mixed /\ careReq' = careReq /\ tickets' = Append(tickets, Care!NewTicket)
    BY <1>10 DEF Care!Called
  <2>3. RewritesStand
    BY <2>1 DEF RewritesStand
  <2> QED BY <2>1, <2>3, NewStamps, ResolvedStays
<1>11. ASSUME NEW r \in Reqs, Care!ServerStep(r) PROVE ResolvedInv'
  BY <1>1, <1>2, <1>3, <1>4, <1>5, <1>6, <1>7, <1>11, StatusReadResolved, StatusWriteResolved DEF Care!ServerStep
<1> QED BY <1>4, <1>8, <1>9, <1>10, <1>11, PageResolved DEF Care!Next

LEMMA ResolvedTells == ASSUME CareTyped, ResolvedInv PROVE Care!ResolvedWhenDone
<1>1. DOMAIN tickets = 1..Len(tickets)
  BY DEF CareTyped, RowsTyped
<1> QED BY <1>1 DEF ResolvedInv, Stamped, Care!ResolvedWhenDone

-----------------------------------------------------------------------------
(* What the sendings of notices promise                                    *)

LateTexts == {k \in 1..Len(texts) : texts[k].late}
PastCheck == {r \in Reqs : careReq[r].op = "text" /\ careReq[r].pc \in {"upload", "send"}}
\* texts that went out after STOP, and sendings that still may
CaughtInv == Cardinality(LateTexts) + (IF opted THEN Cardinality(PastCheck) ELSE 0) <= caught

\* the letter at a notice's key is the one its sending has put there
TextFits(t) == t.i \notin crossed => t.ver <= stored[t.i] /\ (t.got # 0 => t.got >= t.ver)
SendingFits(q) ==
  PastRead(q) /\ q.i \notin crossed =>
    /\ q.pc \in {"check", "upload"} => stored[q.i] <= q.ver
    /\ q.pc = "send" => stored[q.i] = q.ver
OneSends(q1, q2) == PastRead(q1) /\ PastRead(q2) /\ q1.i = q2.i => q1.i \in crossed
LinkInv ==
  /\ \A k \in 1..Len(texts) : TextFits(texts[k])
  /\ \A r \in Reqs : SendingFits(careReq[r])
  /\ \A r \in Reqs : \A q \in Reqs \ {r} : OneSends(careReq[r], careReq[q])

\* each sending that is about to mark its notice stands for one text
Marks(q) == q.op = "text" /\ q.pc = "mark"
Loose(g) == {k \in 1..Len(texts) : ~notices[texts[k].i].sent /\ \A r \in Reqs : Marks(careReq[r]) => g[r] # k}
StandsFor(g) == \A r \in Reqs : Marks(careReq[r]) => g[r] \in 1..Len(texts) /\ texts[g[r]].i = careReq[r].i
MarkInv == \E g \in [Reqs -> Nat] : StandsFor(g) /\ Cardinality(Loose(g)) <= careBudget.haps

NoticeInv == CaughtInv /\ LinkInv /\ MarkInv

LEMMA TextAt == ASSUME CareTyped, NEW k \in 1..Len(texts)
  PROVE texts[k] \in Text /\ texts[k].i \in 1..Len(notices) /\ texts[k].ver \in Nat /\ texts[k].got \in Nat /\ texts[k].late \in BOOLEAN
<1>1. texts[k] \in Text /\ texts[k].i \in 1..Len(notices)
  BY DEF CareTyped, TextsTyped
<1> QED BY <1>1 DEF Text

LEMMA TextCounts == ASSUME CareTyped
  PROVE /\ Len(texts) \in Nat /\ IsFiniteSet(LateTexts) /\ IsFiniteSet(PastCheck) /\ \A g : IsFiniteSet(Loose(g))
        /\ Cardinality(LateTexts) \in Nat /\ Cardinality(PastCheck) \in Nat /\ \A g : Cardinality(Loose(g)) \in Nat
        /\ caught \in Nat /\ careBudget.haps \in Nat
<1>1. Len(texts) \in Nat
  BY DEF CareTyped, TextsTyped
<1>2. IsFiniteSet(1..Len(texts)) /\ LateTexts \subseteq 1..Len(texts) /\ PastCheck \subseteq Reqs
  BY <1>1, FS_Interval DEF LateTexts, PastCheck
<1>3. \A g : Loose(g) \subseteq 1..Len(texts)
  BY DEF Loose
<1>4. IsFiniteSet(LateTexts) /\ Cardinality(LateTexts) \in Nat
  BY <1>2, CardSame
<1>5. IsFiniteSet(PastCheck) /\ Cardinality(PastCheck) \in Nat
  BY <1>2, CareFinite, CardSame
<1>6. ASSUME NEW g PROVE IsFiniteSet(Loose(g)) /\ Cardinality(Loose(g)) \in Nat
  <2> DEFINE S == Loose(g)
  <2>1. S \subseteq 1..Len(texts)
    BY <1>3
  <2> HIDE DEF S
  <2>2. IsFiniteSet(S) /\ Cardinality(S) \in Nat
    BY <1>2, <2>1, CardSame
  <2> QED BY <2>2 DEF S
<1> QED BY <1>1, <1>4, <1>5, <1>6 DEF CareTyped, CareRest, CareBudgets

\* the sendings that wait for no step of this kind stay what they are
SendingsStand ==
  \A x \in Reqs : /\ PastRead(careReq'[x]) <=> PastRead(careReq[x])
                  /\ PastRead(careReq[x]) => careReq'[x].pc = careReq[x].pc /\ careReq'[x].i = careReq[x].i /\ careReq'[x].ver = careReq[x].ver
CareApart ==
  /\ SendingsStand /\ UNCHANGED <<texts, caught, crossed>>
  /\ opted' => opted
  /\ \A i \in 1..Len(notices) : stored'[i] = stored[i] /\ (notices[i].sent => notices'[i].sent)
  /\ careBudget'.haps >= careBudget.haps

LEMMA StandsMarks == ASSUME SendingsStand
  PROVE \A x \in Reqs : /\ (Marks(careReq'[x]) <=> Marks(careReq[x])) /\ (Marks(careReq[x]) => careReq'[x].i = careReq[x].i)
                        /\ (careReq'[x].op = "text" /\ careReq'[x].pc \in {"upload", "send"} <=> careReq[x].op = "text" /\ careReq[x].pc \in {"upload", "send"})
BY DEF SendingsStand, PastRead, Marks

LEMMA ApartCaught == ASSUME CareTyped, CaughtInv, CareApart PROVE CaughtInv'
<1>1. LateTexts' = LateTexts /\ PastCheck' = PastCheck /\ caught' = caught
  BY StandsMarks DEF CareApart, LateTexts, PastCheck
<1>2. Cardinality(LateTexts)' = Cardinality(LateTexts) /\ Cardinality(PastCheck)' = Cardinality(PastCheck)
  BY <1>1
<1>3. opted' => opted
  BY DEF CareApart
<1> QED BY <1>1, <1>2, <1>3, TextCounts DEF CaughtInv

LEMMA ApartLink == ASSUME CareTyped, LinkInv, CareApart PROVE LinkInv'
<1>1. texts' = texts /\ crossed' = crossed /\ \A i \in 1..Len(notices) : stored'[i] = stored[i]
  BY DEF CareApart
<1>2. ASSUME NEW k \in 1..Len(texts) PROVE TextFits(texts[k])'
  <2>1. TextFits(texts[k])
    BY DEF LinkInv
  <2>2. texts[k].i \in 1..Len(notices)
    BY TextAt
  <2>3. stored'[texts[k].i] = stored[texts[k].i]
    BY <1>1, <2>2
  <2> QED BY <1>1, <2>1, <2>3 DEF TextFits
<1>3. ASSUME NEW x \in Reqs PROVE SendingFits(careReq[x])'
  <2> SUFFICES ASSUME PastRead(careReq'[x]), careReq'[x].i \notin crossed
      PROVE /\ careReq'[x].pc \in {"check", "upload"} => stored'[careReq'[x].i] <= careReq'[x].ver
            /\ careReq'[x].pc = "send" => stored'[careReq'[x].i] = careReq'[x].ver
    BY <1>1 DEF SendingFits, PastRead
  <2>1. PastRead(careReq[x]) /\ careReq'[x].pc = careReq[x].pc /\ careReq'[x].i = careReq[x].i /\ careReq'[x].ver = careReq[x].ver
    BY DEF CareApart, SendingsStand
  <2>2. SendingFits(careReq[x]) /\ careReq[x].i \in 1..Len(notices)
    BY <2>1, TextReqAt DEF LinkInv, PastRead
  <2> QED BY <1>1, <2>1, <2>2 DEF SendingFits
<1>4. ASSUME NEW x \in Reqs, NEW y \in Reqs \ {x} PROVE OneSends(careReq[x], careReq[y])'
  <2> SUFFICES ASSUME PastRead(careReq'[x]), PastRead(careReq'[y]), careReq'[x].i = careReq'[y].i PROVE careReq'[x].i \in crossed
    BY <1>1 DEF OneSends, PastRead
  <2>1. PastRead(careReq[x]) /\ careReq'[x].i = careReq[x].i /\ PastRead(careReq[y]) /\ careReq'[y].i = careReq[y].i
    BY DEF CareApart, SendingsStand
  <2> QED BY <2>1 DEF LinkInv, OneSends
<1> QED BY <1>1, <1>2, <1>3, <1>4 DEF LinkInv

LEMMA ApartMark == ASSUME CareTyped, MarkInv, CareApart, careBudget'.haps \in Nat PROVE MarkInv'
<1>1. PICK g \in [Reqs -> Nat] : StandsFor(g) /\ Cardinality(Loose(g)) <= careBudget.haps
  BY DEF MarkInv
<1>2. texts' = texts /\ \A x \in Reqs : (Marks(careReq'[x]) <=> Marks(careReq[x])) /\ (Marks(careReq[x]) => careReq'[x].i = careReq[x].i)
  BY StandsMarks DEF CareApart
<1>3. StandsFor(g)'
  BY <1>1, <1>2 DEF StandsFor, Marks
<1>4. Loose(g)' \subseteq Loose(g)
  <2> SUFFICES ASSUME NEW k \in 1..Len(texts), ~notices'[texts[k].i].sent, \A r \in Reqs : Marks(careReq'[r]) => g[r] # k
      PROVE k \in Loose(g)
    BY <1>2 DEF Loose, Marks
  <2>1. texts[k].i \in 1..Len(notices)
    BY TextAt
  <2> QED BY <1>2, <2>1 DEF Loose, CareApart
<1>5. Cardinality(Loose(g)') <= Cardinality(Loose(g)) /\ Cardinality(Loose(g)') \in Nat
  <2> DEFINE S == Loose(g)
             T == Loose(g)'
  <2>1. IsFiniteSet(S) /\ T \subseteq S
    BY <1>4, TextCounts
  <2> HIDE DEF S, T
  <2>2. Cardinality(T) <= Cardinality(S) /\ Cardinality(T) \in Nat
    BY <2>1, CardSame
  <2> QED BY <2>2 DEF S, T
<1>6. Cardinality(Loose(g)') <= careBudget'.haps
  <2>1. careBudget'.haps >= careBudget.haps
    BY DEF CareApart
  <2> QED BY <1>1, <1>5, <2>1, TextCounts
<1> QED BY <1>3, <1>6 DEF MarkInv

LEMMA ApartNotices == ASSUME CareTyped, CareTyped', NoticeInv, CareApart PROVE NoticeInv'
<1>1. careBudget'.haps \in Nat
  BY CareSumsNext
<1> QED BY <1>1, ApartCaught, ApartLink, ApartMark DEF NoticeInv

-----------------------------------------------------------------------------

LEMMA GoesApart == ASSUME CareTyped, NEW r \in Reqs, NEW new, Care!Goes(r, new), ~PastRead(careReq[r]), ~PastRead(new) PROVE SendingsStand
<1>1. \A x \in Reqs : careReq'[x] = IF x = r THEN new ELSE careReq[x]
  BY DEF Care!Goes, CareTyped, CareReqsTyped
<1> QED BY <1>1 DEF SendingsStand

LEMMA StayApart == ASSUME careReq' = careReq PROVE SendingsStand
BY DEF SendingsStand

LEMMA IdleApart == ASSUME CareTyped, NEW r \in Reqs, careReq[r].pc = "idle" \/ careReq[r].op # "text" PROVE ~PastRead(careReq[r])
BY ReqAt DEF PastRead, CareTurn

\* whatever is done with a page
LEMMA PageApart == ASSUME CareTyped, NEW s \in Care!Screens, Care!PageStep(s) PROVE CareApart
<1>1. UNCHANGED <<texts, caught, crossed, opted, stored, notices>>
  BY DEF Care!PageStep, Care!Visit, Care!Load, Care!LoadFails, Care!ModalCloses, Care!PressStatus, Care!PressColumn, Care!Expand, Care!PressWrite, Care!past, Care!world, Care!mail
<1>2. careBudget'.haps >= careBudget.haps
  <2>1. careBudget' = careBudget \/ Care!Spend("visits") \/ Care!Spend("haps") \/ Care!Spend("presses")
    BY DEF Care!PageStep, Care!Visit, Care!Load, Care!LoadFails, Care!ModalCloses, Care!PressStatus, Care!PressColumn, Care!Expand, Care!PressWrite, Care!Press
  <2> QED BY <2>1, CareSpend, CareSums
<1>3. SendingsStand
  <2>1. ASSUME NEW at \in Care!DeskPages \cup Care!TabPages, Care!Visit(s, at) PROVE SendingsStand
    <3>1. ASSUME NEW x \in Reqs PROVE careReq'[x].op = careReq[x].op /\ careReq'[x].pc = careReq[x].pc /\ careReq'[x].i = careReq[x].i /\ careReq'[x].ver = careReq[x].ver
      BY <2>1, ReqAt DEF Care!Visit, CareReqs
    <3> QED BY <3>1 DEF SendingsStand, PastRead
  <2>2. CASE Care!Load(s) \/ Care!LoadFails(s) \/ Care!ModalCloses(s)
    BY <2>2, StayApart DEF Care!Load, Care!LoadFails, Care!ModalCloses
  <2>3. ASSUME NEW r \in Reqs, Care!PressStatus(s, r) PROVE SendingsStand
    <3>1. PICK i, v : Care!Goes(r, [Care!Idle EXCEPT !.op = "status", !.pc = "read", !.scr = s, !.i = i, !.val = v])
      BY <2>3 DEF Care!PressStatus
    <3>2. [Care!Idle EXCEPT !.op = "status", !.pc = "read", !.scr = s, !.i = i, !.val = v].op = "status" /\ careReq[r].pc = "idle"
      BY <2>3 DEF Care!Idle, Care!PressStatus, Care!Press
    <3>3. PICK new : Care!Goes(r, new) /\ new.op = "status"
      BY <3>1, <3>2
    <3> QED BY <3>2, <3>3, IdleApart, GoesApart DEF PastRead
  <2>4. ASSUME NEW r \in Reqs, NEW col \in {"notes", "prio"}, Care!PressColumn(s, r, col) PROVE SendingsStand
    <3>1. PICK i, v : Care!Goes(r, [Care!Idle EXCEPT !.op = col, !.pc = "write", !.scr = s, !.i = i, !.val = v])
      BY <2>4 DEF Care!PressColumn
    <3>2. [Care!Idle EXCEPT !.op = col, !.pc = "write", !.scr = s, !.i = i, !.val = v].op = col /\ careReq[r].pc = "idle"
      BY <2>4 DEF Care!Idle, Care!PressColumn, Care!Press
    <3>3. PICK new : Care!Goes(r, new) /\ new.op = col
      BY <3>1, <3>2
    <3> QED BY <3>2, <3>3, IdleApart, GoesApart DEF PastRead
  <2>5. ASSUME NEW r \in Reqs, Care!Expand(s, r) PROVE SendingsStand
    <3>1. PICK i : Care!Goes(r, [Care!Idle EXCEPT !.op = "mark", !.pc = "write", !.scr = s, !.i = i])
      BY <2>5 DEF Care!Expand
    <3>2. [Care!Idle EXCEPT !.op = "mark", !.pc = "write", !.scr = s, !.i = i].op = "mark" /\ careReq[r].pc = "idle"
      BY <2>5 DEF Care!Idle, Care!Expand
    <3>3. PICK new : Care!Goes(r, new) /\ new.op = "mark"
      BY <3>1, <3>2
    <3> QED BY <3>2, <3>3, IdleApart, GoesApart DEF PastRead
  <2>6. ASSUME NEW r \in Reqs, NEW op \in {"send", "submit", "reply"}, Care!PressWrite(s, r, op) PROVE SendingsStand
    <3> DEFINE new == [Care!Idle EXCEPT !.op = op, !.pc = IF op = "submit" THEN "read" ELSE "write", !.scr = s]
    <3>1. Care!Goes(r, new) /\ careReq[r].pc = "idle"
      BY <2>6 DEF Care!PressWrite, Care!Press
    <3>2. new.op = op
      BY DEF Care!Idle
    <3> HIDE DEF new
    <3> QED BY <3>1, <3>2, IdleApart, GoesApart DEF PastRead
  <2> QED BY <2>1, <2>2, <2>3, <2>4, <2>5, <2>6 DEF Care!PageStep
<1> QED BY <1>1, <1>2, <1>3 DEF CareApart

\* the requests of the pages
LEMMA WriteApart == ASSUME CareTyped, NEW r \in Reqs,
    \/ Care!SubmitRead(r) \/ Care!SubmitWrite(r) \/ Care!StatusRead(r) \/ Care!StatusWrite(r) \/ Care!ColumnWrite(r) \/ Care!LetterWrite(r) \/ Care!MarkWrite(r)
  PROVE CareApart
<1>1. UNCHANGED <<texts, caught, crossed, opted, stored, notices, careBudget>> /\ careReq[r].op # "text"
  BY DEF Care!SubmitRead, Care!SubmitWrite, Care!StatusRead, Care!StatusWrite, Care!ColumnWrite, Care!LetterWrite, Care!MarkWrite, Care!At, Care!past, Care!world, Care!mail
<1>2. careBudget'.haps >= careBudget.haps
  BY <1>1, CareSums
<1>3. PICK new : Care!Goes(r, new) /\ ~PastRead(new)
  <2>1. CASE Care!StatusRead(r)
    <3> DEFINE new == [careReq[r] EXCEPT !.pc = "write", !.seen = tickets[careReq[r].i].status]
    <3>1. Care!Goes(r, new)
      BY <2>1 DEF Care!StatusRead
    <3>2. new.op = careReq[r].op
      BY ReqAt DEF CareReqs
    <3> HIDE DEF new
    <3> QED BY <1>1, <3>1, <3>2 DEF PastRead
  <2>2. CASE Care!SubmitRead(r)
    <3>1. [careReq[r] EXCEPT !.pc = "write"].op = careReq[r].op
      BY ReqAt DEF CareReqs
    <3> QED BY <1>1, <2>2, <3>1, IdleUnread DEF Care!SubmitRead, Care!Ends, PastRead
  <2>3. CASE \/ Care!SubmitWrite(r) \/ Care!StatusWrite(r) \/ Care!ColumnWrite(r) \/ Care!LetterWrite(r) \/ Care!MarkWrite(r)
    BY <2>3, IdleUnread DEF Care!SubmitWrite, Care!StatusWrite, Care!ColumnWrite, Care!LetterWrite, Care!MarkWrite, Care!Ends
  <2> QED BY <2>1, <2>2, <2>3
<1> QED BY <1>1, <1>2, <1>3, IdleApart, GoesApart DEF CareApart

\* a notice is made, or asked to be sent
LEMMA NoticeApart == ASSUME CareTyped, NEW r \in Reqs,
    Care!NoticeCheck(r) \/ Care!NoticeCreate(r) \/ \E i \in 1..Len(notices) : Care!Resend(r, i)
  PROVE CareApart
<1>1. UNCHANGED <<texts, caught, crossed, opted>>
  BY DEF Care!NoticeCheck, Care!NoticeCreate, Care!Resend, Care!past, Care!world, Care!mail
<1>2. careBudget'.haps >= careBudget.haps
  <2>1. careBudget' = careBudget \/ Care!Spend("presses")
    BY DEF Care!NoticeCheck, Care!NoticeCreate, Care!Resend
  <2> QED BY <2>1, CareSpend, CareSums
<1>3. \A i \in 1..Len(notices) : stored'[i] = stored[i] /\ notices'[i] = notices[i]
  BY NoticeCreateRows DEF Care!NoticeCheck, Care!Resend, Care!mail
<1>4. careReq[r].pc = "idle" \/ careReq[r].op # "text"
  BY DEF Care!NoticeCheck, Care!NoticeCreate, Care!Resend, Care!At
<1>5. PICK new : Care!Goes(r, new) /\ ~PastRead(new)
  <2>1. /\ \A i : [Care!Idle EXCEPT !.op = "text", !.pc = "read", !.i = i].pc = "read"
        /\ [Care!Idle EXCEPT !.op = "notice", !.pc = "create"].op = "notice"
    BY DEF Care!Idle
  <2> QED BY <2>1 DEF Care!NoticeCheck, Care!NoticeCreate, Care!Resend, PastRead
<1>6. SendingsStand
  BY <1>4, <1>5, IdleApart, GoesApart
<1> QED BY <1>1, <1>2, <1>3, <1>6 DEF CareApart

LEMMA WorldApart == ASSUME CareTyped,
    (\E i \in 1..Len(notices) : Care!Retext(i) \/ Care!Serve(i)) \/ Care!Called \/ Care!Start \/ Care!RentPaid \/ Care!LeaseEnds
  PROVE CareApart
<1>1. UNCHANGED <<texts, caught, crossed, stored, careReq>> /\ (opted' => opted)
  BY DEF Care!Retext, Care!Serve, Care!Called, Care!Start, Care!RentPaid, Care!LeaseEnds, Care!past, Care!world, Care!mail
<1>2. careBudget'.haps >= careBudget.haps
  <2>1. careBudget' = careBudget \/ Care!Spend("edits") \/ Care!Spend("presses")
    BY DEF Care!Retext, Care!Serve, Care!Called, Care!Start, Care!RentPaid, Care!LeaseEnds
  <2> QED BY <2>1, CareSpend, CareSums
<1>3. \A i \in 1..Len(notices) : notices'[i].sent = notices[i].sent
  <2>1. CASE \E i \in 1..Len(notices) : Care!Retext(i) \/ Care!Serve(i)
    BY <2>1, EditTyped
  <2>2. CASE Care!Called \/ Care!Start \/ Care!RentPaid \/ Care!LeaseEnds
    BY <2>2 DEF Care!Called, Care!Start, Care!RentPaid, Care!LeaseEnds, Care!mail
  <2> QED BY <2>1, <2>2
<1> QED BY <1>1, <1>2, <1>3, StayApart DEF CareApart

LEMMA LossApart == ASSUME CareTyped, NEW r \in Reqs, Care!AnswerLost(r) \/ (Care!Die(r) /\ ~PastRead(careReq[r])) PROVE CareApart
<1>1. UNCHANGED <<texts, caught, crossed, opted, stored, notices>> /\ Care!Spend("haps")
  BY DEF Care!AnswerLost, Care!Die, Care!past, Care!world, Care!mail
<1>2. careBudget'.haps >= careBudget.haps
  BY <1>1, CareSpend, CareSums
<1>3. ~PastRead(careReq[r])
  <2>1. CASE Care!AnswerLost(r)
    <3>1. careReq[r].op # "text"
      BY <2>1, ReqAt DEF Care!AnswerLost, CareTurn
    <3> QED BY <3>1 DEF PastRead
  <2> QED BY <2>1
<1>4. PICK new : Care!Goes(r, new) /\ ~PastRead(new)
  <2>1. [careReq[r] EXCEPT !.scr = Care!Nobody].op = careReq[r].op /\ [careReq[r] EXCEPT !.scr = Care!Nobody].pc = careReq[r].pc
    BY ReqAt DEF CareReqs
  <2> QED BY <1>3, <2>1, IdleUnread DEF Care!AnswerLost, Care!Die, Care!Ends, PastRead
<1> QED BY <1>1, <1>2, <1>3, <1>4, GoesApart DEF CareApart

LEMMA CaughtKeeps == ASSUME CareTyped, CaughtInv, LateTexts' = LateTexts, caught' = caught,
    opted' => opted /\ PastCheck' \subseteq PastCheck
  PROVE CaughtInv'
<1> DEFINE L == Cardinality(LateTexts)
           P == Cardinality(PastCheck)
<1>1. L' = L /\ L \in Nat /\ P \in Nat /\ caught \in Nat
  BY TextCounts
<1>2. opted' => P' <= P /\ P' \in Nat
  <2> SUFFICES ASSUME opted' PROVE P' <= P /\ P' \in Nat
    OBVIOUS
  <2>1. Cardinality(PastCheck') <= Cardinality(PastCheck) /\ Cardinality(PastCheck') \in Nat
    BY TextCounts, CardSame
  <2> QED BY <2>1
<1>3. L + (IF opted THEN P ELSE 0) <= caught
  BY DEF CaughtInv
<1> HIDE DEF L, P
<1>4. L' + (IF opted' THEN P' ELSE 0) <= caught'
  BY <1>1, <1>2, <1>3
<1> QED BY <1>4 DEF CaughtInv, L, P

\* requests go on to no letter of their own
LEMMA LinkKeeps == ASSUME CareTyped, LinkInv, UNCHANGED <<texts, crossed, stored>>,
    \A x \in Reqs : PastRead(careReq'[x]) =>
      /\ PastRead(careReq[x]) /\ careReq'[x].i = careReq[x].i /\ careReq'[x].ver = careReq[x].ver
      /\ \/ careReq'[x].pc = careReq[x].pc \/ careReq'[x].pc = "mark"
         \/ careReq[x].pc = "check" /\ careReq'[x].pc = "upload"
  PROVE LinkInv'
<1>2. ASSUME NEW k \in 1..Len(texts) PROVE TextFits(texts[k])'
  <2>1. TextFits(texts[k])
    BY DEF LinkInv
  <2> QED BY <2>1 DEF TextFits
<1>3. ASSUME NEW x \in Reqs PROVE SendingFits(careReq[x])'
  <2> SUFFICES ASSUME PastRead(careReq'[x]), careReq'[x].i \notin crossed
      PROVE /\ careReq'[x].pc \in {"check", "upload"} => stored[careReq'[x].i] <= careReq'[x].ver
            /\ careReq'[x].pc = "send" => stored[careReq'[x].i] = careReq'[x].ver
    BY DEF SendingFits, PastRead
  <2>1. PastRead(careReq[x]) /\ careReq'[x].i = careReq[x].i /\ careReq'[x].ver = careReq[x].ver
    OBVIOUS
  <2>2. SendingFits(careReq[x])
    BY DEF LinkInv
  <2>3. \/ careReq'[x].pc = careReq[x].pc \/ careReq'[x].pc = "mark"
        \/ careReq[x].pc = "check" /\ careReq'[x].pc = "upload"
    OBVIOUS
  <2> QED BY <2>1, <2>2, <2>3 DEF SendingFits
<1>4. ASSUME NEW x \in Reqs, NEW y \in Reqs \ {x} PROVE OneSends(careReq[x], careReq[y])'
  <2> SUFFICES ASSUME PastRead(careReq'[x]), PastRead(careReq'[y]), careReq'[x].i = careReq'[y].i PROVE careReq'[x].i \in crossed
    BY DEF OneSends, PastRead
  <2>1. PastRead(careReq[x]) /\ careReq'[x].i = careReq[x].i
    OBVIOUS
  <2>2. PastRead(careReq[y]) /\ careReq'[y].i = careReq[y].i
    OBVIOUS
  <2>3. OneSends(careReq[x], careReq[y])
    BY DEF LinkInv
  <2> QED BY <2>1, <2>2, <2>3 DEF OneSends
<1> QED BY <1>2, <1>3, <1>4 DEF LinkInv

\* marks and texts stand
LEMMA MarkKeeps == ASSUME CareTyped, MarkInv, Len(texts') = Len(texts), \A k \in 1..Len(texts) : texts'[k].i = texts[k].i,
    \A x \in Reqs : (Marks(careReq'[x]) <=> Marks(careReq[x])) /\ (Marks(careReq[x]) => careReq'[x].i = careReq[x].i),
    \A i \in 1..Len(notices) : notices[i].sent => notices'[i].sent, careBudget'.haps >= careBudget.haps, careBudget'.haps \in Nat
  PROVE MarkInv'
<1>1. PICK g \in [Reqs -> Nat] : StandsFor(g) /\ Cardinality(Loose(g)) <= careBudget.haps
  BY DEF MarkInv
<1>3. StandsFor(g)'
  BY <1>1 DEF StandsFor, Marks
<1>4. Loose(g)' \subseteq Loose(g)
  <2> SUFFICES ASSUME NEW k \in 1..Len(texts), ~notices'[texts'[k].i].sent, \A r \in Reqs : Marks(careReq'[r]) => g[r] # k
      PROVE k \in Loose(g)
    BY DEF Loose, Marks
  <2>1. texts[k].i \in 1..Len(notices) /\ texts'[k].i = texts[k].i
    BY TextAt
  <2> QED BY <2>1 DEF Loose
<1>5. Cardinality(Loose(g)') <= Cardinality(Loose(g)) /\ Cardinality(Loose(g)') \in Nat
  <2> DEFINE S == Loose(g)
             T == Loose(g)'
  <2>1. IsFiniteSet(S) /\ T \subseteq S
    BY <1>4, TextCounts
  <2> HIDE DEF S, T
  <2>2. Cardinality(T) <= Cardinality(S) /\ Cardinality(T) \in Nat
    BY <2>1, CardSame
  <2> QED BY <2>2 DEF S, T
<1>6. Cardinality(Loose(g)') <= careBudget'.haps
  BY <1>1, <1>5, TextCounts
<1> QED BY <1>3, <1>6 DEF MarkInv

-----------------------------------------------------------------------------

LEMMA TextReadNotices == ASSUME CareTyped, CareTyped', NoticeInv, NEW r \in Reqs, Care!TextRead(r) PROVE NoticeInv'
<1> DEFINE j == careReq[r].i
           v == notices[j].text
           new == [careReq[r] EXCEPT !.pc = "check", !.ver = v]
<1>1. /\ UNCHANGED <<tickets, letters, Care!mail, opted, careBudget, caught>> /\ Care!Goes(r, new)
      /\ careReq[r].op = "text" /\ careReq[r].pc = "read"
      /\ crossed' = IF Care!Sending(j) # {} THEN crossed \cup {j} ELSE crossed
  BY DEF Care!TextRead, Care!At, Care!world
<1>2. new.op = "text" /\ new.pc = "check" /\ new.i = j /\ new.ver = v
  BY <1>1, ReqAt DEF CareReqs
<1>3. j \in 1..Len(notices) /\ v \in Nat /\ stored[j] <= v
  BY <1>1, TextReqAt, NoticeAt
<1> HIDE DEF new, v, j
<1>4. \A x \in Reqs : careReq'[x] = IF x = r THEN new ELSE careReq[x]
  BY <1>1 DEF Care!Goes, CareTyped, CareReqsTyped
<1>5. UNCHANGED <<texts, stored, notices>> /\ crossed \subseteq crossed'
  BY <1>1 DEF Care!mail
<1>6. CaughtInv'
  <2>1. LateTexts' = LateTexts
    BY <1>5 DEF LateTexts
  <2>2. PastCheck' = PastCheck
    BY <1>1, <1>2, <1>4 DEF PastCheck
  <2> QED BY <1>1, <2>1, <2>2, CaughtKeeps DEF NoticeInv
<1>7. MarkInv'
  <2>1. \A x \in Reqs : (Marks(careReq'[x]) <=> Marks(careReq[x])) /\ (Marks(careReq[x]) => careReq'[x].i = careReq[x].i)
    BY <1>1, <1>2, <1>4 DEF Marks
  <2>2. careBudget'.haps >= careBudget.haps /\ careBudget'.haps \in Nat
    BY <1>1, CareSums
  <2> QED BY <1>5, <2>1, <2>2, MarkKeeps DEF NoticeInv
<1>8. LinkInv'
  <2>1. ASSUME NEW k \in 1..Len(texts) PROVE TextFits(texts[k])'
    <3>1. TextFits(texts[k])
      BY DEF NoticeInv, LinkInv
    <3> QED BY <1>5, <3>1 DEF TextFits
  <2>2. ASSUME NEW x \in Reqs PROVE SendingFits(careReq[x])'
    <3>1. CASE x = r
      BY <1>2, <1>3, <1>4, <1>5, <3>1 DEF SendingFits
    <3>2. CASE x # r
      <4>1. SendingFits(careReq[x]) /\ careReq'[x] = careReq[x]
        BY <1>4, <3>2 DEF NoticeInv, LinkInv
      <4> QED BY <1>5, <4>1 DEF SendingFits, PastRead
    <3> QED BY <3>1, <3>2
  <2>3. ASSUME NEW x \in Reqs, NEW y \in Reqs \ {x} PROVE OneSends(careReq[x], careReq[y])'
    <3> SUFFICES ASSUME PastRead(careReq'[x]), PastRead(careReq'[y]), careReq'[x].i = careReq'[y].i PROVE careReq'[x].i \in crossed'
      BY DEF OneSends, PastRead
    <3>1. CASE x = r \/ y = r
      <4>1. PICK z \in Reqs : z # r /\ PastRead(careReq[z]) /\ careReq[z].i = j /\ careReq'[x].i = j
        BY <1>2, <1>4, <3>1
      <4>2. z \in Care!Sending(j)
        BY <4>1 DEF Care!Sending, PastRead
      <4> QED BY <1>1, <4>1, <4>2
    <3>2. CASE x # r /\ y # r
      <4>1. OneSends(careReq[x], careReq[y])
        BY DEF NoticeInv, LinkInv
      <4> QED BY <1>4, <1>5, <3>2, <4>1 DEF OneSends
    <3> QED BY <3>1, <3>2
  <2> QED BY <1>5, <2>1, <2>2, <2>3 DEF LinkInv
<1> QED BY <1>6, <1>7, <1>8 DEF NoticeInv

LEMMA TextCheckNotices == ASSUME CareTyped, CareTyped', NoticeInv, NEW r \in Reqs, Care!TextCheck(r) PROVE NoticeInv'
<1>1. /\ UNCHANGED <<texts, stored, notices, opted, careBudget, caught, crossed>> /\ careReq[r].op = "text" /\ careReq[r].pc = "check"
  BY DEF Care!TextCheck, Care!At, Care!world, Care!mail, Care!past
<1>2. PICK new : Care!Goes(r, new) /\ new = IF opted THEN Care!Idle ELSE [careReq[r] EXCEPT !.pc = "upload"]
  BY DEF Care!TextCheck
<1>3. IF opted THEN ~PastRead(new)
               ELSE new.op = "text" /\ new.pc = "upload" /\ new.i = careReq[r].i /\ new.ver = careReq[r].ver
  BY <1>1, <1>2, ReqAt, IdleUnread DEF CareReqs
<1>4. \A x \in Reqs : careReq'[x] = IF x = r THEN new ELSE careReq[x]
  BY <1>2 DEF Care!Goes, CareTyped, CareReqsTyped
<1>6. CaughtInv'
  <2>1. LateTexts' = LateTexts
    BY <1>1 DEF LateTexts
  <2>2. opted => PastCheck' \subseteq PastCheck
    BY <1>3, <1>4 DEF PastCheck, PastRead
  <2> QED BY <1>1, <2>1, <2>2, CaughtKeeps DEF NoticeInv
<1>7. MarkInv'
  <2>1. \A x \in Reqs : (Marks(careReq'[x]) <=> Marks(careReq[x])) /\ (Marks(careReq[x]) => careReq'[x].i = careReq[x].i)
    BY <1>1, <1>3, <1>4 DEF Marks, PastRead
  <2>2. careBudget'.haps >= careBudget.haps /\ careBudget'.haps \in Nat
    BY <1>1, CareSums
  <2> QED BY <1>1, <2>1, <2>2, MarkKeeps DEF NoticeInv
<1>8. LinkInv'
  <2>1. \A x \in Reqs : PastRead(careReq'[x]) =>
          /\ PastRead(careReq[x]) /\ careReq'[x].i = careReq[x].i /\ careReq'[x].ver = careReq[x].ver
          /\ \/ careReq'[x].pc = careReq[x].pc \/ careReq'[x].pc = "mark"
             \/ careReq[x].pc = "check" /\ careReq'[x].pc = "upload"
    BY <1>1, <1>3, <1>4 DEF PastRead
  <2> QED BY <1>1, <2>1, LinkKeeps DEF NoticeInv
<1> QED BY <1>6, <1>7, <1>8 DEF NoticeInv

LEMMA TextUploadNotices == ASSUME CareTyped, CareTyped', NoticeInv, NEW r \in Reqs, Care!TextUpload(r) PROVE NoticeInv'
<1> DEFINE new == [careReq[r] EXCEPT !.pc = "send"]
           j == careReq[r].i
           v == careReq[r].ver
<1>1. /\ UNCHANGED <<texts, notices, opted, careBudget, caught, crossed>> /\ careReq[r].op = "text" /\ careReq[r].pc = "upload" /\ Care!Goes(r, new)
  BY DEF Care!TextUpload, Care!At, Care!world, Care!past
<1>2. new.op = "text" /\ new.pc = "send" /\ new.i = j /\ new.ver = v
  BY <1>1, ReqAt DEF CareReqs
<1>3. j \in 1..Len(notices) /\ v \in Nat /\ \A k \in 1..Len(notices) : stored'[k] = IF k = j THEN v ELSE stored[k]
  BY <1>1, TextReqAt, UploadRows
<1>5. PastRead(careReq[r]) /\ (j \notin crossed => stored[j] <= v)
  BY <1>1 DEF NoticeInv, LinkInv, SendingFits, PastRead
<1> HIDE DEF new, v, j
<1>4. \A x \in Reqs : careReq'[x] = IF x = r THEN new ELSE careReq[x]
  BY <1>1 DEF Care!Goes, CareTyped, CareReqsTyped
<1>6. CaughtInv'
  <2>1. LateTexts' = LateTexts
    BY <1>1 DEF LateTexts
  <2>2. PastCheck' = PastCheck
    BY <1>1, <1>2, <1>4 DEF PastCheck
  <2> QED BY <1>1, <2>1, <2>2, CaughtKeeps DEF NoticeInv
<1>7. MarkInv'
  <2>1. \A x \in Reqs : (Marks(careReq'[x]) <=> Marks(careReq[x])) /\ (Marks(careReq[x]) => careReq'[x].i = careReq[x].i)
    BY <1>1, <1>2, <1>4 DEF Marks
  <2>2. careBudget'.haps >= careBudget.haps /\ careBudget'.haps \in Nat
    BY <1>1, CareSums
  <2> QED BY <1>1, <2>1, <2>2, MarkKeeps DEF NoticeInv
<1>8. LinkInv'
  <2>1. ASSUME NEW k \in 1..Len(texts) PROVE TextFits(texts[k])'
    <3> SUFFICES ASSUME texts[k].i \notin crossed PROVE texts[k].ver <= stored'[texts[k].i] /\ (texts[k].got # 0 => texts[k].got >= texts[k].ver)
      BY <1>1 DEF TextFits
    <3>1. texts[k].ver <= stored[texts[k].i] /\ (texts[k].got # 0 => texts[k].got >= texts[k].ver)
      BY DEF NoticeInv, LinkInv, TextFits
    <3>2. texts[k].i \in 1..Len(notices) /\ texts[k].ver \in Nat
      BY TextAt
    <3>3. CASE texts[k].i = j
      <4>1. stored[j] \in Nat
        BY <1>3, NoticeAt
      <4>2. texts[k].ver <= v
        BY <1>3, <1>5, <3>1, <3>2, <3>3, <4>1
      <4> QED BY <1>3, <3>1, <3>3, <4>2
    <3>4. CASE texts[k].i # j
      BY <1>3, <3>1, <3>2, <3>4
    <3> QED BY <3>3, <3>4
  <2>2. ASSUME NEW x \in Reqs PROVE SendingFits(careReq[x])'
    <3>1. CASE x = r
      BY <1>2, <1>3, <1>4, <3>1 DEF SendingFits
    <3>2. CASE x # r
      <4>1. SendingFits(careReq[x]) /\ OneSends(careReq[x], careReq[r]) /\ careReq'[x] = careReq[x]
        BY <1>4, <3>2 DEF NoticeInv, LinkInv
      <4> SUFFICES ASSUME PastRead(careReq[x]), careReq[x].i \notin crossed
          PROVE /\ careReq[x].pc \in {"check", "upload"} => stored'[careReq[x].i] <= careReq[x].ver
                /\ careReq[x].pc = "send" => stored'[careReq[x].i] = careReq[x].ver
        BY <1>1, <4>1 DEF SendingFits, PastRead
      <4>2. careReq[x].i # j
        BY <1>5, <4>1 DEF OneSends, j
      <4>3. careReq[x].i \in 1..Len(notices)
        BY TextReqAt DEF PastRead
      <4> QED BY <1>3, <4>1, <4>2, <4>3 DEF SendingFits
    <3> QED BY <3>1, <3>2
  <2>3. ASSUME NEW x \in Reqs, NEW y \in Reqs \ {x} PROVE OneSends(careReq[x], careReq[y])'
    <3>1. OneSends(careReq[x], careReq[y])
      BY DEF NoticeInv, LinkInv
    <3>2. ASSUME NEW z \in Reqs PROVE PastRead(careReq'[z]) => PastRead(careReq[z]) /\ careReq'[z].i = careReq[z].i
      BY <1>2, <1>4, <1>5 DEF j
    <3> QED BY <1>1, <3>1, <3>2 DEF OneSends, PastRead
  <2> QED BY <1>1, <2>1, <2>2, <2>3 DEF LinkInv
<1> QED BY <1>6, <1>7, <1>8 DEF NoticeInv

\* a sending ends, or is past Twilio
LEMMA FailedSend == ASSUME CareTyped, CareTyped', NoticeInv, NEW r \in Reqs, Care!TextSend(r), Care!Goes(r, Care!Idle), texts' = texts
  PROVE NoticeInv'
<1>1. /\ UNCHANGED <<stored, notices, opted, careBudget, caught, crossed>> /\ careReq[r].op = "text" /\ careReq[r].pc = "send"
  BY DEF Care!TextSend, Care!At, Care!world, Care!past
<1>4. \A x \in Reqs : careReq'[x] = IF x = r THEN Care!Idle ELSE careReq[x]
  BY DEF Care!Goes, CareTyped, CareReqsTyped
<1>6. CaughtInv'
  <2>1. LateTexts' = LateTexts
    BY DEF LateTexts
  <2>2. PastCheck' \subseteq PastCheck
    BY <1>4, IdleUnread DEF PastCheck, PastRead
  <2> QED BY <1>1, <2>1, <2>2, CaughtKeeps DEF NoticeInv
<1>7. MarkInv'
  <2>1. \A x \in Reqs : (Marks(careReq'[x]) <=> Marks(careReq[x])) /\ (Marks(careReq[x]) => careReq'[x].i = careReq[x].i)
    BY <1>1, <1>4, IdleUnread DEF Marks, PastRead
  <2>2. careBudget'.haps >= careBudget.haps /\ careBudget'.haps \in Nat
    BY <1>1, CareSums
  <2> QED BY <1>1, <2>1, <2>2, MarkKeeps DEF NoticeInv
<1>8. LinkInv'
  <2>1. \A x \in Reqs : PastRead(careReq'[x]) =>
          /\ PastRead(careReq[x]) /\ careReq'[x].i = careReq[x].i /\ careReq'[x].ver = careReq[x].ver
          /\ \/ careReq'[x].pc = careReq[x].pc \/ careReq'[x].pc = "mark"
             \/ careReq[x].pc = "check" /\ careReq'[x].pc = "upload"
    BY <1>4, IdleUnread
  <2> QED BY <1>1, <2>1, LinkKeeps DEF NoticeInv
<1> QED BY <1>6, <1>7, <1>8 DEF NoticeInv

LEMMA TakenSend == ASSUME CareTyped, CareTyped', NoticeInv, NEW r \in Reqs, Care!TextSend(r), NEW new, NEW row,
    Care!Goes(r, new), new.op = "text", new.pc = "mark", new.i = careReq[r].i, new.ver = careReq[r].ver,
    row \in Text, row.i = careReq[r].i, row.ver = careReq[r].ver, row.got = 0, row.late = opted, texts' = Append(texts, row)
  PROVE NoticeInv'
<1>1. /\ UNCHANGED <<stored, notices, opted, careBudget, caught, crossed>> /\ careReq[r].op = "text" /\ careReq[r].pc = "send"
  BY DEF Care!TextSend, Care!At, Care!world, Care!past
<1>2. /\ Len(texts') = Len(texts) + 1 /\ Len(texts) \in Nat /\ texts'[Len(texts) + 1] = row
      /\ \A k \in 1..Len(texts) : texts'[k] = texts[k]
  <2>1. texts \in Seq(Text)
    BY SendRows
  <2> QED BY <2>1, SeqAdd
<1>3. \A k \in 1..Len(texts') : k \in 1..Len(texts) \/ k = Len(texts) + 1
  BY <1>2
<1>4. \A x \in Reqs : careReq'[x] = IF x = r THEN new ELSE careReq[x]
  BY DEF Care!Goes, CareTyped, CareReqsTyped
<1>5. PastRead(careReq[r]) /\ careReq[r].i \in 1..Len(notices)
  BY <1>1, TextReqAt DEF PastRead
<1>6. CaughtInv'
  <2> DEFINE L == Cardinality(LateTexts)
             P == Cardinality(PastCheck)
  <2>0. L \in Nat /\ P \in Nat /\ caught \in Nat /\ L + (IF opted THEN P ELSE 0) <= caught
    BY TextCounts DEF NoticeInv, CaughtInv
  <2>1. CASE opted
    <3>1. LateTexts' \subseteq LateTexts \cup {Len(texts) + 1}
      BY <1>2, <1>3 DEF LateTexts
    <3>2. PastCheck' \subseteq PastCheck \ {r} /\ r \in PastCheck
      BY <1>1, <1>4 DEF PastCheck
    <3>3. Cardinality(LateTexts') \in Nat /\ Cardinality(LateTexts') <= L + 1
      BY <3>1, TextCounts, CardGain
    <3>4. Cardinality(PastCheck') \in Nat /\ Cardinality(PastCheck') + 1 <= P
      BY <3>2, TextCounts, CardDrop
    <3> HIDE DEF L, P
    <3>5. Cardinality(LateTexts') + Cardinality(PastCheck') <= caught
      BY <2>0, <2>1, <3>3, <3>4
    <3>6. Cardinality(LateTexts)' = Cardinality(LateTexts') /\ Cardinality(PastCheck)' = Cardinality(PastCheck')
      OBVIOUS
    <3> QED BY <1>1, <2>1, <3>5, <3>6 DEF CaughtInv
  <2>2. CASE ~opted
    <3>1. LateTexts' = LateTexts
      BY <1>2, <1>3, <2>2 DEF LateTexts
    <3> QED BY <1>1, <2>2, <3>1, CaughtKeeps DEF NoticeInv
  <2> QED BY <2>1, <2>2
<1>7. LinkInv'
  <2>1. ASSUME NEW k \in 1..Len(texts') PROVE TextFits(texts[k])'
    <3>1. CASE k = Len(texts) + 1
      <4>1. careReq[r].i \notin crossed => stored[careReq[r].i] = careReq[r].ver
        BY <1>1, <1>5 DEF NoticeInv, LinkInv, SendingFits
      <4>2. stored[careReq[r].i] \in Nat
        BY <1>5, NoticeAt
      <4>3. texts'[k] = row
        BY <1>2, <3>1
      <4>4. row.i \notin crossed => row.ver <= stored[row.i]
        BY <4>1, <4>2
      <4> QED BY <1>1, <4>3, <4>4 DEF TextFits
    <3>2. CASE k \in 1..Len(texts)
      <4>1. TextFits(texts[k]) /\ texts'[k] = texts[k]
        BY <1>2, <3>2 DEF NoticeInv, LinkInv
      <4> QED BY <1>1, <4>1 DEF TextFits
    <3> QED BY <1>3, <3>1, <3>2
  <2>2. ASSUME NEW x \in Reqs PROVE SendingFits(careReq[x])'
    <3>1. CASE x = r
      BY <1>4, <3>1 DEF SendingFits
    <3>2. CASE x # r
      <4>1. SendingFits(careReq[x]) /\ careReq'[x] = careReq[x]
        BY <1>4, <3>2 DEF NoticeInv, LinkInv
      <4> QED BY <1>1, <4>1 DEF SendingFits, PastRead
    <3> QED BY <3>1, <3>2
  <2>3. ASSUME NEW x \in Reqs, NEW y \in Reqs \ {x} PROVE OneSends(careReq[x], careReq[y])'
    <3>1. OneSends(careReq[x], careReq[y])
      BY DEF NoticeInv, LinkInv
    <3>2. ASSUME NEW z \in Reqs PROVE PastRead(careReq'[z]) => PastRead(careReq[z]) /\ careReq'[z].i = careReq[z].i
      BY <1>4, <1>5
    <3> QED BY <1>1, <3>1, <3>2 DEF OneSends, PastRead
  <2> QED BY <2>1, <2>2, <2>3 DEF LinkInv
<1>8. MarkInv'
  <2>1. PICK g \in [Reqs -> Nat] : StandsFor(g) /\ Cardinality(Loose(g)) <= careBudget.haps
    BY DEF NoticeInv, MarkInv
  <2>2. PICK h \in [Reqs -> Nat] : \A x \in Reqs : h[x] = IF x = r THEN Len(texts) + 1 ELSE g[x]
    <3> DEFINE f == [g EXCEPT ![r] = Len(texts) + 1]
    <3>1. f \in [Reqs -> Nat] /\ \A x \in Reqs : f[x] = IF x = r THEN Len(texts) + 1 ELSE g[x]
      BY <1>2
    <3> HIDE DEF f
    <3> QED BY <3>1
  <2>3. StandsFor(h)'
    <3> SUFFICES ASSUME NEW x \in Reqs, Marks(careReq'[x]) PROVE h[x] \in 1..Len(texts') /\ texts'[h[x]].i = careReq'[x].i
      BY DEF StandsFor, Marks
    <3>1. CASE x = r
      BY <1>2, <1>4, <2>2, <3>1
    <3>2. CASE x # r
      <4>1. g[x] \in 1..Len(texts) /\ texts[g[x]].i = careReq[x].i /\ h[x] = g[x] /\ careReq'[x] = careReq[x]
        BY <1>4, <2>1, <2>2, <3>2 DEF StandsFor
      <4>2. 1..Len(texts) \subseteq 1..Len(texts')
        BY <1>2
      <4> QED BY <1>2, <4>1, <4>2
    <3> QED BY <3>1, <3>2
  <2>4. Loose(h)' \subseteq Loose(g)
    <3> SUFFICES ASSUME NEW k \in 1..Len(texts'), ~notices'[texts'[k].i].sent, \A x \in Reqs : Marks(careReq'[x]) => h[x] # k
        PROVE k \in Loose(g)
      BY DEF Loose, Marks
    <3>1. Marks(careReq'[r]) /\ h[r] = Len(texts) + 1
      BY <1>4, <2>2 DEF Marks
    <3>2. k \in 1..Len(texts)
      BY <1>3, <3>1
    <3>3. ASSUME NEW x \in Reqs, Marks(careReq[x]) PROVE g[x] # k
      <4>1. x # r
        BY <1>1, <3>3 DEF Marks
      <4> QED BY <1>4, <2>2, <3>3, <4>1
    <3> QED BY <1>1, <1>2, <3>2, <3>3 DEF Loose
  <2>5. Cardinality(Loose(h)') <= Cardinality(Loose(g)) /\ Cardinality(Loose(h)') \in Nat
    <3> DEFINE S == Loose(g)
               T == Loose(h)'
    <3>1. IsFiniteSet(S) /\ T \subseteq S
      BY <2>4, TextCounts
    <3> HIDE DEF S, T
    <3>2. Cardinality(T) <= Cardinality(S) /\ Cardinality(T) \in Nat
      BY <3>1, CardSame
    <3> QED BY <3>2 DEF S, T
  <2>6. Cardinality(Loose(h)') <= careBudget'.haps
    BY <1>1, <2>1, <2>5, TextCounts
  <2> QED BY <2>2, <2>3, <2>6 DEF MarkInv
<1> QED BY <1>6, <1>7, <1>8 DEF NoticeInv

LEMMA TextSendNotices == ASSUME CareTyped, CareTyped', NoticeInv, NEW r \in Reqs, Care!TextSend(r) PROVE NoticeInv'
<1> DEFINE new == [careReq[r] EXCEPT !.pc = "mark"]
           row == [i |-> careReq[r].i, ver |-> careReq[r].ver, got |-> 0, late |-> opted]
<1>1. CASE Care!Goes(r, Care!Idle) /\ texts' = texts
  BY <1>1, FailedSend
<1>2. CASE Care!Goes(r, new) /\ texts' = Append(texts, row)
  <2>1. new.op = "text" /\ new.pc = "mark" /\ new.i = careReq[r].i /\ new.ver = careReq[r].ver
    BY ReqAt DEF Care!TextSend, Care!At, CareReqs
  <2>2. row \in Text /\ row.i = careReq[r].i /\ row.ver = careReq[r].ver /\ row.got = 0 /\ row.late = opted
    BY SendRows
  <2> HIDE DEF new, row
  <2> QED BY <1>2, <2>1, <2>2, TakenSend
<1> QED BY <1>1, <1>2 DEF Care!TextSend

LEMMA TextMarkNotices == ASSUME CareTyped, CareTyped', NoticeInv, NEW r \in Reqs, Care!TextMark(r) PROVE NoticeInv'
<1>1. /\ UNCHANGED <<stored, texts, opted, careBudget, caught, crossed>> /\ careReq[r].op = "text" /\ careReq[r].pc = "mark" /\ Care!Goes(r, Care!Idle)
  BY DEF Care!TextMark, Care!At, Care!world, Care!past
<1>2. \A k \in 1..Len(notices) : notices[k].sent \in BOOLEAN /\ (notices[k].sent => notices'[k].sent)
  BY TextMarkTyped, NoticeAt DEF Notice
<1>3. careReq[r].i \in 1..Len(notices) /\ notices'[careReq[r].i].sent
  BY <1>1, TextReqAt, TextMarkTyped
<1>4. \A x \in Reqs : careReq'[x] = IF x = r THEN Care!Idle ELSE careReq[x]
  BY <1>1 DEF Care!Goes, CareTyped, CareReqsTyped
<1>6. CaughtInv'
  <2>1. LateTexts' = LateTexts
    BY <1>1 DEF LateTexts
  <2>2. PastCheck' \subseteq PastCheck
    BY <1>4, IdleUnread DEF PastCheck, PastRead
  <2> QED BY <1>1, <2>1, <2>2, CaughtKeeps DEF NoticeInv
<1>8. LinkInv'
  <2>1. \A x \in Reqs : PastRead(careReq'[x]) =>
          /\ PastRead(careReq[x]) /\ careReq'[x].i = careReq[x].i /\ careReq'[x].ver = careReq[x].ver
          /\ \/ careReq'[x].pc = careReq[x].pc \/ careReq'[x].pc = "mark"
             \/ careReq[x].pc = "check" /\ careReq'[x].pc = "upload"
    BY <1>4, IdleUnread
  <2> QED BY <1>1, <2>1, LinkKeeps DEF NoticeInv
<1>7. MarkInv'
  <2>1. PICK g \in [Reqs -> Nat] : StandsFor(g) /\ Cardinality(Loose(g)) <= careBudget.haps
    BY DEF NoticeInv, MarkInv
  <2>2. ~Marks(Care!Idle)
    BY DEF Care!Idle, Marks
  <2>3. StandsFor(g)'
    BY <1>1, <1>4, <2>1, <2>2 DEF StandsFor, Marks
  <2>4. Loose(g)' \subseteq Loose(g)
    <3> SUFFICES ASSUME NEW k \in 1..Len(texts), ~notices'[texts[k].i].sent, \A x \in Reqs : Marks(careReq'[x]) => g[x] # k
        PROVE k \in Loose(g)
      BY <1>1 DEF Loose, Marks
    <3>1. texts[k].i \in 1..Len(notices)
      BY TextAt
    <3>2. ~notices[texts[k].i].sent /\ texts[k].i # careReq[r].i
      BY <1>2, <1>3, <3>1
    <3>3. ASSUME NEW x \in Reqs, Marks(careReq[x]) PROVE g[x] # k
      <4>1. CASE x = r
        <5>1. texts[g[r]].i = careReq[r].i
          BY <2>1, <3>3, <4>1 DEF StandsFor
        <5> QED BY <3>2, <4>1, <5>1
      <4>2. CASE x # r
        BY <1>4, <3>3, <4>2
      <4> QED BY <4>1, <4>2
    <3> QED BY <3>2, <3>3 DEF Loose
  <2>5. Cardinality(Loose(g)') <= Cardinality(Loose(g)) /\ Cardinality(Loose(g)') \in Nat
    <3> DEFINE S == Loose(g)
               T == Loose(g)'
    <3>1. IsFiniteSet(S) /\ T \subseteq S
      BY <2>4, TextCounts
    <3> HIDE DEF S, T
    <3>2. Cardinality(T) <= Cardinality(S) /\ Cardinality(T) \in Nat
      BY <3>1, CardSame
    <3> QED BY <3>2 DEF S, T
  <2>6. Cardinality(Loose(g)') <= careBudget'.haps
    BY <1>1, <2>1, <2>5, TextCounts
  <2> QED BY <2>3, <2>6 DEF MarkInv
<1> QED BY <1>6, <1>7, <1>8 DEF NoticeInv

\* a sending that dies may leave one text without its mark
LEMMA SendingDies == ASSUME CareTyped, CareTyped', NoticeInv, NEW r \in Reqs, Care!Die(r), PastRead(careReq[r]) PROVE NoticeInv'
<1>1. /\ UNCHANGED <<stored, texts, notices, opted, caught, crossed>> /\ Care!Goes(r, Care!Idle)
  BY DEF Care!Die, Care!Ends, Care!world, Care!past, Care!mail
<1>2. careBudget'.haps = careBudget.haps + 1
  BY CareSpend DEF Care!Die
<1>4. \A x \in Reqs : careReq'[x] = IF x = r THEN Care!Idle ELSE careReq[x]
  BY <1>1 DEF Care!Goes, CareTyped, CareReqsTyped
<1>6. CaughtInv'
  <2>1. LateTexts' = LateTexts
    BY <1>1 DEF LateTexts
  <2>2. PastCheck' \subseteq PastCheck
    BY <1>4, IdleUnread DEF PastCheck, PastRead
  <2> QED BY <1>1, <2>1, <2>2, CaughtKeeps DEF NoticeInv
<1>8. LinkInv'
  <2>1. \A x \in Reqs : PastRead(careReq'[x]) =>
          /\ PastRead(careReq[x]) /\ careReq'[x].i = careReq[x].i /\ careReq'[x].ver = careReq[x].ver
          /\ \/ careReq'[x].pc = careReq[x].pc \/ careReq'[x].pc = "mark"
             \/ careReq[x].pc = "check" /\ careReq'[x].pc = "upload"
    BY <1>4, IdleUnread
  <2> QED BY <1>1, <2>1, LinkKeeps DEF NoticeInv
<1>7. MarkInv'
  <2>1. PICK g \in [Reqs -> Nat] : StandsFor(g) /\ Cardinality(Loose(g)) <= careBudget.haps
    BY DEF NoticeInv, MarkInv
  <2>2. ~Marks(Care!Idle)
    BY DEF Care!Idle, Marks
  <2>3. StandsFor(g)'
    BY <1>1, <1>4, <2>1, <2>2 DEF StandsFor, Marks
  <2>4. Loose(g)' \subseteq Loose(g) \cup {g[r]}
    <3> SUFFICES ASSUME NEW k \in 1..Len(texts), ~notices[texts[k].i].sent, \A x \in Reqs : Marks(careReq'[x]) => g[x] # k, k # g[r]
        PROVE k \in Loose(g)
      BY <1>1 DEF Loose, Marks
    <3>3. ASSUME NEW x \in Reqs, Marks(careReq[x]) PROVE g[x] # k
      BY <1>4, <3>3
    <3> QED BY <3>3 DEF Loose
  <2>5. Cardinality(Loose(g)') <= Cardinality(Loose(g)) + 1 /\ Cardinality(Loose(g)') \in Nat
    <3> DEFINE S == Loose(g)
               T == Loose(g)'
    <3>0. PICK y : y = g[r]
      OBVIOUS
    <3>1. IsFiniteSet(S) /\ T \subseteq S \cup {y}
      BY <2>4, <3>0, TextCounts
    <3> HIDE DEF S, T
    <3>2. Cardinality(T) <= Cardinality(S) + 1 /\ Cardinality(T) \in Nat
      BY <3>1, CardGain
    <3> QED BY <3>2 DEF S, T
  <2>6. Cardinality(Loose(g)') <= careBudget'.haps
    BY <1>2, <2>1, <2>5, TextCounts
  <2> QED BY <2>3, <2>6 DEF MarkInv
<1> QED BY <1>6, <1>7, <1>8 DEF NoticeInv

LEMMA FetchNotices == ASSUME CareTyped, CareTyped', NoticeInv, NEW k \in 1..Len(texts), Care!Fetch(k) PROVE NoticeInv'
<1>1. UNCHANGED <<stored, notices, opted, caught, crossed, careReq, careBudget>>
  BY DEF Care!Fetch, Care!world, Care!past
<1>2. /\ Len(texts') = Len(texts)
      /\ \A j \in 1..Len(texts) : /\ texts'[j].i = texts[j].i /\ texts'[j].ver = texts[j].ver /\ texts'[j].late = texts[j].late
                                  /\ texts'[j].got = IF j = k THEN stored[texts[j].i] ELSE texts[j].got
  BY FetchTyped
<1>6. CaughtInv'
  <2>1. LateTexts' = LateTexts
    BY <1>2 DEF LateTexts
  <2>2. PastCheck' = PastCheck
    BY <1>1 DEF PastCheck
  <2> QED BY <1>1, <2>1, <2>2, CaughtKeeps DEF NoticeInv
<1>7. MarkInv'
  <2>1. \A x \in Reqs : (Marks(careReq'[x]) <=> Marks(careReq[x])) /\ (Marks(careReq[x]) => careReq'[x].i = careReq[x].i)
    BY <1>1
  <2>2. careBudget'.haps >= careBudget.haps /\ careBudget'.haps \in Nat
    BY <1>1, CareSums
  <2> QED BY <1>1, <1>2, <2>1, <2>2, MarkKeeps DEF NoticeInv
<1>8. LinkInv'
  <2>1. ASSUME NEW j \in 1..Len(texts) PROVE TextFits(texts[j])'
    <3>1. TextFits(texts[j])
      BY DEF NoticeInv, LinkInv
    <3>2. stored[texts[j].i] \in Nat /\ texts[j].ver \in Nat
      BY TextAt, NoticeAt
    <3>3. texts'[j].i = texts[j].i /\ texts'[j].ver = texts[j].ver /\ texts'[j].got = IF j = k THEN stored[texts[j].i] ELSE texts[j].got
      BY <1>2
    <3> QED BY <1>1, <3>1, <3>2, <3>3 DEF TextFits
  <2>2. ASSUME NEW x \in Reqs PROVE SendingFits(careReq[x])'
    <3>1. SendingFits(careReq[x])
      BY DEF NoticeInv, LinkInv
    <3> QED BY <1>1, <3>1 DEF SendingFits, PastRead
  <2>3. ASSUME NEW x \in Reqs, NEW y \in Reqs \ {x} PROVE OneSends(careReq[x], careReq[y])'
    <3>1. OneSends(careReq[x], careReq[y])
      BY DEF NoticeInv, LinkInv
    <3> QED BY <1>1, <3>1 DEF OneSends, PastRead
  <2> QED BY <1>2, <2>1, <2>2, <2>3 DEF LinkInv
<1> QED BY <1>6, <1>7, <1>8 DEF NoticeInv

LEMMA StopNotices == ASSUME CareTyped, CareTyped', NoticeInv, Care!Stop PROVE NoticeInv'
<1>1. UNCHANGED <<stored, texts, notices, crossed, careReq>> /\ ~opted /\ opted'
  BY DEF Care!Stop, Care!mail
<1>2. caught' = caught + Cardinality(PastCheck)
  <2>1. caught' = caught + Care!Cardinality(PastCheck)
    BY DEF Care!Stop, PastCheck
  <2>2. Care!Cardinality(PastCheck) = Cardinality(PastCheck)
    BY CareCount
  <2> QED BY <2>1, <2>2
<1>6. CaughtInv'
  <2>1. LateTexts' = LateTexts /\ PastCheck' = PastCheck
    BY <1>1 DEF LateTexts, PastCheck
  <2>2. Cardinality(LateTexts)' = Cardinality(LateTexts) /\ Cardinality(PastCheck)' = Cardinality(PastCheck)
    BY <2>1
  <2>3. Cardinality(LateTexts) <= caught
    BY <1>1, TextCounts DEF NoticeInv, CaughtInv
  <2>4. Cardinality(LateTexts) + Cardinality(PastCheck) <= caught'
    BY <1>2, <2>3, TextCounts
  <2> QED BY <1>1, <2>2, <2>4 DEF CaughtInv
<1>7. MarkInv'
  <2>1. \A x \in Reqs : (Marks(careReq'[x]) <=> Marks(careReq[x])) /\ (Marks(careReq[x]) => careReq'[x].i = careReq[x].i)
    BY <1>1
  <2>2. careBudget'.haps >= careBudget.haps /\ careBudget'.haps \in Nat
    BY CareSpend, CareSums DEF Care!Stop
  <2> QED BY <1>1, <2>1, <2>2, MarkKeeps DEF NoticeInv
<1>8. LinkInv'
  <2>1. \A x \in Reqs : PastRead(careReq'[x]) =>
          /\ PastRead(careReq[x]) /\ careReq'[x].i = careReq[x].i /\ careReq'[x].ver = careReq[x].ver
          /\ \/ careReq'[x].pc = careReq[x].pc \/ careReq'[x].pc = "mark"
             \/ careReq[x].pc = "check" /\ careReq'[x].pc = "upload"
    BY <1>1
  <2> QED BY <1>1, <2>1, LinkKeeps DEF NoticeInv
<1> QED BY <1>6, <1>7, <1>8 DEF NoticeInv

LEMMA CareStepNotices == ASSUME CareTyped, NoticeInv, Care!Next PROVE NoticeInv'
<1>0. CareTyped'
  BY CareStepTyped
<1>1. notices \in Seq(Notice) /\ texts \in Seq(Text)
  BY DEF CareTyped, RowsTyped, TextsTyped
<1>2. DOMAIN notices = 1..Len(notices) /\ DOMAIN texts = 1..Len(texts)
  BY <1>1
<1>3. ASSUME NEW s \in Care!Screens, Care!PageStep(s) PROVE NoticeInv'
  BY <1>0, <1>3, PageApart, ApartNotices
<1>4. ASSUME NEW r \in Reqs, Care!ServerStep(r) PROVE NoticeInv'
  <2>1. CASE \/ Care!SubmitRead(r) \/ Care!SubmitWrite(r) \/ Care!StatusRead(r) \/ Care!StatusWrite(r) \/ Care!ColumnWrite(r) \/ Care!LetterWrite(r) \/ Care!MarkWrite(r)
    BY <1>0, <2>1, WriteApart, ApartNotices
  <2>2. CASE Care!NoticeCheck(r) \/ Care!NoticeCreate(r) \/ \E i \in 1..Len(notices) : Care!Resend(r, i)
    BY <1>0, <2>2, NoticeApart, ApartNotices
  <2>3. CASE Care!TextRead(r) \/ Care!TextCheck(r) \/ Care!TextUpload(r) \/ Care!TextSend(r) \/ Care!TextMark(r)
    BY <1>0, <2>3, TextReadNotices, TextCheckNotices, TextUploadNotices, TextSendNotices, TextMarkNotices
  <2> QED BY <1>2, <1>4, <2>1, <2>2, <2>3 DEF Care!ServerStep
<1>5. ASSUME NEW r \in Reqs, Care!AnswerLost(r) \/ Care!Die(r) PROVE NoticeInv'
  <2>1. CASE Care!AnswerLost(r) \/ (Care!Die(r) /\ ~PastRead(careReq[r]))
    BY <1>0, <2>1, LossApart, ApartNotices
  <2>2. CASE Care!Die(r) /\ PastRead(careReq[r])
    BY <1>0, <2>2, SendingDies
  <2> QED BY <1>5, <2>1, <2>2
<1>6. CASE (\E i \in 1..Len(notices) : Care!Retext(i) \/ Care!Serve(i)) \/ Care!Called \/ Care!Start \/ Care!RentPaid \/ Care!LeaseEnds
  BY <1>0, <1>6, WorldApart, ApartNotices
<1>7. CASE (\E k \in 1..Len(texts) : Care!Fetch(k)) \/ Care!Stop
  BY <1>0, <1>7, FetchNotices, StopNotices
<1> QED BY <1>2, <1>3, <1>4, <1>5, <1>6, <1>7 DEF Care!Next

LEMMA NoticesTell == ASSUME CareTyped, NoticeInv PROVE Care!NoticeTexts
<1>1. DOMAIN texts = 1..Len(texts)
  BY DEF CareTyped, TextsTyped
<1>2. Cardinality({k \in DOMAIN texts : texts[k].late}) <= caught
  <2>1. {k \in DOMAIN texts : texts[k].late} = LateTexts
    BY <1>1 DEF LateTexts
  <2>2. Cardinality(LateTexts) <= caught
    BY TextCounts DEF NoticeInv, CaughtInv
  <2> QED BY <2>1, <2>2
<1>3. \A k \in DOMAIN texts : texts[k].got # 0 /\ texts[k].i \notin crossed => texts[k].got >= texts[k].ver
  BY <1>1 DEF NoticeInv, LinkInv, TextFits
<1>4. Cardinality(Care!Unmarked) <= careBudget.haps
  <2>1. PICK g \in [Reqs -> Nat] : StandsFor(g) /\ Cardinality(Loose(g)) <= careBudget.haps
    BY DEF NoticeInv, MarkInv
  <2>2. Care!Unmarked \subseteq Loose(g)
    <3> SUFFICES ASSUME NEW k \in 1..Len(texts), ~notices[texts[k].i].sent,
            \A r \in Reqs : ~(Care!At(r, "text", "mark") /\ careReq[r].i = texts[k].i)
        PROVE \A r \in Reqs : Marks(careReq[r]) => g[r] # k
      BY <1>1 DEF Care!Unmarked, Loose
    <3> QED BY <2>1 DEF StandsFor, Marks, Care!At
  <2>3. Cardinality(Care!Unmarked) <= Cardinality(Loose(g)) /\ Cardinality(Care!Unmarked) \in Nat
    <3> DEFINE S == Loose(g)
    <3>1. IsFiniteSet(S) /\ Care!Unmarked \subseteq S
      BY <2>2, TextCounts
    <3> HIDE DEF S
    <3>2. Cardinality(Care!Unmarked) <= Cardinality(S) /\ Cardinality(Care!Unmarked) \in Nat
      BY <3>1, CardSame
    <3> QED BY <3>2 DEF S
  <2> QED BY <2>1, <2>3, TextCounts
<1> DEFINE S == {k \in DOMAIN texts : texts[k].late}
           T == Care!Unmarked
<1>5. Care!Cardinality(S) <= caught /\ Care!Cardinality(T) <= careBudget.haps
  <2> HIDE DEF T
  <2>1. Care!Cardinality(S) = Cardinality(S) /\ Care!Cardinality(T) = Cardinality(T)
    BY CareCount
  <2> QED BY <1>2, <1>4, <2>1 DEF T
<1> QED BY <1>3, <1>5 DEF Care!NoticeTexts

-----------------------------------------------------------------------------
(* How it begins, and what the other half leaves alone                     *)

LEMMA OneRow == ASSUME NEW S, NEW v \in S
  PROVE <<v>> \in Seq(S) /\ Len(<<v>>) = 1 /\ <<v>>[1] = v /\ <<>> \in Seq(S) /\ Len(<<>>) = 0
OBVIOUS

LEMMA CareInitTyped == ASSUME Care!Init PROVE CareTyped
<1>1. tickets \in {<<>>, <<Care!NewTicket>>} /\ letters \in {<<>>, <<Care!NewLetter("landlord")>>}
  BY DEF Care!Init, Care!Given
<1>2. tickets \in Seq(Ticket) /\ letters \in Seq(Letter)
  <2>0. Care!NewTicket \in Ticket /\ Care!NewLetter("landlord") \in Letter
    BY NewTyped
  <2>1. <<Care!NewTicket>> \in Seq(Ticket) /\ <<>> \in Seq(Ticket) /\ <<Care!NewLetter("landlord")>> \in Seq(Letter) /\ <<>> \in Seq(Letter)
    BY <2>0, OneRow
  <2> QED BY <1>1, <2>1
<1>3. notices = <<>> /\ stored = <<>> /\ texts = <<>>
  BY DEF Care!Init
<1>4. RowsTyped /\ TextsTyped
  BY <1>2, <1>3 DEF RowsTyped, TextsTyped
<1>5. CareRest
  <2>1. Len(tickets) \in Nat /\ Len(letters) \in Nat
    BY <1>2
  <2>2. careWishes \in Nat
    BY <2>1 DEF Care!Init
  <2> QED BY <2>2 DEF Care!Init, CareRest, CareBudgets
<1>6. CareReqsTyped /\ CareLinked /\ VersionsOK
  <2>1. careReq = [r \in Reqs |-> Care!Idle] /\ Care!Idle.scr = Care!Nobody /\ Care!Idle.op = "none"
    BY DEF Care!Init, Care!Idle
  <2>2. CareReqOK(Care!Idle, CareSizes)
    BY CareIdle
  <2>3. Care!Idle \in CareReqs
    BY <2>2 DEF CareReqOK
  <2> QED BY <2>1, <2>2, <2>3 DEF CareReqsTyped, CareLinked, Linked, VersionsOK
<1>7. CarePagesTyped
  <2>1. carePage = [s \in Care!Screens |-> Care!Closed]
    BY DEF Care!Init
  <2>2. CarePageOK(Care!Closed, CareSizes)
    BY <1>4, CareClosed, CareSizesTyped
  <2>3. Care!Closed \in CareScreens
    BY <2>2 DEF CarePageOK
  <2> QED BY <2>1, <2>2, <2>3 DEF CarePagesTyped
<1> QED BY <1>4, <1>5, <1>6, <1>7 DEF CareTyped

LEMMA CareInitAsked == ASSUME Care!Init PROVE AskedInv
<1>1. Waiting = {} /\ Asking = {}
  BY DEF Care!Init, Waiting, Asking, Retries, Care!Idle, Care!Closed, MakingOps
<1>2. CareOwed = 0
  <2>1. Cardinality(Waiting) = 0 /\ Cardinality(Asking) = 0
    BY <1>1, FS_EmptySet
  <2> QED BY <2>1 DEF CareOwed
<1>3. careWishes = Len(tickets) + Len(letters) /\ echoes = 0 /\ careBudget.haps = 0
  BY DEF Care!Init
<1>4. Len(tickets) \in Nat /\ Len(letters) \in Nat
  BY CareInitTyped, CareSums
<1> QED BY <1>2, <1>3, <1>4 DEF AskedInv, CareMade, CareMeant

LEMMA CareInitResolved == ASSUME Care!Init PROVE ResolvedInv
<1>1. \A r \in Reqs : ~Rewrites(careReq[r])
  BY DEF Care!Init, Care!Idle, Rewrites
<1>2. tickets \in {<<>>, <<Care!NewTicket>>}
  BY DEF Care!Init, Care!Given
<1>3. ASSUME NEW i \in 1..Len(tickets) PROVE Stamped(i)
  <2>0. Care!NewTicket \in Ticket
    BY NewTyped
  <2>1. Len(<<>>) = 0 /\ Len(<<Care!NewTicket>>) = 1 /\ <<Care!NewTicket>>[1] = Care!NewTicket
    BY <2>0, OneRow
  <2>2. Care!NewTicket.resolved = FALSE /\ Care!NewTicket.status \notin Care!Done
    BY DEF Care!NewTicket, Care!Done
  <2>3. tickets[i] = Care!NewTicket
    BY <1>2, <2>1
  <2> QED BY <2>2, <2>3 DEF Stamped
<1> QED BY <1>1, <1>3 DEF ResolvedInv, ReadIsSo, OneRewrites

LEMMA CareInitNotices == ASSUME Care!Init PROVE NoticeInv
<1>1. \A r \in Reqs : careReq[r] = Care!Idle
  BY DEF Care!Init
<1>2. texts = <<>> /\ caught = 0 /\ ~opted /\ careBudget.haps = 0 /\ crossed = {}
  BY DEF Care!Init
<1>3. CaughtInv
  <2>1. LateTexts = {}
    BY <1>2 DEF LateTexts
  <2>2. Cardinality(LateTexts) = 0
    BY <2>1, FS_EmptySet
  <2> QED BY <1>2, <2>2 DEF CaughtInv
<1>4. LinkInv
  BY <1>1, <1>2, IdleUnread DEF LinkInv, SendingFits, OneSends
<1>5. MarkInv
  <2> DEFINE f == [r \in Reqs |-> 0]
  <2>1. PICK g \in [Reqs -> Nat] : g = f
    OBVIOUS
  <2>2. StandsFor(g)
    BY <1>1 DEF StandsFor, Marks, Care!Idle
  <2>3. Loose(g) = {}
    BY <1>2 DEF Loose
  <2>4. Cardinality(Loose(g)) = 0
    BY <2>3, FS_EmptySet
  <2> QED BY <1>2, <2>2, <2>4 DEF MarkInv
<1> QED BY <1>3, <1>4, <1>5 DEF NoticeInv

LEMMA AskedTells == ASSUME CareTyped, AskedInv PROVE Care!AskedOnce
<1>1. DOMAIN tickets = 1..Len(tickets) /\ DOMAIN letters = 1..Len(letters) /\ DOMAIN notices = 1..Len(notices) /\ DOMAIN texts = 1..Len(texts)
  BY DEF CareTyped, RowsTyped, TextsTyped
<1>2. Care!TypeOK
  <2>1. \A i \in 1..Len(tickets) : tickets[i] \in [status : Care!Open \cup Care!Done, resolved : BOOLEAN, notes : {"old", "new"}, prio : {"old", "new"}]
    BY TicketAt DEF Ticket, Columns
  <2>2. \A i \in 1..Len(letters) : letters[i] \in [by : {"landlord", "tenant"}, read : BOOLEAN]
    <3>1. letters \in Seq(Letter)
      BY DEF CareTyped, RowsTyped
    <3>2. \A i \in 1..Len(letters) : letters[i] \in Letter
      BY <3>1
    <3> QED BY <3>2 DEF Letter
  <2>3. \A i \in 1..Len(notices) : notices[i] \in [text : Nat, served : BOOLEAN, sent : BOOLEAN]
    BY NoticeAt DEF Notice
  <2>4. stored \in [1..Len(notices) -> Nat]
    BY DEF CareTyped, RowsTyped
  <2>5. \A k \in 1..Len(texts) : texts[k].i \in 1..Len(notices) /\ texts[k].got <= notices[texts[k].i].text
    BY DEF CareTyped, TextsTyped
  <2> QED BY <1>1, <2>1, <2>2, <2>3, <2>4, <2>5 DEF CareTyped, CareRest, Care!TypeOK
<1>3. Len(tickets) + Len(letters) <= careWishes + echoes + careBudget.haps
  <2> DEFINE T == Len(tickets)
             L == Len(letters)
  <2>1. T + L + CareOwed <= careWishes + echoes + careBudget.haps
    BY DEF AskedInv, CareMade, CareMeant
  <2>2. T \in Nat /\ L \in Nat /\ CareOwed \in Nat /\ careWishes \in Nat /\ echoes \in Nat /\ careBudget.haps \in Nat
    BY CareSums
  <2> HIDE DEF T, L
  <2>3. T + L <= careWishes + echoes + careBudget.haps
    BY <2>1, <2>2
  <2> QED BY <2>3 DEF T, L
<1> QED BY <1>2, <1>3 DEF Care!AskedOnce

CareSafe == CareTyped /\ AskedInv /\ ResolvedInv /\ NoticeInv

LEMMA CareIdles == ASSUME CareSafe, lease' \in BOOLEAN,
    UNCHANGED <<careCast, overdue, opted, tickets, letters, notices, stored, texts, carePage, careReq, careBudget, careWishes, echoes, mixed, caught, crossed>>
  PROVE CareSafe'
<1>1. CareTyped'
  <2>1. RowsTyped' /\ TextsTyped' /\ CareSizes' = CareSizes
    BY DEF CareSafe, CareTyped, RowsTyped, TextsTyped, CareSizes
  <2>2. CareRest'
    BY DEF CareSafe, CareTyped, CareRest
  <2>3. CareReqsTyped' /\ CareLinked' /\ CarePagesTyped' /\ VersionsOK'
    BY <2>1 DEF CareSafe, CareTyped, CareReqsTyped, CareLinked, CarePagesTyped, VersionsOK
  <2> QED BY <2>1, <2>2, <2>3 DEF CareTyped
<1>2. AskedInv'
  <2>1. careBudget'.haps = careBudget.haps
    OBVIOUS
  <2> QED BY <1>1, <2>1, StandsAsked DEF CareSafe
<1>3. ResolvedInv'
  <2>1. RewritesStand
    BY DEF RewritesStand
  <2> QED BY <2>1, StampsStay, ResolvedStays DEF CareSafe
<1>4. NoticeInv'
  <2>1. careBudget'.haps >= careBudget.haps
    BY CareSums DEF CareSafe
  <2>2. CareApart
    BY <2>1, StayApart DEF CareApart
  <2> QED BY <1>1, <2>2, ApartNotices DEF CareSafe
<1> QED BY <1>1, <1>2, <1>3, <1>4 DEF CareSafe

LEMMA CareSafeNext == ASSUME CareSafe, Care!Next PROVE CareSafe'
BY CareStepTyped, CareStepAsked, CareStepResolved, CareStepNotices DEF CareSafe

LEMMA CareSafeInit == ASSUME Care!Init PROVE CareSafe
BY CareInitTyped, CareInitAsked, CareInitResolved, CareInitNotices DEF CareSafe

LEMMA CareSafeStep == ASSUME CareSafe, RentSafe', [PortalNext]_<<rentVars, careOnly>> PROVE CareSafe'
<1>0. lease' \in BOOLEAN
  BY DEF RentSafe, RentTyped, RestTyped
<1>1. CASE Care!Next
  BY <1>1, CareSafeNext
<1>2. CASE UNCHANGED careOnly
  BY <1>0, <1>2, CareIdles DEF careOnly
<1> QED BY <1>1, <1>2 DEF PortalNext

(* The inductive invariant of requests, letters and notices: whatever pages  *)
(* and phone ask for and whatever dies or overlaps, the types, the balance   *)
(* of what was meant and made, the stamps, and what the sendings promise.    *)
THEOREM CarePagesSafe == PortalSpec => []CareSafe
<1>1. PortalInit => CareSafe
  BY CareSafeInit DEF PortalInit
<1>2. CareSafe /\ RentSafe' /\ [PortalNext]_<<rentVars, careOnly>> => CareSafe'
  BY CareSafeStep
<1> QED BY <1>1, <1>2, RentPagesSafe, PTL DEF PortalSpec

(* A payment, a ticket or a letter goes out as often as somebody meant it,   *)
(* lost answers and a press on a form that still stands aside.               *)
THEOREM SentOnceAlways == PortalSpec => []SentOnce
<1>1. MeantOnce /\ CareSafe => SentOnce
  BY AskedTells DEF CareSafe, SentOnce
<1> QED BY <1>1, PaidAsMeant, CarePagesSafe, PTL

(* A maintenance request has its stamp exactly while it is done, unless two  *)
(* updates of its status overlapped.                                         *)
THEOREM ResolvedAlways == PortalSpec => []ResolvedWhenDone
<1>1. CareSafe => ResolvedWhenDone
  BY ResolvedTells DEF CareSafe, ResolvedWhenDone
<1> QED BY <1>1, CarePagesSafe, PTL

(* After STOP only the sendings past their check still text; a letter behind *)
(* a text is no older than the one meant, unless sendings overlapped; a      *)
(* notice whose text went out says so, but for one text each sending that    *)
(* died.                                                                     *)
THEOREM NoticeTextsAlways == PortalSpec => []NoticeTexts
<1>1. CareSafe => NoticeTexts
  BY NoticesTell DEF CareSafe, NoticeTexts
<1> QED BY <1>1, CarePagesSafe, PTL
=============================================================================
