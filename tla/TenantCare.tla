----------------------------- MODULE TenantCare -----------------------------
(***************************************************************************)
(* What a landlord and a tenant write to each other while a lease lasts:   *)
(* maintenance requests, messages with their replies, and legal notices.   *)
(* The pages of both sites with the requests they send, the assistant that *)
(* files a maintenance request for a tenant on the phone, and the sending  *)
(* of a notice by text, which goes on after its request was answered:      *)
(* opt-out check, upload of the letter, Twilio, which fetches the letter   *)
(* from its link later, and the mark on the notice.                        *)
(*                                                                         *)
(* One tenant of one lease. No page can send a notice (the wizard and the  *)
(* notice's page read fields their routes do not answer with); the notice  *)
(* routes are used by other clients.                                       *)
(***************************************************************************)
EXTENDS Integers, FiniteSets, Sequences

CONSTANTS
  Desks,   \* the landlord's browser tabs
  Tabs,    \* the tenant's browser tabs
  Reqs,    \* requests and sendings that may be under way at once
  Casts    \* bound: which operations meet, how many presses, visits, edits and mishaps there are

Screens  == Desks \cup Tabs
DeskOp   == {"status", "notes", "prio", "send"}
TabOp    == {"submit", "reply", "mark"}
ClientOp == {"notice", "resend", "retext", "serve"}
PhoneOp  == {"call"}

TenantCareAssumption ==
  /\ Desks \cap Tabs = {}
  /\ Casts \subseteq [ops : SUBSET (DeskOp \cup TabOp \cup ClientOp \cup PhoneOp), presses : Nat,
                      visits : Nat, edits : Nat, haps : Nat]

Nobody == "nobody"

VARIABLES
  cast,
  leased, overdue,   \* is the lease active, is rent past due
  opted,             \* has the tenant opted out of the property's texts
  tickets,           \* maintenance requests, in order
  letters,           \* messages, in order
  notices,           \* notices, in order
  stored,            \* S3: the version of each notice's letter at its key; 0 is none
  texts,             \* Twilio: the texts it accepted, with the version it fetched
  page,              \* [Screens -> what a page shows and waits for]
  req,               \* [Reqs -> a request or a sending]
  budget,            \* presses, visits, edits and mishaps so far
  wishes, echoes,    \* history: letters and tickets meant; second presses after a success
  mixed,             \* history: tickets two status updates of which overlapped
  caught,            \* history: sendings past the opt-out check when STOP came
  crossed            \* history: notices two sendings of which overlapped

world == <<leased, overdue, opted>>
mail  == <<notices, stored, texts>>
past  == <<wishes, echoes, mixed, caught, crossed>>
vars  == <<cast, world, tickets, letters, mail, page, req, budget, past>>

-----------------------------------------------------------------------------
(* Records *)

Open == {"open", "in_progress"}
Done == {"completed", "closed"}
NewTicket == [status |-> "open", resolved |-> FALSE, notes |-> "old", prio |-> "old"]
NewLetter(by) == [by |-> by, read |-> FALSE]
NewNotice == [text |-> 1, served |-> FALSE, sent |-> FALSE]
Closed == [at |-> "none", need |-> FALSE, seen |-> <<>>, busy |-> {}, again |-> {}, sent |-> FALSE]
Idle == [op |-> "none", pc |-> "idle", scr |-> Nobody, i |-> 0, val |-> "old", seen |-> "open", ver |-> 0]

Given(ops, new) == IF cast.ops \cap ops # {} THEN <<new>> ELSE <<>>

Init ==
  /\ cast \in Casts
  /\ leased = TRUE /\ overdue = TRUE /\ opted = FALSE
  /\ tickets = Given({"status", "notes", "prio"}, NewTicket)
  /\ letters = Given({"reply", "mark"}, NewLetter("landlord"))
  /\ notices = <<>> /\ stored = <<>> /\ texts = <<>>
  /\ page = [s \in Screens |-> Closed] /\ req = [r \in Reqs |-> Idle]
  /\ budget = [presses |-> 0, visits |-> 0, edits |-> 0, haps |-> 0]
  /\ wishes = Len(tickets) + Len(letters)
  /\ echoes = 0 /\ mixed = {} /\ caught = 0 /\ crossed = {}

Spend(k) == budget[k] < cast[k] /\ budget' = [budget EXCEPT ![k] = @ + 1]
At(r, op, pc) == req[r].op = op /\ req[r].pc = pc
Goes(r, q) == req' = [req EXCEPT ![r] = q]

-----------------------------------------------------------------------------
(* Pages *)

PageOf(op) ==
  CASE op \in {"status", "notes", "prio"} -> "desk_tickets"
    [] op = "send" -> "desk_messages"
    [] op = "submit" -> "tab_tickets"
    [] op \in {"reply", "mark"} -> "tab_messages"

DeskPages == {PageOf(op) : op \in DeskOp}
TabPages  == {PageOf(op) : op \in TabOp}

\* a page is opened or reloaded; what it waited for it no longer hears of
Visit(s, at) ==
  /\ at \in IF s \in Desks THEN DeskPages ELSE TabPages
  /\ \E op \in cast.ops \cap (DeskOp \cup TabOp) : PageOf(op) = at
  /\ Spend("visits")
  /\ page' = [page EXCEPT ![s] = [Closed EXCEPT !.at = at, !.need = TRUE]]
  /\ req' = [r \in Reqs |-> IF req[r].scr = s THEN [req[r] EXCEPT !.scr = Nobody] ELSE req[r]]
  /\ UNCHANGED <<cast, world, tickets, letters, mail, past>>

Load(s) ==
  /\ page[s].need
  /\ page' = [page EXCEPT ![s].need = FALSE,
                          ![s].seen = IF page[s].at \in {"desk_tickets", "tab_tickets"} THEN tickets ELSE letters]
  /\ UNCHANGED <<cast, world, tickets, letters, mail, req, budget, past>>

\* the page goes on with what it had; a tenant's message page shows a demonstration
LoadFails(s) ==
  /\ page[s].need
  /\ Spend("haps")
  /\ page' = [page EXCEPT ![s].need = FALSE]
  /\ UNCHANGED <<cast, world, tickets, letters, mail, req, past>>

\* the panel of a listed ticket, whose buttons save one column each; the forms of the other pages
Offered(p, op) ==
  /\ p.at = PageOf(op)
  /\ op \in {"status", "notes", "prio", "submit"} => ~p.need
  /\ op \in {"status", "notes", "prio", "reply", "mark"} => p.seen # <<>>
Ready(s, op) == op \notin page[s].busy /\ Offered(page[s], op)

Press(s, r, op) ==
  /\ op \in cast.ops /\ Ready(s, op)
  /\ req[r].pc = "idle" /\ Spend("presses")
  /\ page' = [page EXCEPT ![s].busy = @ \cup {op}]

\* "Update" is enabled when the choice differs from what the page was loaded with
PressStatus(s, r) ==
  /\ Press(s, r, "status")
  /\ \E i \in DOMAIN page[s].seen : \E v \in (Open \cup Done) \ {page[s].seen[i].status} :
       Goes(r, [Idle EXCEPT !.op = "status", !.pc = "read", !.scr = s, !.i = i, !.val = v])
  /\ UNCHANGED <<cast, world, tickets, letters, mail, past>>

PressColumn(s, r, col) ==
  /\ Press(s, r, col)
  /\ \E i \in DOMAIN page[s].seen, v \in {"old", "new"} :
       /\ col = "prio" => v # page[s].seen[i].prio
       /\ Goes(r, [Idle EXCEPT !.op = col, !.pc = "write", !.scr = s, !.i = i, !.val = v])
  /\ UNCHANGED <<cast, world, tickets, letters, mail, past>>

\* The same wish after an error, another one otherwise. For two seconds after a success the
\* message form stands there filled and enabled: pressing again sends the message again.
Meant(s, op) ==
  IF op = "send" /\ page[s].sent THEN echoes' = echoes + 1 /\ UNCHANGED wishes
  ELSE UNCHANGED echoes /\ wishes' = IF op \in page[s].again THEN wishes ELSE wishes + 1

PressWrite(s, r, op) ==
  /\ op \in {"send", "submit", "reply"}
  /\ Press(s, r, op) /\ Meant(s, op)
  /\ Goes(r, [Idle EXCEPT !.op = op, !.pc = IF op = "submit" THEN "read" ELSE "write", !.scr = s])
  /\ UNCHANGED <<cast, world, tickets, letters, mail, mixed, caught, crossed>>

\* opening a letter that is not marked read, whoever wrote it; no button, so never busy
Expand(s, r) ==
  /\ "mark" \in cast.ops /\ Offered(page[s], "mark")
  /\ req[r].pc = "idle" /\ Spend("presses")
  /\ \E i \in DOMAIN page[s].seen :
       /\ ~page[s].seen[i].read
       /\ Goes(r, [Idle EXCEPT !.op = "mark", !.pc = "write", !.scr = s, !.i = i])
  /\ UNCHANGED <<cast, world, tickets, letters, mail, page, past>>

\* two seconds later the form is cleared and closed
ModalCloses(s) ==
  /\ page[s].sent
  /\ page' = [page EXCEPT ![s].sent = FALSE]
  /\ UNCHANGED <<cast, world, tickets, letters, mail, req, budget, past>>

\* the ticket list is read again, and its open panel starts anew
Reloaded(p) == [p EXCEPT !.need = TRUE, !.busy = {}]

\* what a page does with an answer; `made` is what the route answered with
Hears(page0, q, ok, made) ==
  LET p == [page0 EXCEPT !.busy = @ \ {q.op}] IN
  IF ~ok THEN [p EXCEPT !.again = @ \cup ({q.op} \ {"mark"})]
  ELSE CASE q.op \in {"status", "notes", "prio"} -> Reloaded(p)
         [] q.op = "send" -> [p EXCEPT !.sent = TRUE, !.need = TRUE, !.again = @ \ {"send"}]
         [] q.op \in {"submit", "reply"} -> [p EXCEPT !.seen = Append(@, made), !.again = @ \ {q.op}]
         [] q.op = "mark" -> [p EXCEPT !.seen[q.i].read = TRUE]

Heard(q, ok, made) == IF q.scr = Nobody THEN page ELSE [page EXCEPT ![q.scr] = Hears(@, q, ok, made)]

Ends(r, ok, made) == Goes(r, Idle) /\ page' = Heard(req[r], ok, made)

\* the network fails the page while the request goes on
AnswerLost(r) ==
  /\ req[r].pc # "idle" /\ req[r].scr # Nobody
  /\ Spend("haps")
  /\ page' = Heard(req[r], FALSE, {}) /\ Goes(r, [req[r] EXCEPT !.scr = Nobody])
  /\ UNCHANGED <<cast, world, tickets, letters, mail, past>>

-----------------------------------------------------------------------------
(* Maintenance requests *)

\* POST api/portal/maintenance: only for an active lease; the mail to the landlord may fail
SubmitRead(r) ==
  /\ At(r, "submit", "read")
  /\ IF leased THEN Goes(r, [req[r] EXCEPT !.pc = "write"]) /\ UNCHANGED page
               ELSE Ends(r, FALSE, {})
  /\ UNCHANGED <<cast, world, tickets, letters, mail, budget, past>>

SubmitWrite(r) ==
  /\ At(r, "submit", "write")
  /\ tickets' = Append(tickets, NewTicket)
  /\ Ends(r, TRUE, NewTicket)
  /\ UNCHANGED <<cast, world, letters, mail, budget, past>>

\* createMaintenanceRequest, for a caller or texter the phone number of whom is the tenant's: no
\* lease is needed
Called ==
  /\ "call" \in cast.ops /\ Spend("presses")
  /\ tickets' = Append(tickets, NewTicket) /\ wishes' = wishes + 1
  /\ UNCHANGED <<cast, world, letters, mail, page, req, echoes, mixed, caught, crossed>>

\* PUT api/maintenance/[id]: the row is read ...
StatusRead(r) ==
  LET i == req[r].i IN
  /\ At(r, "status", "read")
  /\ Goes(r, [req[r] EXCEPT !.pc = "write", !.seen = tickets[i].status])
  /\ mixed' = IF \E q \in Reqs : At(q, "status", "write") /\ req[q].i = i THEN mixed \cup {i} ELSE mixed
  /\ UNCHANGED <<cast, world, tickets, letters, mail, page, budget, wishes, echoes, caught, crossed>>

\* mutant: reopening keeps the stamp
ResolvedKept(t, seen, status) == t.resolved \/ (status \in Done /\ seen \in Open)

\* resolvedAt: set when the status read was not a done one, cleared by reopening
Resolved(t, seen, status) ==
  CASE status \in Open -> FALSE
    [] status \in Done /\ seen \in Open -> TRUE
    [] OTHER -> t.resolved

\* ... and updated from what was read
StatusWrite(r) ==
  LET i == req[r].i  v == req[r].val IN
  /\ At(r, "status", "write")
  /\ tickets' = [tickets EXCEPT ![i].status = v, ![i].resolved = Resolved(tickets[i], req[r].seen, v)]
  /\ Ends(r, TRUE, {})
  /\ UNCHANGED <<cast, world, letters, mail, budget, past>>

ColumnWrite(r) ==
  /\ req[r].op \in {"notes", "prio"} /\ req[r].pc = "write"
  /\ tickets' = [tickets EXCEPT ![req[r].i][req[r].op] = req[r].val]
  /\ Ends(r, TRUE, {})
  /\ UNCHANGED <<cast, world, letters, mail, budget, past>>

-----------------------------------------------------------------------------
(* Messages *)

\* POST api/messages, POST api/portal/messages
LetterWrite(r) ==
  LET new == NewLetter(IF req[r].op = "send" THEN "landlord" ELSE "tenant") IN
  /\ req[r].op \in {"send", "reply"} /\ req[r].pc = "write"
  /\ letters' = Append(letters, new)
  /\ Ends(r, TRUE, new)
  /\ UNCHANGED <<cast, world, tickets, mail, budget, past>>

\* PUT api/portal/messages; one flag serves both sides
MarkWrite(r) ==
  /\ At(r, "mark", "write")
  /\ letters' = [letters EXCEPT ![req[r].i].read = TRUE]
  /\ Ends(r, TRUE, {})
  /\ UNCHANGED <<cast, world, tickets, mail, budget, past>>

-----------------------------------------------------------------------------
(* Notices *)

\* a five-day notice needs rent that is past due when it is read
Servable(kind) == kind = "five_day" => overdue

\* POST api/notices
NoticeCheck(r) ==
  /\ "notice" \in cast.ops /\ req[r].pc = "idle" /\ Spend("presses")
  /\ \E kind \in {"five_day", "ten_day", "thirty_day"} : Servable(kind)
  /\ Goes(r, [Idle EXCEPT !.op = "notice", !.pc = "create"])
  /\ UNCHANGED <<cast, world, tickets, letters, mail, page, past>>

Sending(i) == {q \in Reqs : req[q].op = "text" /\ req[q].i = i /\ req[q].pc # "read"}

\* the notice and its audit row; its sending goes on after the answer
NoticeCreate(r) ==
  /\ At(r, "notice", "create")
  /\ notices' = Append(notices, NewNotice) /\ stored' = Append(stored, 0)
  /\ Goes(r, [Idle EXCEPT !.op = "text", !.pc = "read", !.i = Len(notices) + 1])
  /\ UNCHANGED <<cast, world, tickets, letters, texts, page, budget, past>>

\* POST api/notices/[id]/sms
Resend(r, i) ==
  /\ "resend" \in cast.ops /\ req[r].pc = "idle" /\ Spend("presses")
  /\ Goes(r, [Idle EXCEPT !.op = "text", !.pc = "read", !.i = i])
  /\ UNCHANGED <<cast, world, tickets, letters, mail, page, past>>

\* PUT api/notices/[id]: another text, or how the notice was served
Retext(i) ==
  /\ "retext" \in cast.ops /\ Spend("edits")
  /\ notices' = [notices EXCEPT ![i].text = @ + 1]
  /\ UNCHANGED <<cast, world, tickets, letters, stored, texts, page, req, past>>

Serve(i) ==
  /\ "serve" \in cast.ops /\ Spend("edits")
  /\ notices' = [notices EXCEPT ![i].served = TRUE]
  /\ UNCHANGED <<cast, world, tickets, letters, stored, texts, page, req, past>>

\* sendNoticeSms, step 1: the notice as it is now
TextRead(r) ==
  LET i == req[r].i IN
  /\ At(r, "text", "read")
  /\ Goes(r, [req[r] EXCEPT !.pc = "check", !.ver = notices[i].text])
  /\ crossed' = IF Sending(i) # {} THEN crossed \cup {i} ELSE crossed
  /\ UNCHANGED <<cast, world, tickets, letters, mail, page, budget, wishes, echoes, mixed, caught>>

\* mutant: the opt-out is not looked up
TextCheckNever(r) ==
  /\ At(r, "text", "check")
  /\ Goes(r, [req[r] EXCEPT !.pc = "upload"])
  /\ UNCHANGED <<cast, world, tickets, letters, mail, page, budget, past>>

\* step 2
TextCheck(r) ==
  /\ At(r, "text", "check")
  /\ Goes(r, IF opted THEN Idle ELSE [req[r] EXCEPT !.pc = "upload"])
  /\ UNCHANGED <<cast, world, tickets, letters, mail, page, budget, past>>

\* steps 3 to 6: the letter goes to a key of the notice, not of the sending
TextUpload(r) ==
  /\ At(r, "text", "upload")
  /\ stored' = [stored EXCEPT ![req[r].i] = req[r].ver]
  /\ Goes(r, [req[r] EXCEPT !.pc = "send"])
  /\ UNCHANGED <<cast, world, tickets, letters, notices, texts, page, budget, past>>

\* steps 7 and 8: Twilio takes the text, or refuses it
TextSend(r) ==
  /\ At(r, "text", "send")
  /\ \/ /\ texts' = Append(texts, [i |-> req[r].i, ver |-> req[r].ver, got |-> 0, late |-> opted])
        /\ Goes(r, [req[r] EXCEPT !.pc = "mark"])
     \/ Goes(r, Idle) /\ UNCHANGED texts
  /\ UNCHANGED <<cast, world, tickets, letters, notices, stored, page, budget, past>>

\* step 9
TextMark(r) ==
  /\ At(r, "text", "mark")
  /\ notices' = [notices EXCEPT ![req[r].i].sent = TRUE]
  /\ Goes(r, Idle)
  /\ UNCHANGED <<cast, world, tickets, letters, stored, texts, page, budget, past>>

\* Twilio fetches the letter behind the link, some time in the four hours it is good for
Fetch(k) ==
  /\ k \in DOMAIN texts /\ texts[k].got = 0
  /\ texts' = [texts EXCEPT ![k].got = stored[texts[k].i]]
  /\ UNCHANGED <<cast, world, tickets, letters, notices, stored, page, req, budget, past>>

-----------------------------------------------------------------------------
(* The world and its mishaps *)

\* the tenant answers STOP or START
Stop ==
  /\ ~opted /\ Spend("edits")
  /\ opted' = TRUE
  /\ caught' = caught + Cardinality({r \in Reqs : req[r].op = "text" /\ req[r].pc \in {"upload", "send"}})
  /\ UNCHANGED <<cast, leased, overdue, tickets, letters, mail, page, req, wishes, echoes, mixed, crossed>>

Start ==
  /\ opted /\ Spend("edits")
  /\ opted' = FALSE
  /\ UNCHANGED <<cast, leased, overdue, tickets, letters, mail, page, req, past>>

RentPaid ==
  /\ overdue /\ "notice" \in cast.ops
  /\ overdue' = FALSE
  /\ UNCHANGED <<cast, leased, opted, tickets, letters, mail, page, req, budget, past>>

LeaseEnds ==
  /\ leased /\ "submit" \in cast.ops
  /\ leased' = FALSE
  /\ UNCHANGED <<cast, overdue, opted, tickets, letters, mail, page, req, budget, past>>

\* an error or a restart between two steps: a page hears of an error, a sending just ends
Die(r) ==
  /\ req[r].pc # "idle"
  /\ Spend("haps")
  /\ Ends(r, FALSE, {})
  /\ UNCHANGED <<cast, world, tickets, letters, mail, past>>

-----------------------------------------------------------------------------

PageStep(s) ==
  \/ \E at \in DeskPages \cup TabPages : Visit(s, at)
  \/ Load(s) \/ LoadFails(s) \/ ModalCloses(s)
  \/ \E r \in Reqs :
       \/ PressStatus(s, r) \/ PressColumn(s, r, "notes") \/ PressColumn(s, r, "prio")
       \/ Expand(s, r)
       \/ \E op \in {"send", "submit", "reply"} : PressWrite(s, r, op)

ServerStep(r) ==
  \/ SubmitRead(r) \/ SubmitWrite(r) \/ StatusRead(r) \/ StatusWrite(r) \/ ColumnWrite(r)
  \/ LetterWrite(r) \/ MarkWrite(r)
  \/ NoticeCheck(r) \/ NoticeCreate(r)
  \/ \E i \in DOMAIN notices : Resend(r, i)
  \/ TextRead(r) \/ TextCheck(r) \/ TextUpload(r) \/ TextSend(r) \/ TextMark(r)

Next ==
  \/ \E s \in Screens : PageStep(s)
  \/ \E r \in Reqs : ServerStep(r) \/ AnswerLost(r) \/ Die(r)
  \/ \E i \in DOMAIN notices : Retext(i) \/ Serve(i)
  \/ \E k \in DOMAIN texts : Fetch(k)
  \/ Called \/ Stop \/ Start \/ RentPaid \/ LeaseEnds

Spec == Init /\ [][Next]_vars

-----------------------------------------------------------------------------
(* Properties *)

TypeOK ==
  /\ leased \in BOOLEAN /\ overdue \in BOOLEAN /\ opted \in BOOLEAN
  /\ \A i \in DOMAIN tickets :
       tickets[i] \in [status : Open \cup Done, resolved : BOOLEAN, notes : {"old", "new"}, prio : {"old", "new"}]
  /\ \A i \in DOMAIN letters : letters[i] \in [by : {"landlord", "tenant"}, read : BOOLEAN]
  /\ \A i \in DOMAIN notices : notices[i] \in [text : Nat, served : BOOLEAN, sent : BOOLEAN]
  /\ stored \in [DOMAIN notices -> Nat]
  /\ \A k \in DOMAIN texts : texts[k].i \in DOMAIN notices /\ texts[k].got <= notices[texts[k].i].text
  /\ mixed \subseteq DOMAIN tickets /\ crossed \subseteq DOMAIN notices

\* A ticket or a letter is made as often as somebody meant it; each exception stands for a lost
\* answer or a died request after which the page asked to try again, or for a second press while
\* the landlord's message form still stands after its success (messages/page.tsx handleSendMessage).
AskedOnce ==
  /\ TypeOK
  /\ Len(tickets) + Len(letters) <= wishes + echoes + budget.haps

\* A maintenance request that is open has no resolution stamp, whatever overlaps; one that is
\* done has one, unless two updates of its status overlapped, each read before the other wrote
\* (api/maintenance/[id] PUT decides the stamp from the row it read).
ResolvedWhenDone ==
  \A i \in DOMAIN tickets :
    /\ tickets[i].resolved => tickets[i].status \in Done
    /\ tickets[i].status \in Done /\ i \notin mixed => tickets[i].resolved

Unmarked ==
  {k \in DOMAIN texts :
     /\ ~notices[texts[k].i].sent
     /\ \A r \in Reqs : ~(At(r, "text", "mark") /\ req[r].i = texts[k].i)}

\* After STOP only those notice texts still go out whose sending had passed the opt-out check;
\* the letter Twilio fetches for a text is never older than the one its sending read, unless two
\* sendings of the notice overlapped, whose uploads share their key; and a notice whose text
\* went out says so, but for one exception for each sending that died (sendNoticeSms).
NoticeTexts ==
  /\ Cardinality({k \in DOMAIN texts : texts[k].late}) <= caught
  /\ \A k \in DOMAIN texts : texts[k].got # 0 /\ texts[k].i \notin crossed => texts[k].got >= texts[k].ver
  /\ Cardinality(Unmarked) <= budget.haps
=============================================================================
