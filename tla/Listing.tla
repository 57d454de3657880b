------------------------------ MODULE Listing ------------------------------
(***************************************************************************)
(* A landlord's properties and what applicants are asked about them: the   *)
(* pages that create, open and edit a property (apps/dashboard, properties *)
(* and onboarding), and the requests that create and delete it, keep its   *)
(* questions in order and its photos in number (api/properties).           *)
(*                                                                         *)
(* No request is one transaction: each looks, then writes, and a page goes *)
(* on working with the list of questions it loaded when it was opened.     *)
(***************************************************************************)
EXTENDS Integers, FiniteSets, Sequences

CONSTANTS
  Props,      \* properties
  Tabs,       \* open pages
  Reqs,       \* requests the dashboard may be serving at once
  Std,        \* standard questions (11 in the code)
  MaxPhotos,  \* photos of a property (20 in the code)
  MaxQuest,   \* bound: questions ever made for a property
  ListCasts   \* bound: which operations meet, requests and mishaps; with it the plan's limit

Op == {"create", "photo", "unphoto", "add", "reorder", "drop", "delete", "toggle", "draft", "call"}

ASSUME ListingAssumption ==
  /\ Std \in Nat \ {0} /\ MaxPhotos \in Nat /\ MaxQuest \in Nat /\ MaxQuest >= Std
  /\ IsFiniteSet(Props) /\ IsFiniteSet(Tabs) /\ IsFiniteSet(Reqs) /\ "none" \notin Props \cup Tabs
  /\ ListCasts \subseteq [ops : SUBSET Op, begun : Nat, haps : Nat, live : SUBSET Props, limit : Nat]
  /\ \A c \in ListCasts : Cardinality(c.live) <= c.limit

VARIABLES
  listCast,
  prop,     \* [Props -> the Property row and what hangs on it]
  quest,    \* [Props -> the Question rows, by id]
  active,   \* [Props -> Property.isActive]
  onboarded,
  tab,      \* [Tabs -> a page]
  req,      \* [Reqs -> a request]
  begun, haps,
  mixed,    \* history: properties whose question order may have gone wrong
  crowd,    \* history: counts taken while another request was about to insert
  sure      \* history: drafts begun on a property with all its standard questions

store == <<prop, quest, active>>
listVars == <<listCast, store, onboarded, tab, req, begun, haps, mixed, crowd, sure>>

-----------------------------------------------------------------------------
(* Records *)

None == "none"
Page == {"away", "list", "detail", "editor", "first", "phone", "questions"}
Fresh == [q \in 1..Std |-> [order |-> q - 1, std |-> TRUE]]
NoRow == [st |-> "none", photos |-> 0, made |-> 0, draft |-> FALSE, tied |-> FALSE]
NewRow == [NoRow EXCEPT !.st = "live", !.made = Std]
Away == [at |-> "away", p |-> None, qs |-> <<>>, active |-> FALSE]
Idle == [op |-> "none", p |-> None, t |-> None, pc |-> "idle", n |-> 0, q |-> 0,
         std |-> FALSE, left |-> 0, list |-> <<>>]

Live == {p \in Props : prop[p].st = "live"}
Rows(p) == DOMAIN quest[p]
Orders(p) == {quest[p][q].order : q \in Rows(p)}
Whole(p) == Cardinality({q \in Rows(p) : quest[p][q].std}) >= Std
Listed(s) == {s[i] : i \in 1..Len(s)}

\* the ids of the questions of p in their order; equal orders come in any order
Sorted(p) ==
  {s \in [1..Cardinality(Rows(p)) -> Rows(p)] :
     /\ Listed(s) = Rows(p)
     /\ \A i, j \in DOMAIN s : i < j => quest[p][s[i]].order <= quest[p][s[j]].order}

Cut(s, i) == SubSeq(s, 1, i - 1) \o SubSeq(s, i + 1, Len(s))

\* drag the question at i to j
Moved(s, i, j) ==
  LET rest == Cut(s, i) IN SubSeq(rest, 1, j - 1) \o <<s[i]>> \o SubSeq(rest, j, Len(rest))

\* a page shows a question once
Without(s, q) == IF q \in Listed(s) THEN Cut(s, CHOOSE i \in 1..Len(s) : s[i] = q) ELSE s

\* requests of one kind that have looked at p and not yet written
Past(op, p, pc) == {r \in Reqs : req[r].op = op /\ req[r].p = p /\ req[r].pc = pc}

ListInit ==
  /\ listCast \in ListCasts
  /\ prop = [p \in Props |-> IF p \in listCast.live THEN NewRow ELSE NoRow]
  /\ quest = [p \in Props |-> IF p \in listCast.live THEN Fresh ELSE <<>>]
  /\ active = [p \in Props |-> FALSE]
  /\ onboarded = (listCast.live # {})
  /\ tab = [t \in Tabs |-> Away]
  /\ req = [r \in Reqs |-> Idle]
  /\ begun = 0 /\ haps = 0
  /\ mixed = {} /\ crowd = [p \in Props \cup {None} |-> 0] /\ sure = {}

Go(r, q) == req' = [req EXCEPT ![r] = q]
Starts(r, op, q) ==
  /\ req[r].pc = "idle" /\ op \in listCast.ops /\ begun < listCast.begun
  /\ Go(r, [q EXCEPT !.op = op]) /\ begun' = begun + 1
  /\ UNCHANGED <<listCast, store, onboarded, haps, mixed, crowd, sure>>
Done(r) == Go(r, Idle)

-----------------------------------------------------------------------------
(* Pages *)

\* requests of t that are under way answer a page that is no longer there
Unheard(t) == [r \in Reqs |-> IF req[r].t = t THEN [req[r] EXCEPT !.t = None] ELSE req[r]]

Details(p) == [at : {"detail"}, p : {p}, qs : {<<>>}, active : {active[p]}]
Editors(p) == [at : {"editor"}, p : {p}, qs : Sorted(p), active : {FALSE}]

\* a page of the dashboard: until the landlord is onboarded they all lead to the wizard
Open(t) ==
  /\ listCast.ops # {}
  /\ \E to \in [at : {"first"} \cup IF onboarded THEN {"list"} ELSE {}, p : {None}, qs : {<<>>}, active : {FALSE}]
          \cup IF onboarded THEN UNION {Details(p) \cup Editors(p) : p \in Live} ELSE {} :
       to # tab[t] /\ tab' = [tab EXCEPT ![t] = to]
  /\ req' = Unheard(t)
  /\ UNCHANGED <<listCast, store, onboarded, begun, haps, mixed, crowd, sure>>

\* the wizard: a property, its phone (PhoneLine) or not, its questions, the end
Seeding(t) == \E r \in Reqs : req[r].t = t /\ req[r].std

WizardQuestions(t) ==
  /\ tab[t].at = "phone" /\ tab[t].p \in Live /\ Rows(tab[t].p) # {}
  /\ \E s \in Sorted(tab[t].p) : tab' = [tab EXCEPT ![t] = [@ EXCEPT !.at = "questions", !.qs = s]]
  /\ UNCHANGED <<listCast, store, onboarded, req, begun, haps, mixed, crowd, sure>>

\* no question there: the standard ones are added, one request after the other
WizardSeed(t, r) ==
  /\ tab[t].at = "phone" /\ (tab[t].p \notin Live \/ Rows(tab[t].p) = {})
  /\ Starts(r, "add", [Idle EXCEPT !.p = tab[t].p, !.t = t, !.pc = "look", !.std = TRUE, !.left = Std - 1])
  /\ tab' = [tab EXCEPT ![t] = [@ EXCEPT !.at = "questions"]]

WizardEnd(t) ==
  /\ tab[t].at = "questions" /\ ~Seeding(t)
  /\ onboarded' = TRUE /\ tab' = [tab EXCEPT ![t] = [Away EXCEPT !.at = "list"]]
  /\ req' = Unheard(t)
  /\ UNCHANGED <<listCast, store, begun, haps, mixed, crowd, sure>>

\* the Active switch sends the opposite of what the page shows
Toggle(t) ==
  /\ tab[t].at = "detail" /\ tab[t].p \in Live /\ "toggle" \in listCast.ops
  /\ active' = [active EXCEPT ![tab[t].p] = ~tab[t].active]
  /\ UNCHANGED <<listCast, prop, quest, onboarded, tab, req, begun, haps, mixed, crowd, sure>>

-----------------------------------------------------------------------------
(* A property is created *)

AskCreate(t, r) ==
  /\ tab[t].at \in {"list", "first"} /\ \A x \in Reqs : req[x].t # t
  /\ Starts(r, "create", [Idle EXCEPT !.t = t, !.pc = "look"])
  /\ UNCHANGED tab

\* mutant: one more than the plan allows
BelowOff(n, max) == n <= max

Below(n, max) == n < max

CreateLook(r) ==
  /\ req[r].op = "create" /\ req[r].pc = "look"
  /\ IF Below(Cardinality(Live), listCast.limit)
       THEN /\ Go(r, [req[r] EXCEPT !.pc = "insert"])
            /\ crowd' = [crowd EXCEPT ![None] = IF Past("create", None, "insert") # {} THEN @ + 1 ELSE @]
       ELSE Done(r) /\ UNCHANGED crowd
  /\ UNCHANGED <<listCast, store, onboarded, tab, begun, haps, mixed, sure>>

\* the row and its standard questions are one write; the page then goes to it
CreateInsert(r) ==
  /\ req[r].op = "create" /\ req[r].pc = "insert"
  /\ \E p \in Props :
       /\ prop[p].st = "none"
       /\ prop' = [prop EXCEPT ![p] = NewRow] /\ quest' = [quest EXCEPT ![p] = Fresh]
       /\ tab' = [t \in Tabs |->
                    IF t # req[r].t THEN tab[t]
                    ELSE [Away EXCEPT !.p = p, !.at = IF tab[t].at = "first" THEN "phone" ELSE "detail"]]
  /\ Done(r)
  /\ UNCHANGED <<listCast, active, onboarded, begun, haps, mixed, crowd, sure>>

-----------------------------------------------------------------------------
(* Photos *)

AskPhoto(t, r) ==
  /\ tab[t].at = "detail"
  /\ Starts(r, "photo", [Idle EXCEPT !.p = tab[t].p, !.pc = "look"])
  /\ UNCHANGED tab

PhotoLook(r) ==
  LET p == req[r].p IN
  /\ req[r].op = "photo" /\ req[r].pc = "look"
  /\ IF p \in Live /\ Below(prop[p].photos, MaxPhotos)
       THEN /\ Go(r, [req[r] EXCEPT !.pc = "insert"])
            /\ crowd' = [crowd EXCEPT ![p] = IF Past("photo", p, "insert") # {} THEN @ + 1 ELSE @]
       ELSE Done(r) /\ UNCHANGED crowd
  /\ UNCHANGED <<listCast, store, onboarded, tab, begun, haps, mixed, sure>>

PhotoInsert(r) ==
  LET p == req[r].p IN
  /\ req[r].op = "photo" /\ req[r].pc = "insert"
  /\ prop' = IF p \in Live THEN [prop EXCEPT ![p].photos = @ + 1] ELSE prop
  /\ Done(r)
  /\ UNCHANGED <<listCast, quest, active, onboarded, tab, begun, haps, mixed, crowd, sure>>

PhotoDelete(p) ==
  /\ p \in Live /\ prop[p].photos > 0 /\ "unphoto" \in listCast.ops
  /\ prop' = [prop EXCEPT ![p].photos = @ - 1]
  /\ UNCHANGED <<listCast, quest, active, onboarded, tab, req, begun, haps, mixed, crowd, sure>>

-----------------------------------------------------------------------------
(* Questions *)

AskAdd(t, r) ==
  /\ tab[t].at \in {"editor", "questions"} /\ ~Seeding(t) /\ ~\E x \in Reqs : req[x].t = t /\ req[x].op = "add"
  /\ Starts(r, "add", [Idle EXCEPT !.p = tab[t].p, !.t = t, !.pc = "look"])
  /\ UNCHANGED tab

\* mutant: the next order is the number of questions
NextOrderByCount(p) == Cardinality(Rows(p))

NextOrder(p) ==
  IF Rows(p) = {} THEN 0 ELSE 1 + CHOOSE m \in Orders(p) : \A o \in Orders(p) : o <= m

AddLook(r) ==
  LET p == req[r].p IN
  /\ req[r].op = "add" /\ req[r].pc = "look"
  /\ IF p \in Live
       THEN /\ Go(r, [req[r] EXCEPT !.pc = "insert", !.n = NextOrder(p)])
            /\ mixed' = IF Past("add", p, "insert") # {} THEN mixed \cup {p} ELSE mixed
       ELSE Done(r) /\ UNCHANGED mixed
  /\ UNCHANGED <<listCast, store, onboarded, tab, begun, haps, crowd, sure>>

AddInsert(r) ==
  LET p == req[r].p
      q == prop[p].made + 1 IN
  /\ req[r].op = "add" /\ req[r].pc = "insert"
  /\ IF p \in Live
       THEN /\ q <= MaxQuest
            /\ prop' = [prop EXCEPT ![p] = [@ EXCEPT !.made = q]]
            /\ quest' = [quest EXCEPT ![p] =
                 [x \in Rows(p) \cup {q} |-> IF x = q THEN [order |-> req[r].n, std |-> req[r].std] ELSE @[x]]]
            /\ Go(r, [req[r] EXCEPT !.pc = "answer", !.q = q])
       ELSE Done(r) /\ UNCHANGED <<prop, quest>>
  /\ UNCHANGED <<listCast, active, onboarded, tab, begun, haps, mixed, crowd, sure>>

\* the page appends what it added and drops what it deleted; a seed goes on with the next
Answer(r) ==
  LET q == req[r]
      on == q.t # None /\ q.p = tab[q.t].p IN
  /\ q.pc = "answer"
  /\ tab' = IF ~on THEN tab
            ELSE [tab EXCEPT ![q.t].qs = IF q.op = "add" THEN Append(@, q.q) ELSE Without(@, q.q)]
  /\ IF q.left > 0 /\ q.t # None THEN Go(r, [q EXCEPT !.pc = "look", !.left = @ - 1]) ELSE Done(r)
  /\ UNCHANGED <<listCast, store, onboarded, begun, haps, mixed, crowd, sure>>

\* the page shows the new order at once and sends it, whatever comes back
AskReorder(t, r) ==
  /\ tab[t].at = "editor"
  /\ \E i, j \in 1..Len(tab[t].qs) :
       /\ i # j
       /\ LET s == Moved(tab[t].qs, i, j) IN
            /\ tab' = [tab EXCEPT ![t] = [@ EXCEPT !.qs = s]]
            /\ Starts(r, "reorder", [Idle EXCEPT !.p = tab[t].p, !.pc = "look", !.list = s])

ReorderLook(r) ==
  /\ req[r].op = "reorder" /\ req[r].pc = "look"
  /\ IF req[r].p \in Live /\ Listed(req[r].list) \subseteq Rows(req[r].p)
       THEN Go(r, [req[r] EXCEPT !.pc = "commit"]) ELSE Done(r)
  /\ UNCHANGED <<listCast, store, onboarded, tab, begun, haps, mixed, crowd, sure>>

\* one transaction: all the orders, or none if a question has gone
ReorderCommit(r) ==
  LET p == req[r].p
      s == req[r].list IN
  /\ req[r].op = "reorder" /\ req[r].pc = "commit"
  /\ IF Listed(s) \subseteq Rows(p)
       THEN /\ quest' = [quest EXCEPT ![p] =
                 [q \in Rows(p) |-> IF q \in Listed(s)
                                      THEN [@[q] EXCEPT !.order = (CHOOSE i \in 1..Len(s) : s[i] = q) - 1] ELSE @[q]]]
            /\ mixed' = CASE Listed(s) # Rows(p) -> mixed \cup {p}
                          [] Listed(s) = Rows(p) /\ Past("add", p, "insert") = {} -> mixed \ {p}
                          [] OTHER -> mixed
       ELSE UNCHANGED <<quest, mixed>>
  /\ Done(r)
  /\ UNCHANGED <<listCast, prop, active, onboarded, tab, begun, haps, crowd, sure>>

AskDrop(t, r) ==
  /\ tab[t].at \in {"editor", "questions"} /\ ~Seeding(t)
  /\ \E q \in Listed(tab[t].qs) :
       Starts(r, "drop", [Idle EXCEPT !.p = tab[t].p, !.t = t, !.pc = "look", !.q = q])
  /\ UNCHANGED tab

\* a standard question stays
Drop(r) ==
  LET p == req[r].p
      q == req[r].q IN
  /\ req[r].op = "drop" /\ req[r].pc = "look"
  /\ IF p \in Live /\ q \in Rows(p) /\ ~quest[p][q].std
       THEN /\ quest' = [quest EXCEPT ![p] = [x \in Rows(p) \ {q} |-> @[x]]]
            /\ Go(r, [req[r] EXCEPT !.pc = "answer"])
       ELSE Done(r) /\ UNCHANGED quest
  /\ UNCHANGED <<listCast, prop, active, onboarded, tab, begun, haps, mixed, crowd, sure>>

-----------------------------------------------------------------------------
(* Drafts, and the deletion of a property *)

\* an applicant begins: a call, a text or a form of an active property
DraftBegin(p) ==
  /\ p \in Live /\ active[p] /\ ~prop[p].draft /\ "draft" \in listCast.ops
  /\ prop' = [prop EXCEPT ![p] = [@ EXCEPT !.draft = TRUE]]
  /\ sure' = IF Whole(p) /\ ~\E r \in Reqs : req[r].op = "delete" /\ req[r].p = p /\ req[r].pc # "look"
               THEN sure \cup {p} ELSE sure
  /\ UNCHANGED <<listCast, quest, active, onboarded, tab, req, begun, haps, mixed, crowd>>

DraftEnd(p) ==
  /\ prop[p].draft
  /\ prop' = [prop EXCEPT ![p] = [@ EXCEPT !.draft = FALSE, !.tied = TRUE]]
  /\ sure' = sure \ {p}
  /\ UNCHANGED <<listCast, quest, active, onboarded, tab, req, begun, haps, mixed, crowd>>

\* a call that leaves only its log
Call(p) ==
  /\ p \in Live /\ active[p] /\ "call" \in listCast.ops
  /\ prop' = [prop EXCEPT ![p] = [@ EXCEPT !.tied = TRUE]]
  /\ UNCHANGED <<listCast, quest, active, onboarded, tab, req, begun, haps, mixed, crowd, sure>>

AskDelete(t, r) ==
  /\ tab[t].at = "detail"
  /\ Starts(r, "delete", [Idle EXCEPT !.p = tab[t].p, !.pc = "look"])
  /\ UNCHANGED tab

\* mutant: applications under way do not matter
MayDeleteAny(p) == p \in Live

MayDelete(p) == p \in Live /\ ~prop[p].draft

DeleteLook(r) ==
  /\ req[r].op = "delete" /\ req[r].pc = "look"
  /\ IF MayDelete(req[r].p) THEN Go(r, [req[r] EXCEPT !.pc = "questions"]) ELSE Done(r)
  /\ UNCHANGED <<listCast, store, onboarded, tab, begun, haps, mixed, crowd, sure>>

DeleteQuestions(r) ==
  /\ req[r].op = "delete" /\ req[r].pc = "questions"
  /\ quest' = [quest EXCEPT ![req[r].p] = <<>>]
  /\ Go(r, [req[r] EXCEPT !.pc = "photos"])
  /\ UNCHANGED <<listCast, prop, active, onboarded, tab, begun, haps, mixed, crowd, sure>>

DeletePhotos(r) ==
  /\ req[r].op = "delete" /\ req[r].pc = "photos"
  /\ prop' = [prop EXCEPT ![req[r].p] = [@ EXCEPT !.photos = 0]]
  /\ Go(r, [req[r] EXCEPT !.pc = "row"])
  /\ UNCHANGED <<listCast, quest, active, onboarded, tab, begun, haps, mixed, crowd, sure>>

\* applications and call logs keep the row; questions and photos added meanwhile go with it
DeleteRow(r) ==
  LET p == req[r].p IN
  /\ req[r].op = "delete" /\ req[r].pc = "row"
  /\ IF p \in Live /\ ~prop[p].draft /\ ~prop[p].tied
       THEN /\ prop' = [prop EXCEPT ![p] = [NoRow EXCEPT !.st = "gone"]]
            /\ quest' = [quest EXCEPT ![p] = <<>>]
            /\ active' = [active EXCEPT ![p] = FALSE]
       ELSE UNCHANGED store
  /\ Done(r)
  /\ UNCHANGED <<listCast, onboarded, tab, begun, haps, mixed, crowd, sure>>

\* the dashboard stops between two steps: a deletion is left half done, a page that was
\* seeding loads for ever
Stop ==
  /\ haps < listCast.haps /\ \E r \in Reqs : req[r].pc # "idle"
  /\ req' = [r \in Reqs |-> Idle] /\ haps' = haps + 1
  /\ tab' = [t \in Tabs |-> IF Seeding(t) THEN Away ELSE tab[t]]
  /\ UNCHANGED <<listCast, store, onboarded, begun, mixed, crowd, sure>>

-----------------------------------------------------------------------------

PageStep(t) ==
  \/ Open(t) \/ WizardQuestions(t) \/ WizardEnd(t) \/ Toggle(t)
  \/ \E r \in Reqs :
       \/ WizardSeed(t, r) \/ AskCreate(t, r) \/ AskPhoto(t, r) \/ AskAdd(t, r)
       \/ AskReorder(t, r) \/ AskDrop(t, r) \/ AskDelete(t, r)
ReqStep(r) ==
  \/ CreateLook(r) \/ CreateInsert(r) \/ PhotoLook(r) \/ PhotoInsert(r)
  \/ AddLook(r) \/ AddInsert(r) \/ Answer(r) \/ ReorderLook(r) \/ ReorderCommit(r) \/ Drop(r)
  \/ DeleteLook(r) \/ DeleteQuestions(r) \/ DeletePhotos(r) \/ DeleteRow(r)
PropStep(p) == PhotoDelete(p) \/ DraftBegin(p) \/ DraftEnd(p) \/ Call(p)

ListNext ==
  \/ \E t \in Tabs : PageStep(t)
  \/ \E r \in Reqs : ReqStep(r)
  \/ \E p \in Props : PropStep(p)
  \/ Stop

ListSpec == ListInit /\ [][ListNext]_listVars

-----------------------------------------------------------------------------
(* Properties *)

ListTypes ==
  /\ \A p \in Props :
       /\ prop[p].st \in {"none", "live", "gone"} /\ prop[p].photos \in Nat /\ prop[p].made \in 0..MaxQuest
       /\ Rows(p) \subseteq 1..prop[p].made /\ Orders(p) \subseteq Nat
  /\ active \in [Props -> BOOLEAN]
  /\ \A t \in Tabs : tab[t].at \in Page /\ Listed(tab[t].qs) \subseteq 1..MaxQuest

\* No two questions of a property have the same place, so that every channel asks them in the
\* same order, unless two were being added at once or a page that did not show them all was
\* reordered; the next complete reordering sets that right (api/properties/[id]/questions).
OrdersDistinct ==
  ListTypes /\ \A p \in Props \ mixed : \A a, b \in Rows(p) : a # b => quest[p][a].order # quest[p][b].order

\* The plan's properties and a property's photos are exceeded by no more than the requests that
\* counted while another was about to insert (api/properties/route.ts, [id]/photos/route.ts).
CapsBounded ==
  /\ Cardinality(Live) <= listCast.limit + crowd[None]
  /\ \A p \in Props : prop[p].photos <= MaxPhotos + crowd[p]

\* An application begun on a property with all its standard questions, with no deletion under
\* way, has them until it ends: neither the editor nor a deletion takes one from it, though the
\* deletion's check and its three writes are separate statements (api/properties/[id]/route.ts).
DraftKeepsQuestions == \A p \in sure : p \in Live /\ Whole(p)
=============================================================================
