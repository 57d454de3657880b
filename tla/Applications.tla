--------------------------- MODULE Applications ---------------------------
(***************************************************************************)
(* Rental applications taken by the AI over a call or by text, and their   *)
(* review by the landlord: handlers/application-builder.ts with the tool   *)
(* dispatch of call-handler.ts and sms-handler.ts (apps/server), the       *)
(* application page of the dashboard and PUT /api/applications/[id].       *)
(*                                                                         *)
(* The AI's function calls are not queued: onFunctionCall is not awaited,  *)
(* so the calls of one response overlap.  A slot is one function call in   *)
(* flight; a call has as many slots as it can have calls in flight, a text *)
(* conversation has one, because the tools of a turn run in order and the  *)
(* texts of a phone one after the other.                                   *)
(***************************************************************************)
EXTENDS Integers, FiniteSets

CONSTANTS
  Calls,         \* voice calls and text conversations
  Texts,         \* those that are text conversations
  Slots,         \* function calls in flight
  CallOf,        \* [Slots -> Calls]
  PhoneOf,       \* [Calls -> phones]
  Phones,
  Keys,          \* field keys of the property's questions
  Custom,        \* those kept in the customResponses column
  Required,      \* those the property requires
  Reviewers,     \* open application pages of the dashboard
  Casts,         \* bound: who takes part together, sets of slots and pages
  MaxApps,       \* bound: applications ever made
  MaxFns,        \* bound: function calls the AI makes
  MaxReviews     \* bound: requests the dashboard sends

ASSUME ApplicationsAssumption ==
  /\ Texts \subseteq Calls
  /\ CallOf \in [Slots -> Calls] /\ PhoneOf \in [Calls -> Phones]
  /\ IsFiniteSet(Slots) /\ Slots \cap Reviewers = {}
  /\ Custom \subseteq Keys /\ Required \subseteq Keys
  /\ MaxApps \in Nat /\ MaxFns \in Nat /\ MaxReviews \in Nat

AppIds == 1..MaxApps
Statuses == {"in_progress", "completed", "reviewed", "rejected"}
Decided  == {"reviewed", "rejected"}

VARIABLES
  cast,       \* who takes part in this behaviour
  made,       \* applications made so far; row i is the i-th by createdAt
  row,        \* [AppIds made -> application row]
  app,        \* [Calls -> call.applicationId, conversation.applicationId; 0: none]
  ended,      \* calls hung up and conversations expired
  slot,       \* [Slots -> function call]
  page,       \* [Reviewers -> the status change under way on that page]
  fns, reviews,
  acked,      \* history: <<a, k>> when the applicant was told that k is saved
  overlapped, \* history: applications with two saves of custom answers at once
  byAI,       \* history: applications a complete_application has completed
  undone,     \* history: applications that lost the landlord's decision
  atRisk,     \* history: applications in somebody's hands when they were decided
  peak,       \* history: [Phones -> most function calls about to insert at once]
  texted,     \* history: [AppIds -> summaries texted to the owner]
  together    \* history: applications with two summaries on their way at once

decisions == <<undone, atRisk>>
told      == <<texted, together>>
ghosts == <<acked, overlapped, byAI, decisions, peak, told>>
vars == <<cast, made, row, app, ended, slot, page, fns, reviews, ghosts>>

Made == 1..made
AppRow == [phone : Phones, status : Statuses, fresh : BOOLEAN, filled : SUBSET Keys,
           log : Calls \cup {"none"}, forwarded : BOOLEAN]

NoFn  == [pc |-> "idle", key |-> "none", app |-> 0, seen |-> {}]
NoPut == [app |-> 0, what |-> "none"]

TypeOK ==
  /\ cast \in Casts /\ made \in 0..MaxApps
  /\ DOMAIN row = Made /\ \A a \in Made : row[a] \in AppRow
  /\ app \in [Calls -> 0..MaxApps] /\ ended \in SUBSET Calls
  /\ slot \in [Slots ->
       [pc : {"idle", "create", "link", "save", "merge", "mark", "forward", "texting"},
        key : Keys \cup {"none"}, app : 0..MaxApps, seen : SUBSET Keys]]
  /\ page \in [Reviewers -> [app : 0..MaxApps, what : Statuses \cup {"none"}]]
  /\ fns \in 0..MaxFns /\ reviews \in 0..MaxReviews
  /\ acked \in SUBSET (AppIds \X Keys) /\ overlapped \in SUBSET AppIds
  /\ byAI \in SUBSET AppIds /\ undone \in SUBSET AppIds /\ atRisk \in SUBSET AppIds
  /\ peak \in [Phones -> Nat] /\ texted \in [AppIds -> Nat] /\ together \in SUBSET AppIds

Init ==
  /\ cast \in Casts
  /\ made = 0 /\ row = [a \in {} |-> 0]
  /\ app = [c \in Calls |-> 0] /\ ended = {}
  /\ slot = [x \in Slots |-> NoFn]
  /\ page = [d \in Reviewers |-> NoPut]
  /\ fns = 0 /\ reviews = 0
  /\ acked = {} /\ overlapped = {} /\ byAI = {} /\ undone = {} /\ atRisk = {}
  /\ peak = [q \in Phones |-> 0]
  /\ texted = [a \in AppIds |-> 0] /\ together = {}

-----------------------------------------------------------------------------
(* Statuses written, and what a decision overturns *)

Phone(x) == PhoneOf[CallOf[x]]

\* somebody else than w goes on to write the status of a, or may, without reading it
Held(a, w) == \/ \E c \in Calls \ ended : app[c] = a
              \/ \E x \in Slots \ {w} : slot[x].app = a
              \/ \E d \in Reviewers \ {w} : page[d].app = a

Remember(a, w, new) ==
  /\ undone' = IF row[a].status \in Decided /\ new \notin Decided
                 THEN undone \cup {a} ELSE undone
  /\ atRisk' = IF row[a].status \notin Decided /\ new \in Decided /\ Held(a, w)
                 THEN atRisk \cup {a} ELSE atRisk

-----------------------------------------------------------------------------
(* The AI's function calls: dispatchFunctionCall and the tool loop *)

\* a function call that answers at once, without a write, is left out
Begin(x) ==
  /\ slot[x].pc = "idle" /\ x \in cast /\ CallOf[x] \notin ended
  /\ fns < MaxFns /\ fns' = fns + 1
  /\ UNCHANGED <<cast, made, row, app, ended, page, reviews, acked, overlapped, byAI, decisions, told>>

\* mutant: whatever its status, the newest application is resumed
ResumableAny(p) == {a \in Made : row[a].phone = p /\ row[a].fresh}

\* an application in progress made within APPLICATION_RESUME_DAYS
Resumable(p) == {a \in Made : row[a].phone = p /\ row[a].fresh /\ row[a].status = "in_progress"}
Newest(A) == CHOOSE a \in A : \A b \in A : b <= a

Inserting(p) == {x \in Slots : Phone(x) = p /\ slot[x].pc = "create"}
\* findOrCreateApplication, the queries
FindOrCreate(x, k) ==
  LET p == Phone(x)
      F == Resumable(p)
      n == Cardinality(Inserting(p)) + 1 IN
  /\ slot' = [slot EXCEPT ![x] =
       IF F = {} THEN [NoFn EXCEPT !.pc = "create", !.key = k]
       ELSE [NoFn EXCEPT !.pc = "link", !.key = k, !.app = Newest(F)]]
  /\ peak' = IF F = {} /\ n > peak[p] THEN [peak EXCEPT ![p] = n] ELSE peak

StartApplication(x) == Begin(x) /\ FindOrCreate(x, "none")

\* an answer with no application yet starts one
SaveField(x, k) ==
  LET a == app[CallOf[x]] IN
  /\ Begin(x)
  /\ \/ a = 0 /\ FindOrCreate(x, k)
     \/ /\ a # 0
        /\ slot' = [slot EXCEPT ![x] = [NoFn EXCEPT !.pc = "save", !.key = k, !.app = a]]
        /\ UNCHANGED peak

\* after completeApplication a call texts the owner, whatever the answer was; a
\* text conversation never does
AfterAnswer(x, a) ==
  IF CallOf[x] \in Texts THEN NoFn ELSE [NoFn EXCEPT !.pc = "forward", !.app = a]

\* completeApplication: are all required questions answered?
Complete(x) ==
  LET a == app[CallOf[x]] IN
  /\ Begin(x) /\ a # 0
  /\ slot' = [slot EXCEPT ![x] =
       IF Required \subseteq row[a].filled THEN [NoFn EXCEPT !.pc = "mark", !.app = a]
       ELSE AfterAnswer(x, a)]
  /\ UNCHANGED peak
NewApp(p) == [phone |-> p, status |-> "in_progress", fresh |-> TRUE, filled |-> {},
              log |-> "none", forwarded |-> FALSE]

\* findOrCreateApplication, the insert
Create(x) ==
  /\ slot[x].pc = "create" /\ made < MaxApps
  /\ made' = made + 1
  /\ row' = [a \in 1..(made + 1) |-> IF a = made + 1 THEN NewApp(Phone(x)) ELSE row[a]]
  /\ slot' = [slot EXCEPT ![x] = [slot[x] EXCEPT !.pc = "link", !.app = made + 1]]
  /\ UNCHANGED <<cast, app, ended, page, fns, reviews, ghosts>>

\* the application becomes the call's; the call log is unique among applications,
\* so for a second one of the same call the update throws and the tool fails
Link(x) ==
  LET c == CallOf[x]
      a == slot[x].app
      taken == c \notin Texts /\ \E b \in Made : b # a /\ row[b].log = c IN
  /\ slot[x].pc = "link"
  /\ app' = [app EXCEPT ![c] = a]
  /\ row' = IF c \in Texts \/ taken THEN row
            ELSE [row EXCEPT ![a] = [row[a] EXCEPT !.log = c]]
  /\ slot' = [slot EXCEPT ![x] = IF taken \/ slot[x].key = "none" THEN NoFn
                                 ELSE [slot[x] EXCEPT !.pc = "save"]]
  /\ UNCHANGED <<cast, made, ended, page, fns, reviews, ghosts>>

\* the validator, or the AI that reads the answer, does not take it
Invalid(x) ==
  /\ slot[x].pc = "save"
  /\ slot' = [slot EXCEPT ![x] = NoFn]
  /\ UNCHANGED <<cast, made, row, app, ended, page, fns, reviews, ghosts>>

Ack(x) == acked' = acked \cup {<<slot[x].app, slot[x].key>>}

\* a column of its own: one update
SaveColumn(x) ==
  LET a == slot[x].app IN
  /\ slot[x].pc = "save" /\ slot[x].key \notin Custom
  /\ row' = [row EXCEPT ![a] = [row[a] EXCEPT !.filled = row[a].filled \cup {slot[x].key}]]
  /\ slot' = [slot EXCEPT ![x] = NoFn]
  /\ Ack(x)
  /\ UNCHANGED <<cast, made, app, ended, page, fns, reviews, overlapped, byAI, decisions, peak, told>>

\* customResponses is read, and written back as a whole
ReadCustom(x) ==
  LET a == slot[x].app IN
  /\ slot[x].pc = "save" /\ slot[x].key \in Custom
  /\ slot' = [slot EXCEPT ![x] =
       [slot[x] EXCEPT !.pc = "merge", !.seen = row[a].filled \cap Custom]]
  /\ overlapped' = IF \E y \in Slots : slot[y].pc = "merge" /\ slot[y].app = a
                     THEN overlapped \cup {a} ELSE overlapped
  /\ UNCHANGED <<cast, made, row, app, ended, page, fns, reviews, acked, byAI, decisions, peak, told>>

\* mutant: what was read is not carried over
MergedAlone(x) == (row[slot[x].app].filled \ Custom) \cup {slot[x].key}

Merged(x) == (row[slot[x].app].filled \ Custom) \cup slot[x].seen \cup {slot[x].key}

WriteCustom(x) ==
  LET a == slot[x].app IN
  /\ slot[x].pc = "merge"
  /\ row' = [row EXCEPT ![a] = [row[a] EXCEPT !.filled = Merged(x)]]
  /\ slot' = [slot EXCEPT ![x] = NoFn]
  /\ Ack(x)
  /\ UNCHANGED <<cast, made, app, ended, page, fns, reviews, overlapped, byAI, decisions, peak, told>>

\* completeApplication: the status is not read
MarkCompleted(x) ==
  LET a == slot[x].app IN
  /\ slot[x].pc = "mark"
  /\ row' = [row EXCEPT ![a] = [row[a] EXCEPT !.status = "completed"]]
  /\ slot' = [slot EXCEPT ![x] = AfterAnswer(x, a)]
  /\ byAI' = byAI \cup {a}
  /\ Remember(a, x, "completed")
  /\ UNCHANGED <<cast, made, app, ended, page, fns, reviews, acked, overlapped, peak, told>>

Underway(a) == \E y \in Slots : slot[y].pc = "texting" /\ slot[y].app = a

\* mutant: forwardedAt is not looked at
ForwardUnchecked(x) ==
  LET a == slot[x].app IN
  /\ slot[x].pc = "forward"
  /\ slot' = [slot EXCEPT ![x] = [slot[x] EXCEPT !.pc = "texting"]]
  /\ together' = IF Underway(a) THEN together \cup {a} ELSE together
  /\ UNCHANGED <<cast, made, row, app, ended, page, fns, reviews, acked, overlapped, byAI, decisions, peak, texted>>

\* forwardSurveySummary: forwardedAt is read ...
ForwardCheck(x) ==
  LET a == slot[x].app IN
  /\ slot[x].pc = "forward"
  /\ slot' = [slot EXCEPT ![x] =
       IF row[a].forwarded THEN NoFn ELSE [slot[x] EXCEPT !.pc = "texting"]]
  /\ together' = IF ~row[a].forwarded /\ Underway(a) THEN together \cup {a} ELSE together
  /\ UNCHANGED <<cast, made, row, app, ended, page, fns, reviews, acked, overlapped, byAI, decisions, peak, texted>>

\* ... the summary is texted, and forwardedAt set
Texted(x) ==
  LET a == slot[x].app IN
  /\ slot[x].pc = "texting"
  /\ row' = [row EXCEPT ![a] = [row[a] EXCEPT !.forwarded = TRUE]]
  /\ texted' = [texted EXCEPT ![a] = texted[a] + 1]
  /\ slot' = [slot EXCEPT ![x] = NoFn]
  /\ UNCHANGED <<cast, made, app, ended, page, fns, reviews, acked, overlapped, byAI, decisions, peak, together>>

\* the relay defers it or fails: the row stays with the relay's own ledger
NotTexted(x) ==
  /\ slot[x].pc = "texting"
  /\ slot' = [slot EXCEPT ![x] = NoFn]
  /\ UNCHANGED <<cast, made, row, app, ended, page, fns, reviews, ghosts>>

\* the caller hangs up, or the hourly job removes a conversation that expired: what
\* is in flight goes on
End(c) ==
  /\ c \notin ended /\ app[c] # 0
  /\ ended' = ended \cup {c}
  /\ UNCHANGED <<cast, made, row, app, slot, page, fns, reviews, ghosts>>

\* APPLICATION_RESUME_DAYS pass; only what is in progress is ever resumed
Ages(a) ==
  /\ a \in Made /\ row[a].fresh /\ row[a].status = "in_progress"
  /\ row' = [row EXCEPT ![a] = [row[a] EXCEPT !.fresh = FALSE]]
  /\ UNCHANGED <<cast, made, app, ended, slot, page, fns, reviews, ghosts>>

-----------------------------------------------------------------------------
(* The application page of the dashboard *)

Allowed(s) == CASE s = "in_progress" -> {"completed"}
                [] s = "completed"   -> {"reviewed", "rejected"}
                [] s = "reviewed"    -> {"rejected"}
                [] OTHER             -> {"reviewed"}

\* The page has one change of status under way; the select offers what may follow
\* the status the page was loaded with, and the route checks what it was sent
\* against the row.  What is refused changes nothing and is left out.
ChangeStatus(d, a, what) ==
  /\ page[d] = NoPut /\ d \in cast /\ a \in Made
  /\ what \in Allowed(row[a].status)
  /\ reviews < MaxReviews /\ reviews' = reviews + 1
  /\ page' = [page EXCEPT ![d] = [app |-> a, what |-> what]]
  /\ UNCHANGED <<cast, made, row, app, ended, slot, fns, ghosts>>

\* the route writes what it was asked to, whatever the row has become
PutStatus(d) ==
  LET a == page[d].app IN
  /\ page[d] # NoPut
  /\ row' = [row EXCEPT ![a] = [row[a] EXCEPT !.status = page[d].what]]
  /\ Remember(a, d, page[d].what)
  /\ page' = [page EXCEPT ![d] = NoPut]
  /\ UNCHANGED <<cast, made, app, ended, slot, fns, reviews, acked, overlapped, byAI, peak, told>>

-----------------------------------------------------------------------------
Fn(x) == \/ Create(x) \/ Link(x) \/ Invalid(x)
         \/ SaveColumn(x) \/ ReadCustom(x) \/ WriteCustom(x)
         \/ MarkCompleted(x) \/ ForwardCheck(x) \/ Texted(x) \/ NotTexted(x)

Next ==
  \/ \E x \in Slots : \/ StartApplication(x) \/ Complete(x) \/ Fn(x)
                      \/ \E k \in Keys : SaveField(x, k)
  \/ \E c \in Calls : End(c)
  \/ \E a \in AppIds : Ages(a)
  \/ \E d \in Reviewers : \/ \E a \in AppIds, w \in Statuses : ChangeStatus(d, a, w)
                          \/ PutStatus(d)

Spec == Init /\ [][Next]_vars

-----------------------------------------------------------------------------
(* Properties *)

\* Applications of one caller in progress at once.  The query for one to resume
\* and the insert are separate: function calls that overlap each add one, and
\* nothing else does, so a caller has at most one unless two were about to insert
\* at once, and never more than were.
DraftsBounded == \A p \in Phones : Cardinality(Resumable(p)) <= peak[p]

\* An answer the applicant was told is saved is in the application, unless two
\* saves of custom answers overlapped: the later write of the JSON column then
\* drops what the earlier one added.
AckedKept == \A a \in Made \ overlapped : \A k \in Keys : <<a, k>> \in acked => k \in row[a].filled

\* An application that the AI completed has every required answer, whoever
\* reviewed it, aged it or asked for it again meanwhile, with the same exception.
CompletedAnswered == \A a \in byAI \ overlapped : Required \subseteq row[a].filled

\* The landlord's decision is taken back to "completed" only by a call, a
\* conversation or a request that held the application when it was decided: a
\* new call never gets hold of a decided one.
DecisionStands == undone \subseteq atRisk

\* The owner is texted about one application once, however often the AI completes
\* it, unless two summaries were on their way at once.
ForwardedOnce == \A a \in AppIds \ together : texted[a] <= 1

\* What an applicant said is kept: in the application, and in a completed one as
\* far as the landlord asked for it (application-builder.ts saveField, complete).
AnswersKept == TypeOK /\ AckedKept /\ CompletedAnswered

\* Overlapping function calls apart, a caller has one application and the owner
\* hears of it once (findOrCreate, survey-forward.ts).
OnceEach == DraftsBounded /\ ForwardedOnce
=============================================================================
