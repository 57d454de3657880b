---------------------------- MODULE Onboarding ----------------------------
(***************************************************************************)
(* From the application page of the tenant site to a tenant's account: the *)
(* four-step form and POST /api/apply, the landlord's conversion of an     *)
(* application, the tenants page with its "add" and "invite" forms, and    *)
(* the sign-up by an invite.                                               *)
(*                                                                         *)
(* An application that comes with a texted link is modelled in             *)
(* SurveyIntake; here the link is a plain web one.  The routes use no      *)
(* transaction: each write is a step.  What the routes refuse before their *)
(* first write changes nothing and is left out.                            *)
(***************************************************************************)
EXTENDS Integers, FiniteSets

CONSTANTS
  Emails,        \* addresses as typed
  Lower,         \* [Emails -> Emails]: toLowerCase
  Forms,         \* open application pages
  EmailOf,       \* [Forms -> Emails]
  Staff,         \* requests of the dashboard in flight
  Signups,       \* sign-up requests in flight
  Casts,         \* bound: who takes part together
  MaxApps,       \* bound: applications ever made
  MaxInvites,    \* bound: invites ever made
  Filled,        \* bound: pages that are at their last step to start with, and not edited
  MaxEdits,      \* bound: steps back, edits that make a step invalid, pages opened again
  MaxFailures    \* bound: requests that die half-way or whose answer is lost

ASSUME OnboardingAssumption ==
  /\ "none" \notin Emails
  /\ Lower \in [Emails -> Emails] /\ \A e \in Emails : Lower[Lower[e]] = Lower[e]
  /\ EmailOf \in [Forms -> Emails] /\ IsFiniteSet(Forms)
  /\ MaxApps \in Nat /\ MaxInvites \in Nat /\ MaxEdits \in Nat /\ MaxFailures \in Nat

AppIds == 1..MaxApps
InviteIds == 1..MaxInvites
LastStep == 4
Parts == {"personal", "typed"}   \* step 1; the required questions that are typed

VARIABLES
  cast,      \* who takes part in this behaviour
  form,      \* [Forms -> application page]
  made,      \* applications made so far
  row,       \* [AppIds made -> application row]
  tenant,    \* [Emails -> who made the tenant row, "none" when there is none]
  invites,   \* invites made so far
  invite,    \* [InviteIds made -> invite row]
  staff,     \* [Staff -> request]
  signup,    \* [Signups -> request]
  edits, failures,
  peak,      \* history: [Emails -> most applications about to be inserted at once]
  mailed,    \* history: invites sent by mail
  died       \* history: addresses whose conversion or sign-up died half-way

data  == <<made, row, tenant, invites, invite>>
ghost == <<peak, mailed, died>>
vars  == <<cast, form, data, staff, signup, edits, failures, ghost>>

Made == 1..made
Sent == 1..invites

NewForm == [step |-> 1, ok |-> {}, captcha |-> FALSE, pc |-> "idle"]
NoStaff == [pc |-> "idle", op |-> "none", email |-> "none", app |-> 0]
NoSignup == [pc |-> "idle", email |-> "none"]

TypeOK ==
  /\ cast \in Casts
  /\ form \in [Forms -> [step : 1..LastStep, ok : SUBSET Parts,
                         captcha : BOOLEAN,
                         pc : {"idle", "sent", "checked", "inserted", "done"}]]
  /\ made \in 0..MaxApps /\ DOMAIN row = Made
  /\ \A a \in Made : row[a] \in [email : Emails, recent : BOOLEAN,
                                 status : {"completed", "reviewed", "rejected"}]
  /\ tenant \in [Emails -> {"none", "convert", "add", "signup"}]
  /\ invites \in 0..MaxInvites /\ DOMAIN invite = Sent
  /\ \A i \in Sent : invite[i] \in [email : Emails, by : {"convert", "page"}, accepted : BOOLEAN]
  /\ staff \in [Staff -> [pc : {"idle", "insert", "invite", "mail", "review"},
                          op : {"none", "convert", "add"},
                          email : Emails \cup {"none"}, app : 0..MaxApps]]
  /\ signup \in [Signups -> [pc : {"idle", "accepted", "insert"}, email : Emails \cup {"none"}]]
  /\ edits \in 0..MaxEdits /\ failures \in 0..MaxFailures
  /\ peak \in [Emails -> Nat] /\ mailed \in SUBSET InviteIds /\ died \in SUBSET Emails

Init ==
  /\ cast \in Casts
  /\ form = [f \in Forms |->
       IF f \in Filled THEN [step |-> LastStep, ok |-> Parts, captcha |-> FALSE, pc |-> "idle"]
       ELSE NewForm]
  /\ made = 0 /\ row = [a \in {} |-> 0]
  /\ tenant = [e \in Emails |-> "none"]
  /\ invites = 0 /\ invite = [i \in {} |-> 0]
  /\ staff = [k \in Staff |-> NoStaff]
  /\ signup = [g \in Signups |-> NoSignup]
  /\ edits = 0 /\ failures = 0
  /\ peak = [e \in Emails |-> 0] /\ mailed = {} /\ died = {}

-----------------------------------------------------------------------------
(* The application page.  A request under way holds its own copy of the     *)
(* fields, so an edit made meanwhile is the same as one made after it.      *)

Filling(f) == f \in cast /\ form[f].pc = "idle"

Page(f, p) == /\ form' = [form EXCEPT ![f] = p]
              /\ UNCHANGED <<cast, data, staff, signup, failures, ghost>>

Edit(f) == f \notin Filled /\ edits < MaxEdits /\ edits' = edits + 1

\* a step shows its own fields only
Shown(s) == CASE s = 1 -> {"personal"} [] s = LastStep -> {"typed"} [] OTHER -> {}

\* a required question answered by two buttons is asked by nobody
Fill(f, part) ==
  /\ Filling(f) /\ part \in Shown(form[f].step)
  /\ Page(f, [form[f] EXCEPT !.ok = form[f].ok \cup {part}])
  /\ UNCHANGED edits

Spoil(f, part) ==
  /\ Filling(f) /\ part \in Shown(form[f].step) /\ part \in form[f].ok
  /\ Edit(f)
  /\ Page(f, [form[f] EXCEPT !.ok = form[f].ok \ {part}])

\* goNext; the last step has no "next", so its check is never made
NextStep(f) ==
  /\ Filling(f) /\ form[f].step < LastStep
  /\ form[f].step = 1 => "personal" \in form[f].ok
  /\ Page(f, [form[f] EXCEPT !.step = form[f].step + 1])
  /\ UNCHANGED edits

PreviousStep(f) ==
  /\ Filling(f) /\ form[f].step > 1 /\ Edit(f)
  /\ Page(f, [form[f] EXCEPT !.step = form[f].step - 1])

\* the widget is rendered when the last step is, and renews what has expired
Solve(f) ==
  /\ Filling(f) /\ form[f].step = LastStep /\ ~form[f].captcha
  /\ Page(f, [form[f] EXCEPT !.captcha = TRUE])
  /\ UNCHANGED edits

\* the browser asks for what is typed, and nobody for what is chosen
Submit(f) ==
  /\ Filling(f) /\ form[f].step = LastStep /\ "typed" \in form[f].ok
  /\ Page(f, [form[f] EXCEPT !.pc = "sent"])
  /\ UNCHANGED edits

\* the applicant opens the page again
Reopen(f) ==
  /\ form[f].pc = "done" /\ Edit(f)
  /\ Page(f, NewForm)

-----------------------------------------------------------------------------
(* POST /api/apply *)

Pending(e)   == {a \in Made : row[a].email = e /\ row[a].status = "completed" /\ row[a].recent}
Inserting(e) == {f \in Forms : EmailOf[f] = e /\ form[f].pc = "checked"}

Refuse(f) == form' = [form EXCEPT ![f] = [form[f] EXCEPT !.pc = "idle", !.captcha = FALSE]]
\* the captcha is verified, then a completed application of the last 30 days looked for
ApplyCheck(f) ==
  LET e == EmailOf[f]
      n == Cardinality(Inserting(e)) + 1 IN
  /\ form[f].pc = "sent"
  /\ IF ~form[f].captcha \/ Pending(e) # {}
       THEN Refuse(f) /\ UNCHANGED peak
       ELSE /\ form' = [form EXCEPT ![f] =
                 [form[f] EXCEPT !.pc = "checked", !.captcha = FALSE]]
            /\ peak' = IF n > peak[e] THEN [peak EXCEPT ![e] = n] ELSE peak
  /\ UNCHANGED <<cast, data, staff, signup, edits, failures, mailed, died>>

ApplyCreate(f) ==
  LET new == [email |-> EmailOf[f], recent |-> TRUE, status |-> "completed"] IN
  /\ form[f].pc = "checked" /\ made < MaxApps
  /\ made' = made + 1
  /\ row' = [a \in 1..(made + 1) |-> IF a = made + 1 THEN new ELSE row[a]]
  /\ form' = [form EXCEPT ![f] = [form[f] EXCEPT !.pc = "inserted"]]
  /\ UNCHANGED <<cast, tenant, invites, invite, staff, signup, edits, failures, ghost>>

Submitted(f) ==
  /\ form[f].pc = "inserted"
  /\ Page(f, [form[f] EXCEPT !.pc = "done"]) /\ UNCHANGED edits

\* the route throws, or the answer is lost: the page shows an error and the form
ApplyFails(f) ==
  /\ form[f].pc \in {"sent", "checked", "inserted"}
  /\ failures < MaxFailures /\ failures' = failures + 1
  /\ form' = [form EXCEPT ![f] = [form[f] EXCEPT !.pc = "idle"]]
  /\ UNCHANGED <<cast, data, staff, signup, edits, ghost>>

Idle(k) == k \in cast /\ staff[k].pc = "idle"

\* 30 days pass
Ages(a) ==
  /\ a \in Made /\ row[a].recent /\ row[a].status = "completed"
  /\ row' = [row EXCEPT ![a] = [row[a] EXCEPT !.recent = FALSE]]
  /\ UNCHANGED <<cast, form, made, tenant, invites, invite, staff, signup, edits, failures, ghost>>

\* the landlord reviews or rejects
Decide(k, a, status) ==
  /\ Idle(k) /\ a \in Made /\ status \in {"reviewed", "rejected"} \ {row[a].status}
  /\ row' = [row EXCEPT ![a] = [row[a] EXCEPT !.status = status]]
  /\ UNCHANGED <<cast, form, made, tenant, invites, invite, staff, signup, edits, failures, ghost>>

-----------------------------------------------------------------------------
(* The dashboard: POST /api/tenants/[id]/convert, /api/tenants, .../invite *)

StartRequest(k, r) ==
  /\ Idle(k) /\ tenant[r.email] = "none"
  /\ staff' = [staff EXCEPT ![k] = r]
  /\ UNCHANGED <<cast, form, data, signup, edits, failures, ghost>>

Convert(k, a) ==
  /\ a \in Made /\ row[a].status \in {"reviewed", "completed"}
  /\ StartRequest(k, [pc |-> "insert", op |-> "convert", email |-> row[a].email, app |-> a])

\* the page sends no application; a client of the route may
AddTenant(k, e, a) ==
  /\ a # 0 => a \in Made /\ row[a].email = e
  /\ StartRequest(k, [pc |-> "insert", op |-> "add", email |-> e, app |-> a])

Finish(k) == staff' = [staff EXCEPT ![k] = NoStaff]

\* mutant: nothing stops a second row of one address
InsertAgain(k) ==
  LET r == staff[k] IN
  /\ r.pc = "insert"
  /\ tenant' = [tenant EXCEPT ![r.email] = r.op]
  /\ staff' = [staff EXCEPT ![k] =
       [r EXCEPT !.pc = IF r.op = "convert" THEN "invite" ELSE "review"]]
  /\ UNCHANGED <<cast, form, made, row, invites, invite, signup, edits, failures, ghost>>

\* email and landlord are unique: the second of two conversions throws
InsertTenant(k) ==
  LET r == staff[k] IN
  /\ r.pc = "insert"
  /\ IF tenant[r.email] # "none" THEN Finish(k) /\ UNCHANGED tenant
     ELSE /\ tenant' = [tenant EXCEPT ![r.email] = r.op]
          /\ staff' = [staff EXCEPT ![k] =
               [r EXCEPT !.pc = IF r.op = "convert" THEN "invite" ELSE "review"]]
  /\ UNCHANGED <<cast, form, made, row, invites, invite, signup, edits, failures, ghost>>

AddInvite(e, by) ==
  /\ invites < MaxInvites /\ invites' = invites + 1
  /\ invite' = [i \in 1..(invites + 1) |->
       IF i = invites + 1 THEN [email |-> e, by |-> by, accepted |-> FALSE] ELSE invite[i]]

InviteConverted(k) ==
  /\ staff[k].pc = "invite"
  /\ AddInvite(staff[k].email, "convert")
  /\ staff' = [staff EXCEPT ![k] = [staff[k] EXCEPT !.pc = "mail"]]
  /\ UNCHANGED <<cast, form, made, row, tenant, signup, edits, failures, ghost>>

\* the mail goes out; the lease that may follow is Tenancy's
MailInvite(k) ==
  LET I == {i \in Sent : invite[i].email = staff[k].email /\ invite[i].by = "convert"} IN
  /\ staff[k].pc = "mail" /\ Finish(k)
  /\ mailed' = mailed \cup I
  /\ UNCHANGED <<cast, form, data, signup, edits, failures, peak, died>>

\* POST /api/tenants sets the application reviewed, whatever its status
ReviewApplication(k) ==
  LET a == staff[k].app IN
  /\ staff[k].pc = "review" /\ Finish(k)
  /\ row' = IF a = 0 THEN row ELSE [row EXCEPT ![a] = [row[a] EXCEPT !.status = "reviewed"]]
  /\ UNCHANGED <<cast, form, made, tenant, invites, invite, signup, edits, failures, ghost>>

RequestDies(k) ==
  /\ staff[k].pc # "idle" /\ Finish(k)
  /\ failures < MaxFailures /\ failures' = failures + 1
  /\ died' = died \cup {staff[k].email}
  /\ UNCHANGED <<cast, form, data, signup, edits, peak, mailed>>

\* the invite form of the tenants page: a row, and no mail
InviteTenant(k, e) ==
  /\ Idle(k) /\ AddInvite(e, "page")
  /\ UNCHANGED <<cast, form, made, row, tenant, staff, signup, edits, failures, ghost>>

-----------------------------------------------------------------------------
(* POST /api/auth/signup of the tenant site *)

\* mutant: the invite is spent for an account that is not made
AcceptOnly(g, i) ==
  /\ g \in cast /\ signup[g].pc = "idle" /\ i \in Sent /\ ~invite[i].accepted
  /\ invite' = [invite EXCEPT ![i] = [invite[i] EXCEPT !.accepted = TRUE]]
  /\ UNCHANGED <<cast, form, made, row, tenant, invites, staff, signup, edits, failures, ghost>>

\* the page fixes the address of the invite, the route lower-cases it; the invite is
\* spent before the address is looked up
Accept(g, i) ==
  /\ g \in cast /\ signup[g].pc = "idle" /\ i \in Sent /\ ~invite[i].accepted
  /\ invite' = [invite EXCEPT ![i] = [invite[i] EXCEPT !.accepted = TRUE]]
  /\ signup' = [signup EXCEPT ![g] = [pc |-> "accepted", email |-> Lower[invite[i].email]]]
  /\ UNCHANGED <<cast, form, made, row, tenant, invites, staff, edits, failures, ghost>>

\* without an invite the landlord is the one of the site
SignUp(g, e) ==
  /\ g \in cast /\ signup[g].pc = "idle"
  /\ signup' = [signup EXCEPT ![g] = [pc |-> "accepted", email |-> Lower[e]]]
  /\ UNCHANGED <<cast, form, data, staff, edits, failures, ghost>>

LookUp(g) ==
  /\ signup[g].pc = "accepted"
  /\ signup' = [signup EXCEPT ![g] =
       IF tenant[signup[g].email] # "none" THEN NoSignup
       ELSE [signup[g] EXCEPT !.pc = "insert"]]
  /\ UNCHANGED <<cast, form, data, staff, edits, failures, ghost>>

CreateAccount(g) ==
  LET e == signup[g].email IN
  /\ signup[g].pc = "insert"
  /\ tenant' = IF tenant[e] = "none" THEN [tenant EXCEPT ![e] = "signup"] ELSE tenant
  /\ signup' = [signup EXCEPT ![g] = NoSignup]
  /\ UNCHANGED <<cast, form, made, row, invites, invite, staff, edits, failures, ghost>>

SignupDies(g) ==
  /\ signup[g].pc # "idle"
  /\ failures < MaxFailures /\ failures' = failures + 1
  /\ signup' = [signup EXCEPT ![g] = NoSignup]
  /\ died' = died \cup {signup[g].email}
  /\ UNCHANGED <<cast, form, data, staff, edits, peak, mailed>>

-----------------------------------------------------------------------------
Next ==
  \/ \E f \in Forms :
       \/ \E part \in Parts : Fill(f, part) \/ Spoil(f, part)
       \/ NextStep(f) \/ PreviousStep(f) \/ Solve(f) \/ Submit(f) \/ Reopen(f)
       \/ ApplyCheck(f) \/ ApplyCreate(f) \/ Submitted(f) \/ ApplyFails(f)
  \/ \E a \in AppIds : Ages(a)
  \/ \E k \in Staff :
       \/ \E a \in AppIds :
            Convert(k, a) \/ \E s \in {"reviewed", "rejected"} : Decide(k, a, s)
       \/ \E e \in Emails, a \in 0..MaxApps : AddTenant(k, e, a)
       \/ InsertTenant(k) \/ InviteConverted(k) \/ MailInvite(k) \/ ReviewApplication(k)
       \/ RequestDies(k)
       \/ \E e \in Emails : InviteTenant(k, e)
  \/ \E g \in Signups :
       \/ \E i \in InviteIds : Accept(g, i)
       \/ \E e \in Emails : SignUp(g, e)
       \/ LookUp(g) \/ CreateAccount(g) \/ SignupDies(g)

Spec == Init /\ [][Next]_vars

-----------------------------------------------------------------------------
(* Properties *)

\* What the page sends has valid personal fields and every required question
\* that is typed, however often the applicant went back and edited: step 1 can
\* only be left when it is valid.  A required question answered by two buttons is
\* not covered, because nothing checks it on the last step.
SubmittedValid == \A f \in Forms : form[f].pc # "idle" => {"personal", "typed"} \subseteq form[f].ok

\* An address has one application waiting for the landlord, unless two requests
\* were about to insert at once, and never more than were: a lost answer and
\* another try do not make a second one.
PendingBounded == \A e \in Emails : Cardinality(Pending(e)) <= peak[e]

\* An application is converted once: of requests that overlap one makes the
\* tenant, and only that one invites.
OneConversion ==
  \A e \in Emails : Cardinality({i \in Sent : invite[i].email = e /\ invite[i].by = "convert"}) <= 1

\* A tenant made from an application has been invited by mail, unless the
\* conversion died in between; then no other try repairs it, because the tenant is
\* there.
ConvertedIsInvited ==
  \A e \in Emails : tenant[e] = "convert" =>
    \/ \E i \in mailed : invite[i].email = e
    \/ e \in died \/ \E k \in Staff : staff[k].op = "convert" /\ staff[k].email = e

\* A spent invite has an account under its address in lower case, unless the
\* sign-up died in between: spending it first costs nobody an account else.
SpentHasAccount ==
  \A i \in Sent : invite[i].accepted =>
    LET e == Lower[invite[i].email]
    IN \/ tenant[e] # "none" \/ e \in died \/ \E g \in Signups : signup[g].email = e

\* A form that is complete waits once for the landlord and makes one tenant, also
\* when it is sent, reviewed and converted twice (POST api/apply, convert).
AppliedOnce == TypeOK /\ SubmittedValid /\ PendingBounded /\ OneConversion

\* Between conversion, invite, mail and account nothing is lost silently
\* (convert/route.ts, POST api/auth/signup).
InvitesKept == SpentHasAccount /\ ConvertedIsInvited
=============================================================================
