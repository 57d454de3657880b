---------------------------- MODULE Tenants_proofs ----------------------------
(***************************************************************************)
(* Proofs about how somebody becomes a tenant (Onboarding) and what he     *)
(* rents (Tenancy), for any addresses, pages, units, requests and bounds.  *)
(***************************************************************************)
EXTENDS Onboarding, Tenancy, FiniteSetTheorems, WellFoundedInduction, TLAPS

-----------------------------------------------------------------------------
(* The application page                                                    *)

PageSet == [step : 1..LastStep, ok : SUBSET Parts, captcha : BOOLEAN,
            pc : {"idle", "sent", "checked", "inserted", "done"}]

\* step 1 is behind the applicant only when it is valid, and what was sent is complete
PageOK(p) == /\ p.step > 1 => "personal" \in p.ok
             /\ p.pc # "idle" => p.step = LastStep /\ "typed" \in p.ok

PageInv == form \in [Forms -> PageSet] /\ \A f \in Forms : PageOK(form[f])

LEMMA PageSteps ==
  ASSUME PageInv, NEW f \in Forms, NEW p \in PageSet, PageOK(p), form' = [form EXCEPT ![f] = p]
  PROVE  PageInv'
BY DEF PageInv

LEMMA FillingKeeps ==
  ASSUME PageInv, NEW f \in Forms, NEW part \in Parts,
         Fill(f, part) \/ Spoil(f, part) \/ NextStep(f) \/ PreviousStep(f) \/ Solve(f) \/ Submit(f) \/ Reopen(f)
  PROVE  PageInv'
<1> DEFINE q == form[f]
<1>1. q \in PageSet /\ PageOK(q)
  BY DEF PageInv
<1>2. CASE Fill(f, part)
  <2>1. [q EXCEPT !.ok = q.ok \cup {part}] \in PageSet /\ PageOK([q EXCEPT !.ok = q.ok \cup {part}])
    BY <1>1 DEF PageSet, PageOK
  <2> QED BY <1>2, <2>1, PageSteps DEF Fill, Page
<1>3. CASE Spoil(f, part)
  <2> DEFINE p == [q EXCEPT !.ok = q.ok \ {part}]
  <2>1. q.pc = "idle" /\ (q.step = 1 => part = "personal") /\ (q.step # 1 => part # "personal")
    BY <1>1, <1>3 DEF Spoil, Filling, Shown, PageSet, LastStep
  <2>2. p \in PageSet /\ PageOK(p)
    BY <1>1, <2>1 DEF PageSet, PageOK, LastStep
  <2> QED BY <1>3, <2>2, PageSteps DEF Spoil, Page
<1>4. CASE NextStep(f)
  <2> DEFINE p == [q EXCEPT !.step = q.step + 1]
  <2>1. q.pc = "idle" /\ q.step < LastStep /\ (q.step = 1 => "personal" \in q.ok)
    BY <1>4 DEF NextStep, Filling
  <2>2. p \in PageSet /\ PageOK(p)
    BY <1>1, <2>1 DEF PageSet, PageOK, LastStep
  <2> QED BY <1>4, <2>2, PageSteps DEF NextStep, Page
<1>5. CASE PreviousStep(f)
  <2> DEFINE p == [q EXCEPT !.step = q.step - 1]
  <2>1. q.pc = "idle" /\ q.step > 1
    BY <1>5 DEF PreviousStep, Filling
  <2>2. p \in PageSet /\ PageOK(p)
    BY <1>1, <2>1 DEF PageSet, PageOK, LastStep
  <2> QED BY <1>5, <2>2, PageSteps DEF PreviousStep, Page
<1>6. CASE Solve(f)
  <2>1. [q EXCEPT !.captcha = TRUE] \in PageSet /\ PageOK([q EXCEPT !.captcha = TRUE])
    BY <1>1 DEF PageSet, PageOK
  <2> QED BY <1>6, <2>1, PageSteps DEF Solve, Page
<1>7. CASE Submit(f)
  <2> DEFINE p == [q EXCEPT !.pc = "sent"]
  <2>1. p \in PageSet /\ PageOK(p)
    BY <1>1, <1>7 DEF Submit, PageSet, PageOK
  <2> QED BY <1>7, <2>1, PageSteps DEF Submit, Page
<1>8. CASE Reopen(f)
  <2>1. NewForm \in PageSet /\ PageOK(NewForm)
    BY DEF NewForm, PageSet, PageOK, LastStep, Parts
  <2> QED BY <1>8, <2>1, PageSteps DEF Reopen, Page
<1> QED BY <1>2, <1>3, <1>4, <1>5, <1>6, <1>7, <1>8

LEMMA ApplyKeeps ==
  ASSUME PageInv, NEW f \in Forms,
         ApplyCheck(f) \/ ApplyCreate(f) \/ Submitted(f) \/ ApplyFails(f)
  PROVE  PageInv'
<1> DEFINE q == form[f]
<1>1. q \in PageSet /\ PageOK(q) /\ q.pc # "idle"
  BY DEF PageInv, ApplyCheck, ApplyCreate, Submitted, ApplyFails
<1>2. ASSUME NEW pc \in {"idle", "sent", "checked", "inserted", "done"}
      PROVE  /\ [q EXCEPT !.pc = pc] \in PageSet /\ PageOK([q EXCEPT !.pc = pc])
             /\ [q EXCEPT !.pc = pc, !.captcha = FALSE] \in PageSet
             /\ PageOK([q EXCEPT !.pc = pc, !.captcha = FALSE])
  BY <1>1 DEF PageSet, PageOK
<1>3. \E p \in PageSet : PageOK(p) /\ form' = [form EXCEPT ![f] = p]
  BY <1>2 DEF ApplyCheck, ApplyCreate, Submitted, ApplyFails, Refuse, Page
<1> QED BY <1>3, PageSteps

\* everything else leaves the pages alone
LEMMA PageStep == PageInv /\ [Next]_vars => PageInv'
<1> SUFFICES ASSUME PageInv, [Next]_vars PROVE PageInv'
  OBVIOUS
<1>1. CASE form' = form
  BY <1>1 DEF PageInv
<1>2. ASSUME NEW f \in Forms, NEW part \in Parts,
             Fill(f, part) \/ Spoil(f, part) \/ NextStep(f) \/ PreviousStep(f) \/ Solve(f) \/ Submit(f) \/ Reopen(f)
      PROVE  PageInv'
  BY <1>2, FillingKeeps
<1>3. "typed" \in Parts
  BY DEF Parts
<1>4. CASE \E f \in Forms :
             \/ \E part \in Parts : Fill(f, part) \/ Spoil(f, part)
             \/ NextStep(f) \/ PreviousStep(f) \/ Solve(f) \/ Submit(f) \/ Reopen(f)
             \/ ApplyCheck(f) \/ ApplyCreate(f) \/ Submitted(f) \/ ApplyFails(f)
  BY <1>2, <1>3, <1>4, ApplyKeeps
<1>5. CASE UNCHANGED vars \/ \E a \in AppIds : Ages(a)
  BY <1>1, <1>5 DEF vars, Ages
<1>6. ASSUME NEW k \in Staff,
             \/ \E a \in AppIds :
                  Convert(k, a) \/ \E s \in {"reviewed", "rejected"} : Decide(k, a, s)
             \/ \E e \in Emails, a \in 0..MaxApps : AddTenant(k, e, a)
             \/ InsertTenant(k) \/ InviteConverted(k) \/ MailInvite(k) \/ ReviewApplication(k)
             \/ RequestDies(k)
             \/ \E e \in Emails : InviteTenant(k, e)
      PROVE  form' = form
  BY <1>6 DEF Convert, Decide, AddTenant, StartRequest, InsertTenant, InviteConverted, MailInvite,
              ReviewApplication, RequestDies, InviteTenant
<1>7. ASSUME NEW g \in Signups,
             \/ \E i \in InviteIds : Accept(g, i)
             \/ \E e \in Emails : SignUp(g, e)
             \/ LookUp(g) \/ CreateAccount(g) \/ SignupDies(g)
      PROVE  form' = form
  BY <1>7 DEF Accept, SignUp, LookUp, CreateAccount, SignupDies
<1> QED BY <1>1, <1>4, <1>5, <1>6, <1>7 DEF Next

LEMMA InitPage == Init => PageInv
BY DEF Init, NewForm, PageInv, PageSet, PageOK, LastStep, Parts

(* However often an applicant goes back, edits, loses an answer and tries  *)
(* again, what the page sends has valid personal fields and every required *)
(* typed question: the unchecked last step does not matter.                *)
THEOREM SubmissionsAreValid == Spec => []SubmittedValid
<1>1. PageInv => SubmittedValid
  BY DEF PageInv, PageOK, SubmittedValid, PageSet, LastStep
<1> QED BY <1>1, InitPage, PageStep, PTL DEF Spec
-----------------------------------------------------------------------------
(* Applications waiting for the landlord                                   *)

Statuses == {"completed", "reviewed", "rejected"}
RowSet == [email : Emails, recent : BOOLEAN, status : Statuses]

Counts == /\ cast \in Casts /\ edits \in 0..MaxEdits /\ failures \in 0..MaxFailures
          /\ peak \in [Emails -> Nat]

\* what waits and what is about to be inserted never exceed the most that was
\* about to be inserted at once: an insertion only moves one from here to there
RowInv ==
  /\ made \in 0..MaxApps /\ row \in [Made -> RowSet]
  /\ \A e \in Emails : Cardinality(Pending(e)) + Cardinality(Inserting(e)) <= peak[e]

(* Tenants, invites and the requests that make them                        *)

InviteSet == [email : Emails, by : {"convert", "page"}, accepted : BOOLEAN]
StaffSet == [pc : {"idle", "insert", "invite", "mail", "review"}, op : {"none", "convert", "add"},
             email : Emails \cup {"none"}, app : 0..MaxApps]
SignupSet == [pc : {"idle", "accepted", "insert"}, email : Emails \cup {"none"}]

Winning(k) == staff[k].pc \in {"invite", "mail"}
Converted(e) == {i \in Sent : invite[i].email = e /\ invite[i].by = "convert"}

AccountTypes ==
  /\ tenant \in [Emails -> {"none", "convert", "add", "signup"}]
  /\ invites \in 0..MaxInvites /\ invite \in [Sent -> InviteSet]
  /\ staff \in [Staff -> StaffSet] /\ signup \in [Signups -> SignupSet]
  /\ mailed \in SUBSET Sent /\ died \in SUBSET Emails /\ made \in Nat

RequestOK(k) ==
  /\ staff[k].pc # "idle" => staff[k].email \in Emails /\ staff[k].op # "none"
  /\ Winning(k) => staff[k].op = "convert" /\ tenant[staff[k].email] = "convert"
  /\ staff[k].pc = "invite" => Converted(staff[k].email) = {}
  /\ staff[k].pc = "mail" => Converted(staff[k].email) # {}
  /\ staff[k].app \in 0..made

\* the request that made the tenant is the only one that invites
OneWinner == \A k, l \in Staff : Winning(k) /\ Winning(l) /\ staff[k].email = staff[l].email => k = l
OneInvite == \A i, j \in Sent : invite[i].by = "convert" /\ invite[j].by = "convert"
                                 /\ invite[i].email = invite[j].email => i = j
InvitedIsMade == \A i \in Sent : invite[i].by = "convert" => tenant[invite[i].email] = "convert"

MadeIsInvited ==
  \A e \in Emails : tenant[e] = "convert" =>
    \/ \E i \in mailed : invite[i].email = e
    \/ e \in died \/ \E k \in Staff : Winning(k) /\ staff[k].email = e

SignupOK == \A g \in Signups :
  IF signup[g].pc = "idle" THEN signup[g].email = "none" ELSE signup[g].email \in Emails

AccountInv ==
  /\ AccountTypes /\ (\A k \in Staff : RequestOK(k)) /\ OneWinner /\ OneInvite /\ InvitedIsMade
  /\ MadeIsInvited /\ SignupOK /\ SpentHasAccount

IInv == PageInv /\ Counts /\ RowInv /\ AccountInv

-----------------------------------------------------------------------------
LEMMA Sizes ==
  ASSUME PageInv, made \in Nat, NEW e
  PROVE  /\ IsFiniteSet(Pending(e)) /\ Cardinality(Pending(e)) \in Nat
         /\ IsFiniteSet(Inserting(e)) /\ Cardinality(Inserting(e)) \in Nat
<1>1. IsFiniteSet(Made) /\ Pending(e) \in SUBSET Made
  BY FS_Interval DEF Made, Pending
<1>2. IsFiniteSet(Forms) /\ Inserting(e) \in SUBSET Forms
  BY OnboardingAssumption DEF Inserting
<1>3. IsFiniteSet(Pending(e)) /\ IsFiniteSet(Inserting(e))
  BY <1>1, <1>2, FS_Subset
<1> QED BY <1>3, FS_CardinalityType

\* a step that inserts nothing and lets nobody else through to the insertion
LEMMA Shrinks ==
  ASSUME PageInv, Counts, RowInv, peak' = peak, NEW e \in Emails,
         Pending(e)' \subseteq Pending(e), Inserting(e)' \subseteq Inserting(e)
  PROVE  (Cardinality(Pending(e)) + Cardinality(Inserting(e)) <= peak[e])'
<1>1. made \in Nat
  BY OnboardingAssumption DEF RowInv
<1>2. /\ IsFiniteSet(Pending(e)) /\ Cardinality(Pending(e)) \in Nat
      /\ IsFiniteSet(Inserting(e)) /\ Cardinality(Inserting(e)) \in Nat
  BY <1>1, Sizes
<1>3. /\ IsFiniteSet(Pending(e)') /\ Cardinality(Pending(e)') <= Cardinality(Pending(e))
      /\ IsFiniteSet(Inserting(e)') /\ Cardinality(Inserting(e)') <= Cardinality(Inserting(e))
  BY <1>2, FS_Subset
<1>4. Cardinality(Pending(e)') \in Nat /\ Cardinality(Inserting(e)') \in Nat
  BY <1>3, FS_CardinalityType
<1>5. Cardinality(Pending(e)) + Cardinality(Inserting(e)) <= peak[e] /\ peak[e] \in Nat
  BY DEF RowInv, Counts
<1>6. Cardinality(Pending(e)') + Cardinality(Inserting(e)') <= peak[e]
  BY <1>2, <1>3, <1>4, <1>5
<1> QED BY <1>6

LEMMA RowsAlone ==
  ASSUME PageInv, Counts, RowInv, made' = made, row' = row, peak' = peak,
         NEW f \in Forms, NEW p, form' = [form EXCEPT ![f] = p], p.pc # "checked"
  PROVE  RowInv'
<1>1. ASSUME NEW e \in Emails
      PROVE  Pending(e)' = Pending(e) /\ Inserting(e)' \subseteq Inserting(e)
  BY DEF Pending, Inserting, Made, PageInv
<1>2. ASSUME NEW e \in Emails
      PROVE  (Cardinality(Pending(e)) + Cardinality(Inserting(e)) <= peak[e])'
  BY <1>1, Shrinks
<1> QED BY <1>2 DEF RowInv, Made

LEMMA FillingRows ==
  ASSUME PageInv, Counts, RowInv, NEW f \in Forms, NEW part \in Parts,
         Fill(f, part) \/ Spoil(f, part) \/ NextStep(f) \/ PreviousStep(f) \/ Solve(f) \/ Submit(f)
           \/ Reopen(f) \/ Submitted(f) \/ ApplyFails(f)
  PROVE  RowInv'
<1>1. form[f] \in PageSet
  BY DEF PageInv
<1> DEFINE Free(p) == form' = [form EXCEPT ![f] = p] /\ p.pc # "checked"
<1>2. \E p : Free(p)
  <2>1. CASE Fill(f, part) \/ Spoil(f, part)
    <3>1. form[f].pc = "idle" /\ \E v : form' = [form EXCEPT ![f] = [form[f] EXCEPT !.ok = v]]
      BY <2>1 DEF Fill, Spoil, Filling, Page
    <3> QED BY <1>1, <3>1 DEF PageSet
  <2>2. CASE NextStep(f) \/ PreviousStep(f)
    <3>1. form[f].pc = "idle" /\ \E v : form' = [form EXCEPT ![f] = [form[f] EXCEPT !.step = v]]
      BY <2>2 DEF NextStep, PreviousStep, Filling, Page
    <3> QED BY <1>1, <3>1 DEF PageSet
  <2>3. CASE Solve(f)
    <3> DEFINE p == [form[f] EXCEPT !.captcha = TRUE]
    <3>1. form[f].pc = "idle" /\ form' = [form EXCEPT ![f] = p]
      BY <2>3 DEF Solve, Filling, Page
    <3>2. p.pc # "checked"
      BY <1>1, <3>1 DEF PageSet
    <3> QED BY <3>1, <3>2
  <2>4. CASE Submit(f) \/ Submitted(f) \/ ApplyFails(f)
    <3>1. PICK v \in {"sent", "done", "idle"} : form' = [form EXCEPT ![f] = [form[f] EXCEPT !.pc = v]]
      BY <2>4 DEF Submit, Submitted, ApplyFails, Page
    <3>2. [form[f] EXCEPT !.pc = v].pc # "checked"
      BY <1>1 DEF PageSet
    <3> QED BY <3>1, <3>2
  <2>5. CASE Reopen(f)
    <3>1. form' = [form EXCEPT ![f] = NewForm] /\ NewForm.pc # "checked"
      BY <2>5 DEF Reopen, Page, NewForm
    <3> QED BY <3>1
  <2> HIDE DEF Free
  <2> QED BY <2>1, <2>2, <2>3, <2>4, <2>5
<1>3. made' = made /\ row' = row /\ peak' = peak
  BY DEF Fill, Spoil, NextStep, PreviousStep, Solve, Submit, Reopen, Submitted, ApplyFails, Page, data, ghost
<1> QED BY <1>2, <1>3, RowsAlone

LEMMA CheckRows ==
  ASSUME PageInv, Counts, RowInv, NEW f \in Forms, ApplyCheck(f)
  PROVE  RowInv'
<1> DEFINE e0 == EmailOf[f]
           n == Cardinality(Inserting(e0)) + 1
<1>0. e0 \in Emails /\ form[f].pc = "sent" /\ made' = made /\ row' = row /\ made \in Nat /\ peak \in [Emails -> Nat]
  BY OnboardingAssumption DEF ApplyCheck, data, Counts, RowInv
<1>1. CASE Refuse(f) /\ peak' = peak
  <2>1. [form[f] EXCEPT !.pc = "idle", !.captcha = FALSE].pc # "checked"
    BY DEF PageInv, PageSet
  <2> QED BY <1>0, <1>1, <2>1, RowsAlone DEF Refuse
<1>2. CASE ~(Refuse(f) /\ peak' = peak)
  <2>1. /\ Pending(e0) = {}
        /\ form' = [form EXCEPT ![f] = [form[f] EXCEPT !.pc = "checked", !.captcha = FALSE]]
        /\ peak' = IF n > peak[e0] THEN [peak EXCEPT ![e0] = n] ELSE peak
    BY <1>2 DEF ApplyCheck
  <2>2. form[f] \in PageSet
    BY DEF PageInv
  <2>3. form' = [g \in Forms |-> IF g = f THEN [form[f] EXCEPT !.pc = "checked", !.captcha = FALSE] ELSE form[g]]
    BY <2>1 DEF PageInv
  <2>4. form'[f].pc = "checked"
    BY <2>2, <2>3 DEF PageSet
  <2>5. Inserting(e0)' = Inserting(e0) \cup {f}
    BY <1>0, <2>3, <2>4 DEF Inserting
  <2>6. ASSUME NEW e \in Emails PROVE Pending(e)' = Pending(e) /\ (e # e0 => Inserting(e)' = Inserting(e))
    BY <1>0, <2>3 DEF Inserting, Pending, Made
  <2>7. Cardinality(Inserting(e0)') = n
    <3>1. IsFiniteSet(Inserting(e0)) /\ f \notin Inserting(e0)
      BY <1>0, Sizes DEF Inserting
    <3> QED BY <2>5, <3>1, FS_AddElement
  <2>8. n \in Nat
    BY <1>0, Sizes
  <2>9. peak'[e0] >= n /\ peak' \in [Emails -> Nat] /\ \A e \in Emails : e # e0 => peak'[e] = peak[e]
    BY <1>0, <2>1, <2>8
  <2>10. ASSUME NEW e \in Emails
         PROVE  Cardinality(Pending(e)') + Cardinality(Inserting(e)') <= peak'[e]
    <3>1. CASE e = e0
      <4>1. Cardinality(Pending(e)') = 0
        BY <2>1, <2>6, <3>1, FS_EmptySet
      <4> QED BY <2>7, <2>8, <2>9, <3>1, <4>1
    <3>2. CASE e # e0
      BY <2>6, <2>9, <3>2 DEF RowInv
    <3> QED BY <3>1, <3>2
  <2> QED BY <1>0, <2>10 DEF RowInv, Made
<1> QED BY <1>1, <1>2

LEMMA CreateRows ==
  ASSUME PageInv, Counts, RowInv, NEW f \in Forms, ApplyCreate(f)
  PROVE  RowInv'
<1> DEFINE e0 == EmailOf[f]
           new == [email |-> e0, recent |-> TRUE, status |-> "completed"]
<1>0. /\ e0 \in Emails /\ form[f].pc = "checked" /\ made \in Nat /\ made < MaxApps /\ MaxApps \in Nat
      /\ row \in [1..made -> RowSet] /\ form[f] \in PageSet /\ form \in [Forms -> PageSet]
  <2>1. MaxApps \in Nat /\ EmailOf \in [Forms -> Emails]
    BY OnboardingAssumption
  <2>2. form[f].pc = "checked" /\ made < MaxApps
    BY DEF ApplyCreate
  <2>3. made \in 0..MaxApps /\ row \in [1..made -> RowSet]
    BY DEF RowInv, Made
  <2>4. form \in [Forms -> PageSet]
    BY DEF PageInv
  <2> QED BY <2>1, <2>2, <2>3, <2>4
<1>1. /\ made' = made + 1 /\ peak' = peak
      /\ row' = [a \in 1..(made + 1) |-> IF a = made + 1 THEN new ELSE row[a]]
      /\ form' = [form EXCEPT ![f] = [form[f] EXCEPT !.pc = "inserted"]]
  BY DEF ApplyCreate, ghost
<1>2. new \in RowSet
  BY <1>0 DEF RowSet, Statuses
<1>3. row' \in [1..made' -> RowSet] /\ made' \in 0..MaxApps
  BY <1>0, <1>1, <1>2
<1>4. \A a \in 1..made : row'[a] = row[a]
  BY <1>0, <1>1
<1>5. row'[made + 1] = new /\ made + 1 \notin 1..made /\ 1..made' = 1..made \cup {made + 1}
  BY <1>0, <1>1
<1>6. ASSUME NEW e \in Emails
      PROVE  (Cardinality(Pending(e)) + Cardinality(Inserting(e)) <= peak[e])'
  <2>1. /\ IsFiniteSet(Pending(e)) /\ Cardinality(Pending(e)) \in Nat
        /\ IsFiniteSet(Inserting(e)) /\ Cardinality(Inserting(e)) \in Nat
    BY <1>0, Sizes
  <2>2. peak[e] \in Nat /\ Cardinality(Pending(e)) + Cardinality(Inserting(e)) <= peak[e]
    BY DEF Counts, RowInv
  <2>3. CASE e = e0
    <3>1. Pending(e)' = Pending(e) \cup {made + 1} /\ made + 1 \notin Pending(e)
      BY <1>4, <1>5, <2>3 DEF Pending, Made
    <3>2. Inserting(e)' = Inserting(e) \ {f} /\ f \in Inserting(e)
      BY <1>0, <1>1, <2>3 DEF Inserting, PageSet
    <3>3. Cardinality(Pending(e)') = Cardinality(Pending(e)) + 1
      BY <2>1, <3>1, FS_AddElement
    <3>4. Cardinality(Inserting(e)') = Cardinality(Inserting(e)) - 1
      BY <2>1, <3>2, FS_RemoveElement
    <3>5. Cardinality(Pending(e)') + Cardinality(Inserting(e)') <= peak[e]
      BY <2>1, <2>2, <3>3, <3>4
    <3> QED BY <1>1, <3>5
  <2>4. CASE e # e0
    <3>1. Pending(e)' = Pending(e)
      BY <1>4, <1>5, <2>4 DEF Pending, Made
    <3>2. Inserting(e)' = Inserting(e)
      BY <1>0, <1>1, <2>4 DEF Inserting
    <3> QED BY <1>1, <2>2, <3>1, <3>2
  <2> QED BY <2>3, <2>4
<1> QED BY <1>3, <1>6 DEF RowInv, Made

\* ageing, the landlord's decision and the review of an added tenant end the waiting of one
LEMMA DecidedRows ==
  ASSUME PageInv, Counts, RowInv, form' = form, peak' = peak, made' = made, NEW a \in Made, NEW r \in RowSet,
         r.email = row[a].email, r.recent => row[a].recent, r.status = "completed" => row[a].status = "completed",
         row' = [row EXCEPT ![a] = r]
  PROVE  RowInv'
<1>1. row' \in [Made -> RowSet]
  BY DEF RowInv
<1>2. ASSUME NEW e \in Emails
      PROVE  Pending(e)' \subseteq Pending(e) /\ Inserting(e)' = Inserting(e)
  BY DEF Pending, Inserting, Made, RowInv
<1>3. ASSUME NEW e \in Emails
      PROVE  (Cardinality(Pending(e)) + Cardinality(Inserting(e)) <= peak[e])'
  BY <1>2, Shrinks
<1> QED BY <1>1, <1>3 DEF RowInv, Made

LEMMA SameRows ==
  ASSUME RowInv, UNCHANGED <<made, row, form, peak>>
  PROVE  RowInv'
BY DEF RowInv, Pending, Inserting, Made

LEMMA RowStep ==
  ASSUME PageInv, Counts, RowInv, AccountInv, [Next]_vars
  PROVE  RowInv'
<1>1. ASSUME NEW f \in Forms, NEW part \in Parts,
             Fill(f, part) \/ Spoil(f, part) \/ NextStep(f) \/ PreviousStep(f) \/ Solve(f) \/ Submit(f)
               \/ Reopen(f) \/ Submitted(f) \/ ApplyFails(f)
      PROVE  RowInv'
  BY <1>1, FillingRows
<1>2. CASE \E f \in Forms :
             \/ \E part \in Parts : Fill(f, part) \/ Spoil(f, part)
             \/ NextStep(f) \/ PreviousStep(f) \/ Solve(f) \/ Submit(f) \/ Reopen(f)
             \/ ApplyCheck(f) \/ ApplyCreate(f) \/ Submitted(f) \/ ApplyFails(f)
  <2>1. "typed" \in Parts
    BY DEF Parts
  <2> QED BY <1>1, <1>2, <2>1, CheckRows, CreateRows
<1>3. ASSUME NEW a \in AppIds, Ages(a) PROVE RowInv'
  <2>1. row[a] \in RowSet /\ a \in Made
    BY <1>3 DEF Ages, RowInv
  <2>2. [row[a] EXCEPT !.recent = FALSE] \in RowSet
    BY <2>1 DEF RowSet
  <2>3. [row[a] EXCEPT !.recent = FALSE].email = row[a].email /\ ~[row[a] EXCEPT !.recent = FALSE].recent
        /\ [row[a] EXCEPT !.recent = FALSE].status = row[a].status
    BY <2>1 DEF RowSet
  <2> QED BY <1>3, <2>1, <2>2, <2>3, DecidedRows DEF Ages, ghost
<1>4. ASSUME NEW a \in Made, NEW s \in {"reviewed", "rejected"}, form' = form, peak' = peak, made' = made,
             row' = [row EXCEPT ![a] = [row[a] EXCEPT !.status = s]]
      PROVE  RowInv'
  <2>1. row[a] \in RowSet
    BY DEF RowInv
  <2>2. [row[a] EXCEPT !.status = s] \in RowSet
    BY <2>1 DEF RowSet, Statuses
  <2>3. [row[a] EXCEPT !.status = s].email = row[a].email /\ [row[a] EXCEPT !.status = s].recent = row[a].recent
        /\ [row[a] EXCEPT !.status = s].status # "completed"
    BY <2>1 DEF RowSet
  <2> QED BY <1>4, <2>1, <2>2, <2>3, DecidedRows
<1>5. ASSUME NEW k \in Staff, NEW a \in AppIds, NEW s \in {"reviewed", "rejected"}, Decide(k, a, s)
      PROVE  RowInv'
  BY <1>4, <1>5 DEF Decide, ghost
<1>6. ASSUME NEW k \in Staff, ReviewApplication(k) PROVE RowInv'
  <2>1. staff[k].app \in 0..made /\ form' = form /\ peak' = peak /\ made' = made /\ made \in Nat
    BY <1>6, OnboardingAssumption DEF ReviewApplication, AccountInv, RequestOK, ghost, RowInv
  <2>2. CASE staff[k].app = 0
    BY <1>6, <2>1, <2>2, SameRows DEF ReviewApplication
  <2>3. CASE staff[k].app # 0
    <3>1. staff[k].app \in Made
      BY <2>1, <2>3 DEF Made
    <3>2. row' = [row EXCEPT ![staff[k].app] = [row[staff[k].app] EXCEPT !.status = "reviewed"]]
      BY <1>6, <2>3 DEF ReviewApplication
    <3> QED BY <1>4, <2>1, <3>1, <3>2
  <2> QED BY <2>2, <2>3
<1>7. ASSUME NEW k \in Staff,
             \/ \E a \in AppIds : Convert(k, a)
             \/ \E e \in Emails, a \in 0..MaxApps : AddTenant(k, e, a)
             \/ InsertTenant(k) \/ InviteConverted(k) \/ MailInvite(k)
             \/ RequestDies(k)
             \/ \E e \in Emails : InviteTenant(k, e)
      PROVE  UNCHANGED <<made, row, form, peak>>
  BY <1>7 DEF Convert, AddTenant, StartRequest, InsertTenant, InviteConverted, MailInvite,
              RequestDies, InviteTenant, data, ghost
<1>8. ASSUME NEW g \in Signups,
             \/ \E i \in InviteIds : Accept(g, i)
             \/ \E e \in Emails : SignUp(g, e)
             \/ LookUp(g) \/ CreateAccount(g) \/ SignupDies(g)
      PROVE  UNCHANGED <<made, row, form, peak>>
  BY <1>8 DEF Accept, SignUp, LookUp, CreateAccount, SignupDies, data, ghost
<1>9. CASE UNCHANGED vars
  BY <1>9, SameRows DEF vars, data, ghost
<1> QED BY <1>2, <1>3, <1>5, <1>6, <1>7, <1>8, <1>9, SameRows DEF Next

-----------------------------------------------------------------------------
(* The requests of the dashboard and of the tenant site                    *)

AccountVars == <<made, tenant, invites, invite, staff, signup, mailed, died>>

LEMMA SameAccounts ==
  ASSUME AccountInv, tenant' = tenant, invites' = invites, invite' = invite, staff' = staff,
         signup' = signup, mailed' = mailed, died' = died, made \in Nat, made' \in Nat, made <= made'
  PROVE  AccountInv'
<1>1. AccountTypes' /\ OneWinner' /\ OneInvite' /\ InvitedIsMade' /\ MadeIsInvited' /\ SignupOK' /\ SpentHasAccount'
  BY DEF AccountInv, AccountTypes, OneWinner, OneInvite, InvitedIsMade, MadeIsInvited, SignupOK,
         SpentHasAccount, Sent, Winning
<1>2. ASSUME NEW k \in Staff PROVE RequestOK(k)'
  BY DEF AccountInv, RequestOK, Winning, Converted, Sent
<1> QED BY <1>1, <1>2 DEF AccountInv

\* a request is replaced by one that has not won, and every other stays
LEMMA Replaced ==
  ASSUME AccountInv, NEW k \in Staff, NEW r \in StaffSet, staff' = [staff EXCEPT ![k] = r],
         UNCHANGED <<made, tenant, invites, invite, signup, mailed>>,
         r.pc \in {"idle", "insert"}, r.app \in 0..made, r.pc = "insert" => r.email \in Emails /\ r.op # "none",
         died' \in SUBSET Emails, died \subseteq died',
         Winning(k) => staff[k].email \in died'
  PROVE  AccountInv'
<1>1. staff \in [Staff -> StaffSet] /\ staff' \in [Staff -> StaffSet] /\ staff'[k] = r
      /\ \A l \in Staff : l # k => staff'[l] = staff[l]
  BY DEF AccountInv, AccountTypes
<1>2. ~Winning(k)' /\ \A l \in Staff : l # k => (Winning(l)' <=> Winning(l))
  BY <1>1 DEF Winning
<1>3. AccountTypes'
  BY <1>1 DEF AccountInv, AccountTypes, Sent
<1>4. \A e : Converted(e)' = Converted(e)
  BY DEF Converted, Sent
<1>5. ASSUME NEW l \in Staff PROVE RequestOK(l)'
  <2>1. RequestOK(l)
    BY DEF AccountInv
  <2> QED BY <1>1, <1>2, <1>4, <2>1 DEF RequestOK
<1>6. OneWinner'
  BY <1>1, <1>2 DEF AccountInv, OneWinner
<1>7. OneInvite' /\ InvitedIsMade' /\ SignupOK'
  BY DEF AccountInv, OneInvite, InvitedIsMade, SignupOK, Sent
<1>8. MadeIsInvited'
  BY <1>1, <1>2 DEF AccountInv, MadeIsInvited
<1>9. SpentHasAccount'
  BY DEF AccountInv, SpentHasAccount, Sent
<1> QED BY <1>3, <1>5, <1>6, <1>7, <1>8, <1>9 DEF AccountInv

LEMMA IdleRequest == NoStaff \in StaffSet /\ NoStaff.pc = "idle" /\ NoStaff.app = 0
BY OnboardingAssumption DEF NoStaff, StaffSet

LEMMA StartKeeps ==
  ASSUME RowInv, AccountInv, NEW k \in Staff, NEW a \in 0..MaxApps, NEW e \in Emails,
         Convert(k, a) \/ AddTenant(k, e, a)
  PROVE  AccountInv'
<1>1. PICK r \in StaffSet : r.pc = "insert" /\ r.email \in Emails /\ r.op # "none" /\ r.app \in 0..made
                            /\ StartRequest(k, r)
  <2>1. CASE Convert(k, a)
    <3>1. row[a].email \in Emails /\ a \in 0..made
      BY <2>1 DEF Convert, RowInv, RowSet, Made
    <3> QED BY <2>1, <3>1 DEF Convert, StaffSet
  <2>2. CASE AddTenant(k, e, a)
    <3>1. a \in 0..made
      BY <2>2, OnboardingAssumption DEF AddTenant, RowInv, Made
    <3> QED BY <2>2, <3>1 DEF AddTenant, StaffSet
  <2> QED BY <2>1, <2>2
<1>2. staff[k].pc = "idle" /\ staff' = [staff EXCEPT ![k] = r]
      /\ UNCHANGED <<made, tenant, invites, invite, signup, mailed, died>>
  BY <1>1 DEF StartRequest, Idle, data, ghost
<1>3. died \in SUBSET Emails /\ ~Winning(k)
  BY <1>2 DEF AccountInv, AccountTypes, Winning
<1> QED BY <1>1, <1>2, <1>3, Replaced

LEMMA InsertKeeps ==
  ASSUME AccountInv, NEW k \in Staff, InsertTenant(k)
  PROVE  AccountInv'
<1> DEFINE r == staff[k]
           w == [r EXCEPT !.pc = IF r.op = "convert" THEN "invite" ELSE "review"]
<1>1. /\ r \in StaffSet /\ staff \in [Staff -> StaffSet] /\ r.pc = "insert" /\ r.email \in Emails /\ r.op # "none"
      /\ tenant \in [Emails -> {"none", "convert", "add", "signup"}] /\ r.app \in 0..made
  BY DEF AccountInv, AccountTypes, InsertTenant, RequestOK
<1>2. UNCHANGED <<made, invites, invite, signup, mailed, died>>
  BY DEF InsertTenant, ghost
<1>3. CASE tenant[r.email] # "none"
  <2>1. staff' = [staff EXCEPT ![k] = NoStaff] /\ tenant' = tenant
    BY <1>3 DEF InsertTenant, Finish
  <2>2. died \in SUBSET Emails /\ ~Winning(k) /\ 0 \in 0..made
    BY <1>1 DEF AccountInv, AccountTypes, Winning
  <2> QED BY <1>2, <2>1, <2>2, IdleRequest, Replaced
<1>4. CASE tenant[r.email] = "none"
  <2>1. tenant' = [tenant EXCEPT ![r.email] = r.op] /\ staff' = [staff EXCEPT ![k] = w]
    BY <1>4 DEF InsertTenant
  <2>2. w \in StaffSet /\ w.email = r.email /\ w.op = r.op /\ w.app = r.app
        /\ w.pc = IF r.op = "convert" THEN "invite" ELSE "review"
    BY <1>1 DEF StaffSet
  <2>3. r.op \in {"convert", "add"}
    BY <1>1 DEF StaffSet
  <2>4. tenant' \in [Emails -> {"none", "convert", "add", "signup"}] /\ tenant'[r.email] = r.op
        /\ \A e \in Emails : e # r.email => tenant'[e] = tenant[e]
    BY <1>1, <2>1, <2>3
  <2>5. staff' \in [Staff -> StaffSet] /\ staff'[k] = w /\ \A l \in Staff : l # k => staff'[l] = staff[l]
    BY <1>1, <2>1, <2>2
  <2>6. \A l \in Staff : l # k => (Winning(l)' <=> Winning(l))
    BY <2>5 DEF Winning
  <2>7. Winning(k)' <=> r.op = "convert"
    BY <2>2, <2>3, <2>5 DEF Winning
  <2>8. \A l \in Staff : Winning(l) => staff[l].email \in Emails /\ staff[l].email # r.email
    BY <1>4 DEF AccountInv, RequestOK, Winning
  <2>9. \A e : Converted(e)' = Converted(e)
    BY <1>2 DEF Converted, Sent
  <2>10. Converted(r.email) = {}
    BY <1>4 DEF AccountInv, InvitedIsMade, Converted
  <2>11. AccountTypes'
    BY <1>2, <2>4, <2>5 DEF AccountInv, AccountTypes, Sent
  <2>12. ASSUME NEW l \in Staff PROVE RequestOK(l)'
    <3>1. RequestOK(l)
      BY DEF AccountInv
    <3>2. CASE l = k
      <4>1. staff'[l].email = r.email /\ staff'[l].pc = w.pc /\ staff'[l].op = r.op /\ staff'[l].app = r.app
            /\ made' = made /\ Converted(r.email)' = {}
        BY <1>2, <2>2, <2>5, <2>9, <2>10, <3>2
      <4> QED BY <1>1, <2>2, <2>3, <2>4, <2>7, <3>2, <4>1 DEF RequestOK
    <3>3. CASE l # k
      BY <1>2, <2>4, <2>5, <2>6, <2>8, <2>9, <3>1, <3>3 DEF RequestOK
    <3> QED BY <3>2, <3>3
  <2>13. OneWinner'
    <3>1. \A l \in Staff : l # k /\ Winning(l)' => staff'[l].email # staff'[k].email
      BY <2>2, <2>5, <2>6, <2>8
    <3>2. \A l, m \in Staff : l # k /\ m # k /\ Winning(l)' /\ Winning(m)' /\ staff'[l].email = staff'[m].email => l = m
      BY <2>5, <2>6 DEF AccountInv, OneWinner
    <3> QED BY <3>1, <3>2 DEF OneWinner
  <2>14. InvitedIsMade' /\ OneInvite' /\ SignupOK'
    BY <1>1, <1>2, <1>4, <2>4 DEF AccountInv, AccountTypes, InviteSet, InvitedIsMade, OneInvite, SignupOK, Sent
  <2>15. MadeIsInvited'
    <3>1. ASSUME NEW e \in Emails, tenant'[e] = "convert", e # r.email
          PROVE  (\E i \in mailed : invite[i].email = e) \/ e \in died
                   \/ \E l \in Staff : Winning(l)' /\ staff'[l].email = e
      <4>1. tenant[e] = "convert"
        BY <2>4, <3>1
      <4>2. ASSUME NEW l \in Staff, Winning(l), staff[l].email = e PROVE Winning(l)' /\ staff'[l].email = e
        BY <2>5, <2>6, <3>1, <4>2
      <4> QED BY <4>1, <4>2 DEF AccountInv, MadeIsInvited
    <3>2. tenant'[r.email] = "convert" => Winning(k)' /\ staff'[k].email = r.email
      BY <2>2, <2>4, <2>5, <2>7
    <3> QED BY <1>2, <3>1, <3>2 DEF MadeIsInvited
  <2>16. SpentHasAccount'
    <3>1. \A e \in Emails : tenant[e] # "none" => tenant'[e] # "none"
      BY <1>4, <2>4
    <3>2. \A i \in Sent : Lower[invite[i].email] \in Emails
      BY OnboardingAssumption DEF AccountInv, AccountTypes, InviteSet
    <3> QED BY <1>2, <3>1, <3>2 DEF AccountInv, SpentHasAccount, Sent
  <2> QED BY <2>11, <2>12, <2>13, <2>14, <2>15, <2>16 DEF AccountInv
<1> QED BY <1>3, <1>4

\* an invite is added at the end
LEMMA InviteAdded ==
  ASSUME AccountInv, NEW e \in Emails, NEW by \in {"convert", "page"}, AddInvite(e, by)
  PROVE  /\ invites \in Nat /\ invites' = invites + 1 /\ invites' \in 0..MaxInvites
         /\ Sent' = Sent \cup {invites'} /\ invites' \notin Sent
         /\ invite' \in [Sent' -> InviteSet]
         /\ \A i \in Sent : invite'[i] = invite[i]
         /\ invite'[invites'].email = e /\ invite'[invites'].by = by /\ ~invite'[invites'].accepted
<1> DEFINE new == [email |-> e, by |-> by, accepted |-> FALSE]
<1>1. MaxInvites \in Nat /\ invites \in Nat /\ invites < MaxInvites /\ invites' = invites + 1
      /\ invite' = [i \in 1..(invites + 1) |-> IF i = invites + 1 THEN new ELSE invite[i]]
  BY OnboardingAssumption DEF AddInvite, AccountInv, AccountTypes
<1>2. new \in InviteSet /\ invite \in [1..invites -> InviteSet]
  BY DEF InviteSet, AccountInv, AccountTypes, Sent
<1>3. Sent' = Sent \cup {invites'} /\ invites' \notin Sent
  BY <1>1 DEF Sent
<1>4. invite' \in [1..invites' -> InviteSet] /\ \A i \in 1..invites : invite'[i] = invite[i]
  BY <1>1, <1>2
<1>5. invite'[invites'] = new
  BY <1>1
<1>6. invites' \in 0..MaxInvites
  BY <1>1
<1>7. invite' \in [Sent' -> InviteSet] /\ \A i \in Sent : invite'[i] = invite[i]
  BY <1>4 DEF Sent
<1> QED BY <1>1, <1>3, <1>5, <1>6, <1>7

LEMMA PageInviteKeeps ==
  ASSUME AccountInv, NEW k \in Staff, NEW e \in Emails, InviteTenant(k, e)
  PROVE  AccountInv'
<1>1. AddInvite(e, "page") /\ UNCHANGED <<made, tenant, staff, signup, mailed, died>>
  BY DEF InviteTenant, ghost
<1>2. /\ invites' \in 0..MaxInvites /\ Sent' = Sent \cup {invites'} /\ invites' \notin Sent
      /\ invite' \in [Sent' -> InviteSet] /\ \A i \in Sent : invite'[i] = invite[i]
      /\ invite'[invites'].by = "page" /\ ~invite'[invites'].accepted
  BY <1>1, InviteAdded
<1>3. \A d : Converted(d)' = Converted(d)
  BY <1>2 DEF Converted
<1>4. AccountTypes'
  BY <1>1, <1>2 DEF AccountInv, AccountTypes
<1>5. ASSUME NEW l \in Staff PROVE RequestOK(l)'
  BY <1>1, <1>3 DEF AccountInv, RequestOK, Winning
<1>6. OneWinner' /\ SignupOK'
  BY <1>1 DEF AccountInv, OneWinner, Winning, SignupOK
<1>7. OneInvite' /\ InvitedIsMade'
  BY <1>1, <1>2 DEF AccountInv, OneInvite, InvitedIsMade
<1>8. MadeIsInvited'
  BY <1>1, <1>2 DEF AccountInv, AccountTypes, MadeIsInvited, Winning
<1>9. SpentHasAccount'
  BY <1>1, <1>2 DEF AccountInv, SpentHasAccount
<1> QED BY <1>4, <1>5, <1>6, <1>7, <1>8, <1>9 DEF AccountInv

LEMMA InviteKeeps ==
  ASSUME AccountInv, NEW k \in Staff, InviteConverted(k)
  PROVE  AccountInv'
<1> DEFINE r == staff[k]
           e == r.email
           w == [r EXCEPT !.pc = "mail"]
<1>1. /\ r \in StaffSet /\ staff \in [Staff -> StaffSet] /\ r.pc = "invite" /\ e \in Emails
      /\ r.op = "convert" /\ tenant[e] = "convert" /\ Converted(e) = {} /\ Winning(k) /\ r.app \in 0..made
  BY DEF AccountInv, AccountTypes, InviteConverted, RequestOK, Winning
<1>2. AddInvite(e, "convert") /\ staff' = [staff EXCEPT ![k] = w]
      /\ UNCHANGED <<made, tenant, signup, mailed, died>>
  BY DEF InviteConverted, ghost
<1>3. /\ invites' \in 0..MaxInvites /\ Sent' = Sent \cup {invites'} /\ invites' \notin Sent
      /\ invite' \in [Sent' -> InviteSet] /\ \A i \in Sent : invite'[i] = invite[i]
      /\ invite'[invites'].email = e /\ invite'[invites'].by = "convert" /\ ~invite'[invites'].accepted
  BY <1>1, <1>2, InviteAdded
<1>4. w \in StaffSet /\ w.email = e /\ w.op = "convert" /\ w.app = r.app /\ w.pc = "mail"
  BY <1>1 DEF StaffSet
<1>5. staff' \in [Staff -> StaffSet] /\ staff'[k] = w /\ \A l \in Staff : l # k => staff'[l] = staff[l]
  BY <1>1, <1>2, <1>4
<1>6. \A l \in Staff : (Winning(l)' <=> Winning(l)) /\ staff'[l].email = staff[l].email
  BY <1>1, <1>4, <1>5 DEF Winning
<1>7. Converted(e)' # {} /\ \A d : d # e => Converted(d)' = Converted(d)
  <2>1. invites' \in Converted(e)' /\ e' = e
    BY <1>3, <1>4, <1>5 DEF Converted
  <2>2. ASSUME NEW d, d # e PROVE Converted(d)' = Converted(d)
    BY <1>3, <2>2 DEF Converted
  <2> QED BY <2>1, <2>2
<1>8. AccountTypes'
  BY <1>2, <1>3, <1>5 DEF AccountInv, AccountTypes
<1>9. ASSUME NEW l \in Staff PROVE RequestOK(l)'
  <2>1. RequestOK(l)
    BY DEF AccountInv
  <2>2. CASE l = k
    BY <1>1, <1>2, <1>4, <1>5, <1>7, <2>2 DEF RequestOK
  <2>3. CASE l # k
    <3>1. Winning(l) => staff[l].email # e
      BY <1>1, <2>3 DEF AccountInv, OneWinner
    <3> QED BY <1>2, <1>5, <1>6, <1>7, <2>1, <2>3, <3>1 DEF RequestOK, Winning
  <2> QED BY <2>2, <2>3
<1>10. OneWinner' /\ SignupOK'
  BY <1>2, <1>6 DEF AccountInv, OneWinner, SignupOK
<1>11. OneInvite'
  <2>1. \A i \in Sent : invite[i].by = "convert" => invite[i].email # e
    BY <1>1 DEF Converted
  <2> QED BY <1>3, <2>1 DEF AccountInv, OneInvite
<1>12. InvitedIsMade'
  BY <1>1, <1>2, <1>3 DEF AccountInv, InvitedIsMade
<1>13. MadeIsInvited'
  BY <1>2, <1>3, <1>6 DEF AccountInv, AccountTypes, MadeIsInvited
<1>14. SpentHasAccount'
  BY <1>2, <1>3 DEF AccountInv, SpentHasAccount
<1> QED BY <1>8, <1>9, <1>10, <1>11, <1>12, <1>13, <1>14 DEF AccountInv

LEMMA MailKeeps ==
  ASSUME AccountInv, NEW k \in Staff, MailInvite(k)
  PROVE  AccountInv'
<1> DEFINE e == staff[k].email
<1>1. /\ staff \in [Staff -> StaffSet] /\ staff[k].pc = "mail" /\ e \in Emails /\ Converted(e) # {}
      /\ Winning(k)
  BY DEF AccountInv, AccountTypes, MailInvite, RequestOK, Winning
<1>2. staff' = [staff EXCEPT ![k] = NoStaff] /\ mailed' = mailed \cup Converted(e)
      /\ UNCHANGED <<made, tenant, invites, invite, signup, died>>
  BY DEF MailInvite, Finish, data, Converted
<1>3. staff' \in [Staff -> StaffSet] /\ staff'[k] = NoStaff /\ \A l \in Staff : l # k => staff'[l] = staff[l]
  BY <1>1, <1>2, IdleRequest
<1>4. ~Winning(k)' /\ \A l \in Staff : l # k => (Winning(l)' <=> Winning(l))
  BY <1>3, IdleRequest DEF Winning
<1>5. \A d : Converted(d)' = Converted(d)
  BY <1>2 DEF Converted, Sent
<1>6. AccountTypes'
  BY <1>2, <1>3 DEF AccountInv, AccountTypes, Converted, Sent
<1>7. ASSUME NEW l \in Staff PROVE RequestOK(l)'
  <2>1. RequestOK(l)
    BY DEF AccountInv
  <2>2. CASE l = k
    <3>1. 0 \in 0..made
      BY DEF AccountInv, AccountTypes
    <3> QED BY <1>2, <1>3, <1>4, <2>2, <3>1, IdleRequest DEF RequestOK
  <2>3. CASE l # k
    BY <1>2, <1>3, <1>4, <1>5, <2>1, <2>3 DEF RequestOK
  <2> QED BY <2>2, <2>3
<1>8. OneWinner'
  BY <1>3, <1>4 DEF AccountInv, OneWinner
<1>9. OneInvite' /\ InvitedIsMade' /\ SignupOK'
  BY <1>2 DEF AccountInv, OneInvite, InvitedIsMade, SignupOK, Sent
<1>10. MadeIsInvited'
  <2>1. \E i \in mailed' : invite'[i].email = e
    BY <1>1, <1>2 DEF Converted
  <2>2. \A d \in Emails : (\E i \in mailed : invite[i].email = d) => \E i \in mailed' : invite'[i].email = d
    BY <1>2
  <2> QED BY <1>2, <1>3, <1>4, <2>1, <2>2 DEF AccountInv, MadeIsInvited
<1>11. SpentHasAccount'
  BY <1>2 DEF AccountInv, SpentHasAccount, Sent
<1> QED BY <1>6, <1>7, <1>8, <1>9, <1>10, <1>11 DEF AccountInv

LEMMA EndKeeps ==
  ASSUME AccountInv, NEW k \in Staff, ReviewApplication(k) \/ RequestDies(k)
  PROVE  AccountInv'
<1>1. /\ staff' = [staff EXCEPT ![k] = NoStaff]
      /\ UNCHANGED <<made, tenant, invites, invite, signup, mailed>>
  BY DEF ReviewApplication, RequestDies, Finish, data, ghost
<1>2. died \in SUBSET Emails /\ 0 \in 0..made /\ (staff[k].pc # "idle" => staff[k].email \in Emails)
  <2>1. RequestOK(k) /\ made \in Nat /\ died \in SUBSET Emails
    BY DEF AccountInv, AccountTypes
  <2> QED BY <2>1 DEF RequestOK
<1>3. CASE ReviewApplication(k)
  <2>1. ~Winning(k) /\ died' = died
    BY <1>3 DEF ReviewApplication, Winning, ghost
  <2> QED BY <1>1, <1>2, <2>1, IdleRequest, Replaced
<1>4. CASE RequestDies(k)
  <2>1. died' = died \cup {staff[k].email} /\ staff[k].pc # "idle"
    BY <1>4 DEF RequestDies
  <2> QED BY <1>1, <1>2, <2>1, IdleRequest, Replaced
<1> QED BY <1>3, <1>4

\* a sign-up moves on; it leaves only when its address has a tenant or it died
LEMMA SignupMoves ==
  ASSUME AccountInv, NEW g \in Signups, NEW r \in SignupSet, signup' = [signup EXCEPT ![g] = r],
         UNCHANGED <<made, invites, staff, mailed>>,
         IF r.pc = "idle" THEN r.email = "none" ELSE r.email \in Emails,
         tenant' \in [Emails -> {"none", "convert", "add", "signup"}],
         \A e \in Emails : tenant[e] # "none" => tenant'[e] = tenant[e],
         \A e \in Emails : tenant'[e] = "convert" => tenant[e] = "convert",
         died' \in SUBSET Emails, died \subseteq died',
         signup[g].email \in Emails =>
           r.email = signup[g].email \/ tenant'[signup[g].email] # "none" \/ signup[g].email \in died',
         invite' \in [Sent -> InviteSet],
         \A i \in Sent : invite'[i].email = invite[i].email /\ invite'[i].by = invite[i].by
                         /\ (invite'[i].accepted => invite[i].accepted \/ r.email = Lower[invite[i].email])
  PROVE  AccountInv'
<1>1. signup' \in [Signups -> SignupSet] /\ signup'[g] = r /\ \A h \in Signups : h # g => signup'[h] = signup[h]
  BY DEF AccountInv, AccountTypes
<1>2. Sent' = Sent /\ \A d : Converted(d)' = Converted(d)
  BY DEF Converted, Sent
<1>3. AccountTypes'
  BY <1>1, <1>2 DEF AccountInv, AccountTypes
<1>4. ASSUME NEW l \in Staff PROVE RequestOK(l)'
  BY <1>2 DEF AccountInv, RequestOK, Winning
<1>5. OneWinner' /\ OneInvite'
  BY <1>2 DEF AccountInv, OneWinner, Winning, OneInvite
<1>6. InvitedIsMade'
  BY <1>2 DEF AccountInv, AccountTypes, InviteSet, InvitedIsMade
<1>7. MadeIsInvited'
  BY <1>2 DEF AccountInv, AccountTypes, MadeIsInvited, Winning
<1>8. SignupOK'
  BY <1>1 DEF AccountInv, SignupOK
<1>9. SpentHasAccount'
  <2>1. ASSUME NEW i \in Sent, invite'[i].accepted, NEW e \in Emails, e = Lower[invite[i].email]
        PROVE  tenant'[e] # "none" \/ e \in died' \/ \E h \in Signups : signup'[h].email = e
    <3>1. CASE invite[i].accepted
      <4>1. tenant[e] # "none" \/ e \in died \/ \E h \in Signups : signup[h].email = e
        BY <2>1, <3>1 DEF AccountInv, SpentHasAccount
      <4>2. CASE tenant[e] # "none" \/ e \in died
        BY <4>2
      <4>3. CASE \E h \in Signups : signup[h].email = e
        BY <1>1, <4>3
      <4> QED BY <4>1, <4>2, <4>3
    <3>2. CASE ~invite[i].accepted
      BY <1>1, <2>1, <3>2
    <3> QED BY <3>1, <3>2
  <2>2. \A i \in Sent : Lower[invite[i].email] \in Emails
    BY OnboardingAssumption DEF AccountInv, AccountTypes, InviteSet
  <2> QED BY <1>2, <2>1, <2>2 DEF SpentHasAccount
<1> QED BY <1>3, <1>4, <1>5, <1>6, <1>7, <1>8, <1>9 DEF AccountInv

LEMMA SignupKeeps ==
  ASSUME AccountInv, NEW g \in Signups,
         \/ \E i \in InviteIds : Accept(g, i)
         \/ \E e \in Emails : SignUp(g, e)
         \/ LookUp(g) \/ CreateAccount(g) \/ SignupDies(g)
  PROVE  AccountInv'
<1>1. /\ signup \in [Signups -> SignupSet] /\ tenant \in [Emails -> {"none", "convert", "add", "signup"}]
      /\ invite \in [Sent -> InviteSet] /\ died \in SUBSET Emails
      /\ IF signup[g].pc = "idle" THEN signup[g].email = "none" ELSE signup[g].email \in Emails
  BY DEF AccountInv, AccountTypes, SignupOK
<1>2. "none" \notin Emails /\ Lower \in [Emails -> Emails]
  BY OnboardingAssumption
<1>3. NoSignup \in SignupSet /\ NoSignup.pc = "idle" /\ NoSignup.email = "none" /\ UNCHANGED <<made, invites, staff, mailed>>
  BY DEF NoSignup, SignupSet, Accept, SignUp, LookUp, CreateAccount, SignupDies, data, ghost
<1>4. ASSUME NEW i \in InviteIds, Accept(g, i) PROVE AccountInv'
  <2> DEFINE r == [pc |-> "accepted", email |-> Lower[invite[i].email]]
  <2>1. i \in Sent /\ invite[i].email \in Emails
    BY <1>1, <1>4 DEF Accept, InviteSet
  <2>2. /\ signup' = [signup EXCEPT ![g] = r] /\ tenant' = tenant /\ died' = died
        /\ invite' = [invite EXCEPT ![i] = [invite[i] EXCEPT !.accepted = TRUE]]
    BY <1>4 DEF Accept, ghost
  <2>3. r \in SignupSet /\ r.email \in Emails
    BY <1>2, <2>1 DEF SignupSet
  <2>4. /\ invite' \in [Sent -> InviteSet]
        /\ \A j \in Sent : /\ invite'[j].email = invite[j].email /\ invite'[j].by = invite[j].by
                           /\ invite'[j].accepted => invite[j].accepted \/ r.email = Lower[invite[j].email]
    BY <1>1, <2>1, <2>2 DEF InviteSet
  <2>5. signup[g].email \notin Emails
    BY <1>1, <1>2, <1>4 DEF Accept
  <2> QED BY <1>1, <1>3, <2>2, <2>3, <2>4, <2>5, SignupMoves
<1>5. ASSUME NEW e \in Emails, SignUp(g, e) PROVE AccountInv'
  <2> DEFINE r == [pc |-> "accepted", email |-> Lower[e]]
  <2>1. signup' = [signup EXCEPT ![g] = r] /\ UNCHANGED <<tenant, died, invite>> /\ signup[g].pc = "idle"
    BY <1>5 DEF SignUp, data, ghost
  <2>2. r \in SignupSet /\ r.email \in Emails /\ r.pc # "idle"
    BY <1>2 DEF SignupSet
  <2>3. signup[g].email \notin Emails
    BY <1>1, <1>2, <2>1
  <2> QED BY <1>1, <1>3, <2>1, <2>2, <2>3, SignupMoves
<1>6. CASE LookUp(g)
  <2>1. signup[g] \in SignupSet /\ signup[g].email \in Emails /\ UNCHANGED <<tenant, died, invite>>
    BY <1>1, <1>6 DEF LookUp, data, ghost
  <2>2. CASE tenant[signup[g].email] # "none"
    <3>1. signup' = [signup EXCEPT ![g] = NoSignup]
      BY <1>6, <2>2 DEF LookUp
    <3> QED BY <1>1, <1>3, <2>1, <2>2, <3>1, SignupMoves
  <2>3. CASE tenant[signup[g].email] = "none"
    <3> DEFINE r == [signup[g] EXCEPT !.pc = "insert"]
    <3>1. signup' = [signup EXCEPT ![g] = r]
      BY <1>6, <2>3 DEF LookUp
    <3>2. r \in SignupSet /\ r.email = signup[g].email /\ r.pc # "idle"
      BY <2>1 DEF SignupSet
    <3> QED BY <1>1, <1>3, <2>1, <3>1, <3>2, SignupMoves
  <2> QED BY <2>2, <2>3
<1>7. CASE CreateAccount(g)
  <2> DEFINE d == signup[g].email
  <2>1. d \in Emails /\ signup' = [signup EXCEPT ![g] = NoSignup] /\ UNCHANGED <<died, invite>>
        /\ tenant' = IF tenant[d] = "none" THEN [tenant EXCEPT ![d] = "signup"] ELSE tenant
    BY <1>1, <1>7 DEF CreateAccount, ghost
  <2>2. /\ tenant' \in [Emails -> {"none", "convert", "add", "signup"}] /\ tenant'[d] # "none"
        /\ \A c \in Emails : tenant[c] # "none" => tenant'[c] = tenant[c]
        /\ \A c \in Emails : tenant'[c] = "convert" => tenant[c] = "convert"
    BY <1>1, <2>1
  <2> QED BY <1>1, <1>3, <2>1, <2>2, SignupMoves
<1>8. CASE SignupDies(g)
  <2>1. signup[g].email \in Emails /\ signup' = [signup EXCEPT ![g] = NoSignup] /\ UNCHANGED <<tenant, invite>>
        /\ died' = died \cup {signup[g].email}
    BY <1>1, <1>8 DEF SignupDies, data
  <2> QED BY <1>1, <1>3, <2>1, SignupMoves
<1> QED BY <1>4, <1>5, <1>6, <1>7, <1>8

LEMMA AccountStep ==
  ASSUME PageInv, RowInv, AccountInv, [Next]_vars
  PROVE  AccountInv'
<1>0. made \in Nat
  BY OnboardingAssumption DEF RowInv
<1>1. ASSUME UNCHANGED <<tenant, invites, invite, staff, signup, mailed, died>>, made' = made \/ made' = made + 1
      PROVE  AccountInv'
  BY <1>0, <1>1, SameAccounts
<1>2. ASSUME NEW f \in Forms, NEW part \in Parts,
             \/ Fill(f, part) \/ Spoil(f, part)
             \/ NextStep(f) \/ PreviousStep(f) \/ Solve(f) \/ Submit(f) \/ Reopen(f)
             \/ ApplyCheck(f) \/ ApplyCreate(f) \/ Submitted(f) \/ ApplyFails(f)
      PROVE  AccountInv'
  BY <1>1, <1>2 DEF Fill, Spoil, NextStep, PreviousStep, Solve, Submit, Reopen, Page, ApplyCheck, ApplyCreate,
                    Submitted, ApplyFails, data, ghost
<1>3. CASE \E f \in Forms :
             \/ \E part \in Parts : Fill(f, part) \/ Spoil(f, part)
             \/ NextStep(f) \/ PreviousStep(f) \/ Solve(f) \/ Submit(f) \/ Reopen(f)
             \/ ApplyCheck(f) \/ ApplyCreate(f) \/ Submitted(f) \/ ApplyFails(f)
  <2>1. "typed" \in Parts
    BY DEF Parts
  <2> QED BY <1>2, <1>3, <2>1
<1>4. ASSUME NEW a \in AppIds, Ages(a) PROVE AccountInv'
  BY <1>1, <1>4 DEF Ages, ghost
<1>5. ASSUME NEW k \in Staff, NEW a \in AppIds, NEW s \in {"reviewed", "rejected"}, Decide(k, a, s)
      PROVE  AccountInv'
  BY <1>1, <1>5 DEF Decide, ghost
<1>6. ASSUME NEW k \in Staff, NEW a \in AppIds, Convert(k, a) PROVE AccountInv'
  <2>1. a \in 0..MaxApps /\ row[a].email \in Emails
    BY <1>6, OnboardingAssumption DEF AppIds, Convert, RowInv, RowSet, Made
  <2> QED BY <1>6, <2>1, StartKeeps
<1>7. ASSUME NEW k \in Staff, NEW e \in Emails, NEW a \in 0..MaxApps, AddTenant(k, e, a) PROVE AccountInv'
  BY <1>7, StartKeeps
<1>8. ASSUME NEW k \in Staff,
             \/ InsertTenant(k) \/ InviteConverted(k) \/ MailInvite(k) \/ ReviewApplication(k)
             \/ RequestDies(k) \/ \E e \in Emails : InviteTenant(k, e)
      PROVE  AccountInv'
  BY <1>8, InsertKeeps, InviteKeeps, MailKeeps, EndKeeps, PageInviteKeeps
<1>9. ASSUME NEW g \in Signups,
             \/ \E i \in InviteIds : Accept(g, i)
             \/ \E e \in Emails : SignUp(g, e)
             \/ LookUp(g) \/ CreateAccount(g) \/ SignupDies(g)
      PROVE  AccountInv'
  BY <1>9, SignupKeeps
<1>10. CASE UNCHANGED vars
  BY <1>1, <1>10 DEF vars, data, ghost
<1> QED BY <1>3, <1>4, <1>5, <1>6, <1>7, <1>8, <1>9, <1>10 DEF Next

-----------------------------------------------------------------------------
LEMMA CountsStep == ASSUME Counts, PageInv, made \in Nat, [Next]_vars PROVE Counts'
<1>1. edits' \in 0..MaxEdits
  <2>1. CASE edits' = edits
    BY <2>1 DEF Counts
  <2>2. CASE edits < MaxEdits /\ edits' = edits + 1
    BY <2>2, OnboardingAssumption DEF Counts
  <2> QED BY <2>1, <2>2 DEF Next, vars, Fill, Spoil, NextStep, PreviousStep, Solve, Submit, Reopen, Edit,
            ApplyCheck, ApplyCreate, Submitted, ApplyFails, Ages, Convert, Decide, AddTenant, StartRequest,
            InsertTenant, InviteConverted, MailInvite, ReviewApplication, RequestDies, InviteTenant,
            Accept, SignUp, LookUp, CreateAccount, SignupDies
<1>2. failures' \in 0..MaxFailures
  <2>1. CASE failures' = failures
    BY <2>1 DEF Counts
  <2>2. CASE failures < MaxFailures /\ failures' = failures + 1
    BY <2>2, OnboardingAssumption DEF Counts
  <2> QED BY <2>1, <2>2 DEF Next, vars, Fill, Spoil, NextStep, PreviousStep, Solve, Submit, Reopen, Page,
            ApplyCheck, ApplyCreate, Submitted, ApplyFails, Ages, Convert, Decide, AddTenant, StartRequest,
            InsertTenant, InviteConverted, MailInvite, ReviewApplication, RequestDies, InviteTenant,
            Accept, SignUp, LookUp, CreateAccount, SignupDies
<1>3. cast' = cast
  BY DEF Next, vars, Fill, Spoil, NextStep, PreviousStep, Solve, Submit, Reopen, Page,
         ApplyCheck, ApplyCreate, Submitted, ApplyFails, Ages, Convert, Decide, AddTenant, StartRequest,
         InsertTenant, InviteConverted, MailInvite, ReviewApplication, RequestDies, InviteTenant,
         Accept, SignUp, LookUp, CreateAccount, SignupDies
<1>4. peak' \in [Emails -> Nat]
  <2>1. CASE peak' = peak
    BY <2>1 DEF Counts
  <2>2. ASSUME NEW f \in Forms, ApplyCheck(f) PROVE peak' \in [Emails -> Nat]
    <3>1. EmailOf[f] \in Emails /\ Cardinality(Inserting(EmailOf[f])) + 1 \in Nat
      BY OnboardingAssumption, Sizes
    <3> QED BY <2>2, <3>1 DEF ApplyCheck, Counts
  <2> QED BY <2>1, <2>2 DEF Next, vars, Fill, Spoil, NextStep, PreviousStep, Solve, Submit, Reopen, Page,
            ApplyCreate, Submitted, ApplyFails, Ages, Convert, Decide, AddTenant, StartRequest,
            InsertTenant, InviteConverted, MailInvite, ReviewApplication, RequestDies, InviteTenant,
            Accept, SignUp, LookUp, CreateAccount, SignupDies, ghost
<1> QED BY <1>1, <1>2, <1>3, <1>4 DEF Counts

LEMMA InitIInv == Init => IInv
<1> SUFFICES ASSUME Init PROVE IInv
  OBVIOUS
<1>1. PageInv
  BY InitPage
<1>2. Counts
  BY OnboardingAssumption DEF Init, Counts
<1>3. RowInv
  <2>1. ASSUME NEW e \in Emails PROVE Cardinality(Pending(e)) + Cardinality(Inserting(e)) <= peak[e]
    <3>1. Pending(e) = {}
      BY DEF Init, Pending, Made
    <3>2. Inserting(e) = {}
      BY DEF Init, Inserting, NewForm
    <3> QED BY <3>1, <3>2, FS_EmptySet DEF Init
  <2>2. made \in 0..MaxApps /\ row \in [Made -> RowSet]
    BY OnboardingAssumption DEF Init, Made
  <2> QED BY <2>1, <2>2 DEF RowInv
<1>4. AccountInv
  <2>1. Sent = {} /\ invites = 0 /\ \A k \in Staff : staff[k] = NoStaff
    BY DEF Init, Sent
  <2>2. AccountTypes
    BY OnboardingAssumption, IdleRequest, <2>1 DEF Init, AccountTypes, NoSignup, SignupSet
  <2>3. \A k \in Staff : RequestOK(k) /\ ~Winning(k)
    BY <2>1, IdleRequest DEF RequestOK, Winning, Init
  <2>4. SignupOK /\ MadeIsInvited
    BY DEF Init, SignupOK, NoSignup, MadeIsInvited
  <2> QED BY <2>1, <2>2, <2>3, <2>4 DEF AccountInv, OneWinner, OneInvite, InvitedIsMade, SpentHasAccount
<1> QED BY <1>1, <1>2, <1>3, <1>4 DEF IInv

LEMMA IInvStep == IInv /\ [Next]_vars => IInv'
<1> SUFFICES ASSUME IInv, [Next]_vars PROVE IInv'
  OBVIOUS
<1>1. made \in Nat
  BY OnboardingAssumption DEF IInv, RowInv
<1> QED BY <1>1, PageStep, CountsStep, RowStep, AccountStep DEF IInv

LEMMA Kept == Spec => []IInv
BY InitIInv, IInvStep, PTL DEF Spec

\* what the parts of the invariant mean for the properties
LEMMA InvMeans == IInv => AppliedOnce /\ InvitesKept
<1> SUFFICES ASSUME IInv PROVE AppliedOnce /\ InvitesKept
  OBVIOUS
<1>1. TypeOK
  <2>1. form \in [Forms -> PageSet] /\ Counts /\ RowInv /\ AccountTypes /\ MaxInvites \in Nat /\ invites \in 0..MaxInvites
    BY OnboardingAssumption DEF IInv, PageInv, AccountInv, AccountTypes
  <2>2. mailed \in SUBSET InviteIds
    BY <2>1 DEF AccountTypes, Sent, InviteIds
  <2> QED BY <2>1, <2>2 DEF TypeOK, PageSet, Counts, RowInv, RowSet, Statuses, AccountTypes, InviteSet, StaffSet, SignupSet
<1>2. SubmittedValid
  BY DEF IInv, PageInv, PageOK, SubmittedValid, PageSet, LastStep
<1>3. PendingBounded
  <2>1. ASSUME NEW e \in Emails PROVE Cardinality(Pending(e)) <= peak[e]
    <3>1. Cardinality(Pending(e)) + Cardinality(Inserting(e)) <= peak[e] /\ peak[e] \in Nat /\ made \in Nat
      BY OnboardingAssumption DEF IInv, RowInv, Counts
    <3>2. Cardinality(Pending(e)) \in Nat /\ Cardinality(Inserting(e)) \in Nat
      BY <3>1, Sizes DEF IInv
    <3> QED BY <3>1, <3>2
  <2> QED BY <2>1 DEF PendingBounded
<1>4. OneConversion
  <2>1. ASSUME NEW e \in Emails PROVE Cardinality(Converted(e)) <= 1
    <3>1. CASE Converted(e) = {}
      BY <3>1, FS_EmptySet
    <3>2. CASE Converted(e) # {}
      <4>1. PICK i : i \in Converted(e)
        BY <3>2
      <4>2. Converted(e) = {i}
        BY <4>1 DEF IInv, AccountInv, OneInvite, Converted
      <4> QED BY <4>2, FS_Singleton
    <3> QED BY <3>1, <3>2
  <2> QED BY <2>1 DEF OneConversion, Converted
<1>5. ConvertedIsInvited
  BY DEF IInv, AccountInv, MadeIsInvited, RequestOK, ConvertedIsInvited
<1>6. SpentHasAccount
  BY DEF IInv, AccountInv
<1> QED BY <1>1, <1>2, <1>3, <1>4, <1>5, <1>6 DEF AppliedOnce, InvitesKept

(* For any number of applicants, requests and accounts: an address has no  *)
(* more applications waiting than requests were about to insert at once,   *)
(* what was sent is complete, and of overlapping conversions only one      *)
(* makes the tenant and invites.                                           *)
THEOREM AppliesOnce == Spec => []AppliedOnce
BY Kept, InvMeans, PTL

(* A converted applicant is invited by mail and a spent invite has its     *)
(* account, unless the very request died half-way.                         *)
THEOREM InvitesAreKept == Spec => []InvitesKept
BY Kept, InvMeans, PTL

-----------------------------------------------------------------------------
(* Leases and units: types                                                 *)

LeaseReqSet ==
  [pc : {"idle", "sent", "checked", "inserted", "vacated", "answered"},
   lease : 0..MaxLeases, unit : Units \cup {None}, day : EndDays \cup {None},
   what : {"none", "active", "expired", "terminated", "moveOut"}]

\* a request names a unit or a lease there is, and says what its form can say
GoodReq(s, r) ==
  r.pc # "idle" =>
    IF s[2] = "create" THEN r.unit \in Units /\ r.what = "none" /\ r.pc # "vacated"
    ELSE /\ r.lease \in Leases /\ r.pc \in {"sent", "vacated", "answered"}
         /\ s[2] = "renew" => r.day \in EndDays
         /\ s[2] \in {"return", "put"} => r.day \in Days
         /\ s[2] \in {"renew", "convert", "return"} => r.what = "none"
         /\ s[2] = "terminate" => r.what = "terminated"
         /\ s[2] = "put" => r.what \in {"active", "expired", "moveOut"}

ReqsGood == \A s \in Slots : GoodReq(s, req[s])
\* what a page shows, and what the job holds, is there
PagesGood == \A c \in Pages : page[c].active \in 0..leases /\ page[c].refund \in 0..leases

LeaseFacts == LeaseTypes /\ ReqsGood /\ PagesGood /\ job.due \subseteq Leases

LEMMA SlotFacts ==
  /\ \A c \in Pages, o \in LeaseForms : <<c, o>> \in Slots
  /\ \A c \in Scripts : <<c, "put">> \in Slots
  /\ \A s \in Slots : s = <<s[1], s[2]>> /\ s[2] \in LeaseForms \cup {"put"}
  /\ \A s \in Slots : s[2] # "put" => s[1] \in Pages
  /\ \A s \in Slots : s[2] = "put" => s[1] \in Scripts
BY DEF Slots, LeaseForms

LEMMA MostExists ==
  ASSUME NEW n \in Nat, NEW L \in SUBSET (1..n), L # {}
  PROVE  \E l \in L : \A k \in L : k <= l
<1> DEFINE S == {n - l : l \in L}
<1>1. \A l \in L : l \in Nat /\ n - l \in Nat
  OBVIOUS
<1>2. S \subseteq Nat /\ S # {}
  BY <1>1
<1>3. IsWellFoundedOn(OpToRel(<, Nat), Nat)
  BY NatLessThanWellFounded
<1> HIDE DEF S
<1>4. PICK x \in S : \A y \in S : ~(<<y, x>> \in OpToRel(<, Nat))
  BY <1>2, <1>3, WFMin
<1>5. x \in Nat /\ \A y \in S : y \in Nat
  BY <1>2, <1>4
<1>6. \A y \in S : ~(y < x)
  BY <1>4, <1>5 DEF OpToRel
<1> USE DEF S
<1>7. PICK l \in L : x = n - l
  BY <1>4
<1>8. \A k \in L : k <= l
  <2>1. ASSUME NEW k \in L PROVE k <= l
    <3>1. n - k \in S /\ k \in Nat /\ l \in Nat
      BY <1>1
    <3>2. ~(n - k < n - l)
      BY <1>6, <1>7, <3>1
    <3> QED BY <3>1, <3>2
  <2> QED BY <2>1
<1> QED BY <1>7, <1>8

LEMMA NewestFacts ==
  ASSUME LeaseTypes, NEW t, NEW s
  PROVE  /\ Newest(t, s) \in 0..leases
         /\ Newest(t, s) # 0 => Newest(t, s) \in Leases /\ lease[Newest(t, s)].status = s
<1> DEFINE L == {l \in Leases : lease[l].tenant = t /\ lease[l].status = s}
<1>1. leases \in Nat /\ L \in SUBSET (1..leases)
  BY TenancyAssumption DEF LeaseTypes, Leases
<1>2. Newest(t, s) = IF L = {} THEN 0 ELSE CHOOSE l \in L : \A k \in L : k <= l
  BY DEF Newest
<1> HIDE DEF L
<1>3. ASSUME L # {} PROVE Newest(t, s) \in L
  BY <1>1, <1>2, <1>3, MostExists
<1>4. \A l \in L : l \in 1..leases /\ lease[l].status = s
  BY DEF L, Leases
<1>5. CASE L = {}
  <2>1. Newest(t, s) = 0
    BY <1>2, <1>5
  <2> QED BY <1>1, <2>1
<1>6. CASE L # {}
  <2>1. Newest(t, s) \in 1..leases /\ lease[Newest(t, s)].status = s
    BY <1>3, <1>4, <1>6
  <2>2. 1..leases \subseteq 0..leases
    BY <1>1
  <2> QED BY <2>1, <2>2 DEF Leases
<1> QED BY <1>5, <1>6

LEMMA LoadedFacts ==
  ASSUME LeaseTypes, NEW t
  PROVE  /\ Loaded(t) \in [active : 0..leases, m2m : BOOLEAN, refund : 0..leases]
         /\ Loaded(t).active # 0 => lease[Loaded(t).active].status = "active"
<1> DEFINE a == Newest(t, "active")
           e == IF a # 0 /\ lease[a].moveOut # None THEN a ELSE Newest(t, "terminated")
           f == IF e # 0 /\ lease[e].deposit /\ lease[e].returned = None THEN e ELSE 0
           m == a # 0 /\ lease[a].type = "month_to_month"
<1>1. Loaded(t) = [active |-> a, m2m |-> m, refund |-> f]
  BY DEF Loaded
<1>2. leases \in Nat
  BY TenancyAssumption DEF LeaseTypes
<1>3. a \in 0..leases /\ (a # 0 => lease[a].status = "active") /\ Newest(t, "terminated") \in 0..leases
  BY NewestFacts
<1> HIDE DEF a
<1>4. f \in 0..leases /\ m \in BOOLEAN
  BY <1>2, <1>3
<1> HIDE DEF f, m, e
<1> QED BY <1>1, <1>3, <1>4


LEMMA ReqKept ==
  ASSUME LeaseFacts, NEW s \in Slots, NEW r \in LeaseReqSet, GoodReq(s, r),
         req' = [req EXCEPT ![s] = r], leases' \in {leases, leases + 1}
  PROVE  req' \in [Slots -> LeaseReqSet] /\ ReqsGood'
<1>1. req \in [Slots -> LeaseReqSet] /\ leases \in Nat
  BY TenancyAssumption DEF LeaseFacts, LeaseTypes, LeaseReqSet
<1>2. Leases \subseteq Leases'
  BY <1>1 DEF Leases
<1>3. ASSUME NEW t \in Slots PROVE GoodReq(t, req[t])'
  <2>1. GoodReq(t, req[t])
    BY DEF LeaseFacts, ReqsGood
  <2>2. CASE t = s
    <3>1. req'[t] = r
      BY <1>1, <2>2
    <3> QED BY <1>2, <2>2, <3>1 DEF GoodReq
  <2>3. CASE t # s
    <3>1. req'[t] = req[t]
      BY <1>1, <2>3
    <3> QED BY <1>2, <2>1, <3>1 DEF GoodReq
  <2> QED BY <2>2, <2>3
<1>4. req' \in [Slots -> LeaseReqSet]
  BY <1>1
<1> QED BY <1>3, <1>4 DEF ReqsGood

LEMMA IdleGood == NoReq \in LeaseReqSet /\ \A s \in Slots : GoodReq(s, NoReq)
BY TenancyAssumption DEF NoReq, LeaseReqSet, GoodReq

LEMMA SendFacts ==
  ASSUME LeaseFacts, NEW s \in Slots, NEW r \in LeaseReqSet, GoodReq(s, r), Send(s, r)
  PROVE  LeaseFacts'
<1>1. /\ req' = [req EXCEPT ![s] = r] /\ acts' = acts + 1 /\ acts < MaxActs[mode]
      /\ UNCHANGED <<mode, rows, page, unitForm, job, today, deaths, history>>
  BY DEF Send
<1>2. req' \in [Slots -> LeaseReqSet] /\ ReqsGood'
  BY <1>1, ReqKept DEF rows
<1>3. acts' \in 0..MaxActs[mode]'
  <2>1. acts \in 0..MaxActs[mode] /\ mode \in Modes /\ MaxActs[mode] \in Nat
    BY TenancyAssumption DEF LeaseFacts, LeaseTypes
  <2> QED BY <1>1, <2>1
<1>4. LeaseTypes'
  BY <1>1, <1>2, <1>3 DEF LeaseFacts, LeaseTypes, rows, history, LeaseReqSet, Leases
<1> QED BY <1>1, <1>2, <1>4 DEF LeaseFacts, PagesGood, rows, Leases

\* a step of a request that leaves rows, pages and job alone
LEMMA AnswerFacts ==
  ASSUME LeaseFacts, NEW s \in Slots, NEW r \in LeaseReqSet, GoodReq(s, r),
         req' = [req EXCEPT ![s] = r],
         unit' \in [Units -> {"vacant", "occupied", "maintenance", "deleted"}],
         deaths' \in 0..MaxDeaths,
         UNCHANGED <<mode, leases, lease, page, unitForm, job, today, acts, history>>
  PROVE  LeaseFacts'
<1>1. req' \in [Slots -> LeaseReqSet] /\ ReqsGood'
  BY ReqKept
<1>2. LeaseTypes'
  BY <1>1 DEF LeaseFacts, LeaseTypes, history, LeaseReqSet, Leases
<1> QED BY <1>1, <1>2 DEF LeaseFacts, PagesGood, Leases

LEMMA SubmitFacts ==
  ASSUME LeaseFacts, NEW c \in Pages
  PROVE  /\ \A u \in Units, e \in {today + 1, None} : SubmitLease(c, u, e) => LeaseFacts'
         /\ SubmitRenew(c, MaxDay + 1) => LeaseFacts'
         /\ SubmitConvert(c) => LeaseFacts'
         /\ SubmitTerminate(c) => LeaseFacts'
         /\ SubmitReturn(c) => LeaseFacts'
<1>1. /\ today \in Days /\ MaxDay \in Nat /\ leases \in 0..MaxLeases /\ MaxLeases \in Nat
      /\ page[c].active \in 0..leases /\ page[c].refund \in 0..leases
  BY TenancyAssumption DEF LeaseFacts, LeaseTypes, PagesGood
<1>2. /\ today \in EndDays /\ today + 1 \in EndDays /\ MaxDay + 1 \in EndDays
      /\ \A l \in 0..leases : l \in 0..MaxLeases /\ (l # 0 => l \in Leases)
  BY <1>1 DEF EndDays, Days, Leases
<1>3. \A o \in LeaseForms : <<c, o>> \in Slots
  BY SlotFacts
<1>4. ASSUME NEW u \in Units, NEW e \in {today + 1, None}, SubmitLease(c, u, e) PROVE LeaseFacts'
  <2> DEFINE r == [pc |-> "sent", lease |-> 0, unit |-> u, day |-> e, what |-> "none"]
  <2>1. r \in LeaseReqSet /\ GoodReq(<<c, "create">>, r)
    BY <1>1, <1>2 DEF LeaseReqSet, GoodReq
  <2> QED BY <1>3, <1>4, <2>1, SendFacts DEF SubmitLease, LeaseForms
<1>5. ASSUME SubmitRenew(c, MaxDay + 1) PROVE LeaseFacts'
  <2> DEFINE r == [pc |-> "sent", lease |-> page[c].active, unit |-> None, day |-> MaxDay + 1, what |-> "none"]
  <2>1. r \in LeaseReqSet /\ GoodReq(<<c, "renew">>, r)
    BY <1>1, <1>2, <1>5 DEF LeaseReqSet, GoodReq, SubmitRenew, ActionsShown
  <2> QED BY <1>3, <1>5, <2>1, SendFacts DEF SubmitRenew, LeaseForms
<1>6. ASSUME SubmitConvert(c) PROVE LeaseFacts'
  <2> DEFINE r == [pc |-> "sent", lease |-> page[c].active, unit |-> None, day |-> None, what |-> "none"]
  <2>1. r \in LeaseReqSet /\ GoodReq(<<c, "convert">>, r)
    BY <1>1, <1>2, <1>6 DEF LeaseReqSet, GoodReq, SubmitConvert, ActionsShown
  <2> QED BY <1>3, <1>6, <2>1, SendFacts DEF SubmitConvert, LeaseForms
<1>7. ASSUME SubmitTerminate(c) PROVE LeaseFacts'
  <2> DEFINE r == [pc |-> "sent", lease |-> page[c].active, unit |-> None, day |-> None, what |-> "terminated"]
  <2>1. r \in LeaseReqSet /\ GoodReq(<<c, "terminate">>, r)
    BY <1>1, <1>2, <1>7 DEF LeaseReqSet, GoodReq, SubmitTerminate, ActionsShown
  <2> QED BY <1>3, <1>7, <2>1, SendFacts DEF SubmitTerminate, LeaseForms
<1>8. ASSUME SubmitReturn(c) PROVE LeaseFacts'
  <2> DEFINE r == [pc |-> "sent", lease |-> page[c].refund, unit |-> None, day |-> today, what |-> "none"]
  <2>1. r \in LeaseReqSet /\ GoodReq(<<c, "return">>, r)
    BY <1>1, <1>2, <1>8 DEF LeaseReqSet, GoodReq, SubmitReturn, ReturnFormShown
  <2> QED BY <1>3, <1>8, <2>1, SendFacts DEF SubmitReturn, LeaseForms
<1> QED BY <1>4, <1>5, <1>6, <1>7, <1>8

LEMMA SubmitPutFacts ==
  ASSUME LeaseFacts, NEW c \in Scripts, NEW l \in LeaseIds, NEW w \in {"active", "expired", "moveOut"},
         SubmitPut(c, l, w)
  PROVE  LeaseFacts'
<1> DEFINE r == [pc |-> "sent", lease |-> l, unit |-> None, day |-> today, what |-> w]
<1>1. today \in Days /\ MaxDay \in Nat /\ leases \in 0..MaxLeases /\ MaxLeases \in Nat /\ l \in Leases
  BY TenancyAssumption DEF LeaseFacts, LeaseTypes, SubmitPut
<1>2. today \in EndDays /\ l \in 0..MaxLeases
  BY <1>1 DEF EndDays, Days, LeaseIds, Leases
<1>3. r \in LeaseReqSet /\ GoodReq(<<c, "put">>, r) /\ <<c, "put">> \in Slots
  BY <1>1, <1>2, SlotFacts DEF LeaseReqSet, GoodReq
<1> QED BY <1>3, SendFacts DEF SubmitPut

LEMMA PageFacts ==
  ASSUME LeaseFacts
  PROVE  /\ \A c \in Pages : LoadTenant(c) => LeaseFacts'
         /\ \A s \in Slots : Reload(s) \/ RequestFails(s) => LeaseFacts'
<1>1. leases \in 0..MaxLeases /\ MaxLeases \in Nat
  BY TenancyAssumption DEF LeaseFacts, LeaseTypes
<1> DEFINE ShownSet == [active : 0..MaxLeases, m2m : BOOLEAN, refund : 0..MaxLeases]
<1>2. \A c \in Pages : Loaded(TenantOf[c]) \in ShownSet
  <2>1. 0..leases \subseteq 0..MaxLeases
    BY <1>1
  <2> QED BY <2>1, LoadedFacts DEF LeaseFacts
<1>3. page \in [Pages -> ShownSet]
  BY DEF LeaseFacts, LeaseTypes
<1>4. ASSUME NEW c \in Pages, page' = [page EXCEPT ![c] = Loaded(TenantOf[c])], leases' = leases
      PROVE  page' \in [Pages -> ShownSet] /\ PagesGood'
  BY <1>2, <1>3, <1>4, LoadedFacts DEF LeaseFacts, PagesGood
<1>5. ASSUME NEW c \in Pages, LoadTenant(c) PROVE LeaseFacts'
  <2>1. UNCHANGED <<mode, rows, req, unitForm, job, today, deaths, acts, history>>
    BY <1>5 DEF LoadTenant
  <2>2. page' \in [Pages -> ShownSet] /\ PagesGood'
    BY <1>4, <1>5, <2>1 DEF LoadTenant, rows
  <2>3. LeaseTypes'
    BY <2>1, <2>2 DEF LeaseFacts, LeaseTypes, rows, history, Leases
  <2> QED BY <2>1, <2>2, <2>3 DEF LeaseFacts, ReqsGood, GoodReq, rows, Leases
<1>6. ASSUME NEW s \in Slots, Reload(s) PROVE LeaseFacts'
  <2>1. /\ req' = [req EXCEPT ![s] = NoReq]
        /\ UNCHANGED <<mode, rows, unitForm, job, today, deaths, acts, history>>
    BY <1>6 DEF Reload
  <2>2. req' \in [Slots -> LeaseReqSet] /\ ReqsGood'
    BY <2>1, IdleGood, ReqKept DEF rows
  <2>3. page' \in [Pages -> ShownSet] /\ PagesGood'
    <3>1. CASE s[1] \in Pages
      BY <1>4, <1>6, <2>1, <3>1 DEF Reload, rows
    <3>2. CASE s[1] \notin Pages
      BY <1>3, <1>6, <2>1, <3>2 DEF Reload, rows, PagesGood, LeaseFacts
    <3> QED BY <3>1, <3>2
  <2>4. LeaseTypes'
    BY <2>1, <2>2, <2>3 DEF LeaseFacts, LeaseTypes, rows, history, Leases, LeaseReqSet
  <2> QED BY <2>1, <2>2, <2>3, <2>4 DEF LeaseFacts, rows, Leases
<1>7. ASSUME NEW s \in Slots, RequestFails(s) PROVE LeaseFacts'
  <2>1. deaths' \in 0..MaxDeaths
    BY <1>7, TenancyAssumption DEF RequestFails, LeaseFacts, LeaseTypes
  <2>2. unit' \in [Units -> {"vacant", "occupied", "maintenance", "deleted"}]
    BY <1>7 DEF RequestFails, LeaseFacts, LeaseTypes, rows
  <2> QED BY <1>7, <2>1, <2>2, IdleGood, AnswerFacts DEF RequestFails, rows
<1> QED BY <1>5, <1>6, <1>7

LEMMA CreateFacts ==
  ASSUME LeaseFacts, NEW c \in Pages
  PROVE  CreateCheck(c) \/ CreateInsert(c) \/ CreateOccupy(c) => LeaseFacts'
<1> DEFINE s == <<c, "create">>
           r == req[s]
           UnitSet == [Units -> {"vacant", "occupied", "maintenance", "deleted"}]
<1>1. s \in Slots /\ s[2] = "create"
  BY SlotFacts DEF LeaseForms
<1>2. r \in LeaseReqSet /\ GoodReq(s, r)
  BY <1>1 DEF LeaseFacts, LeaseTypes, ReqsGood, LeaseReqSet
<1>3. /\ unit \in UnitSet /\ deaths \in 0..MaxDeaths
      /\ leases \in 0..MaxLeases /\ MaxLeases \in Nat /\ DOMAIN lease = Leases
      /\ \A l \in Leases : lease[l] \in LeaseRow
  BY TenancyAssumption DEF LeaseFacts, LeaseTypes
<1>4. ASSUME NEW p \in {"checked", "inserted", "answered"}, r.pc # "idle"
      PROVE  [r EXCEPT !.pc = p] \in LeaseReqSet /\ GoodReq(s, [r EXCEPT !.pc = p])
  BY <1>1, <1>2, <1>4 DEF LeaseReqSet, GoodReq
<1> HIDE DEF s, r
<1>5. ASSUME CreateCheck(c) PROVE LeaseFacts'
  <2>1. r.pc = "sent" /\ UNCHANGED <<mode, rows, page, unitForm, job, today, deaths, acts, history>>
    BY <1>5 DEF CreateCheck, s, r
  <2>2. CASE req' = [req EXCEPT ![s] = NoReq]
    BY <1>1, <1>3, <2>1, <2>2, IdleGood, AnswerFacts DEF rows
  <2>3. CASE req' = [req EXCEPT ![s] = [r EXCEPT !.pc = "checked"]]
    <3>1. [r EXCEPT !.pc = "checked"] \in LeaseReqSet /\ GoodReq(s, [r EXCEPT !.pc = "checked"])
      BY <1>4, <2>1
    <3> QED BY <1>1, <1>3, <2>1, <2>3, <3>1, AnswerFacts DEF rows
  <2>4. req' = [req EXCEPT ![s] = NoReq] \/ req' = [req EXCEPT ![s] = [r EXCEPT !.pc = "checked"]]
    BY <1>5 DEF CreateCheck, Refused, s, r
  <2> QED BY <2>2, <2>3, <2>4
<1>6. ASSUME CreateOccupy(c) PROVE LeaseFacts'
  <2>1. /\ r.pc = "inserted" /\ unit' = [unit EXCEPT ![r.unit] = "occupied"]
        /\ req' = [req EXCEPT ![s] = [r EXCEPT !.pc = "answered"]]
        /\ UNCHANGED <<mode, leases, lease, page, unitForm, job, today, deaths, acts, history>>
    BY <1>6 DEF CreateOccupy, s, r
  <2>2. unit' \in UnitSet
    BY <1>3, <2>1
  <2>3. [r EXCEPT !.pc = "answered"] \in LeaseReqSet /\ GoodReq(s, [r EXCEPT !.pc = "answered"])
    BY <1>4, <2>1
  <2> QED BY <1>1, <1>3, <2>1, <2>2, <2>3, AnswerFacts
<1>7. ASSUME CreateInsert(c) PROVE LeaseFacts'
  <2>1. /\ r.pc = "checked" /\ leases < MaxLeases /\ leases' = leases + 1
        /\ lease' = [l \in 1..(leases + 1) |->
                       IF l = leases + 1 THEN NewLease(r.unit, TenantOf[c], r.day) ELSE lease[l]]
        /\ req' = [req EXCEPT ![s] = [r EXCEPT !.pc = "inserted"]]
        /\ UNCHANGED <<mode, unit, page, unitForm, job, today, deaths, acts, history>>
    BY <1>7 DEF CreateInsert, s, r
  <2>2. [r EXCEPT !.pc = "inserted"] \in LeaseReqSet /\ GoodReq(s, [r EXCEPT !.pc = "inserted"])
    BY <1>4, <2>1
  <2>3. req' \in [Slots -> LeaseReqSet] /\ ReqsGood'
    BY <1>1, <2>1, <2>2, ReqKept
  <2>4. NewLease(r.unit, TenantOf[c], r.day) \in LeaseRow
    <3>1. r.unit \in Units /\ r.day \in EndDays \cup {None} /\ TenantOf[c] \in Tenants
      BY <1>1, <1>2, <2>1, TenancyAssumption DEF LeaseReqSet, GoodReq
    <3> QED BY <3>1 DEF NewLease, LeaseRow
  <2>5. leases' \in 0..MaxLeases /\ Leases' = 1..(leases + 1) /\ Leases \subseteq Leases'
    BY <1>3, <2>1 DEF Leases
  <2>6. DOMAIN lease' = Leases' /\ \A l \in Leases' : lease'[l] \in LeaseRow
    <3>1. \A l \in 1..(leases + 1) : l # leases + 1 => l \in Leases
      BY <1>3 DEF Leases
    <3> QED BY <1>3, <2>1, <2>4, <2>5, <3>1
  <2>7. LeaseTypes'
    BY <2>1, <2>3, <2>5, <2>6 DEF LeaseFacts, LeaseTypes, LeaseReqSet, history
  <2>8. PagesGood'
    <3>1. \A x \in 0..leases : x \in 0..leases'
      BY <1>3, <2>1
    <3> QED BY <2>1, <3>1 DEF LeaseFacts, PagesGood
  <2> QED BY <2>1, <2>3, <2>5, <2>7, <2>8 DEF LeaseFacts
<1> QED BY <1>5, <1>6, <1>7

\* a request writes a row that stays a row
LEMMA UpdatedIsRow ==
  ASSUME LeaseFacts, NEW s \in Slots, s[2] # "create", req[s].pc # "idle",
         NEW r \in LeaseRow
  PROVE  Updated(req[s], s[2], r) \in LeaseRow
<1>1. req[s] \in LeaseReqSet /\ GoodReq(s, req[s])
  BY DEF LeaseFacts, LeaseTypes, ReqsGood, LeaseReqSet
<1>2. s[2] \in {"renew", "convert", "terminate", "return", "put"}
  BY SlotFacts DEF LeaseForms
<1>3. CASE s[2] = "renew"
  BY <1>1, <1>3 DEF GoodReq, Updated, LeaseRow
<1>4. CASE s[2] = "convert"
  BY <1>1, <1>4 DEF GoodReq, Updated, LeaseRow
<1>5. CASE s[2] = "return"
  BY <1>1, <1>5 DEF GoodReq, Updated, LeaseRow
<1>6. CASE s[2] = "terminate"
  BY <1>1, <1>6 DEF GoodReq, Updated, LeaseRow
<1>7. CASE s[2] = "put"
  BY <1>1, <1>7 DEF GoodReq, Updated, LeaseRow
<1> QED BY <1>2, <1>3, <1>4, <1>5, <1>6, <1>7

LEMMA PutFacts ==
  ASSUME LeaseFacts, NEW s \in Slots
  PROVE  PutVacate(s) \/ PutUpdate(s) => LeaseFacts'
<1>1. req[s] \in LeaseReqSet /\ GoodReq(s, req[s])
  BY DEF LeaseFacts, LeaseTypes, ReqsGood, LeaseReqSet
<1>2. ASSUME NEW p \in {"vacated", "answered"}, req[s].pc # "idle", s[2] # "create"
      PROVE  [req[s] EXCEPT !.pc = p] \in LeaseReqSet /\ GoodReq(s, [req[s] EXCEPT !.pc = p])
  BY <1>1, <1>2 DEF LeaseReqSet, GoodReq
<1>3. /\ unit \in [Units -> {"vacant", "occupied", "maintenance", "deleted"}] /\ deaths \in 0..MaxDeaths
      /\ DOMAIN lease = Leases /\ \A l \in Leases : lease[l] \in LeaseRow
  BY DEF LeaseFacts, LeaseTypes
<1>4. ASSUME PutVacate(s) PROVE LeaseFacts'
  <2>1. s[2] # "create"
    BY <1>1, <1>4 DEF PutVacate, Ends, GoodReq
  <2> DEFINE r == [req[s] EXCEPT !.pc = "vacated"]
  <2>2. r \in LeaseReqSet /\ GoodReq(s, r)
    BY <1>2, <1>4, <2>1 DEF PutVacate
  <2>3. unit' \in [Units -> {"vacant", "occupied", "maintenance", "deleted"}]
    BY <1>3, <1>4 DEF PutVacate
  <2>4. /\ req' = [req EXCEPT ![s] = r]
        /\ UNCHANGED <<mode, leases, lease, page, unitForm, job, today, deaths, acts, history>>
    BY <1>4 DEF PutVacate
  <2> HIDE DEF r
  <2> QED BY <1>3, <2>2, <2>3, <2>4, AnswerFacts
<1>5. ASSUME PutUpdate(s) PROVE LeaseFacts'
  <2> DEFINE l == req[s].lease
             r == [req[s] EXCEPT !.pc = "answered"]
  <2>1. s[2] # "create" /\ req[s].pc # "idle"
    BY <1>5 DEF PutUpdate, Ends
  <2>2. l \in Leases
    BY <1>1, <2>1 DEF GoodReq
  <2>3. r \in LeaseReqSet /\ GoodReq(s, r)
    BY <1>2, <2>1
  <2>4. /\ req' = [req EXCEPT ![s] = r] /\ lease' = [lease EXCEPT ![l] = Updated(req[s], s[2], lease[l])]
        /\ revived' = revived \/ revived' = [revived EXCEPT ![lease[l].unit] = revived[lease[l].unit] + 1]
        /\ renewedMid' = renewedMid \/ renewedMid' = renewedMid \cup {l}
        /\ UNCHANGED <<mode, leases, unit, page, unitForm, job, today, deaths, acts, sent, lostTerm>>
    BY <1>5 DEF PutUpdate
  <2>5. req' \in [Slots -> LeaseReqSet] /\ ReqsGood'
    BY <2>3, <2>4, ReqKept
  <2>6. Updated(req[s], s[2], lease[l]) \in LeaseRow
    BY <1>3, <2>1, <2>2, UpdatedIsRow
  <2>7. DOMAIN lease' = Leases' /\ \A k \in Leases' : lease'[k] \in LeaseRow
    BY <1>3, <2>2, <2>4, <2>6 DEF Leases
  <2>8. revived' \in [Units -> Nat] /\ renewedMid' \in SUBSET LeaseIds
    <3>1. lease[l].unit \in Units /\ revived \in [Units -> Nat] /\ renewedMid \in SUBSET LeaseIds
      BY <1>3, <2>2 DEF LeaseFacts, LeaseTypes, LeaseRow
    <3>2. l \in LeaseIds
      BY <2>2, TenancyAssumption DEF LeaseFacts, LeaseTypes, Leases, LeaseIds
    <3> QED BY <2>4, <3>1, <3>2
  <2>9. LeaseTypes'
    BY <2>4, <2>5, <2>7, <2>8 DEF LeaseFacts, LeaseTypes, LeaseReqSet
  <2> QED BY <2>4, <2>5, <2>9 DEF LeaseFacts, PagesGood, Leases
<1> QED BY <1>4, <1>5

LEMMA UnitFacts ==
  ASSUME LeaseFacts
  PROVE  /\ \A u \in Units : OpenUnitForm(u) \/ DeleteUnit(u) => LeaseFacts'
         /\ SaveUnitForm => LeaseFacts'
<1> DEFINE UnitSet == [Units -> {"vacant", "occupied", "maintenance", "deleted"}]
           FormSet == [unit : Units \cup {None}, status : {"vacant", "occupied", "maintenance"}]
<1>1. unit \in UnitSet /\ unitForm \in FormSet /\ NoForm \in FormSet
  BY DEF LeaseFacts, LeaseTypes, NoForm
<1>2. ASSUME unit' \in UnitSet, unitForm' \in FormSet, acts' \in 0..MaxActs[mode],
             UNCHANGED <<mode, leases, lease, page, req, job, today, deaths, history>>
      PROVE  LeaseFacts'
  <2>1. LeaseTypes'
    BY <1>2 DEF LeaseFacts, LeaseTypes, history, Leases
  <2> QED BY <1>2, <2>1 DEF LeaseFacts, ReqsGood, GoodReq, PagesGood, Leases
<1>3. acts \in 0..MaxActs[mode] /\ MaxActs[mode] \in Nat
  BY TenancyAssumption DEF LeaseFacts, LeaseTypes
<1>4. ASSUME NEW u \in Units, OpenUnitForm(u) PROVE LeaseFacts'
  <2>1. unitForm' \in FormSet /\ unit' \in UnitSet /\ acts' \in 0..MaxActs[mode]
    BY <1>1, <1>3, <1>4 DEF OpenUnitForm, rows
  <2> QED BY <1>2, <1>4, <2>1 DEF OpenUnitForm, rows
<1>5. ASSUME NEW u \in Units, DeleteUnit(u) PROVE LeaseFacts'
  <2>1. unit' \in UnitSet
    BY <1>1, <1>5 DEF DeleteUnit
  <2> QED BY <1>1, <1>2, <1>3, <1>5, <2>1 DEF DeleteUnit
<1>6. ASSUME SaveUnitForm PROVE LeaseFacts'
  <2>1. unit' \in UnitSet
    BY <1>1, <1>6 DEF SaveUnitForm
  <2> QED BY <1>1, <1>2, <1>3, <1>6, <2>1 DEF SaveUnitForm
<1> QED BY <1>4, <1>5, <1>6

LEMMA JobFacts ==
  ASSUME LeaseFacts
  PROVE  /\ JobStart \/ JobRemind \/ JobDone \/ JobFails => LeaseFacts'
         /\ \A l \in LeaseIds : JobConvert(l) => LeaseFacts'
         /\ DepositRun \/ NextDay => LeaseFacts'
<1> DEFINE JobSet == [pc : {"idle", "remind", "convert"}, now : Days, due : SUBSET LeaseIds]
<1>1. /\ job \in JobSet /\ today \in Days /\ deaths \in 0..MaxDeaths /\ job.due \subseteq Leases
      /\ DOMAIN lease = Leases /\ \A l \in Leases : lease[l] \in LeaseRow
      /\ leases \in 0..MaxLeases /\ MaxLeases \in Nat /\ MaxDay \in Nat /\ MaxDeaths \in Nat
  BY TenancyAssumption DEF LeaseFacts, LeaseTypes
<1>2. Leases \subseteq LeaseIds
  BY <1>1 DEF Leases, LeaseIds
<1>3. ASSUME job' \in JobSet, job'.due \subseteq Leases, deaths' \in 0..MaxDeaths, today' \in Days,
             UNCHANGED <<mode, rows, page, req, unitForm, acts, history>>
      PROVE  LeaseFacts'
  <2>1. LeaseTypes'
    BY <1>3 DEF LeaseFacts, LeaseTypes, history, rows, Leases
  <2> QED BY <1>3, <2>1 DEF LeaseFacts, ReqsGood, GoodReq, PagesGood, Leases, rows
<1>4. ASSUME JobStart PROVE LeaseFacts'
  BY <1>1, <1>3, <1>4 DEF JobStart
<1>5. ASSUME JobRemind PROVE LeaseFacts'
  <2>1. Due(job.now) \subseteq Leases
    BY DEF Due
  <2> QED BY <1>1, <1>2, <1>3, <1>5, <2>1 DEF JobRemind
<1>6. ASSUME JobDone PROVE LeaseFacts'
  BY <1>1, <1>3, <1>6 DEF JobDone
<1>7. ASSUME JobFails PROVE LeaseFacts'
  BY <1>1, <1>3, <1>7 DEF JobFails
<1>8. ASSUME NEW l \in LeaseIds, JobConvert(l) PROVE LeaseFacts'
  <2>1. /\ lease' = [lease EXCEPT ![l] = [lease[l] EXCEPT !.type = "month_to_month", !.end = None]]
        /\ job' = [job EXCEPT !.due = job.due \ {l}]
        /\ lostTerm' = lostTerm \/ lostTerm' = lostTerm \cup {l}
        /\ UNCHANGED <<mode, leases, unit, page, req, unitForm, today, deaths, acts, sent, revived, renewedMid>>
    BY <1>8 DEF JobConvert
  <2>2. l \in Leases /\ [lease[l] EXCEPT !.type = "month_to_month", !.end = None] \in LeaseRow
    BY <1>1, <1>8 DEF JobConvert, LeaseRow
  <2>3. DOMAIN lease' = Leases' /\ \A k \in Leases' : lease'[k] \in LeaseRow
    BY <1>1, <2>1, <2>2 DEF Leases
  <2>4. job' \in JobSet /\ job'.due \subseteq Leases'
    BY <1>1, <2>1 DEF Leases
  <2>5. LeaseTypes'
    BY <2>1, <2>3, <2>4 DEF LeaseFacts, LeaseTypes
  <2> QED BY <2>1, <2>4, <2>5 DEF LeaseFacts, ReqsGood, GoodReq, PagesGood, Leases
<1>9. ASSUME DepositRun PROVE LeaseFacts'
  <2>1. sent' \in SUBSET (LeaseIds \X {"statement_due", "return_due"})
    BY <1>2, <1>9 DEF DepositRun, Unreturned, LeaseFacts, LeaseTypes
  <2>2. UNCHANGED <<mode, rows, page, req, unitForm, job, today, deaths, acts, revived, lostTerm, renewedMid>>
    BY <1>9 DEF DepositRun
  <2>3. LeaseTypes'
    BY <2>1, <2>2 DEF LeaseFacts, LeaseTypes, rows, Leases
  <2> QED BY <2>2, <2>3 DEF LeaseFacts, ReqsGood, GoodReq, PagesGood, Leases, rows
<1>10. ASSUME NextDay PROVE LeaseFacts'
  BY <1>1, <1>3, <1>10 DEF NextDay, Days
<1> QED BY <1>4, <1>5, <1>6, <1>7, <1>8, <1>9, <1>10

LEMMA InitLeaseFacts == LeaseInit => LeaseFacts
<1> SUFFICES ASSUME LeaseInit PROVE LeaseFacts
  OBVIOUS
<1>1. /\ MaxLeases \in Nat /\ MaxDay \in Nat /\ MaxDeaths \in Nat /\ mode \in Modes /\ MaxActs[mode] \in Nat
  BY TenancyAssumption DEF LeaseInit
<1>2. Leases = {} /\ 0 \in Days
  BY <1>1 DEF LeaseInit, Leases, Days
<1>3. req \in [Slots -> LeaseReqSet] /\ ReqsGood
  BY IdleGood DEF LeaseInit, ReqsGood
<1>4. page \in [Pages -> [active : 0..MaxLeases, m2m : BOOLEAN, refund : 0..MaxLeases]] /\ PagesGood
  BY <1>1 DEF LeaseInit, NoPage, PagesGood
<1>5. LeaseTypes
  BY <1>1, <1>2, <1>3, <1>4 DEF LeaseInit, LeaseTypes, LeaseReqSet, NoForm
<1> QED BY <1>2, <1>3, <1>4, <1>5 DEF LeaseFacts, LeaseInit

LEMMA StepLeaseFacts == LeaseFacts /\ [LeaseNext]_leaseVars => LeaseFacts'
<1> SUFFICES ASSUME LeaseFacts, [LeaseNext]_leaseVars PROVE LeaseFacts'
  OBVIOUS
<1>1. CASE UNCHANGED leaseVars
  <2>1. LeaseTypes'
    BY <1>1 DEF leaseVars, rows, history, LeaseFacts, LeaseTypes, Leases
  <2> QED BY <1>1, <2>1 DEF leaseVars, rows, LeaseFacts, ReqsGood, GoodReq, PagesGood, Leases
<1>2. ASSUME NEW c \in Pages,
             LoadTenant(c) \/ CreateCheck(c) \/ CreateInsert(c) \/ CreateOccupy(c)
      PROVE  LeaseFacts'
  BY <1>2, PageFacts, CreateFacts
<1>3. ASSUME NEW c \in Pages,
             \/ \E u \in Units, e \in {today + 1, None} : SubmitLease(c, u, e)
             \/ SubmitRenew(c, MaxDay + 1)
             \/ SubmitConvert(c) \/ SubmitTerminate(c) \/ SubmitReturn(c)
      PROVE  LeaseFacts'
  BY <1>3, SubmitFacts
<1>4. CASE \E c \in Scripts, l \in LeaseIds, w \in {"active", "expired", "moveOut"} : SubmitPut(c, l, w)
  BY <1>4, SubmitPutFacts
<1>5. CASE \E s \in Slots : PutVacate(s) \/ PutUpdate(s) \/ Reload(s) \/ RequestFails(s)
  BY <1>5, PutFacts, PageFacts
<1>6. CASE (\E u \in Units : OpenUnitForm(u) \/ DeleteUnit(u)) \/ SaveUnitForm
  BY <1>6, UnitFacts
<1>7. CASE Expiry \/ JobFails \/ DepositRun \/ NextDay
  BY <1>7, JobFacts DEF Expiry
<1> QED BY <1>1, <1>2, <1>3, <1>4, <1>5, <1>6, <1>7 DEF LeaseNext

\* Types: every request, page, form and job run of the leases and units is one
\* the code can have, and names only rows there are.
THEOREM LeasesAreTyped == LeaseSpec => []LeaseTypes
<1>1. LeaseFacts => LeaseTypes
  BY DEF LeaseFacts
<1> QED BY <1>1, InitLeaseFacts, StepLeaseFacts, PTL DEF LeaseSpec

-----------------------------------------------------------------------------
(* The nightly job                                                         *)

\* a row the job holds has a term that had ended when it was read, or none, or a
\* term renewed since
TermInv ==
  /\ lostTerm \subseteq renewedMid
  /\ \A l \in job.due : l \in renewedMid \/ lease[l].end = None \/ lease[l].end <= job.now

LEMMA StepTerm == LeaseFacts /\ TermInv /\ [LeaseNext]_leaseVars => TermInv'
<1> SUFFICES ASSUME LeaseFacts, TermInv, [LeaseNext]_leaseVars PROVE TermInv'
  OBVIOUS
<1>1. /\ job \in [pc : {"idle", "remind", "convert"}, now : Days, due : SUBSET LeaseIds]
      /\ job.due \subseteq Leases /\ DOMAIN lease = Leases
      /\ \A l \in Leases : lease[l] \in LeaseRow
      /\ leases \in Nat /\ MaxDay \in Nat
  BY TenancyAssumption DEF LeaseFacts, LeaseTypes
\* the ends of the leases the job holds stay
<1>2. ASSUME UNCHANGED <<job, lostTerm>>, renewedMid \subseteq renewedMid',
             \A l \in job.due : lease'[l].end = lease[l].end \/ lease'[l].end = None \/ l \in renewedMid'
      PROVE  TermInv'
  BY <1>2 DEF TermInv
<1>3. ASSUME UNCHANGED <<job, lease, history>> PROVE TermInv'
  BY <1>3 DEF TermInv, history
<1>4. ASSUME NEW c \in Pages, CreateInsert(c) PROVE TermInv'
  <2>1. \A l \in Leases : lease'[l] = lease[l]
    BY <1>1, <1>4 DEF CreateInsert, Leases
  <2> QED BY <1>1, <1>2, <1>4, <2>1 DEF CreateInsert, history
<1>5. ASSUME NEW s \in Slots, PutUpdate(s) PROVE TermInv'
  <2> DEFINE k == req[s].lease
  <2>1. GoodReq(s, req[s]) /\ s[2] # "create" /\ req[s].pc # "idle"
    BY <1>5 DEF LeaseFacts, ReqsGood, PutUpdate, Ends
  <2>2. k \in Leases
    BY <2>1 DEF GoodReq
  <2>3. /\ lease' = [lease EXCEPT ![k] = Updated(req[s], s[2], lease[k])] /\ UNCHANGED <<job, lostTerm>>
        /\ renewedMid' = IF s[2] = "renew" /\ k \in job.due THEN renewedMid \cup {k} ELSE renewedMid
    BY <1>5 DEF PutUpdate
  <2>4. s[2] # "renew" =>
          Updated(req[s], s[2], lease[k]).end = lease[k].end \/ Updated(req[s], s[2], lease[k]).end = None
    <3>1. lease[k] \in LeaseRow /\ s[2] \in {"renew", "convert", "terminate", "return", "put"}
      BY <1>1, <2>1, <2>2, SlotFacts DEF LeaseForms
    <3> QED BY <3>1 DEF Updated, LeaseRow
  <2>5. ASSUME NEW l \in job.due
        PROVE  lease'[l].end = lease[l].end \/ lease'[l].end = None \/ l \in renewedMid'
    BY <1>1, <2>2, <2>3, <2>4
  <2> QED BY <1>2, <2>3, <2>5
<1>6. ASSUME JobRemind PROVE TermInv'
  <2>1. /\ job' = [job EXCEPT !.pc = "convert", !.due = Due(job.now)]
        /\ UNCHANGED <<lease, lostTerm, renewedMid>>
    BY <1>6 DEF JobRemind, rows, history
  <2>2. \A l \in Due(job.now) : lease[l].end <= job.now
    BY DEF Due
  <2> QED BY <1>1, <2>1, <2>2 DEF TermInv
<1>7. ASSUME NEW l \in LeaseIds, JobConvert(l) PROVE TermInv'
  <2>1. /\ lease' = [lease EXCEPT ![l] = [lease[l] EXCEPT !.type = "month_to_month", !.end = None]]
        /\ l \in job.due /\ job' = [job EXCEPT !.due = job.due \ {l}] /\ UNCHANGED renewedMid
        /\ lostTerm' = IF lease[l].end # None /\ lease[l].end > job.now THEN lostTerm \cup {l} ELSE lostTerm
    BY <1>7 DEF JobConvert
  <2>2. job'.due = job.due \ {l} /\ job'.now = job.now
    BY <1>1, <2>1
  <2>3. \A k \in job'.due : lease'[k] = lease[k]
    BY <1>1, <2>1, <2>2
  <2>4. lostTerm' \subseteq renewedMid
    <3>1. CASE lease[l].end # None /\ lease[l].end > job.now
      <4>1. lease[l].end \in EndDays \cup {None} /\ job.now \in Nat
        BY <1>1, <2>1 DEF LeaseRow, Days
      <4>2. lease[l].end \in Nat /\ ~(lease[l].end <= job.now)
        BY <1>1, <3>1, <4>1 DEF EndDays
      <4>3. l \in renewedMid
        BY <2>1, <3>1, <4>2 DEF TermInv
      <4> QED BY <2>1, <4>3 DEF TermInv
    <3>2. CASE ~(lease[l].end # None /\ lease[l].end > job.now)
      <4>1. lostTerm' = lostTerm
        BY <2>1, <3>2
      <4> QED BY <4>1 DEF TermInv
    <3> QED BY <3>1, <3>2
  <2> QED BY <2>1, <2>2, <2>3, <2>4 DEF TermInv
<1>8. CASE JobStart \/ JobFails
  <2>1. job'.due = {} /\ UNCHANGED <<lostTerm, renewedMid>>
    BY <1>8 DEF JobStart, JobFails, history
  <2> QED BY <2>1 DEF TermInv
<1>9. CASE JobDone
  <2>1. job'.due = {} /\ UNCHANGED <<lostTerm, renewedMid>>
    BY <1>1, <1>9 DEF JobDone, history
  <2> QED BY <2>1 DEF TermInv
<1>10. CASE DepositRun
  BY <1>1, <1>2, <1>10 DEF DepositRun, rows
<1>11. CASE UNCHANGED leaseVars
  BY <1>3, <1>11 DEF leaseVars, rows
<1>12. ASSUME NEW c \in Pages,
              LoadTenant(c) \/ CreateCheck(c) \/ CreateOccupy(c)
       PROVE  TermInv'
  BY <1>3, <1>12 DEF LoadTenant, CreateCheck, CreateOccupy, rows
<1>13. ASSUME NEW c \in Pages,
             \/ \E u \in Units, e \in {today + 1, None} : SubmitLease(c, u, e)
             \/ SubmitRenew(c, MaxDay + 1)
             \/ SubmitConvert(c) \/ SubmitTerminate(c) \/ SubmitReturn(c)
       PROVE  TermInv'
  BY <1>3, <1>13 DEF SubmitLease, SubmitRenew, SubmitConvert, SubmitTerminate, SubmitReturn, Send, rows
<1>14. CASE \E c \in Scripts, l \in LeaseIds, w \in {"active", "expired", "moveOut"} : SubmitPut(c, l, w)
  BY <1>3, <1>14 DEF SubmitPut, Send, rows
<1>15. CASE \E s \in Slots : PutVacate(s) \/ Reload(s) \/ RequestFails(s)
  BY <1>3, <1>15 DEF PutVacate, Reload, RequestFails, rows
<1>16. CASE (\E u \in Units : OpenUnitForm(u) \/ DeleteUnit(u)) \/ SaveUnitForm \/ NextDay
  BY <1>3, <1>16 DEF OpenUnitForm, DeleteUnit, SaveUnitForm, NextDay, rows
<1> QED BY <1>4, <1>5, <1>6, <1>7, <1>8, <1>9, <1>10, <1>11, <1>12, <1>13, <1>14, <1>15, <1>16
     DEF LeaseNext, Expiry

\* The nightly job takes a term away before its end only from a lease renewed
\* while the run held its row, however runs and requests overlap or die.
THEOREM TermsAreLostMidRun == LeaseSpec => []TermLostOnlyMidRun
<1>1. LeaseInit => TermInv
  BY DEF LeaseInit, TermInv
<1>2. TermInv => TermLostOnlyMidRun
  BY DEF TermInv, TermLostOnlyMidRun
<1> QED BY <1>1, <1>2, InitLeaseFacts, StepLeaseFacts, StepTerm, PTL DEF LeaseSpec

-----------------------------------------------------------------------------
(* How many leases a unit can have                                         *)

\* the pages whose request has found unit u free and not yet written its lease
Checked(u) == {c \in Pages : req[<<c, "create">>].pc = "checked" /\ req[<<c, "create">>].unit = u}

\* each request let through has its own page, and each lease beyond them was revived
ActiveInv == \A u \in Units :
  Cardinality(ActiveOn(u)) + Cardinality(Checked(u)) <= Cardinality(Pages) + revived[u]

LEMMA CountFacts ==
  ASSUME LeaseFacts
  PROVE  \A u : /\ IsFiniteSet(ActiveOn(u)) /\ Cardinality(ActiveOn(u)) \in Nat
                /\ IsFiniteSet(Checked(u)) /\ Cardinality(Checked(u)) \in Nat
                /\ Cardinality(Checked(u)) <= Cardinality(Pages)
                /\ Cardinality(Pages) \in Nat
<1>1. leases \in Nat /\ IsFiniteSet(Pages)
  BY TenancyAssumption DEF LeaseFacts, LeaseTypes
<1>2. IsFiniteSet(1..leases)
  BY <1>1, FS_Interval
<1>3. \A u : ActiveOn(u) \subseteq 1..leases /\ Checked(u) \subseteq Pages
  BY DEF ActiveOn, Leases, Checked
<1> QED BY <1>1, <1>2, <1>3, FS_Subset, FS_CardinalityType

\* the rows keep the unit and the status they have
RowsStand == /\ leases' = leases
             /\ \A l \in Leases : lease'[l].unit = lease[l].unit /\ lease'[l].status = lease[l].status

LEMMA StandFacts == RowsStand => \A u : ActiveOn(u)' = ActiveOn(u)
BY DEF RowsStand, ActiveOn, Leases

\* the requests waiting to insert are no more than before
NoMoreChecked == \A u : Checked(u)' \subseteq Checked(u)

LEMMA CountKept ==
  ASSUME LeaseFacts, LeaseFacts', ActiveInv, NoMoreChecked, UNCHANGED revived,
         \A u \in Units : ActiveOn(u)' \subseteq ActiveOn(u)
  PROVE  ActiveInv'
<1> SUFFICES ASSUME NEW u \in Units
             PROVE  Cardinality(ActiveOn(u)') + Cardinality(Checked(u)') <= Cardinality(Pages) + revived'[u]
  BY DEF ActiveInv
<1>1. /\ IsFiniteSet(ActiveOn(u)) /\ Cardinality(ActiveOn(u)) \in Nat
      /\ IsFiniteSet(Checked(u)) /\ Cardinality(Checked(u)) \in Nat /\ Cardinality(Pages) \in Nat
  BY CountFacts
<1>2. /\ Cardinality(ActiveOn(u)') \in Nat /\ Cardinality(ActiveOn(u)') <= Cardinality(ActiveOn(u))
      /\ Cardinality(Checked(u)') \in Nat /\ Cardinality(Checked(u)') <= Cardinality(Checked(u))
  BY <1>1, FS_Subset, FS_CardinalityType DEF NoMoreChecked
<1>3. Cardinality(ActiveOn(u)) + Cardinality(Checked(u)) <= Cardinality(Pages) + revived[u] /\ revived[u] \in Nat
  BY DEF ActiveInv, LeaseFacts, LeaseTypes
<1> QED BY <1>1, <1>2, <1>3

LEMMA ReqCheckedKept ==
  ASSUME LeaseFacts, NEW s \in Slots, NEW r, req' = [req EXCEPT ![s] = r], r.pc # "checked"
  PROVE  NoMoreChecked
<1>1. \A c \in Pages : <<c, "create">> \in Slots
  BY SlotFacts DEF LeaseForms
<1>2. \A t \in Slots : req'[t] = IF t = s THEN r ELSE req[t]
  BY DEF LeaseFacts, LeaseTypes
<1> QED BY <1>1, <1>2 DEF NoMoreChecked, Checked

\* a step that leaves the rows' units and statuses and lets no request through
LEMMA StandCount ==
  ASSUME LeaseFacts, LeaseFacts', ActiveInv, RowsStand, NoMoreChecked, UNCHANGED revived
  PROVE  ActiveInv'
<1>1. \A u \in Units : ActiveOn(u)' \subseteq ActiveOn(u)
  BY StandFacts
<1> QED BY <1>1, CountKept

LEMMA CheckCount ==
  ASSUME LeaseFacts, LeaseFacts', ActiveInv, NEW c \in Pages, CreateCheck(c)
  PROVE  ActiveInv'
<1> DEFINE s == <<c, "create">>
           r == req[s]
<1>1. s \in Slots /\ req \in [Slots -> LeaseReqSet] /\ GoodReq(s, r) /\ s[2] = "create"
  BY SlotFacts DEF LeaseForms, LeaseFacts, ReqsGood, LeaseTypes, LeaseReqSet
<1>2. r.pc = "sent" /\ UNCHANGED <<rows, history>> /\ r.unit \in Units
  BY <1>1 DEF CreateCheck, GoodReq
<1>3. RowsStand /\ UNCHANGED revived
  BY <1>2 DEF RowsStand, rows, history
<1>4. CASE req' = [req EXCEPT ![s] = NoReq]
  <2>1. NoReq.pc # "checked"
    BY DEF NoReq
  <2> HIDE DEF s
  <2>2. NoMoreChecked
    BY <1>1, <1>4, <2>1, ReqCheckedKept
  <2> QED BY <1>3, <2>2, StandCount
<1>5. CASE ActiveOn(r.unit) = {} /\ req' = [req EXCEPT ![s] = [r EXCEPT !.pc = "checked"]]
  <2>1. SUFFICES ASSUME NEW u \in Units
                 PROVE  Cardinality(ActiveOn(u)') + Cardinality(Checked(u)') <= Cardinality(Pages) + revived'[u]
    BY DEF ActiveInv
  <2>2. ActiveOn(u)' = ActiveOn(u)
    BY <1>3, StandFacts
  <2>3. /\ Cardinality(ActiveOn(u)) \in Nat /\ Cardinality(Checked(u)) \in Nat /\ Cardinality(Pages) \in Nat
        /\ revived[u] \in Nat /\ revived' = revived
        /\ Cardinality(ActiveOn(u)) + Cardinality(Checked(u)) <= Cardinality(Pages) + revived[u]
    BY <1>3, CountFacts DEF ActiveInv, LeaseFacts, LeaseTypes
  <2>4. Cardinality(Checked(u)') \in Nat /\ Cardinality(Checked(u)') <= Cardinality(Pages)
    <3>1. Checked(u)' \subseteq Pages /\ IsFiniteSet(Pages)
      BY TenancyAssumption DEF Checked
    <3> QED BY <3>1, FS_Subset, FS_CardinalityType
  <2>5. CASE u = r.unit
    <3>1. Cardinality(ActiveOn(u)') = 0
      BY <1>5, <2>2, <2>5, FS_EmptySet
    <3> QED BY <2>3, <2>4, <3>1
  <2>6. CASE u # r.unit
    <3>1. Checked(u)' \subseteq Checked(u)
      <4>1. \A t \in Slots : t # s => req'[t] = req[t]
        BY <1>1, <1>5
      <4>2. req'[s].unit = r.unit
        BY <1>1, <1>5 DEF LeaseReqSet
      <4>3. \A d \in Pages : <<d, "create">> \in Slots
        BY SlotFacts DEF LeaseForms
      <4> HIDE DEF r
      <4> QED BY <2>6, <4>1, <4>2, <4>3 DEF Checked
    <3>2. IsFiniteSet(Checked(u))
      BY CountFacts
    <3>3. Cardinality(Checked(u)') <= Cardinality(Checked(u))
      BY <3>1, <3>2, FS_Subset
    <3> QED BY <2>2, <2>3, <2>4, <3>3
  <2> QED BY <2>5, <2>6
<1>6. \/ req' = [req EXCEPT ![s] = NoReq]
      \/ ActiveOn(r.unit) = {} /\ req' = [req EXCEPT ![s] = [r EXCEPT !.pc = "checked"]]
  BY DEF CreateCheck, Refused
<1> QED BY <1>4, <1>5, <1>6

LEMMA InsertCount ==
  ASSUME LeaseFacts, LeaseFacts', ActiveInv, NEW c \in Pages, CreateInsert(c)
  PROVE  ActiveInv'
<1> DEFINE s == <<c, "create">>
           r == req[s]
           n == leases + 1
<1>1. s \in Slots /\ req \in [Slots -> LeaseReqSet] /\ leases \in Nat
  <2>1. s \in Slots
    BY SlotFacts DEF LeaseForms
  <2>2. req \in [Slots -> LeaseReqSet]
    BY DEF LeaseFacts, LeaseTypes, LeaseReqSet
  <2>3. leases \in Nat
    BY TenancyAssumption DEF LeaseFacts, LeaseTypes
  <2> QED BY <2>1, <2>2, <2>3
<1>2. /\ r.pc = "checked" /\ leases' = n /\ UNCHANGED history
      /\ lease' = [l \in 1..n |-> IF l = n THEN NewLease(r.unit, TenantOf[c], r.day) ELSE lease[l]]
      /\ req' = [req EXCEPT ![s] = [r EXCEPT !.pc = "inserted"]]
  BY DEF CreateInsert
<1>3. /\ \A l \in 1..leases : l \in 1..n /\ l # n /\ lease'[l] = lease[l]
      /\ n \in 1..n /\ n \notin 1..leases /\ lease'[n].unit = r.unit
      /\ \A l \in 1..n : l = n \/ l \in 1..leases
  BY <1>1, <1>2 DEF NewLease
<1>4. \A d \in Pages : <<d, "create">> \in Slots
  BY SlotFacts DEF LeaseForms
<1>5. /\ \A t \in Slots : t # s => req'[t] = req[t]
      /\ req'[s].pc = "inserted"
  BY <1>1, <1>2 DEF LeaseReqSet
<1>6. \A u : Checked(u)' = Checked(u) \ {c}
  BY <1>4, <1>5 DEF Checked
<1>7. \A u : ActiveOn(u)' \subseteq ActiveOn(u) \cup {n}
  BY <1>2, <1>3 DEF ActiveOn, Leases
<1>8. \A u : u # r.unit => ActiveOn(u)' \subseteq ActiveOn(u)
  BY <1>2, <1>3 DEF ActiveOn, Leases
<1>9. c \in Checked(r.unit)
  BY <1>2 DEF Checked
<1> HIDE DEF s, r, n
<1>10. SUFFICES ASSUME NEW u \in Units
                PROVE  Cardinality(ActiveOn(u)') + Cardinality(Checked(u)') <= Cardinality(Pages) + revived'[u]
  BY DEF ActiveInv
<1>11. /\ IsFiniteSet(ActiveOn(u)) /\ Cardinality(ActiveOn(u)) \in Nat /\ Cardinality(Pages) \in Nat
       /\ IsFiniteSet(Checked(u)) /\ Cardinality(Checked(u)) \in Nat
       /\ revived[u] \in Nat /\ revived' = revived
       /\ Cardinality(ActiveOn(u)) + Cardinality(Checked(u)) <= Cardinality(Pages) + revived[u]
  BY <1>2, CountFacts DEF ActiveInv, LeaseFacts, LeaseTypes, history
<1>12. CASE u = r.unit
  <2>1. Cardinality(Checked(u)') = Cardinality(Checked(u)) - 1
    BY <1>6, <1>9, <1>11, <1>12, FS_RemoveElement
  <2>2. /\ IsFiniteSet(ActiveOn(u) \cup {n})
        /\ Cardinality(ActiveOn(u) \cup {n}) \in {Cardinality(ActiveOn(u)), Cardinality(ActiveOn(u)) + 1}
    BY <1>11, FS_AddElement
  <2>3. Cardinality(ActiveOn(u)') \in Nat /\ Cardinality(ActiveOn(u)') <= Cardinality(ActiveOn(u) \cup {n})
    BY <1>7, <2>2, FS_Subset, FS_CardinalityType
  <2> QED BY <1>11, <2>1, <2>2, <2>3
<1>13. CASE u # r.unit
  <2>1. Cardinality(Checked(u)') <= Cardinality(Checked(u)) /\ Cardinality(Checked(u)') \in Nat
    <3>1. Checked(u)' \subseteq Checked(u)
      BY <1>6
    <3> QED BY <1>11, <3>1, FS_Subset, FS_CardinalityType
  <2>2. Cardinality(ActiveOn(u)') \in Nat /\ Cardinality(ActiveOn(u)') <= Cardinality(ActiveOn(u))
    BY <1>8, <1>11, <1>13, FS_Subset, FS_CardinalityType
  <2> QED BY <1>11, <2>1, <2>2
<1> QED BY <1>12, <1>13

LEMMA UpdateCount ==
  ASSUME LeaseFacts, LeaseFacts', ActiveInv, NEW s \in Slots, PutUpdate(s)
  PROVE  ActiveInv'
<1> DEFINE r == req[s]
           l == r.lease
           w == Updated(r, s[2], lease[l])
<1>1. GoodReq(s, r) /\ r \in LeaseReqSet /\ s[2] # "create" /\ r.pc # "idle"
  BY DEF LeaseFacts, ReqsGood, LeaseTypes, LeaseReqSet, PutUpdate, Ends
<1>2. l \in Leases /\ lease[l] \in LeaseRow /\ DOMAIN lease = Leases
  BY <1>1 DEF GoodReq, LeaseFacts, LeaseTypes
<1>3. /\ leases' = leases /\ lease' = [lease EXCEPT ![l] = w]
      /\ req' = [req EXCEPT ![s] = [r EXCEPT !.pc = "answered"]]
      /\ revived' = IF r.what = "active" /\ lease[l].status # "active"
                      THEN [revived EXCEPT ![lease[l].unit] = revived[lease[l].unit] + 1] ELSE revived
  BY DEF PutUpdate
<1>4. w.unit = lease[l].unit /\ (w.status = lease[l].status \/ w.status = r.what)
  <2>1. s[2] \in {"renew", "convert", "terminate", "return", "put"}
    BY <1>1, SlotFacts DEF LeaseForms
  <2> QED BY <1>1, <1>2, <2>1 DEF Updated, LeaseRow, GoodReq
<1>5. NoMoreChecked
  <2>1. [r EXCEPT !.pc = "answered"].pc # "checked"
    BY <1>1 DEF LeaseReqSet
  <2> HIDE DEF r
  <2> QED BY <1>3, <2>1, ReqCheckedKept
<1>6. \A k \in Leases : lease'[k] = IF k = l THEN w ELSE lease[k]
  BY <1>2, <1>3
<1> HIDE DEF w, l, r
<1>7. CASE r.what = "active" /\ lease[l].status # "active"
  <2> SUFFICES ASSUME NEW u \in Units
               PROVE  Cardinality(ActiveOn(u)') + Cardinality(Checked(u)') <= Cardinality(Pages) + revived'[u]
    BY DEF ActiveInv
  <2>1. /\ IsFiniteSet(ActiveOn(u)) /\ Cardinality(ActiveOn(u)) \in Nat /\ Cardinality(Pages) \in Nat
        /\ IsFiniteSet(Checked(u)) /\ Cardinality(Checked(u)) \in Nat
        /\ revived \in [Units -> Nat] /\ lease[l].unit \in Units
        /\ Cardinality(ActiveOn(u)) + Cardinality(Checked(u)) <= Cardinality(Pages) + revived[u]
    BY <1>2, CountFacts DEF ActiveInv, LeaseFacts, LeaseTypes, LeaseRow
  <2>2. Cardinality(Checked(u)') \in Nat /\ Cardinality(Checked(u)') <= Cardinality(Checked(u))
    BY <1>5, <2>1, FS_Subset, FS_CardinalityType DEF NoMoreChecked
  <2>3. revived' = [revived EXCEPT ![lease[l].unit] = revived[lease[l].unit] + 1]
    BY <1>3, <1>7
  <2>4. CASE u = lease[l].unit
    <3>1. revived'[u] = revived[u] + 1 /\ revived[u] \in Nat
      BY <2>1, <2>3, <2>4
    <3>2. ActiveOn(u)' \subseteq ActiveOn(u) \cup {l}
      BY <1>3, <1>6 DEF ActiveOn, Leases
    <3>3. /\ IsFiniteSet(ActiveOn(u) \cup {l})
          /\ Cardinality(ActiveOn(u) \cup {l}) \in {Cardinality(ActiveOn(u)), Cardinality(ActiveOn(u)) + 1}
      BY <2>1, FS_AddElement
    <3>4. Cardinality(ActiveOn(u)') \in Nat /\ Cardinality(ActiveOn(u)') <= Cardinality(ActiveOn(u) \cup {l})
      BY <3>2, <3>3, FS_Subset, FS_CardinalityType
    <3> QED BY <2>1, <2>2, <3>1, <3>3, <3>4
  <2>5. CASE u # lease[l].unit
    <3>1. revived'[u] = revived[u] /\ revived[u] \in Nat
      BY <2>1, <2>3, <2>5
    <3>2. ActiveOn(u)' \subseteq ActiveOn(u)
      BY <1>3, <1>4, <1>6, <2>5 DEF ActiveOn, Leases
    <3>3. Cardinality(ActiveOn(u)') \in Nat /\ Cardinality(ActiveOn(u)') <= Cardinality(ActiveOn(u))
      BY <2>1, <3>2, FS_Subset, FS_CardinalityType
    <3> QED BY <2>1, <2>2, <3>1, <3>3
  <2> QED BY <2>4, <2>5
<1>8. CASE ~(r.what = "active" /\ lease[l].status # "active")
  <2>1. revived' = revived
    BY <1>3, <1>8
  <2>2. \A u \in Units : ActiveOn(u)' \subseteq ActiveOn(u)
    BY <1>3, <1>4, <1>6, <1>8 DEF ActiveOn, Leases
  <2> QED BY <1>5, <2>1, <2>2, CountKept
<1> QED BY <1>7, <1>8

LEMMA StepActive == LeaseFacts /\ ActiveInv /\ [LeaseNext]_leaseVars => ActiveInv'
<1> SUFFICES ASSUME LeaseFacts, ActiveInv, [LeaseNext]_leaseVars PROVE ActiveInv'
  OBVIOUS
<1>1. LeaseFacts'
  BY StepLeaseFacts
<1>2. ASSUME UNCHANGED <<rows, revived>> PROVE RowsStand
  BY <1>2 DEF RowsStand, rows
<1>3. ASSUME UNCHANGED <<rows, req, revived>> PROVE ActiveInv'
  <2>1. NoMoreChecked
    BY <1>3 DEF NoMoreChecked, Checked
  <2> QED BY <1>1, <1>2, <1>3, <2>1, StandCount
<1>4. ASSUME NEW s \in Slots, NEW r, req' = [req EXCEPT ![s] = r], r.pc # "checked", RowsStand,
             UNCHANGED revived
      PROVE  ActiveInv'
  BY <1>1, <1>4, ReqCheckedKept, StandCount
<1>5. CASE UNCHANGED leaseVars
  BY <1>3, <1>5 DEF leaseVars, history
<1>6. ASSUME NEW c \in Pages, CreateCheck(c) \/ CreateInsert(c) PROVE ActiveInv'
  BY <1>1, <1>6, CheckCount, InsertCount
<1>7. ASSUME NEW c \in Pages, CreateOccupy(c) PROVE ActiveInv'
  <2> DEFINE s == <<c, "create">>
             r == [req[s] EXCEPT !.pc = "answered"]
  <2>1. s \in Slots /\ req[s] \in LeaseReqSet
    BY SlotFacts DEF LeaseForms, LeaseFacts, LeaseTypes, LeaseReqSet
  <2>2. r.pc # "checked"
    BY <2>1 DEF LeaseReqSet
  <2>3. req' = [req EXCEPT ![s] = r] /\ RowsStand /\ UNCHANGED revived
    BY <1>7 DEF CreateOccupy, RowsStand, history
  <2> HIDE DEF s, r
  <2> QED BY <1>4, <2>1, <2>2, <2>3
<1>8. ASSUME NEW s \in Slots, NEW r, Send(s, r), r.pc = "sent" PROVE ActiveInv'
  BY <1>2, <1>4, <1>8 DEF Send, history
<1>9. ASSUME NEW c \in Pages,
             \/ \E u \in Units, e \in {today + 1, None} : SubmitLease(c, u, e)
             \/ SubmitRenew(c, MaxDay + 1)
             \/ SubmitConvert(c) \/ SubmitTerminate(c) \/ SubmitReturn(c)
      PROVE  ActiveInv'
  <2>1. \A o \in LeaseForms : <<c, o>> \in Slots
    BY SlotFacts
  <2> QED BY <1>8, <1>9, <2>1
          DEF SubmitLease, SubmitRenew, SubmitConvert, SubmitTerminate, SubmitReturn, LeaseForms
<1>10. ASSUME NEW c \in Scripts, NEW l \in LeaseIds, NEW w \in {"active", "expired", "moveOut"},
              SubmitPut(c, l, w)
       PROVE  ActiveInv'
  BY <1>8, <1>10, SlotFacts DEF SubmitPut
<1>11. ASSUME NEW s \in Slots, PutVacate(s) PROVE ActiveInv'
  <2>1. [req[s] EXCEPT !.pc = "vacated"].pc # "checked"
    BY DEF LeaseFacts, LeaseTypes, LeaseReqSet
  <2> QED BY <1>4, <1>11, <2>1 DEF PutVacate, RowsStand, history
<1>12. ASSUME NEW s \in Slots, PutUpdate(s) PROVE ActiveInv'
  BY <1>1, <1>12, UpdateCount
<1>13. ASSUME NEW s \in Slots, Reload(s) \/ RequestFails(s) PROVE ActiveInv'
  <2>1. NoReq.pc # "checked" /\ UNCHANGED <<rows, revived>> /\ req' = [req EXCEPT ![s] = NoReq]
    BY <1>13 DEF NoReq, Reload, RequestFails, history
  <2> QED BY <1>2, <1>4, <2>1
<1>14. ASSUME NEW l \in LeaseIds, JobConvert(l) PROVE ActiveInv'
  <2>1. RowsStand
    <3>1. \A k \in Leases : lease[k] \in LeaseRow
      BY DEF LeaseFacts, LeaseTypes
    <3>2. l \in DOMAIN lease /\ DOMAIN lease = Leases
      BY <1>14 DEF JobConvert, LeaseFacts, LeaseTypes
    <3> QED BY <1>14, <3>1, <3>2 DEF JobConvert, RowsStand, LeaseRow
  <2>2. NoMoreChecked /\ UNCHANGED revived
    BY <1>14 DEF JobConvert, NoMoreChecked, Checked
  <2> QED BY <1>1, <2>1, <2>2, StandCount
<1>15. CASE \/ \E u \in Units : OpenUnitForm(u) \/ DeleteUnit(u)
            \/ SaveUnitForm
  <2>1. RowsStand /\ NoMoreChecked /\ UNCHANGED revived
    BY <1>15 DEF OpenUnitForm, DeleteUnit, SaveUnitForm, RowsStand, NoMoreChecked, Checked, rows, history
  <2> QED BY <1>1, <2>1, StandCount
<1>16. CASE \/ \E c \in Pages : LoadTenant(c)
            \/ JobStart \/ JobRemind \/ JobDone \/ JobFails \/ DepositRun \/ NextDay
  <2>1. UNCHANGED <<rows, req, revived>>
    BY <1>16 DEF LoadTenant, JobStart, JobRemind, JobDone, JobFails, DepositRun, NextDay, history
  <2> QED BY <1>3, <2>1
<1> QED BY <1>5, <1>6, <1>7, <1>9, <1>10, <1>11, <1>12, <1>13, <1>14, <1>15, <1>16 DEF LeaseNext, Expiry

LEMMA InitActive == LeaseInit => ActiveInv
<1> SUFFICES ASSUME LeaseInit, NEW u \in Units
             PROVE  Cardinality(ActiveOn(u)) + Cardinality(Checked(u)) <= Cardinality(Pages) + revived[u]
  BY DEF ActiveInv
<1>1. \A c \in Pages : req[<<c, "create">>].pc = "idle"
  BY SlotFacts DEF LeaseInit, NoReq, LeaseForms
<1>2. ActiveOn(u) = {} /\ Checked(u) = {} /\ revived[u] = 0
  BY <1>1 DEF LeaseInit, ActiveOn, Leases, Checked
<1>3. Cardinality(Pages) \in Nat
  BY TenancyAssumption, FS_CardinalityType
<1> QED BY <1>2, <1>3, FS_EmptySet

LEMMA ActiveInvBounds == LeaseFacts /\ ActiveInv => ActiveBounded
<1> SUFFICES ASSUME LeaseFacts, ActiveInv, NEW u \in Units
             PROVE  Cardinality(ActiveOn(u)) <= Cardinality(Pages) + revived[u]
  BY DEF ActiveBounded
<1>1. Cardinality(ActiveOn(u)) \in Nat /\ Cardinality(Checked(u)) \in Nat /\ Cardinality(Pages) \in Nat
  BY CountFacts
<1>2. revived[u] \in Nat /\ Cardinality(ActiveOn(u)) + Cardinality(Checked(u)) <= Cardinality(Pages) + revived[u]
  BY DEF ActiveInv, LeaseFacts, LeaseTypes
<1> QED BY <1>1, <1>2

-----------------------------------------------------------------------------
(* One thing at a time                                                     *)

\* u has been let and is not marked yet, or is marked free and its lease not ended yet
Midway(u) ==
  \E s \in Slots :
    \/ s[2] = "create" /\ req[s].pc = "inserted" /\ req[s].unit = u
    \/ s[2] # "create" /\ req[s].pc = "vacated" /\ lease[req[s].lease].unit = u

OneActive(u) == \A k, l \in ActiveOn(u) : k = l
UnitInv == \A u \in Units :
  OneActive(u) /\ (Midway(u) \/ (unit[u] = "occupied" <=> ActiveOn(u) # {}))

\* what each request has seen and written is still so
SlotInv == \A s \in Slots :
  /\ req[s].pc # "idle" => s[2] # "put" /\ \A t \in Slots : req[t].pc # "idle" => t = s
  /\ s[2] = "create" /\ req[s].pc = "checked" => ActiveOn(req[s].unit) = {}
  /\ s[2] = "create" /\ req[s].pc = "inserted" => ActiveOn(req[s].unit) # {}
  /\ s[2] = "terminate" /\ req[s].pc = "sent" => lease[req[s].lease].status = "active"
  /\ req[s].pc = "vacated" => /\ lease[req[s].lease].status = "active"
                              /\ unit[lease[req[s].lease].unit] # "occupied"

FormInv == unitForm # NoForm =>
  NoneUnderWay /\ unitForm.unit \in Units /\ unit[unitForm.unit] \in {unitForm.status, "deleted"}

CalmInv == mode = "calm" => UnitInv /\ SlotInv /\ FormInv

LEMMA CalmShows == LeaseFacts /\ CalmInv => OccupancyMatches
<1> SUFFICES ASSUME LeaseFacts, UnitInv, NoneUnderWay, NEW u \in Units
             PROVE  (unit[u] = "occupied" <=> ActiveOn(u) # {}) /\ Cardinality(ActiveOn(u)) <= 1
  BY DEF CalmInv, OccupancyMatches
<1>1. ~Midway(u)
  BY DEF Midway, NoneUnderWay
<1>2. OneActive(u) /\ (unit[u] = "occupied" <=> ActiveOn(u) # {})
  BY <1>1 DEF UnitInv
<1>3. Cardinality(ActiveOn(u)) <= 1
  <2>1. CASE ActiveOn(u) = {}
    BY <2>1, FS_EmptySet
  <2>2. CASE ActiveOn(u) # {}
    <3>1. PICK l \in ActiveOn(u) : TRUE
      BY <2>2
    <3>2. ActiveOn(u) = {l}
      BY <1>2 DEF OneActive
    <3>3. Cardinality({l}) = 1
      BY FS_Singleton
    <3> QED BY <3>2, <3>3
  <2> QED BY <2>1, <2>2
<1> QED BY <1>2, <1>3

LEMMA InitCalm == LeaseInit => CalmInv
<1> SUFFICES ASSUME LeaseInit PROVE UnitInv /\ SlotInv /\ FormInv
  BY DEF CalmInv
<1>1. \A s \in Slots : req[s].pc = "idle"
  BY DEF LeaseInit, NoReq
<1>2. \A u : ActiveOn(u) = {}
  BY DEF LeaseInit, ActiveOn, Leases
<1> QED BY <1>1, <1>2 DEF LeaseInit, UnitInv, OneActive, SlotInv, FormInv

\* a step that leaves requests, units and the statuses of the leases alone
LEMMA CalmStands ==
  ASSUME LeaseFacts, LeaseFacts', UnitInv, SlotInv, FormInv, RowsStand, UNCHANGED <<req, unit>>,
         unitForm' = unitForm \/ unitForm' = NoForm
  PROVE  UnitInv' /\ SlotInv' /\ FormInv'
<1>1. \A u : ActiveOn(u)' = ActiveOn(u)
  BY StandFacts
<1>2. \A s \in Slots : s[2] # "create" /\ req[s].pc # "idle" => req[s].lease \in Leases
  BY DEF LeaseFacts, ReqsGood, GoodReq
<1>3. \A s \in Slots : req[s].pc = "vacated" => s[2] # "create"
  BY DEF LeaseFacts, ReqsGood, GoodReq
<1>4. \A u : Midway(u)' <=> Midway(u)
  BY <1>2 DEF Midway, RowsStand
<1>5. UnitInv'
  BY <1>1, <1>4 DEF UnitInv, OneActive
<1>6. SlotInv'
  BY <1>1, <1>2, <1>3 DEF SlotInv, RowsStand
<1>7. FormInv'
  BY DEF FormInv, NoneUnderWay
<1> QED BY <1>5, <1>6, <1>7

\* the only request under way becomes r: what has to hold of it
LEMMA CalmRequest ==
  ASSUME LeaseFacts, LeaseFacts', UnitInv, SlotInv, FormInv, NEW s \in Slots, NEW r \in LeaseReqSet,
         req' = [req EXCEPT ![s] = r], req[s].pc # "idle" \/ NoneUnderWay,
         unitForm = NoForm \/ req[s].pc # "idle", UNCHANGED unitForm, s[2] # "put",
         s[2] = "create" /\ r.pc = "checked" => ActiveOn(r.unit)' = {},
         s[2] = "create" /\ r.pc = "inserted" => ActiveOn(r.unit)' # {},
         s[2] = "terminate" /\ r.pc = "sent" => lease'[r.lease].status = "active",
         r.pc = "vacated" => lease'[r.lease].status = "active" /\ unit'[lease'[r.lease].unit] # "occupied",
         \A u \in Units : OneActive(u)' /\ (Midway(u)' \/ (unit'[u] = "occupied" <=> ActiveOn(u)' # {}))
  PROVE  UnitInv' /\ SlotInv' /\ FormInv'
<1>1. \A t \in Slots : req'[t] = IF t = s THEN r ELSE req[t]
  BY DEF LeaseFacts, LeaseTypes
<1>2. \A t \in Slots : t # s => req[t].pc = "idle" /\ req'[t].pc = "idle"
  BY <1>1 DEF SlotInv, NoneUnderWay
<1>3. SlotInv'
  BY <1>1, <1>2 DEF SlotInv
<1>4. FormInv'
  BY DEF FormInv, NoneUnderWay
<1> QED BY <1>3, <1>4 DEF UnitInv

LEMMA CalmSend ==
  ASSUME LeaseFacts, LeaseFacts', UnitInv, SlotInv, FormInv, NEW c \in Pages, mode = "calm",
         \/ \E u \in Units, e \in {today + 1, None} : SubmitLease(c, u, e)
         \/ SubmitRenew(c, MaxDay + 1)
         \/ SubmitConvert(c) \/ SubmitTerminate(c) \/ SubmitReturn(c)
  PROVE  UnitInv' /\ SlotInv' /\ FormInv'
<1>1. NoneUnderWay /\ unitForm = NoForm /\ page[c] = Loaded(TenantOf[c])
  BY DEF SubmitLease, SubmitRenew, SubmitConvert, SubmitTerminate, SubmitReturn, MayAct
<1>2. \A o \in LeaseForms : <<c, o>> \in Slots
  BY SlotFacts
<1>3. req' \in [Slots -> LeaseReqSet]
  BY DEF LeaseFacts, LeaseTypes, LeaseReqSet
<1>4. ASSUME NEW s \in Slots, NEW r, Send(s, r), r.pc = "sent", s[2] # "put",
             s[2] = "terminate" => lease[r.lease].status = "active"
      PROVE  UnitInv' /\ SlotInv' /\ FormInv'
  <2>1. /\ req' = [req EXCEPT ![s] = r] /\ UNCHANGED <<rows, unitForm>>
    BY <1>4 DEF Send
  <2>2. req'[s] = r /\ r \in LeaseReqSet
    BY <1>3, <2>1 DEF LeaseFacts, LeaseTypes
  <2>3. \A u : ActiveOn(u)' = ActiveOn(u)
    BY <2>1 DEF rows, ActiveOn, Leases
  <2>4. \A u : ~Midway(u)
    BY <1>1 DEF Midway, NoneUnderWay
  <2>5. \A u \in Units : OneActive(u)' /\ (unit'[u] = "occupied" <=> ActiveOn(u)' # {})
    BY <2>1, <2>3, <2>4 DEF UnitInv, OneActive, rows
  <2> QED BY <1>1, <1>4, <2>1, <2>2, <2>5, CalmRequest DEF rows
<1>5. CASE \E u \in Units, e \in {today + 1, None} : SubmitLease(c, u, e)
  BY <1>2, <1>4, <1>5 DEF SubmitLease, LeaseForms
<1>6. CASE SubmitRenew(c, MaxDay + 1)
  BY <1>2, <1>4, <1>6 DEF SubmitRenew, LeaseForms
<1>7. CASE SubmitConvert(c)
  BY <1>2, <1>4, <1>7 DEF SubmitConvert, LeaseForms
<1>8. CASE SubmitReturn(c)
  BY <1>2, <1>4, <1>8 DEF SubmitReturn, LeaseForms
<1>9. CASE SubmitTerminate(c)
  <2>1. lease[page[c].active].status = "active"
    BY <1>1, <1>9, LoadedFacts DEF LeaseFacts, SubmitTerminate, ActionsShown
  <2> QED BY <1>2, <1>4, <1>9, <2>1 DEF SubmitTerminate, LeaseForms
<1> QED BY <1>5, <1>6, <1>7, <1>8, <1>9

LEMMA CalmCreate ==
  ASSUME LeaseFacts, LeaseFacts', UnitInv, SlotInv, FormInv, NEW c \in Pages,
         CreateCheck(c) \/ CreateInsert(c) \/ CreateOccupy(c)
  PROVE  UnitInv' /\ SlotInv' /\ FormInv'
<1> DEFINE s == <<c, "create">>
           r == req[s]
<1>1. s \in Slots /\ s[2] = "create"
  BY SlotFacts DEF LeaseForms
<1>2. r \in LeaseReqSet /\ r.pc # "idle" /\ r.unit \in Units /\ unitForm = NoForm /\ UNCHANGED unitForm
  BY <1>1 DEF LeaseFacts, LeaseTypes, LeaseReqSet, ReqsGood, GoodReq, FormInv, NoneUnderWay,
             CreateCheck, CreateInsert, CreateOccupy
<1>3. \A t \in Slots : t # s => req[t].pc = "idle"
  BY <1>1, <1>2 DEF SlotInv
<1>4. \A u \in Units : OneActive(u) /\ (Midway(u) \/ (unit[u] = "occupied" <=> ActiveOn(u) # {}))
  BY DEF UnitInv
<1>5. \A u : Midway(u) => r.pc = "inserted" /\ r.unit = u
  BY <1>1, <1>3 DEF Midway
<1>6. /\ r.pc = "checked" => ActiveOn(r.unit) = {}
      /\ r.pc = "inserted" => ActiveOn(r.unit) # {}
  BY <1>1 DEF SlotInv
<1>7. \A p \in {"checked", "inserted", "answered"} : [r EXCEPT !.pc = p] \in LeaseReqSet
  BY <1>2 DEF LeaseReqSet
<1>8. \A p : [r EXCEPT !.pc = p].pc = p /\ [r EXCEPT !.pc = p].unit = r.unit
  BY <1>2 DEF LeaseReqSet
<1> PICK v \in Units : v = r.unit
  BY <1>2
<1>9. NoReq \in LeaseReqSet /\ NoReq.pc = "idle"
  BY IdleGood DEF NoReq
<1>10. ASSUME CreateCheck(c) PROVE UnitInv' /\ SlotInv' /\ FormInv'
  <2>1. r.pc = "sent" /\ UNCHANGED rows
    BY <1>10 DEF CreateCheck
  <2>2. \A u : ActiveOn(u)' = ActiveOn(u)
    BY <2>1 DEF rows, ActiveOn, Leases
  <2>3. \A u \in Units : OneActive(u)' /\ (unit'[u] = "occupied" <=> ActiveOn(u)' # {})
    BY <1>4, <1>5, <2>1, <2>2 DEF OneActive, rows
  <2>4. \/ req' = [req EXCEPT ![s] = NoReq]
        \/ ActiveOn(r.unit) = {} /\ req' = [req EXCEPT ![s] = [r EXCEPT !.pc = "checked"]]
    BY <1>10 DEF CreateCheck, Refused
  <2> HIDE DEF s, r
  <2>5. CASE req' = [req EXCEPT ![s] = NoReq]
    BY <1>1, <1>2, <1>9, <2>3, <2>5, CalmRequest DEF r
  <2>6. CASE ActiveOn(r.unit) = {} /\ req' = [req EXCEPT ![s] = [r EXCEPT !.pc = "checked"]]
    <3>1. PICK q \in LeaseReqSet : q = [r EXCEPT !.pc = "checked"]
      BY <1>7
    <3>2. ActiveOn(q.unit)' = {} /\ q.pc = "checked"
      <4>1. q.unit = v /\ ActiveOn(v) = {}
        BY <1>8, <2>6, <3>1
      <4> QED BY <1>8, <2>2, <3>1, <4>1
    <3> QED BY <1>1, <1>2, <2>3, <2>6, <3>1, <3>2, CalmRequest DEF r
  <2> QED BY <2>4, <2>5, <2>6
<1>11. ASSUME CreateInsert(c) PROVE UnitInv' /\ SlotInv' /\ FormInv'
  <2> DEFINE n == leases + 1
             q == [r EXCEPT !.pc = "inserted"]
  <2>1. /\ r.pc = "checked" /\ leases' = n /\ UNCHANGED unit
        /\ lease' = [l \in 1..n |-> IF l = n THEN NewLease(r.unit, TenantOf[c], r.day) ELSE lease[l]]
        /\ req' = [req EXCEPT ![s] = q]
    BY <1>11 DEF CreateInsert
  <2>2. leases \in Nat
    BY TenancyAssumption DEF LeaseFacts, LeaseTypes
  <2>3. /\ \A l \in 1..leases : l \in 1..n /\ lease'[l] = lease[l]
        /\ n \in 1..n /\ lease'[n].unit = r.unit /\ lease'[n].status = "active"
        /\ \A l \in 1..n : l = n \/ l \in 1..leases
    BY <2>1, <2>2 DEF NewLease
  <2>4. ActiveOn(v)' # {} /\ \A k, l \in ActiveOn(v)' : k = l
    <3>1. ActiveOn(v) = {}
      BY <1>6, <2>1
    <3> QED BY <2>1, <2>3, <3>1 DEF ActiveOn, Leases
  <2>5. \A u : u # v => ActiveOn(u)' = ActiveOn(u)
    BY <2>1, <2>3 DEF ActiveOn, Leases
  <2>6. req'[s] = q
    BY <1>1, <2>1 DEF LeaseFacts, LeaseTypes
  <2>7. Midway(v)'
    BY <1>1, <1>8, <2>6 DEF Midway
  <2>8. PICK p \in LeaseReqSet : p = q /\ p.pc = "inserted" /\ p.unit = v
    BY <1>7, <1>8
  <2> HIDE DEF s, r, n, q
  <2>9. ASSUME NEW u \in Units
        PROVE  OneActive(u)' /\ (Midway(u)' \/ (unit'[u] = "occupied" <=> ActiveOn(u)' # {}))
    <3>1. CASE u = v
      BY <2>4, <2>7, <3>1 DEF OneActive
    <3>2. CASE u # v
      BY <1>4, <1>5, <2>1, <2>5, <3>2 DEF OneActive
    <3> QED BY <3>1, <3>2
  <2>10. ActiveOn(p.unit)' # {}
    BY <2>4, <2>8
  <2> QED BY <1>1, <1>2, <2>1, <2>8, <2>9, <2>10, CalmRequest DEF r
<1>12. ASSUME CreateOccupy(c) PROVE UnitInv' /\ SlotInv' /\ FormInv'
  <2> DEFINE q == [r EXCEPT !.pc = "answered"]
  <2>1. /\ r.pc = "inserted" /\ unit' = [unit EXCEPT ![r.unit] = "occupied"] /\ req' = [req EXCEPT ![s] = q]
        /\ UNCHANGED <<leases, lease>>
    BY <1>12 DEF CreateOccupy
  <2>2. \A u : ActiveOn(u)' = ActiveOn(u)
    BY <2>1 DEF ActiveOn, Leases
  <2>3. \A u \in Units : unit'[u] = IF u = r.unit THEN "occupied" ELSE unit[u]
    BY <2>1 DEF LeaseFacts, LeaseTypes
  <2>4. q \in LeaseReqSet /\ q.pc = "answered"
    BY <1>7, <1>8
  <2> HIDE DEF s, r, q
  <2>5. \A u \in Units : OneActive(u)' /\ (unit'[u] = "occupied" <=> ActiveOn(u)' # {})
    BY <1>4, <1>5, <1>6, <2>1, <2>2, <2>3 DEF OneActive
  <2> QED BY <1>1, <1>2, <2>1, <2>4, <2>5, CalmRequest DEF r
<1> QED BY <1>10, <1>11, <1>12

LEMMA CalmPut ==
  ASSUME LeaseFacts, LeaseFacts', UnitInv, SlotInv, FormInv, NEW s \in Slots,
         PutVacate(s) \/ PutUpdate(s) \/ Reload(s)
  PROVE  UnitInv' /\ SlotInv' /\ FormInv'
<1> DEFINE r == req[s]
           k == r.lease
<1>1. r \in LeaseReqSet /\ r.pc # "idle" /\ unitForm = NoForm /\ UNCHANGED unitForm /\ GoodReq(s, r)
  BY DEF LeaseFacts, LeaseTypes, LeaseReqSet, ReqsGood, FormInv, NoneUnderWay, PutVacate, PutUpdate,
         Reload, Ends
<1>2. s[2] # "put" /\ \A t \in Slots : t # s => req[t].pc = "idle"
  BY <1>1 DEF SlotInv
<1>3. \A u \in Units : OneActive(u) /\ (Midway(u) \/ (unit[u] = "occupied" <=> ActiveOn(u) # {}))
  BY DEF UnitInv
<1>4. \A u : Midway(u) => \/ s[2] = "create" /\ r.pc = "inserted" /\ r.unit = u
                          \/ s[2] # "create" /\ r.pc = "vacated" /\ lease[k].unit = u
  BY <1>2 DEF Midway
<1>5. s[2] # "create" =>
        /\ k \in Leases /\ DOMAIN lease = Leases /\ lease[k] \in LeaseRow /\ lease[k].unit \in Units
        /\ s[2] \in {"renew", "convert", "return"} => r.what = "none"
        /\ s[2] = "terminate" => r.what = "terminated"
  BY <1>1 DEF GoodReq, LeaseFacts, LeaseTypes, LeaseRow
<1>6. \A p \in {"vacated", "answered"} : [r EXCEPT !.pc = p] \in LeaseReqSet
  BY <1>1 DEF LeaseReqSet
<1>7. \A p : [r EXCEPT !.pc = p].pc = p /\ [r EXCEPT !.pc = p].lease = r.lease
  BY <1>1 DEF LeaseReqSet
<1>8. s[2] \in {"create", "renew", "convert", "terminate", "return"}
  BY <1>2, SlotFacts DEF LeaseForms
<1>9. ASSUME Reload(s) PROVE UnitInv' /\ SlotInv' /\ FormInv'
  <2>1. r.pc = "answered" /\ UNCHANGED rows /\ req' = [req EXCEPT ![s] = NoReq]
    BY <1>9 DEF Reload
  <2>2. \A u : ActiveOn(u)' = ActiveOn(u)
    BY <2>1 DEF rows, ActiveOn, Leases
  <2>3. NoReq \in LeaseReqSet /\ NoReq.pc = "idle"
    BY IdleGood DEF NoReq
  <2>4. \A u \in Units : OneActive(u)' /\ (unit'[u] = "occupied" <=> ActiveOn(u)' # {})
    BY <1>3, <1>4, <2>1, <2>2 DEF OneActive, rows
  <2> HIDE DEF r
  <2> QED BY <1>1, <1>2, <2>1, <2>3, <2>4, CalmRequest DEF r
<1>10. ASSUME PutVacate(s) PROVE UnitInv' /\ SlotInv' /\ FormInv'
  <2> DEFINE q == [r EXCEPT !.pc = "vacated"]
  <2> PICK v \in Units \cup {None} : s[2] # "create" => v = lease[k].unit
    BY <1>5
  <2>1. /\ r.pc = "sent" /\ Ends(r) /\ unit' = [unit EXCEPT ![lease[k].unit] = "vacant"] /\ req' = [req EXCEPT ![s] = q]
        /\ UNCHANGED <<leases, lease>>
    BY <1>10 DEF PutVacate
  <2>2. s[2] = "terminate"
    BY <1>1, <1>5, <1>8, <2>1 DEF Ends, GoodReq
  <2>3. v = lease[k].unit /\ v \in Units /\ lease[k].status = "active"
    BY <1>5, <2>1, <2>2 DEF SlotInv
  <2>4. \A u : ActiveOn(u)' = ActiveOn(u)
    BY <2>1 DEF ActiveOn, Leases
  <2>5. \A u \in Units : unit'[u] = IF u = v THEN "vacant" ELSE unit[u]
    BY <2>1, <2>3 DEF LeaseFacts, LeaseTypes
  <2>6. q \in LeaseReqSet /\ q.pc = "vacated" /\ q.lease = k
    BY <1>6, <1>7
  <2>7. req'[s] = q
    BY <2>1 DEF LeaseFacts, LeaseTypes
  <2>8. Midway(v)'
    BY <2>1, <2>2, <2>3, <2>6, <2>7 DEF Midway
  <2>9. lease'[q.lease].status = "active" /\ unit'[lease'[q.lease].unit] # "occupied"
    BY <2>1, <2>3, <2>5, <2>6
  <2> HIDE DEF r, k, q
  <2>10. \A u \in Units : OneActive(u)' /\ (Midway(u)' \/ (unit'[u] = "occupied" <=> ActiveOn(u)' # {}))
    BY <1>3, <1>4, <2>1, <2>4, <2>5, <2>8 DEF OneActive
  <2> QED BY <1>1, <1>2, <2>1, <2>2, <2>6, <2>9, <2>10, CalmRequest DEF r
<1>11. ASSUME PutUpdate(s) PROVE UnitInv' /\ SlotInv' /\ FormInv'
  <2> DEFINE q == [r EXCEPT !.pc = "answered"]
             w == Updated(r, s[2], lease[k])
  <2>1. /\ s[2] # "create" /\ r.pc = IF Ends(r) THEN "vacated" ELSE "sent"
        /\ lease' = [lease EXCEPT ![k] = w] /\ req' = [req EXCEPT ![s] = q] /\ UNCHANGED <<leases, unit>>
    BY <1>11 DEF PutUpdate
  <2>2. q \in LeaseReqSet /\ q.pc = "answered"
    BY <1>6, <1>7
  <2>3. \A l \in Leases : lease'[l] = IF l = k THEN w ELSE lease[l]
    BY <1>5, <2>1
  <2>4. w.unit = lease[k].unit
    BY <1>5, <1>8, <2>1 DEF Updated, LeaseRow
  <2>5. CASE s[2] # "terminate"
    <3>1. w.status = lease[k].status
      BY <1>5, <1>8, <2>1, <2>5 DEF Updated, LeaseRow
    <3>2. r.pc = "sent"
      BY <1>5, <1>8, <2>1, <2>5 DEF Ends
    <3> HIDE DEF w
    <3>3. \A u : ActiveOn(u)' = ActiveOn(u)
      BY <2>1, <2>3, <2>4, <3>1 DEF ActiveOn, Leases
    <3>4. \A u \in Units : OneActive(u)' /\ (unit'[u] = "occupied" <=> ActiveOn(u)' # {})
      BY <1>3, <1>4, <2>1, <3>2, <3>3 DEF OneActive
    <3> HIDE DEF r, k, q
    <3> QED BY <1>1, <1>2, <2>1, <2>2, <3>4, CalmRequest DEF r
  <2>6. CASE s[2] = "terminate"
    <3> PICK v \in Units : v = lease[k].unit
      BY <1>5, <2>1
    <3>1. w.status = "terminated" /\ r.pc = "vacated"
      BY <1>5, <2>1, <2>6 DEF Updated, LeaseRow, Ends
    <3>2. lease[k].status = "active" /\ unit[lease[k].unit] # "occupied"
      BY <3>1 DEF SlotInv
    <3>3. k \in ActiveOn(v)
      BY <1>5, <2>1, <3>2 DEF ActiveOn
    <3> HIDE DEF w, r, k, q
    <3>4. ActiveOn(v)' = {}
      <4>1. \A l \in ActiveOn(v) : l = k
        BY <1>3, <1>5, <2>1, <3>3 DEF OneActive
      <4> QED BY <2>1, <2>3, <3>1, <4>1 DEF ActiveOn, Leases
    <3>5. \A u : u # v => ActiveOn(u)' = ActiveOn(u)
      BY <2>1, <2>3, <2>4 DEF ActiveOn, Leases
    <3>6. \A u \in Units : OneActive(u)' /\ (unit'[u] = "occupied" <=> ActiveOn(u)' # {})
      BY <1>3, <1>4, <2>1, <3>2, <3>4, <3>5 DEF OneActive
    <3> QED BY <1>1, <1>2, <2>1, <2>2, <2>6, <3>6, CalmRequest DEF r
  <2> QED BY <2>5, <2>6
<1> QED BY <1>9, <1>10, <1>11

LEMMA CalmUnit ==
  ASSUME LeaseFacts, LeaseFacts', UnitInv, SlotInv, FormInv, mode = "calm",
         \/ \E u \in Units : OpenUnitForm(u) \/ DeleteUnit(u)
         \/ SaveUnitForm
  PROVE  UnitInv' /\ SlotInv' /\ FormInv'
<1>1. NoneUnderWay /\ UNCHANGED <<req, leases, lease>>
  BY DEF OpenUnitForm, DeleteUnit, SaveUnitForm, FormInv, rows
<1>2. \A u : ActiveOn(u)' = ActiveOn(u)
  BY <1>1 DEF ActiveOn, Leases
<1>3. \A u \in Units : OneActive(u) /\ (unit[u] = "occupied" <=> ActiveOn(u) # {})
  BY <1>1 DEF UnitInv, Midway, NoneUnderWay
<1>4. unit \in [Units -> {"vacant", "occupied", "maintenance", "deleted"}]
  BY DEF LeaseFacts, LeaseTypes
<1>5. SlotInv'
  BY <1>1 DEF SlotInv, NoneUnderWay
<1>6. ASSUME \A u \in Units : unit'[u] = "occupied" <=> unit[u] = "occupied"
      PROVE  UnitInv'
  BY <1>2, <1>3, <1>6 DEF UnitInv, OneActive
<1>7. ASSUME NEW u \in Units, OpenUnitForm(u) PROVE UnitInv' /\ FormInv'
  <2>1. unit' = unit /\ unitForm'.unit = u /\ unitForm'.status = unit[u]
    BY <1>7 DEF OpenUnitForm, rows
  <2> QED BY <1>1, <1>6, <2>1 DEF FormInv, NoneUnderWay
<1>8. ASSUME NEW u \in Units, DeleteUnit(u) PROVE UnitInv' /\ FormInv'
  <2>1. unit' = [unit EXCEPT ![u] = "deleted"] /\ UNCHANGED unitForm
    BY <1>8 DEF DeleteUnit
  <2>2. unit[u] # "occupied"
    BY <1>3, <1>8 DEF DeleteUnit, ActiveOn
  <2> QED BY <1>1, <1>4, <1>6, <2>1, <2>2 DEF FormInv, NoneUnderWay
<1>9. ASSUME SaveUnitForm PROVE UnitInv' /\ FormInv'
  <2>1. /\ unitForm # NoForm /\ unitForm' = NoForm
        /\ unit' = IF unit[unitForm.unit] = "deleted" THEN unit
                   ELSE [unit EXCEPT ![unitForm.unit] = unitForm.status]
    BY <1>9 DEF SaveUnitForm
  <2>2. unit' = unit
    BY <1>4, <2>1 DEF FormInv
  <2> QED BY <1>6, <2>1, <2>2 DEF FormInv
<1> QED BY <1>5, <1>7, <1>8, <1>9

LEMMA StepCalm == LeaseFacts /\ CalmInv /\ [LeaseNext]_leaseVars => CalmInv'
<1> SUFFICES ASSUME LeaseFacts, CalmInv, [LeaseNext]_leaseVars, mode' = "calm"
             PROVE  UnitInv' /\ SlotInv' /\ FormInv'
  BY DEF CalmInv
<1>1. mode = "calm"
  BY DEF LeaseNext, leaseVars, LoadTenant, SubmitLease, SubmitRenew, SubmitConvert, SubmitTerminate,
         SubmitReturn, SubmitPut, Send, CreateCheck, CreateInsert, CreateOccupy, PutVacate, PutUpdate,
         Reload, RequestFails, OpenUnitForm, DeleteUnit, SaveUnitForm, Expiry, JobStart, JobRemind,
         JobConvert, JobDone, JobFails, DepositRun, NextDay
<1>2. LeaseFacts' /\ UnitInv /\ SlotInv /\ FormInv
  BY <1>1, StepLeaseFacts DEF CalmInv
<1>3. ASSUME UNCHANGED <<req, rows, unitForm>> PROVE UnitInv' /\ SlotInv' /\ FormInv'
  <2>1. RowsStand /\ UNCHANGED <<req, unit, unitForm>>
    BY <1>3 DEF RowsStand, rows
  <2> QED BY <1>2, <2>1, CalmStands
<1>4. CASE UNCHANGED leaseVars
  BY <1>3, <1>4 DEF leaseVars
<1>5. ASSUME NEW c \in Pages, LoadTenant(c) PROVE UnitInv' /\ SlotInv' /\ FormInv'
  BY <1>3, <1>5 DEF LoadTenant
<1>6. ASSUME NEW c \in Pages,
             \/ \E u \in Units, e \in {today + 1, None} : SubmitLease(c, u, e)
             \/ SubmitRenew(c, MaxDay + 1)
             \/ SubmitConvert(c) \/ SubmitTerminate(c) \/ SubmitReturn(c)
      PROVE  UnitInv' /\ SlotInv' /\ FormInv'
  BY <1>1, <1>2, <1>6, CalmSend
<1>7. ASSUME NEW c \in Pages, CreateCheck(c) \/ CreateInsert(c) \/ CreateOccupy(c)
      PROVE  UnitInv' /\ SlotInv' /\ FormInv'
  BY <1>2, <1>7, CalmCreate
<1>8. ASSUME NEW s \in Slots, PutVacate(s) \/ PutUpdate(s) \/ Reload(s)
      PROVE  UnitInv' /\ SlotInv' /\ FormInv'
  BY <1>2, <1>8, CalmPut
<1>9. /\ \A c \in Scripts, l \in LeaseIds, w \in {"active", "expired", "moveOut"} : ~SubmitPut(c, l, w)
      /\ \A s \in Slots : ~RequestFails(s)
      /\ ~JobFails
  BY <1>1 DEF SubmitPut, RequestFails, JobFails
<1>10. CASE (\E u \in Units : OpenUnitForm(u) \/ DeleteUnit(u)) \/ SaveUnitForm
  BY <1>1, <1>2, <1>10, CalmUnit
<1>11. ASSUME NEW l \in LeaseIds, JobConvert(l) PROVE UnitInv' /\ SlotInv' /\ FormInv'
  <2>1. \A k \in Leases : lease[k] \in LeaseRow
    BY DEF LeaseFacts, LeaseTypes
  <2>2. l \in DOMAIN lease /\ DOMAIN lease = Leases
    BY <1>11 DEF JobConvert, LeaseFacts, LeaseTypes
  <2>3. RowsStand /\ UNCHANGED <<req, unit, unitForm>>
    BY <1>11, <2>1, <2>2 DEF JobConvert, RowsStand, LeaseRow
  <2> QED BY <1>2, <2>3, CalmStands
<1>12. CASE JobStart \/ JobRemind \/ JobDone \/ DepositRun \/ NextDay
  BY <1>3, <1>12 DEF JobStart, JobRemind, JobDone, DepositRun, NextDay
<1> QED BY <1>4, <1>5, <1>6, <1>7, <1>8, <1>9, <1>10, <1>11, <1>12 DEF LeaseNext, Expiry

\* A unit has no more active leases than open pages and leases revived by hand
\* account for, however requests overlap; and while the landlord does one thing at a
\* time on fresh pages, it is marked occupied exactly while one lease of it is active.
THEOREM UnitIsKept == LeaseSpec => []UnitKept
<1> DEFINE Inv == LeaseFacts /\ ActiveInv /\ CalmInv
<1>1. LeaseInit => Inv
  BY InitLeaseFacts, InitActive, InitCalm
<1>2. Inv /\ [LeaseNext]_leaseVars => Inv'
  BY StepLeaseFacts, StepActive, StepCalm
<1>3. Inv => UnitKept
  BY ActiveInvBounds, CalmShows DEF UnitKept, LeaseFacts
<1> QED BY <1>1, <1>2, <1>3, PTL DEF LeaseSpec
===============================================================================
