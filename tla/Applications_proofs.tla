-------------------------- MODULE Applications_proofs --------------------------
(***************************************************************************)
(* Proofs about Applications, for any calls, conversations, function calls *)
(* in flight, questions, landlord's pages and bounds.                      *)
(***************************************************************************)
EXTENDS Applications, FiniteSetTheorems, WellFoundedInduction, TLAPS

-----------------------------------------------------------------------------
(* The inductive invariant                                                 *)

SlotSet == [pc : {"idle", "create", "link", "save", "merge", "mark", "forward", "texting"},
            key : Keys \cup {"none"}, app : 0..MaxApps, seen : SUBSET Keys]
PutSet == [app : 0..MaxApps, what : Statuses \cup {"none"}]

Counts ==
  /\ cast \in Casts /\ ended \in SUBSET Calls /\ fns \in 0..MaxFns /\ reviews \in 0..MaxReviews

\* what is in flight names an application there is
SlotOK(x) ==
  /\ slot[x].app \in 0..made
  /\ slot[x].pc \in {"idle", "create"} <=> slot[x].app = 0
  /\ slot[x].pc = "save" => slot[x].key \in Keys
  /\ slot[x].pc = "merge" => slot[x].key \in Custom

PutOK(d) ==
  \/ page[d] = NoPut
  \/ page[d].app \in Made /\ page[d].what \in Statuses \ {"in_progress"}

Refs ==
  /\ made \in 0..MaxApps /\ row \in [Made -> AppRow] /\ app \in [Calls -> 0..made]
  /\ slot \in [Slots -> SlotSet] /\ page \in [Reviewers -> PutSet]
  /\ (\A x \in Slots : SlotOK(x)) /\ (\A d \in Reviewers : PutOK(d))

\* those that may be resumed and those about to be inserted: an insertion only
\* moves one from here to there
DraftInv ==
  /\ peak \in [Phones -> Nat]
  /\ \A p \in Phones : Cardinality(Resumable(p)) + Cardinality(Inserting(p)) <= peak[p]

\* one save of custom answers holds what the row holds, unless two overlapped
Saving(x, a) == slot[x].pc = "merge" /\ slot[x].app = a
AnswersHeld(a) ==
  /\ \A k \in Keys : <<a, k>> \in acked => k \in row[a].filled
  /\ a \in byAI => Required \subseteq row[a].filled
  /\ \A x \in Slots : Saving(x, a) => slot[x].seen = row[a].filled \cap Custom
  /\ \A x, y \in Slots : Saving(x, a) /\ Saving(y, a) => x = y
  /\ \A x \in Slots : slot[x].pc = "mark" /\ slot[x].app = a => Required \subseteq row[a].filled
AnswerInv ==
  /\ acked \in SUBSET (Made \X Keys) /\ overlapped \in SUBSET Made /\ byAI \in SUBSET Made
  /\ \A a \in Made \ overlapped : AnswersHeld(a)

\* nobody holds a decided application who could write another status
Free(a) ==
  /\ \A c \in Calls \ ended : app[c] # a
  /\ \A x \in Slots : slot[x].app # a
  /\ \A d \in Reviewers : page[d].app = a => page[d].what \in Decided
DecisionInv ==
  /\ undone \subseteq atRisk /\ atRisk \in SUBSET Made
  /\ \A a \in Made \ atRisk : row[a].status \in Decided => Free(a)

\* a summary on its way is the first, and alone, unless two were seen together
Texting(x, a) == slot[x].pc = "texting" /\ slot[x].app = a
ToldOnce(a) ==
  /\ texted[a] <= 1 /\ (texted[a] = 1 => row[a].forwarded)
  /\ \A x \in Slots : Texting(x, a) => texted[a] = 0
  /\ \A x, y \in Slots : Texting(x, a) /\ Texting(y, a) => x = y
ForwardInv ==
  /\ texted \in [AppIds -> Nat] /\ together \in SUBSET Made
  /\ \A a \in AppIds \ Made : texted[a] = 0
  /\ \A a \in Made \ together : ToldOnce(a)

IInv == Counts /\ Refs /\ DraftInv /\ AnswerInv /\ DecisionInv /\ ForwardInv

-----------------------------------------------------------------------------
(* What the steps do                                                       *)

LEMMA Ids ==
  ASSUME Refs
  PROVE  /\ made \in Nat /\ MaxApps \in Nat /\ made <= MaxApps /\ Made \subseteq AppIds
         /\ \A x \in Slots : slot[x].app # 0 => slot[x].app \in Made
<1>1. MaxApps \in Nat /\ made \in 0..MaxApps
  BY ApplicationsAssumption DEF Refs
<1>2. \A x \in Slots : slot[x].app \in 0..made
  BY DEF Refs, SlotOK
<1> QED BY <1>1, <1>2 DEF Made, AppIds

\* the newest of some applications is one of them
LEMMA NewestIsOne ==
  ASSUME made \in Nat, NEW A, A \subseteq Made, A # {}
  PROVE  Newest(A) \in A
<1> DEFINE B == {n \in Nat : \A b \in A : b <= n}
           Less == OpToRel(<, Nat)
<1>1. made \in B
  BY DEF Made
<1>2. PICK m \in B : \A n \in B : ~(<<n, m>> \in Less)
  BY <1>1, NatLessThanWellFounded, WFMin
<1>3. PICK b \in A : TRUE
  OBVIOUS
<1>4. m \in A
  <2> SUFFICES ASSUME m \notin A PROVE FALSE
    OBVIOUS
  <2>0. m \in Nat /\ \A c \in A : c <= m
    BY <1>2
  <2>5. \A c \in A : c \in Nat /\ c >= 1
    BY DEF Made
  <2>1. m \in Nat /\ b \in Nat /\ b >= 1 /\ b <= m
    BY <1>3, <2>0, <2>5
  <2>2. ASSUME NEW c \in A PROVE c <= m - 1
    <3>1. c # m
      OBVIOUS
    <3> QED BY <2>0, <2>5, <3>1
  <2>3. m - 1 \in B
    BY <2>1, <2>2
  <2>4. <<m - 1, m>> \in Less
    BY <2>1 DEF OpToRel
  <2> QED BY <1>2, <2>3, <2>4
<1>5. \E a \in A : \A c \in A : c <= a
  BY <1>2, <1>4
<1> QED BY <1>5 DEF Newest

LEMMA NoFnType == NoFn \in SlotSet /\ NoFn.pc = "idle" /\ NoFn.app = 0 /\ NoFn.key = "none"
BY ApplicationsAssumption DEF NoFn, SlotSet

\* one slot changes
LEMMA SlotPut ==
  ASSUME Refs, NEW x \in Slots, NEW r \in SlotSet, slot' = [slot EXCEPT ![x] = r]
  PROVE  slot' \in [Slots -> SlotSet] /\ slot'[x] = r /\ \A y \in Slots : y # x => slot'[y] = slot[y]
BY DEF Refs

\* one row changes
LEMMA RowPut ==
  ASSUME Refs, NEW a \in Made, NEW r \in AppRow, row' = [row EXCEPT ![a] = r], made' = made
  PROVE  row' \in [Made -> AppRow] /\ row'[a] = r /\ Made' = Made /\ \A b \in Made : b # a => row'[b] = row[b]
BY DEF Refs, Made

\* what a function call begins with: nothing, an insertion, an application of the call
\* that has not ended, or one in progress
Begun(x, r) ==
  /\ r \in SlotSet /\ r.app \in 0..made /\ (r.pc \in {"idle", "create"} <=> r.app = 0)
  /\ r.pc \in {"idle", "create", "link", "save", "mark", "forward"}
  /\ r.pc = "save" => r.key \in Keys
  /\ r.app # 0 => (CallOf[x] \notin ended /\ app[CallOf[x]] = r.app) \/ row[r.app].status = "in_progress"
  /\ r.pc = "mark" => Required \subseteq row[r.app].filled
  /\ r.pc = "create" => Resumable(Phone(x)) = {}

LEMMA FindBegins ==
  ASSUME Refs, NEW x \in Slots, NEW k \in Keys \cup {"none"}, FindOrCreate(x, k)
  PROVE  \E r : /\ Begun(x, r) /\ slot' = [slot EXCEPT ![x] = r]
                /\ peak' = LET p == Phone(x)
                               n == Cardinality(Inserting(p)) + 1
                           IN IF r.pc = "create" /\ n > peak[p] THEN [peak EXCEPT ![p] = n] ELSE peak
<1> DEFINE p == Phone(x)
           F == Resumable(p)
<1>1. CASE F = {}
  <2> DEFINE r == [NoFn EXCEPT !.pc = "create", !.key = k]
  <2>1. slot' = [slot EXCEPT ![x] = r]
    BY <1>1 DEF FindOrCreate
  <2>2. r \in SlotSet /\ r.pc = "create" /\ r.app = 0
    BY NoFnType DEF NoFn, SlotSet
  <2>3. 0 \in 0..made
    BY Ids
  <2>4. Begun(x, r)
    <3>1. r.pc # "save" /\ r.pc # "mark" /\ r.pc \in {"idle", "create", "link", "save", "mark", "forward"}
      BY <2>2
    <3> HIDE DEF r
    <3> QED BY <1>1, <2>2, <2>3, <3>1 DEF Begun
  <2>5. peak' = IF Cardinality(Inserting(p)) + 1 > peak[p]
                  THEN [peak EXCEPT ![p] = Cardinality(Inserting(p)) + 1] ELSE peak
    BY <1>1 DEF FindOrCreate
  <2> HIDE DEF r
  <2> QED BY <2>1, <2>2, <2>4, <2>5
<1>2. CASE F # {}
  <2> DEFINE r == [NoFn EXCEPT !.pc = "link", !.key = k, !.app = Newest(F)]
  <2>1. slot' = [slot EXCEPT ![x] = r]
    BY <1>2 DEF FindOrCreate
  <2>2. Newest(F) \in F /\ F \subseteq Made
    BY <1>2, Ids, NewestIsOne DEF Resumable
  <2>3. row[Newest(F)].status = "in_progress" /\ Newest(F) \in 0..MaxApps /\ Newest(F) \in 0..made /\ Newest(F) # 0
    BY <2>2, Ids DEF Resumable, Made
  <2>4. r \in SlotSet /\ r.pc = "link" /\ r.app = Newest(F)
    BY <2>3, NoFnType DEF NoFn, SlotSet
  <2>5. Begun(x, r)
    BY <2>3, <2>4 DEF Begun
  <2> QED BY <1>2, <2>1, <2>4, <2>5 DEF FindOrCreate
<1> QED BY <1>1, <1>2

Begins(x) == StartApplication(x) \/ Complete(x) \/ \E k \in Keys : SaveField(x, k)

LEMMA CallBegins ==
  ASSUME Refs, NEW x \in Slots, Begins(x)
  PROVE  /\ slot[x].pc = "idle" /\ fns < MaxFns /\ fns' = fns + 1
         /\ UNCHANGED <<cast, made, row, app, ended, page, reviews, acked, overlapped, byAI, decisions, told>>
         /\ \E r : /\ Begun(x, r) /\ slot' = [slot EXCEPT ![x] = r]
                   /\ peak' = LET p == Phone(x)
                                  n == Cardinality(Inserting(p)) + 1
                              IN IF r.pc = "create" /\ n > peak[p] THEN [peak EXCEPT ![p] = n] ELSE peak
<1> DEFINE a == app[CallOf[x]]
<1>1. Begin(x)
  BY DEF Begins, StartApplication, Complete, SaveField
<1>2. a \in 0..made /\ made \in Nat /\ made <= MaxApps /\ MaxApps \in Nat /\ CallOf[x] \in Calls
  BY ApplicationsAssumption, Ids DEF Refs
<1>3. CallOf[x] \notin ended /\ a \in 0..MaxApps
  BY <1>1, <1>2 DEF Begin
<1>4. CASE \E k \in Keys \cup {"none"} : FindOrCreate(x, k)
  BY <1>1, <1>4, FindBegins DEF Begin
<1>5. CASE Complete(x)
  <2>1. a # 0 /\ peak' = peak
    BY <1>5 DEF Complete
  <2>2. CASE Required \subseteq row[a].filled
    <3> DEFINE r == [NoFn EXCEPT !.pc = "mark", !.app = a]
    <3>1. slot' = [slot EXCEPT ![x] = r]
      BY <1>5, <2>2 DEF Complete
    <3>2. r \in SlotSet /\ r.pc = "mark" /\ r.app = a
      BY <1>3, NoFnType DEF NoFn, SlotSet
    <3>3. Begun(x, r)
      BY <1>2, <1>3, <2>1, <2>2, <3>2 DEF Begun
    <3> QED BY <1>1, <2>1, <3>1, <3>2, <3>3 DEF Begin
  <2>3. CASE ~(Required \subseteq row[a].filled)
    <3>1. slot' = [slot EXCEPT ![x] = AfterAnswer(x, a)]
      BY <1>5, <2>3 DEF Complete
    <3>2. CASE CallOf[x] \in Texts
      <4>1. slot' = [slot EXCEPT ![x] = NoFn]
        BY <3>1, <3>2 DEF AfterAnswer
      <4>2. Begun(x, NoFn)
        BY <1>2, NoFnType DEF Begun
      <4> QED BY <1>1, <2>1, <4>1, <4>2, NoFnType DEF Begin
    <3>3. CASE CallOf[x] \notin Texts
      <4> DEFINE r == [NoFn EXCEPT !.pc = "forward", !.app = a]
      <4>1. slot' = [slot EXCEPT ![x] = r]
        BY <3>1, <3>3 DEF AfterAnswer
      <4>2. r \in SlotSet /\ r.pc = "forward" /\ r.app = a
        BY <1>3, NoFnType DEF NoFn, SlotSet
      <4>3. Begun(x, r)
        BY <1>2, <1>3, <2>1, <4>2 DEF Begun
      <4> QED BY <1>1, <2>1, <4>1, <4>2, <4>3 DEF Begin
    <3> QED BY <3>2, <3>3
  <2> QED BY <2>2, <2>3
<1>6. ASSUME NEW k \in Keys, a # 0, peak' = peak,
             slot' = [slot EXCEPT ![x] = [NoFn EXCEPT !.pc = "save", !.key = k, !.app = a]]
      PROVE  \E r : Begun(x, r) /\ r.pc # "create" /\ slot' = [slot EXCEPT ![x] = r]
  <2> DEFINE r == [NoFn EXCEPT !.pc = "save", !.key = k, !.app = a]
  <2>1. r \in SlotSet /\ r.pc = "save" /\ r.app = a /\ r.key = k
    BY <1>3, NoFnType DEF NoFn, SlotSet
  <2>2. Begun(x, r)
    BY <1>2, <1>3, <1>6, <2>1 DEF Begun
  <2> QED BY <1>6, <2>1, <2>2
<1>7. CASE StartApplication(x)
  BY <1>4, <1>7 DEF StartApplication
<1>8. ASSUME NEW k \in Keys, SaveField(x, k)
      PROVE  \/ FindOrCreate(x, k)
             \/ /\ a # 0 /\ peak' = peak
                /\ slot' = [slot EXCEPT ![x] = [NoFn EXCEPT !.pc = "save", !.key = k, !.app = a]]
  BY <1>8 DEF SaveField
<1>9. CASE \E k \in Keys : SaveField(x, k)
  BY <1>1, <1>4, <1>6, <1>8, <1>9 DEF Begin
<1> QED BY <1>5, <1>7, <1>9 DEF Begins

-----------------------------------------------------------------------------
(* What the other steps of a function call do to slots and rows            *)

\* the slot's application is a row there is
LEMMA SlotRow ==
  ASSUME Refs, NEW x \in Slots, slot[x].pc \notin {"idle", "create"}
  PROVE  /\ slot[x] \in SlotSet /\ slot[x].app \in Made /\ slot[x].app \in 0..made /\ slot[x].app # 0
         /\ row[slot[x].app] \in AppRow /\ 0 \in 0..made
<1>1. SlotOK(x) /\ slot[x] \in SlotSet
  BY DEF Refs
<1>2. slot[x].app \in 0..made /\ slot[x].app # 0
  BY <1>1 DEF SlotOK
<1> QED BY <1>1, <1>2, Ids DEF Refs, Made

LEMMA AnswerType ==
  ASSUME Refs, NEW x \in Slots, NEW a \in Made
  PROVE  /\ AfterAnswer(x, a) \in SlotSet
         /\ AfterAnswer(x, a).pc \in {"idle", "forward"}
         /\ AfterAnswer(x, a).app = IF AfterAnswer(x, a).pc = "idle" THEN 0 ELSE a
<1>1. a \in 0..MaxApps
  BY Ids DEF AppIds
<1> DEFINE r == [NoFn EXCEPT !.pc = "forward", !.app = a]
<1>2. r \in SlotSet /\ r.pc = "forward" /\ r.app = a
  BY <1>1, NoFnType DEF NoFn, SlotSet
<1>3. CASE CallOf[x] \in Texts
  BY <1>3, NoFnType DEF AfterAnswer
<1>4. CASE CallOf[x] \notin Texts
  <2>1. AfterAnswer(x, a) = r
    BY <1>4 DEF AfterAnswer
  <2> HIDE DEF r
  <2> QED BY <1>2, <2>1
<1> QED BY <1>3, <1>4

\* a step of a function call that leaves the set of rows alone: r is what becomes
\* of the slot, q of the row
Moved(x, r, q) ==
  LET a == slot[x].app IN
  /\ slot' = [slot EXCEPT ![x] = r] /\ row' = [row EXCEPT ![a] = q] /\ made' = made
  /\ r \in SlotSet /\ q \in AppRow
  /\ r.app \in {0, a} /\ (r.pc = "idle" <=> r.app = 0) /\ r.pc # "create"
  /\ r.pc = "save" => r.key \in Keys
  /\ r.pc = "merge" => r.key \in Custom
  /\ q.phone = row[a].phone /\ q.fresh = row[a].fresh

Step(x) == \/ Link(x) \/ Invalid(x) \/ SaveColumn(x) \/ ReadCustom(x) \/ WriteCustom(x)
           \/ MarkCompleted(x) \/ ForwardCheck(x) \/ Texted(x) \/ NotTexted(x)

LEMMA RowSame == ASSUME Refs, NEW a \in Made PROVE row = [row EXCEPT ![a] = row[a]] /\ row[a] \in AppRow
BY DEF Refs

LEMMA LinkMoves ==
  ASSUME Refs, NEW x \in Slots, Link(x)
  PROVE  \E r, q : /\ Moved(x, r, q) /\ r.pc \in {"idle", "save"}
                   /\ q.filled = row[slot[x].app].filled /\ q.status = row[slot[x].app].status
                   /\ q.forwarded = row[slot[x].app].forwarded
<1> DEFINE a == slot[x].app
           c == CallOf[x]
           s == [slot[x] EXCEPT !.pc = "save"]
           l == [row[a] EXCEPT !.log = c]
<1>1. slot[x].pc = "link"
  BY DEF Link
<1>2. slot[x] \in SlotSet /\ a \in Made /\ a # 0 /\ row[a] \in AppRow /\ c \in Calls
  BY <1>1, SlotRow, ApplicationsAssumption
<1>3. s \in SlotSet /\ s.pc = "save" /\ s.app = a /\ s.key = slot[x].key /\ slot[x].key \in Keys \cup {"none"}
  BY <1>2 DEF SlotSet
<1>4. l \in AppRow /\ l.phone = row[a].phone /\ l.fresh = row[a].fresh /\ l.filled = row[a].filled
      /\ l.status = row[a].status /\ l.forwarded = row[a].forwarded
  BY <1>2 DEF AppRow
<1>5. PICK r : slot' = [slot EXCEPT ![x] = r] /\ (r = NoFn \/ (r = s /\ slot[x].key # "none"))
  BY DEF Link
<1>6. PICK q : row' = [row EXCEPT ![a] = q] /\ (q = row[a] \/ q = l)
  BY <1>2, RowSame DEF Link
<1>7. r \in SlotSet /\ r.app \in {0, a} /\ (r.pc = "idle" <=> r.app = 0) /\ r.pc \in {"idle", "save"}
      /\ (r.pc = "save" => r.key \in Keys)
  BY <1>2, <1>3, <1>5, NoFnType
<1>8. q \in AppRow /\ q.phone = row[a].phone /\ q.fresh = row[a].fresh /\ q.filled = row[a].filled
      /\ q.status = row[a].status /\ q.forwarded = row[a].forwarded
  BY <1>2, <1>4, <1>6
<1>9. made' = made
  BY DEF Link
<1>10. Moved(x, r, q)
  BY <1>5, <1>6, <1>7, <1>8, <1>9 DEF Moved
<1> QED BY <1>7, <1>8, <1>10

\* steps that free the slot and may write the row
LEMMA FreeMoves ==
  ASSUME Refs, NEW x \in Slots, slot[x].pc \notin {"idle", "create"}, slot' = [slot EXCEPT ![x] = NoFn], made' = made,
         NEW q \in AppRow, row' = [row EXCEPT ![slot[x].app] = q],
         q.phone = row[slot[x].app].phone, q.fresh = row[slot[x].app].fresh
  PROVE  Moved(x, NoFn, q)
BY NoFnType DEF Moved

LEMMA StepMoves ==
  ASSUME Refs, NEW x \in Slots, Step(x)
  PROVE  \E r, q : Moved(x, r, q)
<1> DEFINE a == slot[x].app
<1>1. slot[x].pc \notin {"idle", "create"}
  BY DEF Step, Link, Invalid, SaveColumn, ReadCustom, WriteCustom, MarkCompleted, ForwardCheck, Texted, NotTexted
<1>2. slot[x] \in SlotSet /\ a \in Made /\ a # 0 /\ row[a] \in AppRow /\ row = [row EXCEPT ![a] = row[a]]
  BY <1>1, SlotRow, RowSame
<1>3. ASSUME NEW K \in SUBSET Keys
      PROVE  /\ [row[a] EXCEPT !.filled = K] \in AppRow /\ [row[a] EXCEPT !.filled = K].phone = row[a].phone
             /\ [row[a] EXCEPT !.filled = K].fresh = row[a].fresh
  BY <1>2 DEF AppRow
<1>4. CASE Link(x)
  BY <1>4, LinkMoves
<1>5. CASE Invalid(x) \/ NotTexted(x)
  BY <1>1, <1>2, <1>5, FreeMoves DEF Invalid, NotTexted
<1>6. CASE SaveColumn(x)
  <2>1. slot[x].key \in Keys /\ row[a].filled \subseteq Keys
    BY <1>2, <1>6 DEF SaveColumn, Refs, SlotOK, AppRow
  <2> QED BY <1>1, <1>3, <1>6, <2>1, FreeMoves DEF SaveColumn
<1>7. CASE WriteCustom(x)
  <2>1. slot[x].key \in Keys /\ row[a].filled \subseteq Keys /\ slot[x].seen \subseteq Keys
    BY <1>2, <1>7, ApplicationsAssumption DEF WriteCustom, Refs, SlotOK, AppRow, SlotSet
  <2>2. Merged(x) \in SUBSET Keys
    BY <2>1 DEF Merged
  <2> QED BY <1>1, <1>3, <1>7, <2>2, FreeMoves DEF WriteCustom
<1>8. CASE ReadCustom(x)
  <2> DEFINE r == [slot[x] EXCEPT !.pc = "merge", !.seen = row[a].filled \cap Custom]
  <2>1. slot' = [slot EXCEPT ![x] = r] /\ row' = row /\ made' = made /\ slot[x].key \in Custom
    BY <1>8 DEF ReadCustom
  <2>2. row[a].filled \cap Custom \in SUBSET Keys
    BY <1>2 DEF AppRow
  <2>3. r \in SlotSet /\ r.pc = "merge" /\ r.app = a /\ r.key = slot[x].key
    BY <1>2, <2>2 DEF SlotSet
  <2> HIDE DEF r
  <2>4. Moved(x, r, row[a])
    BY <1>2, <2>1, <2>3 DEF Moved
  <2> QED BY <2>4
<1>9. CASE MarkCompleted(x)
  <2> DEFINE r == AfterAnswer(x, a)
             q == [row[a] EXCEPT !.status = "completed"]
  <2>1. r \in SlotSet /\ r.pc \in {"idle", "forward"} /\ r.app = IF r.pc = "idle" THEN 0 ELSE a
    BY <1>2, AnswerType
  <2>2. q \in AppRow /\ q.phone = row[a].phone /\ q.fresh = row[a].fresh
    BY <1>2 DEF AppRow, Statuses
  <2>3. slot' = [slot EXCEPT ![x] = r] /\ row' = [row EXCEPT ![a] = q] /\ made' = made
    BY <1>9 DEF MarkCompleted
  <2> HIDE DEF r, q
  <2>4. Moved(x, r, q)
    BY <1>2, <2>1, <2>2, <2>3 DEF Moved
  <2> QED BY <2>4
<1>10. CASE ForwardCheck(x)
  <2> DEFINE w == [slot[x] EXCEPT !.pc = "texting"]
  <2>1. w \in SlotSet /\ w.pc = "texting" /\ w.app = a
    BY <1>2 DEF SlotSet
  <2>2. row' = row /\ made' = made /\ \E r \in {NoFn, w} : slot' = [slot EXCEPT ![x] = r]
    BY <1>10 DEF ForwardCheck
  <2> HIDE DEF w
  <2>3. Moved(x, NoFn, row[a]) \/ Moved(x, w, row[a])
    BY <1>2, <2>1, <2>2, NoFnType DEF Moved
  <2> QED BY <2>3
<1>11. CASE Texted(x)
  <2> DEFINE q == [row[a] EXCEPT !.forwarded = TRUE]
  <2>1. q \in AppRow /\ q.phone = row[a].phone /\ q.fresh = row[a].fresh
    BY <1>2 DEF AppRow
  <2> QED BY <1>1, <1>11, <2>1, FreeMoves DEF Texted
<1> QED BY <1>4, <1>5, <1>6, <1>7, <1>8, <1>9, <1>10, <1>11 DEF Step

-----------------------------------------------------------------------------
(* References, and the remaining types                                     *)

LEMMA BegunRefs ==
  ASSUME Refs, NEW x \in Slots, NEW r, Begun(x, r), slot' = [slot EXCEPT ![x] = r],
         UNCHANGED <<made, row, app, page>>
  PROVE  Refs'
<1>1. slot' \in [Slots -> SlotSet] /\ slot'[x] = r /\ \A y \in Slots : y # x => slot'[y] = slot[y]
  BY SlotPut DEF Begun
<1>2. ASSUME NEW y \in Slots PROVE SlotOK(y)'
  <2>1. SlotOK(y)
    BY DEF Refs
  <2>2. CASE y = x
    BY <1>1, <2>2 DEF Begun, SlotOK
  <2>3. CASE y # x
    BY <1>1, <2>1, <2>3 DEF SlotOK
  <2> QED BY <2>2, <2>3
<1>3. ASSUME NEW d \in Reviewers PROVE PutOK(d)'
  BY DEF Refs, PutOK, Made
<1>4. made' \in 0..MaxApps /\ row' \in [Made' -> AppRow] /\ app' \in [Calls -> 0..made'] /\ page' \in [Reviewers -> PutSet]
  BY DEF Refs, Made
<1> QED BY <1>1, <1>2, <1>3, <1>4 DEF Refs

LEMMA MovedRefs ==
  ASSUME Refs, NEW x \in Slots, NEW r, NEW q, Moved(x, r, q), slot[x].pc \notin {"idle", "create"},
         page' = page, app' \in [Calls -> 0..made]
  PROVE  Refs'
<1> DEFINE a == slot[x].app
<1>0. a \in Made /\ a \in 0..made /\ 0 \in 0..made /\ a # 0
  BY SlotRow
<1>1. slot' \in [Slots -> SlotSet] /\ slot'[x] = r /\ \A y \in Slots : y # x => slot'[y] = slot[y]
  BY SlotPut DEF Moved
<1>2. row' \in [Made' -> AppRow] /\ made' = made /\ Made' = Made
  BY <1>0, RowPut DEF Moved
<1>3. ASSUME NEW y \in Slots PROVE SlotOK(y)'
  <2>1. SlotOK(y)
    BY DEF Refs
  <2>2. CASE y = x
    <3>1. r.app \in 0..made' /\ (r.pc \in {"idle", "create"} <=> r.app = 0)
          /\ (r.pc = "save" => r.key \in Keys) /\ (r.pc = "merge" => r.key \in Custom)
      BY <1>0, <1>2 DEF Moved
    <3> QED BY <1>1, <2>2, <3>1 DEF SlotOK
  <2>3. CASE y # x
    BY <1>1, <1>2, <2>1, <2>3 DEF SlotOK
  <2> QED BY <2>2, <2>3
<1>4. ASSUME NEW d \in Reviewers PROVE PutOK(d)'
  BY <1>2 DEF Refs, PutOK
<1>5. made' \in 0..MaxApps /\ app' \in [Calls -> 0..made'] /\ page' \in [Reviewers -> PutSet]
  BY <1>2 DEF Refs
<1> QED BY <1>1, <1>2, <1>3, <1>4, <1>5 DEF Refs

\* the new row, and all that does not change with it
LEMMA Created ==
  ASSUME Refs, NEW x \in Slots, Create(x)
  PROVE  /\ slot[x].pc = "create" /\ made' = made + 1 /\ made' <= MaxApps /\ made' \notin Made /\ Made' = Made \cup {made'}
         /\ row' \in [Made' -> AppRow] /\ row'[made'] = NewApp(Phone(x)) /\ \A a \in Made : row'[a] = row[a]
         /\ slot' \in [Slots -> SlotSet] /\ slot'[x].pc = "link" /\ slot'[x].app = made'
         /\ \A y \in Slots : y # x => slot'[y] = slot[y]
         /\ UNCHANGED <<cast, app, ended, page, fns, reviews, ghosts>>
<1> DEFINE new == NewApp(Phone(x))
           s == [slot[x] EXCEPT !.pc = "link", !.app = made + 1]
<1>1. made \in Nat /\ MaxApps \in Nat /\ made < MaxApps /\ slot[x].pc = "create"
  BY Ids DEF Create
<1>2. made' = made + 1 /\ row' = [a \in 1..(made + 1) |-> IF a = made + 1 THEN new ELSE row[a]]
      /\ slot' = [slot EXCEPT ![x] = s] /\ UNCHANGED <<cast, app, ended, page, fns, reviews, ghosts>>
  BY DEF Create
<1>3. new \in AppRow
  BY ApplicationsAssumption DEF NewApp, AppRow, Statuses, Phone
<1>4. slot[x] \in SlotSet /\ made + 1 \in 0..MaxApps
  BY <1>1 DEF Refs
<1>5. s \in SlotSet /\ s.pc = "link" /\ s.app = made + 1
  BY <1>4 DEF SlotSet
<1>6. slot' \in [Slots -> SlotSet] /\ slot'[x] = s /\ \A y \in Slots : y # x => slot'[y] = slot[y]
  BY <1>2, <1>5, SlotPut
<1>7. row \in [1..made -> AppRow]
  BY DEF Refs, Made
<1>8. row' \in [1..made' -> AppRow] /\ row'[made + 1] = new /\ \A a \in 1..made : row'[a] = row[a]
  <2>1. \A a \in 1..made : a \in 1..(made + 1) /\ a # made + 1
    BY <1>1
  <2>2. made + 1 \in 1..(made + 1) /\ \A a \in 1..(made + 1) : a # made + 1 => a \in 1..made
    BY <1>1
  <2> HIDE DEF new
  <2> QED BY <1>2, <1>3, <1>7, <2>1, <2>2
<1>9. Made' = Made \cup {made'} /\ made' \notin Made /\ made' <= MaxApps
  BY <1>1, <1>2 DEF Made
<1>10. row' \in [Made' -> AppRow] /\ \A a \in Made : row'[a] = row[a]
  BY <1>8 DEF Made
<1>11. row'[made'] = new
  BY <1>2, <1>8
<1>12. slot'[x].pc = "link" /\ slot'[x].app = made'
  BY <1>2, <1>5, <1>6
<1> HIDE DEF s
<1> QED BY <1>1, <1>2, <1>6, <1>9, <1>10, <1>11, <1>12

LEMMA CreateRefs == ASSUME Refs, NEW x \in Slots, Create(x) PROVE Refs'
<1>1. /\ made' = made + 1 /\ made' <= MaxApps /\ Made' = Made \cup {made'}
      /\ row' \in [Made' -> AppRow] /\ slot' \in [Slots -> SlotSet]
      /\ slot'[x].pc = "link" /\ slot'[x].app = made' /\ UNCHANGED <<app, page>>
      /\ \A y \in Slots : y # x => slot'[y] = slot[y]
  BY Created
<1>2. made \in Nat /\ MaxApps \in Nat /\ 0..made \subseteq 0..made' /\ made' \in 0..MaxApps /\ made' \in 0..made' /\ made' # 0
  BY <1>1, Ids
<1>3. ASSUME NEW y \in Slots PROVE SlotOK(y)'
  <2>1. SlotOK(y)
    BY DEF Refs
  <2>2. CASE y = x
    BY <1>1, <1>2, <2>2 DEF SlotOK
  <2>3. CASE y # x
    BY <1>1, <1>2, <2>1, <2>3 DEF SlotOK
  <2> QED BY <2>2, <2>3
<1>4. ASSUME NEW d \in Reviewers PROVE PutOK(d)'
  BY <1>1 DEF Refs, PutOK
<1>5. app' \in [Calls -> 0..made'] /\ page' \in [Reviewers -> PutSet]
  BY <1>1, <1>2 DEF Refs
<1> QED BY <1>1, <1>2, <1>3, <1>4, <1>5 DEF Refs

LEMMA ChangedPage ==
  ASSUME Refs, NEW d \in Reviewers, NEW a \in AppIds, NEW w \in Statuses, ChangeStatus(d, a, w)
  PROVE  /\ a \in Made /\ w \in Allowed(row[a].status) /\ w \in Statuses \ {"in_progress"}
         /\ page' \in [Reviewers -> PutSet] /\ page'[d] = [app |-> a, what |-> w]
         /\ \A e \in Reviewers : e # d => page'[e] = page[e]
         /\ UNCHANGED <<cast, made, row, app, ended, slot, fns, ghosts>>
<1>1. a \in Made /\ w \in Allowed(row[a].status) /\ row[a].status \in Statuses /\ page' = [page EXCEPT ![d] = [app |-> a, what |-> w]]
  BY DEF ChangeStatus, Refs, AppRow
<1>2. w # "in_progress"
  BY <1>1 DEF Allowed, Statuses
<1>3. [app |-> a, what |-> w] \in PutSet
  BY ApplicationsAssumption DEF AppIds, PutSet
<1>4. page' \in [Reviewers -> PutSet] /\ page'[d] = [app |-> a, what |-> w] /\ \A e \in Reviewers : e # d => page'[e] = page[e]
  BY <1>1, <1>3 DEF Refs
<1> QED BY <1>1, <1>2, <1>4 DEF ChangeStatus

LEMMA PutPage ==
  ASSUME Refs, NEW d \in Reviewers, PutStatus(d)
  PROVE  /\ page[d].app \in Made /\ page[d].what \in Statuses \ {"in_progress"}
         /\ page' \in [Reviewers -> PutSet] /\ page'[d] = NoPut
         /\ \A e \in Reviewers : e # d => page'[e] = page[e]
         /\ row' \in [Made -> AppRow] /\ Made' = Made
         /\ row'[page[d].app] = [row[page[d].app] EXCEPT !.status = page[d].what]
         /\ row[page[d].app] \in AppRow
         /\ \A b \in Made : b # page[d].app => row'[b] = row[b]
         /\ Remember(page[d].app, d, page[d].what)
         /\ UNCHANGED <<cast, made, app, ended, slot, fns, reviews, acked, overlapped, byAI, peak, told>>
<1> DEFINE a == page[d].app
           q == [row[a] EXCEPT !.status = page[d].what]
<1>1. PutOK(d) /\ page[d] # NoPut
  BY DEF Refs, PutStatus
<1>2. a \in Made /\ page[d].what \in Statuses \ {"in_progress"}
  BY <1>1 DEF PutOK
<1>3. row[a] \in AppRow
  BY <1>2 DEF Refs
<1>4. q \in AppRow
  BY <1>2, <1>3 DEF AppRow
<1>5. row' = [row EXCEPT ![a] = q] /\ made' = made
  BY DEF PutStatus
<1>6. row' \in [Made -> AppRow] /\ row'[a] = q /\ Made' = Made /\ \A b \in Made : b # a => row'[b] = row[b]
  BY <1>2, <1>4, <1>5, RowPut
<1>7. NoPut \in PutSet
  BY ApplicationsAssumption DEF NoPut, PutSet
<1>8. page' \in [Reviewers -> PutSet] /\ page'[d] = NoPut /\ \A e \in Reviewers : e # d => page'[e] = page[e]
  BY <1>7 DEF PutStatus, Refs
<1> QED BY <1>2, <1>3, <1>6, <1>8 DEF PutStatus

LEMMA AgedRow ==
  ASSUME Refs, NEW a \in AppIds, Ages(a)
  PROVE  /\ a \in Made /\ Made' = Made /\ row' \in [Made -> AppRow] /\ row[a] \in AppRow
         /\ row'[a] = [row[a] EXCEPT !.fresh = FALSE] /\ \A b \in Made : b # a => row'[b] = row[b]
         /\ UNCHANGED <<cast, made, app, ended, slot, page, fns, reviews, ghosts>>
<1>1. a \in Made /\ row' = [row EXCEPT ![a] = [row[a] EXCEPT !.fresh = FALSE]] /\ made' = made
  BY DEF Ages
<1>2. row[a] \in AppRow
  BY <1>1 DEF Refs
<1>3. [row[a] EXCEPT !.fresh = FALSE] \in AppRow
  BY <1>2 DEF AppRow
<1> QED BY <1>1, <1>2, <1>3, RowPut DEF Ages

LEMMA RefsStep == ASSUME Refs, [Next]_vars PROVE Refs'
<1>1. ASSUME NEW x \in Slots, Begins(x) PROVE Refs'
  <2>1. PICK r : Begun(x, r) /\ slot' = [slot EXCEPT ![x] = r]
    BY <1>1, CallBegins
  <2> QED BY <1>1, <2>1, CallBegins, BegunRefs
<1>2. ASSUME NEW x \in Slots, Create(x) PROVE Refs'
  BY <1>2, CreateRefs
<1>3. ASSUME NEW x \in Slots, Step(x) PROVE Refs'
  <2>1. PICK r, q : Moved(x, r, q)
    BY <1>3, StepMoves
  <2>2. slot[x].pc \notin {"idle", "create"} /\ page' = page
    BY <1>3 DEF Step, Link, Invalid, SaveColumn, ReadCustom, WriteCustom, MarkCompleted, ForwardCheck, Texted, NotTexted
  <2>3. app' \in [Calls -> 0..made]
    <3>1. CASE app' = app
      BY <3>1 DEF Refs
    <3>2. CASE Link(x)
      <4>1. slot[x].app \in 0..made
        BY <2>2, SlotRow
      <4> QED BY <3>2, <4>1 DEF Link, Refs
    <3> QED BY <1>3, <3>1, <3>2
          DEF Step, Invalid, SaveColumn, ReadCustom, WriteCustom, MarkCompleted, ForwardCheck, Texted, NotTexted
  <2> QED BY <2>1, <2>2, <2>3, MovedRefs
<1>4. ASSUME NEW a \in AppIds, Ages(a) PROVE Refs'
  BY <1>4, AgedRow DEF Refs, SlotOK, PutOK
<1>5. ASSUME NEW d \in Reviewers, NEW a \in AppIds, NEW w \in Statuses, ChangeStatus(d, a, w) PROVE Refs'
  <2>1. /\ a \in Made /\ w \in Statuses \ {"in_progress"} /\ page' \in [Reviewers -> PutSet]
        /\ page'[d] = [app |-> a, what |-> w] /\ \A e \in Reviewers : e # d => page'[e] = page[e]
        /\ UNCHANGED <<made, row, app, slot>>
    BY <1>5, ChangedPage
  <2>2. ASSUME NEW e \in Reviewers PROVE PutOK(e)'
    <3>1. PutOK(e)
      BY DEF Refs
    <3> QED BY <2>1, <3>1 DEF PutOK, Made
  <2> QED BY <2>1, <2>2 DEF Refs, SlotOK, Made
<1>6. ASSUME NEW d \in Reviewers, PutStatus(d) PROVE Refs'
  <2>1. /\ page' \in [Reviewers -> PutSet] /\ page'[d] = NoPut /\ \A e \in Reviewers : e # d => page'[e] = page[e]
        /\ row' \in [Made -> AppRow] /\ Made' = Made /\ UNCHANGED <<made, app, slot>>
    BY <1>6, PutPage
  <2>2. ASSUME NEW e \in Reviewers PROVE PutOK(e)'
    <3>1. PutOK(e)
      BY DEF Refs
    <3> QED BY <2>1, <3>1 DEF PutOK
  <2> QED BY <2>1, <2>2 DEF Refs, SlotOK
<1>7. CASE UNCHANGED <<made, row, app, slot, page>>
  BY <1>7 DEF Refs, SlotOK, PutOK, Made
<1>8. ASSUME NEW c \in Calls, End(c) PROVE UNCHANGED <<made, row, app, slot, page>>
  BY <1>8 DEF End
<1> QED BY <1>1, <1>2, <1>3, <1>4, <1>5, <1>6, <1>7, <1>8 DEF Next, Fn, Step, Begins, vars

-----------------------------------------------------------------------------
(* Drafts: a caller's applications in progress                             *)

LEMMA Sizes ==
  ASSUME Refs, NEW p
  PROVE  /\ IsFiniteSet(Resumable(p)) /\ Cardinality(Resumable(p)) \in Nat
         /\ IsFiniteSet(Inserting(p)) /\ Cardinality(Inserting(p)) \in Nat
<1>1. IsFiniteSet(Made) /\ Resumable(p) \in SUBSET Made
  BY Ids, FS_Interval DEF Made, Resumable
<1>2. IsFiniteSet(Slots) /\ Inserting(p) \in SUBSET Slots
  BY ApplicationsAssumption DEF Inserting
<1>3. IsFiniteSet(Resumable(p)) /\ IsFiniteSet(Inserting(p))
  BY <1>1, <1>2, FS_Subset
<1> QED BY <1>3, FS_CardinalityType

\* a step that adds no draft and begins no insertion
LEMMA Shrinks ==
  ASSUME Refs, DraftInv, peak' = peak,
         \A p \in Phones : Resumable(p)' \subseteq Resumable(p) /\ Inserting(p)' \subseteq Inserting(p)
  PROVE  DraftInv'
<1>1. ASSUME NEW p \in Phones
      PROVE  Cardinality(Resumable(p)') + Cardinality(Inserting(p)') <= peak[p]
  <2>1. /\ IsFiniteSet(Resumable(p)) /\ Cardinality(Resumable(p)) \in Nat
        /\ IsFiniteSet(Inserting(p)) /\ Cardinality(Inserting(p)) \in Nat
    BY Sizes
  <2>2. /\ IsFiniteSet(Resumable(p)') /\ Cardinality(Resumable(p)') <= Cardinality(Resumable(p))
        /\ IsFiniteSet(Inserting(p)') /\ Cardinality(Inserting(p)') <= Cardinality(Inserting(p))
    BY <2>1, FS_Subset
  <2>3. Cardinality(Resumable(p)') \in Nat /\ Cardinality(Inserting(p)') \in Nat
    BY <2>2, FS_CardinalityType
  <2>4. Cardinality(Resumable(p)) + Cardinality(Inserting(p)) <= peak[p] /\ peak[p] \in Nat
    BY DEF DraftInv
  <2> QED BY <2>1, <2>2, <2>3, <2>4
<1> QED BY <1>1 DEF DraftInv

LEMMA PhoneType == \A x \in Slots : Phone(x) \in Phones
BY ApplicationsAssumption DEF Phone

LEMMA BeginDrafts == ASSUME Refs, DraftInv, NEW x \in Slots, Begins(x) PROVE DraftInv'
<1> DEFINE p0 == Phone(x)
           n == Cardinality(Inserting(p0)) + 1
<1>0. p0 \in Phones /\ peak \in [Phones -> Nat] /\ n \in Nat /\ slot[x].pc = "idle" /\ UNCHANGED <<made, row>>
  BY PhoneType, Sizes, CallBegins DEF DraftInv
<1>1. PICK r : /\ Begun(x, r) /\ slot' = [slot EXCEPT ![x] = r]
               /\ peak' = IF r.pc = "create" /\ n > peak[p0] THEN [peak EXCEPT ![p0] = n] ELSE peak
  BY CallBegins
<1>2. slot'[x] = r /\ \A y \in Slots : y # x => slot'[y] = slot[y]
  BY <1>1, SlotPut DEF Begun
<1>3. ASSUME NEW p PROVE Resumable(p)' = Resumable(p)
  BY <1>0 DEF Resumable, Made
<1>4. CASE r.pc # "create"
  <2>1. \A p \in Phones : Inserting(p)' \subseteq Inserting(p)
    BY <1>2, <1>4 DEF Inserting
  <2> QED BY <1>1, <1>3, <1>4, <2>1, Shrinks
<1>5. CASE r.pc = "create"
  <2>1. Resumable(p0) = {}
    BY <1>1, <1>5 DEF Begun
  <2>2. Inserting(p0)' = Inserting(p0) \cup {x} /\ x \notin Inserting(p0)
    BY <1>0, <1>2, <1>5 DEF Inserting
  <2>3. \A p \in Phones : p # p0 => Inserting(p)' = Inserting(p)
    BY <1>0, <1>2, <1>5 DEF Inserting
  <2>4. Cardinality(Inserting(p0)') = n
    BY <2>2, Sizes, FS_AddElement
  <2>5. peak' \in [Phones -> Nat] /\ peak'[p0] >= n /\ \A p \in Phones : p # p0 => peak'[p] = peak[p]
    BY <1>0, <1>1, <1>5
  <2>6. ASSUME NEW p \in Phones
        PROVE  Cardinality(Resumable(p)') + Cardinality(Inserting(p)') <= peak'[p]
    <3>1. CASE p = p0
      <4>1. Cardinality(Resumable(p)') = 0
        BY <1>3, <2>1, <3>1, FS_EmptySet
      <4> QED BY <1>0, <2>4, <2>5, <3>1, <4>1
    <3>2. CASE p # p0
      BY <1>3, <2>3, <2>5, <3>2 DEF DraftInv
    <3> QED BY <3>1, <3>2
  <2> QED BY <2>5, <2>6 DEF DraftInv
<1> QED BY <1>4, <1>5

LEMMA CreateDrafts == ASSUME Refs, DraftInv, NEW x \in Slots, Create(x) PROVE DraftInv'
<1> DEFINE p0 == Phone(x)
<1>1. /\ slot[x].pc = "create" /\ made' = made + 1 /\ made' \notin Made /\ Made' = Made \cup {made'}
      /\ row'[made'] = NewApp(p0) /\ \A a \in Made : row'[a] = row[a]
      /\ slot'[x].pc = "link" /\ \A y \in Slots : y # x => slot'[y] = slot[y]
      /\ peak' = peak
  BY Created DEF ghosts
<1>2. row'[made'].phone = p0 /\ row'[made'].fresh /\ row'[made'].status = "in_progress"
  BY <1>1 DEF NewApp
<1>3. ASSUME NEW p \in Phones
      PROVE  Cardinality(Resumable(p)') + Cardinality(Inserting(p)') <= peak[p]
  <2>1. /\ IsFiniteSet(Resumable(p)) /\ Cardinality(Resumable(p)) \in Nat
        /\ IsFiniteSet(Inserting(p)) /\ Cardinality(Inserting(p)) \in Nat
    BY Sizes
  <2>2. Cardinality(Resumable(p)) + Cardinality(Inserting(p)) <= peak[p] /\ peak[p] \in Nat
    BY DEF DraftInv
  <2>3. CASE p = p0
    <3>1. Resumable(p)' = Resumable(p) \cup {made'} /\ made' \notin Resumable(p)
      BY <1>1, <1>2, <2>3 DEF Resumable
    <3>2. Inserting(p)' = Inserting(p) \ {x} /\ x \in Inserting(p)
      BY <1>1, <2>3 DEF Inserting
    <3>3. Cardinality(Resumable(p)') = Cardinality(Resumable(p)) + 1
      BY <2>1, <3>1, FS_AddElement
    <3>4. Cardinality(Inserting(p)') = Cardinality(Inserting(p)) - 1
      BY <2>1, <3>2, FS_RemoveElement
    <3> QED BY <2>1, <2>2, <3>3, <3>4
  <2>4. CASE p # p0
    <3>1. Resumable(p)' = Resumable(p)
      BY <1>1, <1>2, <2>4 DEF Resumable
    <3>2. Inserting(p)' = Inserting(p)
      BY <1>1, <2>4 DEF Inserting
    <3> QED BY <2>2, <3>1, <3>2
  <2> QED BY <2>3, <2>4
<1> QED BY <1>1, <1>3 DEF DraftInv

\* a row whose status or age moves on is no draft that was not one before
LEMMA StatusDrafts ==
  ASSUME Refs, DraftInv, peak' = peak, slot' = slot, NEW a \in Made, Made' = Made,
         \A b \in Made : b # a => row'[b] = row[b],
         row'[a].phone = row[a].phone, row'[a].fresh => row[a].fresh,
         row'[a].status = "in_progress" => row[a].status = "in_progress"
  PROVE  DraftInv'
<1>1. \A p \in Phones : Resumable(p)' \subseteq Resumable(p) /\ Inserting(p)' \subseteq Inserting(p)
  BY DEF Resumable, Inserting
<1> QED BY <1>1, Shrinks

LEMMA StepDrafts == ASSUME Refs, DraftInv, NEW x \in Slots, Step(x) PROVE DraftInv'
<1> DEFINE a == slot[x].app
<1>1. PICK r, q : Moved(x, r, q)
  BY StepMoves
<1>2. slot[x].pc \notin {"idle", "create"} /\ peak' = peak
  BY DEF Step, Link, Invalid, SaveColumn, ReadCustom, WriteCustom, MarkCompleted, ForwardCheck, Texted, NotTexted, ghosts
<1>3. a \in Made
  BY <1>2, SlotRow
<1>4. row'[a] = q /\ Made' = Made /\ (\A b \in Made : b # a => row'[b] = row[b])
  BY <1>1, <1>3, RowPut DEF Moved
<1>5. slot'[x] = r /\ r.pc # "create" /\ (\A y \in Slots : y # x => slot'[y] = slot[y])
  BY <1>1, SlotPut DEF Moved
<1>6. q.phone = row[a].phone /\ q.fresh = row[a].fresh
  BY <1>1 DEF Moved
<1>7. row'[a].status = "in_progress" => row[a].status = "in_progress"
  <2>0. row[a] \in AppRow
    BY <1>3 DEF Refs
  <2>1. CASE Link(x)
    <3>1. \E s, t : Moved(x, s, t) /\ t.status = row[a].status
      BY <2>1, LinkMoves
    <3>2. PICK s, t : Moved(x, s, t) /\ t.status = row[a].status
      BY <3>1
    <3>3. row'[a] = t
      BY <1>3, <3>2, RowPut DEF Moved
    <3> QED BY <3>2, <3>3
  <2>2. CASE Invalid(x) \/ NotTexted(x) \/ ReadCustom(x) \/ ForwardCheck(x)
    BY <2>2 DEF Invalid, NotTexted, ReadCustom, ForwardCheck
  <2>3. CASE SaveColumn(x) \/ WriteCustom(x)
    <3>1. \E K : row' = [row EXCEPT ![a] = [row[a] EXCEPT !.filled = K]]
      BY <2>3 DEF SaveColumn, WriteCustom
    <3> QED BY <1>3, <2>0, <3>1 DEF Refs, AppRow
  <2>4. CASE MarkCompleted(x)
    <3>1. row' = [row EXCEPT ![a] = [row[a] EXCEPT !.status = "completed"]]
      BY <2>4 DEF MarkCompleted
    <3> QED BY <1>3, <2>0, <3>1 DEF Refs, AppRow
  <2>5. CASE Texted(x)
    <3>1. row' = [row EXCEPT ![a] = [row[a] EXCEPT !.forwarded = TRUE]]
      BY <2>5 DEF Texted
    <3> QED BY <1>3, <2>0, <3>1 DEF Refs, AppRow
  <2> QED BY <2>1, <2>2, <2>3, <2>4, <2>5 DEF Step
<1>8. \A p \in Phones : Resumable(p)' \subseteq Resumable(p)
  BY <1>3, <1>4, <1>6, <1>7 DEF Resumable
<1>9. \A p \in Phones : Inserting(p)' \subseteq Inserting(p)
  BY <1>5 DEF Inserting
<1> QED BY <1>2, <1>8, <1>9, Shrinks

LEMMA DraftStep == ASSUME Refs, DraftInv, [Next]_vars PROVE DraftInv'
<1>1. ASSUME NEW x \in Slots, Begins(x) \/ Create(x) \/ Step(x) PROVE DraftInv'
  BY <1>1, BeginDrafts, CreateDrafts, StepDrafts
<1>2. ASSUME NEW a \in AppIds, Ages(a) PROVE DraftInv'
  <2>1. /\ a \in Made /\ Made' = Made /\ row[a] \in AppRow
        /\ row'[a] = [row[a] EXCEPT !.fresh = FALSE] /\ (\A b \in Made : b # a => row'[b] = row[b])
        /\ slot' = slot /\ peak' = peak
    BY <1>2, AgedRow DEF ghosts
  <2>2. row'[a].phone = row[a].phone /\ ~row'[a].fresh /\ row'[a].status = row[a].status
    BY <2>1 DEF AppRow
  <2> QED BY <2>1, <2>2, StatusDrafts
<1>3. ASSUME NEW d \in Reviewers, PutStatus(d) PROVE DraftInv'
  <2> DEFINE a == page[d].app
  <2>1. /\ a \in Made /\ Made' = Made /\ row[a] \in AppRow /\ page[d].what \in Statuses \ {"in_progress"}
        /\ row'[a] = [row[a] EXCEPT !.status = page[d].what] /\ (\A b \in Made : b # a => row'[b] = row[b])
        /\ slot' = slot /\ peak' = peak
    BY <1>3, PutPage
  <2>2. row'[a].phone = row[a].phone /\ row'[a].fresh = row[a].fresh /\ row'[a].status # "in_progress"
    BY <2>1 DEF AppRow
  <2> QED BY <2>1, <2>2, StatusDrafts
<1>4. CASE UNCHANGED <<made, row, slot, peak>>
  BY <1>4 DEF DraftInv, Resumable, Inserting, Made
<1>5. ASSUME NEW d \in Reviewers, NEW a \in AppIds, NEW w \in Statuses, ChangeStatus(d, a, w)
      PROVE  UNCHANGED <<made, row, slot, peak>>
  BY <1>5 DEF ChangeStatus, ghosts
<1>6. ASSUME NEW c \in Calls, End(c) PROVE UNCHANGED <<made, row, slot, peak>>
  BY <1>6 DEF End, ghosts
<1>7. CASE UNCHANGED vars
  BY <1>4, <1>7 DEF vars, ghosts
<1> QED BY <1>1, <1>2, <1>3, <1>4, <1>5, <1>6, <1>7 DEF Next, Fn, Step, Begins

-----------------------------------------------------------------------------
(* Answers                                                                 *)

\* an application that a step does not write keeps its answers
LEMMA UntouchedAnswers ==
  ASSUME NEW a, AnswersHeld(a), row'[a].filled = row[a].filled,
         \A k \in Keys : <<a, k>> \in acked' => <<a, k>> \in acked,
         a \in byAI' => a \in byAI \/ Required \subseteq row[a].filled,
         \A y \in Slots : Saving(y, a)' => Saving(y, a) /\ slot'[y].seen = slot[y].seen,
         \A y \in Slots : slot'[y].pc = "mark" /\ slot'[y].app = a =>
                            (slot[y].pc = "mark" /\ slot[y].app = a) \/ Required \subseteq row[a].filled
  PROVE  AnswersHeld(a)'
BY DEF AnswersHeld

LEMMA BeginAnswers == ASSUME Refs, AnswerInv, NEW x \in Slots, Begins(x) PROVE AnswerInv'
<1>1. PICK r : Begun(x, r) /\ slot' = [slot EXCEPT ![x] = r]
  BY CallBegins
<1>2. slot'[x] = r /\ \A y \in Slots : y # x => slot'[y] = slot[y]
  BY <1>1, SlotPut DEF Begun
<1>3. UNCHANGED <<made, row, acked, overlapped, byAI>>
  BY CallBegins
<1>4. ASSUME NEW a \in Made \ overlapped PROVE AnswersHeld(a)'
  <2>1. AnswersHeld(a)
    BY DEF AnswerInv
  <2>2. ASSUME NEW y \in Slots, Saving(y, a)' PROVE Saving(y, a) /\ slot'[y].seen = slot[y].seen
    BY <1>1, <1>2, <2>2 DEF Saving, Begun
  <2>3. ASSUME NEW y \in Slots, slot'[y].pc = "mark", slot'[y].app = a
        PROVE  (slot[y].pc = "mark" /\ slot[y].app = a) \/ Required \subseteq row[a].filled
    BY <1>1, <1>2, <2>3 DEF Begun
  <2> QED BY <1>3, <2>1, <2>2, <2>3, UntouchedAnswers
<1> QED BY <1>3, <1>4 DEF AnswerInv, Made

LEMMA CreateAnswers == ASSUME Refs, AnswerInv, NEW x \in Slots, Create(x) PROVE AnswerInv'
<1>1. /\ made' \notin Made /\ Made' = Made \cup {made'} /\ (\A a \in Made : row'[a] = row[a])
      /\ slot'[x].pc = "link" /\ (\A y \in Slots : y # x => slot'[y] = slot[y])
      /\ UNCHANGED <<acked, overlapped, byAI>>
  BY Created DEF ghosts
<1>2. ASSUME NEW a \in Made \ overlapped PROVE AnswersHeld(a)'
  <2>1. AnswersHeld(a)
    BY DEF AnswerInv
  <2>2. \A y \in Slots : Saving(y, a)' => Saving(y, a) /\ slot'[y].seen = slot[y].seen
    BY <1>1 DEF Saving
  <2>3. \A y \in Slots : slot'[y].pc = "mark" /\ slot'[y].app = a => slot[y].pc = "mark" /\ slot[y].app = a
    BY <1>1
  <2> QED BY <1>1, <2>1, <2>2, <2>3, UntouchedAnswers
<1>3. ASSUME NEW m, m = made' PROVE AnswersHeld(m)'
  <2>1. ASSUME NEW y \in Slots PROVE slot'[y].app = m => slot'[y].pc \notin {"merge", "mark"}
    <3>1. CASE y = x
      BY <1>1, <3>1
    <3>2. CASE y # x
      <4>1. slot[y].app # m
        BY <1>1, <1>3, Ids, Created DEF Made
      <4> QED BY <1>1, <3>2, <4>1
    <3> QED BY <3>1, <3>2
  <2>2. m \notin byAI' /\ \A k : <<m, k>> \notin acked'
    BY <1>1, <1>3 DEF AnswerInv
  <2> QED BY <2>1, <2>2 DEF AnswersHeld, Saving
<1>4. ASSUME NEW a \in Made' \ overlapped' PROVE AnswersHeld(a)'
  BY <1>1, <1>2, <1>3
<1> QED BY <1>1, <1>4 DEF AnswerInv

\* a step of a function call leaves the other applications' answers alone
LEMMA OthersAnswers ==
  ASSUME Refs, AnswerInv, NEW x \in Slots, slot[x].pc \notin {"idle", "create"}, NEW r, NEW q, Moved(x, r, q),
         acked' \subseteq acked \cup ({slot[x].app} \X Keys), byAI' \subseteq byAI \cup {slot[x].app},
         overlapped \subseteq overlapped', NEW b \in Made \ overlapped', b # slot[x].app
  PROVE  AnswersHeld(b)'
<1> DEFINE a == slot[x].app
<1>1. a \in Made /\ b # 0
  BY SlotRow, Ids DEF Made
<1>2. row'[b] = row[b]
  BY <1>1, RowPut DEF Moved
<1>3. slot'[x] = r /\ r.app # b /\ \A y \in Slots : y # x => slot'[y] = slot[y]
  BY <1>1, SlotPut DEF Moved
<1>4. AnswersHeld(b)
  BY DEF AnswerInv
<1>5. \A y \in Slots : Saving(y, b)' => Saving(y, b) /\ slot'[y].seen = slot[y].seen
  BY <1>3 DEF Saving
<1>6. \A y \in Slots : slot'[y].pc = "mark" /\ slot'[y].app = b => slot[y].pc = "mark" /\ slot[y].app = b
  BY <1>3
<1>7. (\A k \in Keys : <<b, k>> \in acked' => <<b, k>> \in acked) /\ (b \in byAI' => b \in byAI)
  OBVIOUS
<1> QED BY <1>2, <1>4, <1>5, <1>6, <1>7, UntouchedAnswers

\* and the ghosts that a function call's step writes
LEMMA StepGhosts ==
  ASSUME Refs, AnswerInv, NEW x \in Slots, Step(x)
  PROVE  /\ slot[x].pc \notin {"idle", "create"}
         /\ acked' \subseteq acked \cup ({slot[x].app} \X Keys) /\ byAI' \subseteq byAI \cup {slot[x].app}
         /\ overlapped \subseteq overlapped' /\ overlapped' \subseteq overlapped \cup {slot[x].app}
<1>1. slot[x].pc \notin {"idle", "create"}
  BY DEF Step, Link, Invalid, SaveColumn, ReadCustom, WriteCustom, MarkCompleted, ForwardCheck, Texted, NotTexted
<1>2. ASSUME SaveColumn(x) \/ WriteCustom(x)
      PROVE  acked' \subseteq acked \cup ({slot[x].app} \X Keys) /\ UNCHANGED <<byAI, overlapped>>
  <2>1. slot[x].key \in Keys
    BY <1>2, ApplicationsAssumption DEF SaveColumn, WriteCustom, Refs, SlotOK
  <2> QED BY <1>2, <2>1 DEF SaveColumn, WriteCustom, Ack
<1>3. ASSUME ReadCustom(x)
      PROVE  /\ overlapped \subseteq overlapped' /\ overlapped' \subseteq overlapped \cup {slot[x].app}
             /\ UNCHANGED <<acked, byAI>>
  BY <1>3 DEF ReadCustom
<1>4. ASSUME MarkCompleted(x) PROVE byAI' \subseteq byAI \cup {slot[x].app} /\ UNCHANGED <<acked, overlapped>>
  BY <1>4 DEF MarkCompleted
<1>5. ASSUME Link(x) \/ Invalid(x) \/ ForwardCheck(x) \/ Texted(x) \/ NotTexted(x)
      PROVE  UNCHANGED <<acked, byAI, overlapped>>
  BY <1>5 DEF Link, Invalid, ForwardCheck, Texted, NotTexted, ghosts
<1> QED BY <1>1, <1>2, <1>3, <1>4, <1>5 DEF Step

\* the application the step is about
LEMMA OwnAnswers ==
  ASSUME Refs, AnswerInv, NEW x \in Slots, Step(x), NEW a, a = slot[x].app, a \notin overlapped'
  PROVE  AnswersHeld(a)'
<1>1. PICK r, q : Moved(x, r, q)
  BY StepMoves
<1>2. slot[x].pc \notin {"idle", "create"} /\ overlapped \subseteq overlapped'
  BY StepGhosts
<1>3. a \in Made /\ a # 0 /\ row[a] \in AppRow /\ slot[x] \in SlotSet
  BY <1>2, SlotRow
<1>4. row'[a] = q /\ slot'[x] = r /\ (\A y \in Slots : y # x => slot'[y] = slot[y])
  BY <1>1, <1>3, RowPut, SlotPut DEF Moved
<1>5. AnswersHeld(a) /\ a \notin overlapped
  BY <1>2, <1>3 DEF AnswerInv
<1>6. ASSUME row'[a].filled = row[a].filled, r.pc \notin {"merge", "mark"},
             \A k \in Keys : <<a, k>> \in acked' => <<a, k>> \in acked,
             a \in byAI' => a \in byAI \/ Required \subseteq row[a].filled
      PROVE  AnswersHeld(a)'
  <2>1. \A y \in Slots : Saving(y, a)' => Saving(y, a) /\ slot'[y].seen = slot[y].seen
    BY <1>4, <1>6 DEF Saving
  <2>2. \A y \in Slots : slot'[y].pc = "mark" /\ slot'[y].app = a => slot[y].pc = "mark" /\ slot[y].app = a
    BY <1>4, <1>6
  <2> QED BY <1>5, <1>6, <2>1, <2>2, UntouchedAnswers
<1>7. CASE Link(x)
  <2>1. PICK s, t : Moved(x, s, t) /\ s.pc \in {"idle", "save"} /\ t.filled = row[a].filled
    BY <1>7, LinkMoves
  <2>2. row'[a] = t
    BY <1>3, <2>1, RowPut DEF Moved
  <2>3. slot'[x] = s
    BY <2>1, SlotPut DEF Moved
  <2>4. acked' = acked /\ byAI' = byAI
    BY <1>7 DEF Link, ghosts
  <2> QED BY <1>4, <1>6, <2>1, <2>2, <2>3, <2>4
<1>8. CASE Invalid(x) \/ NotTexted(x)
  <2>1. row' = row /\ slot' = [slot EXCEPT ![x] = NoFn] /\ acked' = acked /\ byAI' = byAI
    BY <1>8 DEF Invalid, NotTexted, ghosts
  <2>2. r = NoFn
    BY <1>4, <2>1 DEF Refs
  <2> QED BY <1>6, <2>1, <2>2, NoFnType
<1>9. CASE ForwardCheck(x)
  <2>1. row' = row /\ acked' = acked /\ byAI' = byAI
        /\ \E s \in {NoFn, [slot[x] EXCEPT !.pc = "texting"]} : slot' = [slot EXCEPT ![x] = s]
    BY <1>9 DEF ForwardCheck
  <2>2. r \in {NoFn, [slot[x] EXCEPT !.pc = "texting"]}
    BY <1>4, <2>1 DEF Refs
  <2>3. r.pc \in {"idle", "texting"}
    BY <1>3, <2>2, NoFnType DEF SlotSet
  <2> QED BY <1>6, <2>1, <2>3
<1>10. CASE Texted(x)
  <2>1. row' = [row EXCEPT ![a] = [row[a] EXCEPT !.forwarded = TRUE]] /\ slot' = [slot EXCEPT ![x] = NoFn]
        /\ acked' = acked /\ byAI' = byAI
    BY <1>10 DEF Texted
  <2>2. r = NoFn /\ row'[a].filled = row[a].filled
    BY <1>3, <1>4, <2>1 DEF Refs, AppRow
  <2> QED BY <1>6, <2>1, <2>2, NoFnType
<1>11. CASE MarkCompleted(x)
  <2>1. row' = [row EXCEPT ![a] = [row[a] EXCEPT !.status = "completed"]] /\ slot' = [slot EXCEPT ![x] = AfterAnswer(x, a)]
        /\ acked' = acked /\ slot[x].pc = "mark"
    BY <1>11 DEF MarkCompleted
  <2>2. r = AfterAnswer(x, a) /\ row'[a].filled = row[a].filled
    BY <1>3, <1>4, <2>1 DEF Refs, AppRow
  <2>3. Required \subseteq row[a].filled
    BY <1>5, <2>1 DEF AnswersHeld
  <2>4. r.pc \in {"idle", "forward"}
    BY <1>3, <2>2, AnswerType
  <2> QED BY <1>6, <2>1, <2>2, <2>3, <2>4
<1>12. CASE ReadCustom(x)
  <2>1. row' = row /\ acked' = acked /\ byAI' = byAI /\ slot[x].key \in Custom
        /\ slot' = [slot EXCEPT ![x] = [slot[x] EXCEPT !.pc = "merge", !.seen = row[a].filled \cap Custom]]
        /\ ~\E y \in Slots : Saving(y, a)
    BY <1>12 DEF ReadCustom, Saving
  <2>2. slot'[x].pc = "merge" /\ slot'[x].seen = row[a].filled \cap Custom
    BY <1>3, <2>1 DEF Refs, SlotSet
  <2> QED BY <1>4, <1>5, <2>1, <2>2 DEF AnswersHeld, Saving
<1>13. CASE SaveColumn(x)
  <2>1. row' = [row EXCEPT ![a] = [row[a] EXCEPT !.filled = row[a].filled \cup {slot[x].key}]]
        /\ slot' = [slot EXCEPT ![x] = NoFn] /\ acked' = acked \cup {<<a, slot[x].key>>} /\ byAI' = byAI
        /\ slot[x].key \notin Custom
    BY <1>13 DEF SaveColumn, Ack
  <2>2. r = NoFn /\ row'[a].filled = row[a].filled \cup {slot[x].key}
    BY <1>3, <1>4, <2>1 DEF Refs, AppRow
  <2>3. row'[a].filled \cap Custom = row[a].filled \cap Custom
    BY <2>1, <2>2
  <2>4. \A y \in Slots : slot'[y].pc \notin {"idle"} => slot'[y] = slot[y]
    BY <1>4, <2>2, NoFnType
  <2> QED BY <1>5, <2>1, <2>2, <2>3, <2>4 DEF AnswersHeld, Saving
<1>14. CASE WriteCustom(x)
  <2>1. row' = [row EXCEPT ![a] = [row[a] EXCEPT !.filled = Merged(x)]]
        /\ slot' = [slot EXCEPT ![x] = NoFn] /\ acked' = acked \cup {<<a, slot[x].key>>} /\ byAI' = byAI
        /\ Saving(x, a)
    BY <1>14 DEF WriteCustom, Ack, Saving
  <2>2. Merged(x) = row[a].filled \cup {slot[x].key}
    BY <1>5, <2>1 DEF Merged, AnswersHeld
  <2>3. r = NoFn /\ row'[a].filled = row[a].filled \cup {slot[x].key}
    BY <1>3, <1>4, <2>1, <2>2 DEF Refs, AppRow
  <2>4. \A y \in Slots : slot'[y].pc \notin {"idle"} => slot'[y] = slot[y] /\ y # x
    BY <1>4, <2>3, NoFnType
  <2>5. \A y \in Slots : ~Saving(y, a)'
    BY <1>5, <2>1, <2>4 DEF AnswersHeld, Saving
  <2> QED BY <1>5, <2>1, <2>3, <2>4, <2>5 DEF AnswersHeld
<1> QED BY <1>7, <1>8, <1>9, <1>10, <1>11, <1>12, <1>13, <1>14 DEF Step

LEMMA StepAnswers == ASSUME Refs, AnswerInv, NEW x \in Slots, Step(x) PROVE AnswerInv'
<1>1. PICK r, q : Moved(x, r, q)
  BY StepMoves
<1>2. /\ slot[x].pc \notin {"idle", "create"}
      /\ acked' \subseteq acked \cup ({slot[x].app} \X Keys) /\ byAI' \subseteq byAI \cup {slot[x].app}
      /\ overlapped \subseteq overlapped' /\ overlapped' \subseteq overlapped \cup {slot[x].app}
  BY StepGhosts
<1>3. slot[x].app \in Made /\ Made' = Made
  BY <1>1, <1>2, SlotRow DEF Moved, Made
<1>4. ASSUME NEW a \in Made \ overlapped' PROVE AnswersHeld(a)'
  BY <1>1, <1>2, OwnAnswers, OthersAnswers
<1>5. acked' \in SUBSET (Made \X Keys) /\ byAI' \in SUBSET Made /\ overlapped' \in SUBSET Made
  BY <1>2, <1>3 DEF AnswerInv
<1> QED BY <1>3, <1>4, <1>5 DEF AnswerInv

\* the page's and the clock's steps keep every answer
LEMMA AnswerStep == ASSUME Refs, AnswerInv, [Next]_vars PROVE AnswerInv'
<1>1. ASSUME NEW x \in Slots, Begins(x) \/ Create(x) \/ Step(x) PROVE AnswerInv'
  BY <1>1, BeginAnswers, CreateAnswers, StepAnswers
<1>2. ASSUME slot' = slot, UNCHANGED <<acked, overlapped, byAI>>, Made' = Made,
             \A a \in Made : row'[a].filled = row[a].filled
      PROVE  AnswerInv'
  <2>1. ASSUME NEW a \in Made \ overlapped PROVE AnswersHeld(a)'
    BY <1>2 DEF AnswerInv, AnswersHeld, Saving
  <2> QED BY <1>2, <2>1 DEF AnswerInv
<1>3. ASSUME NEW a \in AppIds, Ages(a) PROVE AnswerInv'
  <2>1. /\ a \in Made /\ Made' = Made /\ row[a] \in AppRow
        /\ row'[a] = [row[a] EXCEPT !.fresh = FALSE] /\ (\A b \in Made : b # a => row'[b] = row[b])
        /\ UNCHANGED <<slot, acked, overlapped, byAI>>
    BY <1>3, AgedRow DEF ghosts
  <2>2. row'[a].filled = row[a].filled
    BY <2>1 DEF AppRow
  <2> QED BY <1>2, <2>1, <2>2
<1>4. ASSUME NEW d \in Reviewers, PutStatus(d) PROVE AnswerInv'
  <2> DEFINE a == page[d].app
  <2>1. /\ a \in Made /\ Made' = Made /\ row[a] \in AppRow
        /\ row'[a] = [row[a] EXCEPT !.status = page[d].what] /\ (\A b \in Made : b # a => row'[b] = row[b])
        /\ UNCHANGED <<slot, acked, overlapped, byAI>>
    BY <1>4, PutPage
  <2>2. row'[a].filled = row[a].filled
    BY <2>1 DEF AppRow
  <2> QED BY <1>2, <2>1, <2>2
<1>5. ASSUME UNCHANGED <<made, row, slot, acked, overlapped, byAI>> PROVE AnswerInv'
  BY <1>2, <1>5 DEF Made
<1>6. ASSUME NEW d \in Reviewers, NEW a \in AppIds, NEW w \in Statuses, ChangeStatus(d, a, w) PROVE AnswerInv'
  BY <1>5, <1>6 DEF ChangeStatus, ghosts
<1>7. ASSUME NEW c \in Calls, End(c) PROVE AnswerInv'
  BY <1>5, <1>7 DEF End, ghosts
<1>8. CASE UNCHANGED vars
  BY <1>5, <1>8 DEF vars, ghosts
<1> QED BY <1>1, <1>3, <1>4, <1>6, <1>7, <1>8 DEF Next, Fn, Step, Begins

-----------------------------------------------------------------------------
(* Decisions                                                               *)

\* what the steps of a function call do to its row, other than to the answers
LEMMA StepRow ==
  ASSUME Refs, NEW x \in Slots, Step(x), NEW a, a = slot[x].app
  PROVE  /\ ~MarkCompleted(x) => row'[a].status = row[a].status
         /\ MarkCompleted(x) => row'[a].status = "completed"
         /\ row[a].forwarded => row'[a].forwarded
         /\ Texted(x) => row'[a].forwarded
         /\ ~ForwardCheck(x) => slot'[x].pc # "texting"
<1>1. slot[x].pc \notin {"idle", "create"}
  BY DEF Step, Link, Invalid, SaveColumn, ReadCustom, WriteCustom, MarkCompleted, ForwardCheck, Texted, NotTexted
<1>2. slot[x] \in SlotSet /\ a \in Made /\ row[a] \in AppRow
  BY <1>1, SlotRow
<1>3. CASE Link(x)
  <2>1. PICK r, q : Moved(x, r, q) /\ r.pc \in {"idle", "save"} /\ q.status = row[a].status /\ q.forwarded = row[a].forwarded
    BY <1>3, LinkMoves
  <2>2. row'[a] = q
    BY <1>2, <2>1, RowPut DEF Moved
  <2>3. slot'[x] = r
    BY <2>1, SlotPut DEF Moved
  <2>4. ~MarkCompleted(x) /\ ~Texted(x)
    BY <1>3 DEF Link, MarkCompleted, Texted
  <2> QED BY <2>1, <2>2, <2>3, <2>4
<1>9. CASE Texted(x)
  <2>1. row' = [row EXCEPT ![a] = [row[a] EXCEPT !.forwarded = TRUE]] /\ slot' = [slot EXCEPT ![x] = NoFn]
        /\ ~MarkCompleted(x)
    BY <1>9 DEF MarkCompleted, Texted
  <2>2. row'[a].status = row[a].status /\ row'[a].forwarded
    BY <1>2, <2>1 DEF Refs, AppRow
  <2> QED BY <2>1, <2>2, NoFnType DEF Refs
<1>4. CASE (Invalid(x) \/ NotTexted(x)) /\ ~Texted(x)
  <2>1. row' = row /\ slot' = [slot EXCEPT ![x] = NoFn] /\ ~MarkCompleted(x)
    BY <1>4 DEF Invalid, NotTexted, MarkCompleted
  <2> QED BY <1>4, <2>1, NoFnType DEF Refs
<1>5. CASE SaveColumn(x) \/ WriteCustom(x)
  <2>1. \E K : row' = [row EXCEPT ![a] = [row[a] EXCEPT !.filled = K]]
    BY <1>5 DEF SaveColumn, WriteCustom
  <2>2. slot' = [slot EXCEPT ![x] = NoFn] /\ ~MarkCompleted(x) /\ ~Texted(x)
    BY <1>5 DEF SaveColumn, WriteCustom, MarkCompleted, Texted
  <2>3. row'[a].status = row[a].status /\ row'[a].forwarded = row[a].forwarded
    BY <1>2, <2>1 DEF Refs, AppRow
  <2> QED BY <2>2, <2>3, NoFnType DEF Refs
<1>6. CASE ReadCustom(x)
  <2>1. row' = row /\ slot' = [slot EXCEPT ![x] = [slot[x] EXCEPT !.pc = "merge", !.seen = row[a].filled \cap Custom]]
        /\ ~MarkCompleted(x) /\ ~Texted(x)
    BY <1>6 DEF ReadCustom, MarkCompleted, Texted
  <2>2. slot'[x].pc = "merge"
    BY <1>2, <2>1 DEF Refs, SlotSet
  <2> QED BY <2>1, <2>2
<1>7. CASE MarkCompleted(x)
  <2>1. row' = [row EXCEPT ![a] = [row[a] EXCEPT !.status = "completed"]] /\ slot' = [slot EXCEPT ![x] = AfterAnswer(x, a)]
        /\ ~Texted(x)
    BY <1>7 DEF MarkCompleted, Texted
  <2>2. row'[a].status = "completed" /\ row'[a].forwarded = row[a].forwarded
    BY <1>2, <2>1 DEF Refs, AppRow
  <2>3. slot'[x] = AfterAnswer(x, a)
    BY <2>1 DEF Refs
  <2>4. slot'[x].pc \in {"idle", "forward"}
    BY <1>2, <2>3, AnswerType
  <2> QED BY <1>7, <2>1, <2>2, <2>4
<1>8. CASE ForwardCheck(x)
  <2>1. row' = row /\ ~MarkCompleted(x) /\ ~Texted(x)
    BY <1>8 DEF ForwardCheck, MarkCompleted, Texted
  <2> QED BY <1>8, <2>1
<1> QED BY <1>3, <1>4, <1>5, <1>6, <1>7, <1>8, <1>9 DEF Step

LEMMA BeginDecisions == ASSUME Refs, DecisionInv, NEW x \in Slots, Begins(x) PROVE DecisionInv'
<1>1. PICK r : Begun(x, r) /\ slot' = [slot EXCEPT ![x] = r]
  BY CallBegins
<1>2. slot'[x] = r /\ \A y \in Slots : y # x => slot'[y] = slot[y]
  BY <1>1, SlotPut DEF Begun
<1>3. UNCHANGED <<made, row, app, ended, page, undone, atRisk>>
  BY CallBegins DEF decisions
<1>4. ASSUME NEW a \in Made \ atRisk, row[a].status \in Decided PROVE Free(a)'
  <2>1. Free(a) /\ a # 0 /\ CallOf[x] \in Calls
    BY <1>4, ApplicationsAssumption DEF DecisionInv, Made
  <2>2. r.app # a
    BY <1>1, <1>4, <2>1 DEF Begun, Free, Decided
  <2> QED BY <1>2, <1>3, <2>1, <2>2 DEF Free
<1> QED BY <1>3, <1>4 DEF DecisionInv, Made

LEMMA CreateDecisions == ASSUME Refs, DecisionInv, NEW x \in Slots, Create(x) PROVE DecisionInv'
<1>1. /\ made' \notin Made /\ Made' = Made \cup {made'} /\ (\A a \in Made : row'[a] = row[a])
      /\ row'[made'] = NewApp(Phone(x)) /\ slot'[x].app = made' /\ (\A y \in Slots : y # x => slot'[y] = slot[y])
      /\ UNCHANGED <<app, ended, page, undone, atRisk>>
  BY Created DEF ghosts, decisions
<1>2. row'[made'].status \notin Decided
  BY <1>1 DEF NewApp, Decided
<1>3. ASSUME NEW a \in Made' \ atRisk', row'[a].status \in Decided PROVE Free(a)'
  <2>1. a \in Made /\ a # made' /\ row[a].status \in Decided
    BY <1>1, <1>2, <1>3
  <2>2. Free(a)
    BY <1>1, <1>3, <2>1 DEF DecisionInv
  <2> QED BY <1>1, <2>1, <2>2 DEF Free
<1> QED BY <1>1, <1>3 DEF DecisionInv

LEMMA StepDecisions == ASSUME Refs, DecisionInv, NEW x \in Slots, Step(x) PROVE DecisionInv'
<1> DEFINE a == slot[x].app
<1>1. PICK r, q : Moved(x, r, q)
  BY StepMoves
<1>2. slot[x].pc \notin {"idle", "create"} /\ UNCHANGED <<ended, page>>
  BY DEF Step, Link, Invalid, SaveColumn, ReadCustom, WriteCustom, MarkCompleted, ForwardCheck, Texted, NotTexted
<1>3. a \in Made /\ a # 0
  BY <1>2, SlotRow
<1>4. row'[a] = q /\ Made' = Made /\ (\A b \in Made : b # a => row'[b] = row[b])
  BY <1>1, <1>3, RowPut DEF Moved
<1>5. slot'[x] = r /\ r.app \in {0, a} /\ (\A y \in Slots : y # x => slot'[y] = slot[y])
  BY <1>1, SlotPut DEF Moved
<1>6. \A c \in Calls : app'[c] \in {app[c], a}
  BY DEF Step, Link, Invalid, SaveColumn, ReadCustom, WriteCustom, MarkCompleted, ForwardCheck, Texted, NotTexted, Refs
<1>7. atRisk' = atRisk /\ undone' \subseteq undone \cup (IF row[a].status \in Decided THEN {a} ELSE {})
  <2>1. CASE MarkCompleted(x)
    BY <2>1 DEF MarkCompleted, Remember, Decided
  <2>2. CASE ~MarkCompleted(x)
    BY <2>2 DEF Step, Link, Invalid, SaveColumn, ReadCustom, WriteCustom, ForwardCheck, Texted, NotTexted, ghosts, decisions
  <2> QED BY <2>1, <2>2
<1>8. row[a].status \in Decided => a \in atRisk
  BY <1>3 DEF DecisionInv, Free
<1>9. ASSUME NEW b \in Made \ atRisk, row'[b].status \in Decided PROVE Free(b)'
  <2>1. row[b].status \in Decided
    BY <1>3, <1>4, <1>9, StepRow DEF Decided
  <2>2. Free(b) /\ b # 0
    BY <1>9, <2>1 DEF DecisionInv, Made
  <2>3. b # a
    BY <2>2 DEF Free
  <2> QED BY <1>2, <1>5, <1>6, <2>2, <2>3 DEF Free
<1> QED BY <1>4, <1>7, <1>8, <1>9 DEF DecisionInv

LEMMA PutDecisions == ASSUME Refs, DecisionInv, NEW d \in Reviewers, PutStatus(d) PROVE DecisionInv'
<1> DEFINE a == page[d].app
           w == page[d].what
<1>1. /\ a \in Made /\ Made' = Made /\ row[a] \in AppRow /\ w \in Statuses \ {"in_progress"}
      /\ row'[a] = [row[a] EXCEPT !.status = w] /\ (\A b \in Made : b # a => row'[b] = row[b])
      /\ page'[d] = NoPut /\ (\A e \in Reviewers : e # d => page'[e] = page[e])
      /\ Remember(a, d, w) /\ UNCHANGED <<app, ended, slot>>
  BY PutPage
<1>2. row'[a].status = w /\ NoPut.app = 0 /\ \A b \in Made : b # 0
  BY <1>1 DEF AppRow, NoPut, Made
<1>3. row[a].status \in Decided /\ w \notin Decided => a \in atRisk
  BY <1>1 DEF DecisionInv, Free
<1>4. undone' \subseteq atRisk' /\ atRisk \subseteq atRisk' /\ atRisk' \in SUBSET Made
  BY <1>1, <1>3 DEF Remember, DecisionInv
<1>5. ASSUME NEW b \in Made \ atRisk', row'[b].status \in Decided PROVE Free(b)'
  <2>1. b \notin atRisk /\ page'[d].app # b
    BY <1>1, <1>2, <1>4, <1>5
  <2>2. CASE row[b].status \in Decided
    <3>1. Free(b)
      BY <2>1, <2>2 DEF DecisionInv
    <3> QED BY <1>1, <2>1, <3>1 DEF Free
  <2>3. CASE row[b].status \notin Decided
    <3>1. b = a /\ w \in Decided
      BY <1>1, <1>2, <1>5, <2>3
    <3>2. ~Held(b, d)
      BY <1>1, <1>5, <2>3, <3>1 DEF Remember
    <3>3. d \notin Slots
      BY ApplicationsAssumption
    <3> QED BY <1>1, <2>1, <3>2, <3>3 DEF Held, Free
  <2> QED BY <2>2, <2>3
<1> QED BY <1>1, <1>4, <1>5 DEF DecisionInv

LEMMA DecisionStep == ASSUME Refs, DecisionInv, [Next]_vars PROVE DecisionInv'
<1>1. ASSUME NEW x \in Slots, Begins(x) \/ Create(x) \/ Step(x) PROVE DecisionInv'
  BY <1>1, BeginDecisions, CreateDecisions, StepDecisions
<1>2. ASSUME NEW d \in Reviewers, PutStatus(d) PROVE DecisionInv'
  BY <1>2, PutDecisions
<1>3. ASSUME Made' = Made, \A a \in Made : row'[a].status = row[a].status, ended \subseteq ended',
             UNCHANGED <<app, slot, undone, atRisk>>,
             \A d \in Reviewers : \/ page'[d] = page[d]
                                  \/ page'[d].app \in Made /\ page'[d].what \in Allowed(row[page'[d].app].status)
      PROVE  DecisionInv'
  <2>1. ASSUME NEW a \in Made \ atRisk, row[a].status \in Decided PROVE Free(a)'
    <3>1. Free(a)
      BY <2>1 DEF DecisionInv
    <3>2. Allowed(row[a].status) \subseteq Decided
      BY <2>1 DEF Allowed, Decided
    <3> QED BY <1>3, <3>1, <3>2 DEF Free
  <2> QED BY <1>3, <2>1 DEF DecisionInv
<1>4. ASSUME NEW a \in AppIds, Ages(a) PROVE DecisionInv'
  <2>1. /\ a \in Made /\ Made' = Made /\ row[a] \in AppRow
        /\ row'[a] = [row[a] EXCEPT !.fresh = FALSE] /\ (\A b \in Made : b # a => row'[b] = row[b])
        /\ UNCHANGED <<app, ended, slot, page, undone, atRisk>>
    BY <1>4, AgedRow DEF ghosts, decisions
  <2>2. row'[a].status = row[a].status
    BY <2>1 DEF AppRow
  <2> QED BY <1>3, <2>1, <2>2
<1>5. ASSUME NEW d \in Reviewers, NEW a \in AppIds, NEW w \in Statuses, ChangeStatus(d, a, w) PROVE DecisionInv'
  <2>1. /\ a \in Made /\ w \in Allowed(row[a].status) /\ page'[d] = [app |-> a, what |-> w]
        /\ (\A e \in Reviewers : e # d => page'[e] = page[e])
        /\ UNCHANGED <<made, row, app, ended, slot, undone, atRisk>>
    BY <1>5, ChangedPage DEF ghosts, decisions
  <2> QED BY <1>3, <2>1 DEF Made
<1>6. ASSUME NEW c \in Calls, End(c) PROVE DecisionInv'
  <2>1. ended \subseteq ended' /\ UNCHANGED <<made, row, app, slot, page, undone, atRisk>>
    BY <1>6 DEF End, ghosts, decisions
  <2> QED BY <1>3, <2>1 DEF Made
<1>7. CASE UNCHANGED vars
  BY <1>3, <1>7 DEF vars, ghosts, decisions, Made
<1> QED BY <1>1, <1>2, <1>4, <1>5, <1>6, <1>7 DEF Next, Fn, Step, Begins

-----------------------------------------------------------------------------
(* Summaries to the owner                                                  *)

\* an application about which nobody begins to text, and nobody has texted just now
LEMMA UntouchedTold ==
  ASSUME NEW a, ToldOnce(a), texted'[a] = texted[a], row[a].forwarded => row'[a].forwarded,
         \A y \in Slots : Texting(y, a)' => Texting(y, a)
  PROVE  ToldOnce(a)'
BY DEF ToldOnce

LEMMA BeginForwards == ASSUME Refs, ForwardInv, NEW x \in Slots, Begins(x) PROVE ForwardInv'
<1>1. PICK r : Begun(x, r) /\ slot' = [slot EXCEPT ![x] = r]
  BY CallBegins
<1>2. slot'[x] = r /\ r.pc # "texting" /\ \A y \in Slots : y # x => slot'[y] = slot[y]
  BY <1>1, SlotPut DEF Begun
<1>3. UNCHANGED <<made, row, texted, together>>
  BY CallBegins DEF told
<1>4. ASSUME NEW a \in Made \ together PROVE ToldOnce(a)'
  <2>1. \A y \in Slots : Texting(y, a)' => Texting(y, a)
    BY <1>2 DEF Texting
  <2> QED BY <1>3, <2>1, UntouchedTold DEF ForwardInv
<1> QED BY <1>3, <1>4 DEF ForwardInv, Made

LEMMA CreateForwards == ASSUME Refs, ForwardInv, NEW x \in Slots, Create(x) PROVE ForwardInv'
<1>1. /\ made' \notin Made /\ Made' = Made \cup {made'} /\ (\A a \in Made : row'[a] = row[a])
      /\ slot'[x].pc = "link" /\ (\A y \in Slots : y # x => slot'[y] = slot[y])
      /\ UNCHANGED <<texted, together>>
  BY Created DEF ghosts, told
<1>2. made' \in AppIds
  BY Created, Ids DEF AppIds
<1>4. ASSUME NEW a PROVE \A y \in Slots : Texting(y, a)' => Texting(y, a)
  BY <1>1 DEF Texting
<1>5. ASSUME NEW a \in Made \ together PROVE ToldOnce(a)'
  BY <1>1, <1>4, UntouchedTold DEF ForwardInv
<1>6. ASSUME NEW m, m = made' PROVE ToldOnce(m)'
  <2>1. \A y \in Slots : slot[y].app # m
    BY <1>1, <1>6, Ids, Created DEF Made
  <2>2. \A y \in Slots : ~Texting(y, m)'
    BY <1>4, <2>1 DEF Texting
  <2>3. texted'[m] = 0
    BY <1>1, <1>2, <1>6 DEF ForwardInv
  <2> QED BY <2>2, <2>3 DEF ToldOnce
<1> QED BY <1>1, <1>5, <1>6 DEF ForwardInv

LEMMA StepForwards == ASSUME Refs, ForwardInv, NEW x \in Slots, Step(x) PROVE ForwardInv'
<1> DEFINE a == slot[x].app
<1>1. PICK r, q : Moved(x, r, q)
  BY StepMoves
<1>2. slot[x].pc \notin {"idle", "create"}
  BY DEF Step, Link, Invalid, SaveColumn, ReadCustom, WriteCustom, MarkCompleted, ForwardCheck, Texted, NotTexted
<1>3. a \in Made /\ a # 0 /\ Made \subseteq AppIds /\ slot[x] \in SlotSet
  BY <1>2, SlotRow, Ids
<1>4. row'[a] = q /\ Made' = Made /\ (\A b \in Made : b # a => row'[b] = row[b])
  BY <1>1, <1>3, RowPut DEF Moved
<1>5. slot'[x] = r /\ r.app \in {0, a} /\ (\A y \in Slots : y # x => slot'[y] = slot[y])
  BY <1>1, SlotPut DEF Moved
<1>6. row[a].forwarded => row'[a].forwarded
  BY StepRow
<1>7. /\ texted' \in [AppIds -> Nat] /\ (\A b \in AppIds : b # a => texted'[b] = texted[b])
      /\ together \subseteq together' /\ together' \subseteq together \cup {a}
      /\ ~Texted(x) => texted' = texted
      /\ ~ForwardCheck(x) => together' = together
      /\ Texted(x) => texted'[a] = texted[a] + 1
  <2>0. texted \in [AppIds -> Nat]
    BY DEF ForwardInv
  <2>1. CASE Texted(x)
    <3>1. texted' = [texted EXCEPT ![a] = texted[a] + 1] /\ together' = together
      BY <2>1 DEF Texted
    <3>2. texted[a] + 1 \in Nat
      BY <1>3, <2>0
    <3> QED BY <1>3, <2>0, <2>1, <3>1, <3>2
  <2>2. CASE ForwardCheck(x)
    <3>1. texted' = texted /\ ~Texted(x)
      BY <2>2 DEF ForwardCheck, Texted
    <3>2. together \subseteq together' /\ together' \subseteq together \cup {a}
      BY <2>2 DEF ForwardCheck
    <3> QED BY <2>0, <2>2, <3>1, <3>2
  <2>3. CASE ~Texted(x) /\ ~ForwardCheck(x)
    <3>1. texted' = texted /\ together' = together
      BY <2>3 DEF Step, Link, Invalid, SaveColumn, ReadCustom, WriteCustom, MarkCompleted, NotTexted, ghosts, told
    <3> QED BY <2>0, <2>3, <3>1
  <2> QED BY <2>1, <2>2, <2>3
<1>8. ASSUME NEW b \in Made \ together', b # a PROVE ToldOnce(b)'
  <2>1. ToldOnce(b) /\ b # 0
    BY <1>7, <1>8 DEF ForwardInv, Made
  <2>2. \A y \in Slots : Texting(y, b)' => Texting(y, b)
    BY <1>5, <1>8, <2>1 DEF Texting
  <2> QED BY <1>3, <1>4, <1>7, <1>8, <2>1, <2>2, UntouchedTold
<1>9. ASSUME NEW b, b = slot[x].app, b \notin together' PROVE ToldOnce(b)'
  <2>0. ToldOnce(b) /\ texted[b] \in Nat
    BY <1>3, <1>7, <1>9 DEF ForwardInv
  <2>1. CASE Texted(x)
    <3>1. Texting(x, b) /\ slot' = [slot EXCEPT ![x] = NoFn]
      BY <1>9, <2>1 DEF Texted, Texting
    <3>2. texted[b] = 0 /\ \A y \in Slots : Texting(y, b) => y = x
      BY <2>0, <3>1 DEF ToldOnce
    <3>3. slot'[x].pc # "texting"
      BY <2>1, StepRow DEF ForwardCheck, Texted
    <3>4. \A y \in Slots : ~Texting(y, b)'
      BY <1>5, <3>2, <3>3 DEF Texting
    <3>5. texted'[b] = 1 /\ row'[b].forwarded
      BY <1>7, <1>9, <2>1, <3>2, StepRow
    <3> QED BY <3>4, <3>5 DEF ToldOnce
  <2>2. CASE ForwardCheck(x) /\ ~row[b].forwarded
    <3>1. ~Underway(b) /\ row' = row /\ texted' = texted
      BY <1>9, <2>2 DEF ForwardCheck
    <3>2. texted[b] = 0
      BY <2>0, <2>2 DEF ToldOnce
    <3>3. \A y \in Slots : Texting(y, b)' => y = x
      BY <1>5, <3>1 DEF Texting, Underway
    <3> QED BY <3>1, <3>2, <3>3 DEF ToldOnce
  <2>3. CASE ~Texted(x) /\ ~(ForwardCheck(x) /\ ~row[b].forwarded)
    <3>1. slot'[x].pc # "texting"
      <4>1. CASE ForwardCheck(x)
        <5>1. slot' = [slot EXCEPT ![x] = NoFn]
          BY <1>9, <2>3, <4>1 DEF ForwardCheck
        <5> QED BY <5>1, NoFnType DEF Refs
      <4>2. CASE ~ForwardCheck(x)
        BY <4>2, StepRow
      <4> QED BY <4>1, <4>2
    <3>2. \A y \in Slots : Texting(y, b)' => Texting(y, b)
      BY <1>5, <3>1 DEF Texting
    <3> QED BY <1>6, <1>7, <1>9, <2>0, <2>3, <3>2, UntouchedTold
  <2> QED BY <2>1, <2>2, <2>3
<1>10. ASSUME NEW b \in Made \ together' PROVE ToldOnce(b)'
  BY <1>8, <1>9
<1>11. \A b \in AppIds \ Made : texted'[b] = 0
  BY <1>3, <1>7 DEF ForwardInv
<1>12. together' \in SUBSET Made
  BY <1>3, <1>7 DEF ForwardInv
<1>13. AppIds' = AppIds
  BY DEF AppIds
<1> QED BY <1>4, <1>7, <1>10, <1>11, <1>12, <1>13 DEF ForwardInv

LEMMA ForwardStep == ASSUME Refs, ForwardInv, [Next]_vars PROVE ForwardInv'
<1>1. ASSUME NEW x \in Slots, Begins(x) \/ Create(x) \/ Step(x) PROVE ForwardInv'
  BY <1>1, BeginForwards, CreateForwards, StepForwards
<1>2. ASSUME Made' = Made, \A a \in Made : row'[a].forwarded = row[a].forwarded, UNCHANGED <<slot, texted, together>>
      PROVE  ForwardInv'
  <2>1. ASSUME NEW a \in Made \ together PROVE ToldOnce(a)'
    <3>1. \A y \in Slots : Texting(y, a)' => Texting(y, a)
      BY <1>2 DEF Texting
    <3> QED BY <1>2, <3>1, UntouchedTold DEF ForwardInv
  <2> QED BY <1>2, <2>1 DEF ForwardInv
<1>3. ASSUME NEW a \in AppIds, Ages(a) PROVE ForwardInv'
  <2>1. /\ a \in Made /\ Made' = Made /\ row[a] \in AppRow
        /\ row'[a] = [row[a] EXCEPT !.fresh = FALSE] /\ (\A b \in Made : b # a => row'[b] = row[b])
        /\ UNCHANGED <<slot, texted, together>>
    BY <1>3, AgedRow DEF ghosts, told
  <2>2. row'[a].forwarded = row[a].forwarded
    BY <2>1 DEF AppRow
  <2> QED BY <1>2, <2>1, <2>2
<1>4. ASSUME NEW d \in Reviewers, PutStatus(d) PROVE ForwardInv'
  <2> DEFINE a == page[d].app
  <2>1. /\ a \in Made /\ Made' = Made /\ row[a] \in AppRow
        /\ row'[a] = [row[a] EXCEPT !.status = page[d].what] /\ (\A b \in Made : b # a => row'[b] = row[b])
        /\ UNCHANGED <<slot, texted, together>>
    BY <1>4, PutPage DEF told
  <2>2. row'[a].forwarded = row[a].forwarded
    BY <2>1 DEF AppRow
  <2> QED BY <1>2, <2>1, <2>2
<1>5. ASSUME UNCHANGED <<made, row, slot, texted, together>> PROVE ForwardInv'
  BY <1>2, <1>5 DEF Made
<1>6. ASSUME NEW d \in Reviewers, NEW a \in AppIds, NEW w \in Statuses, ChangeStatus(d, a, w) PROVE ForwardInv'
  BY <1>5, <1>6 DEF ChangeStatus, ghosts, told
<1>7. ASSUME NEW c \in Calls, End(c) PROVE ForwardInv'
  BY <1>5, <1>7 DEF End, ghosts, told
<1>8. CASE UNCHANGED vars
  BY <1>5, <1>8 DEF vars, ghosts, told
<1> QED BY <1>1, <1>3, <1>4, <1>6, <1>7, <1>8 DEF Next, Fn, Step, Begins

-----------------------------------------------------------------------------
(* The invariant                                                           *)

LEMMA CountsStep == ASSUME Refs, Counts, [Next]_vars PROVE Counts'
<1>0. MaxFns \in Nat /\ MaxReviews \in Nat
  BY ApplicationsAssumption
<1>1. ASSUME NEW x \in Slots, Begins(x) PROVE Counts'
  BY <1>0, <1>1, CallBegins DEF Counts
<1>2. CASE UNCHANGED <<cast, ended, fns, reviews>>
  BY <1>2 DEF Counts
<1>3. ASSUME NEW x \in Slots, Fn(x) PROVE UNCHANGED <<cast, ended, fns, reviews>>
  BY <1>3 DEF Fn, Create, Link, Invalid, SaveColumn, ReadCustom, WriteCustom, MarkCompleted, ForwardCheck, Texted, NotTexted
<1>4. ASSUME NEW c \in Calls, End(c) PROVE Counts'
  BY <1>4 DEF Counts, End
<1>5. ASSUME NEW a \in AppIds, Ages(a) PROVE UNCHANGED <<cast, ended, fns, reviews>>
  BY <1>5 DEF Ages
<1>6. ASSUME NEW d \in Reviewers, NEW a \in AppIds, NEW w \in Statuses, ChangeStatus(d, a, w) PROVE Counts'
  BY <1>0, <1>6 DEF Counts, ChangeStatus
<1>7. ASSUME NEW d \in Reviewers, PutStatus(d) PROVE UNCHANGED <<cast, ended, fns, reviews>>
  BY <1>7 DEF PutStatus
<1>8. CASE UNCHANGED vars
  BY <1>2, <1>8 DEF vars
<1> QED BY <1>1, <1>2, <1>3, <1>4, <1>5, <1>6, <1>7, <1>8 DEF Next, Begins

LEMMA InitIInv == Init => IInv
<1> SUFFICES ASSUME Init PROVE IInv
  OBVIOUS
<1>0. MaxApps \in Nat /\ MaxFns \in Nat /\ MaxReviews \in Nat /\ 0 \in 0..MaxApps /\ 0 \in 0..0
  BY ApplicationsAssumption
<1>1. Made = {} /\ made = 0
  BY DEF Init, Made
<1>2. Counts
  BY <1>0 DEF Init, Counts
<1>3. Refs
  <2>1. row \in [Made -> AppRow] /\ app \in [Calls -> 0..made]
    BY <1>0, <1>1 DEF Init
  <2>2. slot \in [Slots -> SlotSet] /\ \A x \in Slots : slot[x] = NoFn
    BY NoFnType DEF Init
  <2>3. page \in [Reviewers -> PutSet] /\ \A d \in Reviewers : page[d] = NoPut
    BY <1>0 DEF Init, PutSet, NoPut
  <2>4. \A x \in Slots : SlotOK(x)
    BY <1>0, <1>1, <2>2, NoFnType DEF SlotOK
  <2> QED BY <1>0, <1>1, <2>1, <2>2, <2>3, <2>4 DEF Refs, PutOK
<1>4. DraftInv
  <2>1. ASSUME NEW p \in Phones PROVE Cardinality(Resumable(p)) = 0 /\ Cardinality(Inserting(p)) = 0
    <3>1. Resumable(p) = {}
      BY <1>1 DEF Resumable
    <3>2. Inserting(p) = {}
      BY NoFnType DEF Init, Inserting
    <3> QED BY <3>1, <3>2, FS_EmptySet
  <2>2. \A p \in Phones : peak[p] = 0
    BY DEF Init
  <2>3. peak \in [Phones -> Nat]
    BY DEF Init
  <2> QED BY <2>1, <2>2, <2>3 DEF DraftInv
<1>5. AnswerInv
  BY <1>1 DEF Init, AnswerInv
<1>6. DecisionInv
  BY <1>1 DEF Init, DecisionInv
<1>7. ForwardInv
  BY <1>1 DEF Init, ForwardInv
<1> QED BY <1>2, <1>3, <1>4, <1>5, <1>6, <1>7 DEF IInv

LEMMA IInvStep == IInv /\ [Next]_vars => IInv'
BY CountsStep, RefsStep, DraftStep, AnswerStep, DecisionStep, ForwardStep DEF IInv

LEMMA IInvMeans == IInv => AnswersKept /\ DecisionStands /\ OnceEach
<1> SUFFICES ASSUME IInv PROVE AnswersKept /\ DecisionStands /\ OnceEach
  OBVIOUS
<1>0. Counts /\ Refs /\ DraftInv /\ AnswerInv /\ DecisionInv /\ ForwardInv
  BY DEF IInv
<1>1. made \in Nat /\ MaxApps \in Nat /\ made <= MaxApps /\ Made \subseteq AppIds
  BY <1>0, Ids
<1>2. TypeOK
  <2>1. DOMAIN row = Made /\ (\A a \in Made : row[a] \in AppRow) /\ made \in 0..MaxApps
    BY <1>0 DEF Refs
  <2>2. app \in [Calls -> 0..MaxApps]
    <3>1. 0..made \subseteq 0..MaxApps
      BY <1>1
    <3> QED BY <1>0, <3>1 DEF Refs
  <2>3. slot \in [Slots -> SlotSet] /\ page \in [Reviewers -> PutSet]
    BY <1>0 DEF Refs
  <2>4. acked \in SUBSET (AppIds \X Keys) /\ overlapped \in SUBSET AppIds /\ byAI \in SUBSET AppIds
    BY <1>0, <1>1 DEF AnswerInv
  <2>5. undone \in SUBSET AppIds /\ atRisk \in SUBSET AppIds
    BY <1>0, <1>1 DEF DecisionInv
  <2>6. texted \in [AppIds -> Nat] /\ together \in SUBSET AppIds /\ peak \in [Phones -> Nat]
    BY <1>0, <1>1 DEF ForwardInv, DraftInv
  <2> QED BY <1>0, <2>1, <2>2, <2>3, <2>4, <2>5, <2>6 DEF TypeOK, Counts, SlotSet, PutSet
<1>3. AckedKept /\ CompletedAnswered
  BY <1>0 DEF AnswerInv, AnswersHeld, AckedKept, CompletedAnswered
<1>4. DecisionStands
  BY <1>0 DEF DecisionInv, DecisionStands
<1>5. DraftsBounded
  <2>1. ASSUME NEW p \in Phones PROVE Cardinality(Resumable(p)) <= peak[p]
    <3>1. Cardinality(Resumable(p)) \in Nat /\ Cardinality(Inserting(p)) \in Nat
      BY <1>0, Sizes
    <3>2. peak[p] \in Nat /\ Cardinality(Resumable(p)) + Cardinality(Inserting(p)) <= peak[p]
      BY <1>0 DEF DraftInv
    <3> QED BY <3>1, <3>2
  <2> QED BY <2>1 DEF DraftsBounded
<1>6. ForwardedOnce
  <2>1. ASSUME NEW a \in AppIds \ together PROVE texted[a] <= 1
    <3>1. CASE a \in Made
      BY <1>0, <3>1 DEF ForwardInv, ToldOnce
    <3>2. CASE a \notin Made
      <4>1. texted[a] = 0
        BY <1>0, <3>2 DEF ForwardInv
      <4> QED BY <4>1
    <3> QED BY <3>1, <3>2
  <2> QED BY <2>1 DEF ForwardedOnce
<1> QED BY <1>2, <1>3, <1>4, <1>5, <1>6 DEF AnswersKept, OnceEach

LEMMA AlwaysIInv == Spec => []IInv
BY InitIInv, IInvStep, PTL DEF Spec

\* For any calls, conversations, function calls in flight and landlord's pages: an
\* answer the AI said was saved is in the application, and an application it
\* completed has every required answer, whatever it overlaps with, except two saves
\* of custom answers of that application at once.
THEOREM AnswersAreKept == Spec => []AnswersKept
BY AlwaysIInv, IInvMeans, PTL

\* A decision of the landlord is only ever taken back to "completed" by a call, a
\* conversation or a request that held the application when it was made.
THEOREM DecisionsStand == Spec => []DecisionStands
BY AlwaysIInv, IInvMeans, PTL

\* A caller has never more applications in progress than function calls were about
\* to insert one at once, and the owner is texted about an application once, unless
\* two summaries were on their way together.
THEOREM EachOnce == Spec => []OnceEach
BY AlwaysIInv, IInvMeans, PTL
================================================================================
