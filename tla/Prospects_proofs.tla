--------------------------- MODULE Prospects_proofs ---------------------------
(***************************************************************************)
(* Proofs about those who ask for a home, for any phones, visitors,        *)
(* calendars, repeats and failures. By text (SurveyIntake): the promise    *)
(* chain keeps a phone's handlers apart, and with it one live invite per   *)
(* phone and silence after STOP; one application per link; each text       *)
(* handled once; no second application of a phone by the server. By visit  *)
(* (Tours): a time is given away at most as often as its look-ups ran      *)
(* together, what is offered was free, times cut from one slot never       *)
(* overlap, and guests and landlord are told the truth.                    *)
(***************************************************************************)
EXTENDS SurveyIntake, Tours, FiniteSetTheorems, SequenceTheorems, TLAPS

-----------------------------------------------------------------------------
(* Texts, links and submissions                                            *)

(* The steps of a handler that has started.                                *)
Working == {"lookup", "invite", "mint", "persist", "append", "reply"}

(* A handler that has started is the head of its phone's chain; while it   *)
(* answers with a link its phone is not opted out, and while it is about   *)
(* to mint an invite its phone has none.                                   *)
RunOK(d) ==
    /\ ~At(d, "idle") /\ ~At(d, "done") => run[d].msg \in Messages
    /\ run[d].step \in Working => chain[Phone(d)] # <<>> /\ Head(chain[Phone(d)]) = d
    /\ At(d, "waiting") => run[d].kind = "none"
    /\ (run[d].step \in Working /\ run[d].kind = "link")
          \/ run[d].step \in {"lookup", "invite", "mint"} => Phone(d) \notin optOut
    /\ At(d, "mint") => \A t \in Tokens : Live(t) => invite[t].phone # Phone(d)

Linked == {"claim", "check", "commit", "site claim", "site create", "site link"}
Locking == {"check", "commit"}

Unapplied(t) == \A a \in Apps : app[a].token # t

(* A submission under the row lock, or past the site's claim, is alone.    *)
FormOK(f) ==
    /\ ~Is(f, "idle") /\ ~Is(f, "to come") => form[f].phone \in Phones
    /\ form[f].step \in Linked => /\ form[f].token \in Tokens
                                  /\ invite[form[f].token].phone # "none"
    /\ form[f].step \in Locking => ~invite[form[f].token].used /\ Unapplied(form[f].token)
    /\ Is(f, "site create") => invite[form[f].token].used /\ Unapplied(form[f].token)
    /\ Is(f, "site link") => form[f].app \in Apps
    /\ Is(f, "web create") => form[f].token = 0

Apart == \A f, g \in Forms :
    /\ form[f].token = form[g].token
    /\ \/ form[f].step \in Locking /\ form[g].step \in Locking
       \/ Is(f, "site create") /\ Is(g, "site create")
    => f = g

InviteOK == \A t \in Tokens : invite[t].used => invite[t].phone # "none"
AppOK    == \A a \in Apps : app[a].token # 0 => invite[app[a].token].used

RunsOK  == \A d \in Deliveries : RunOK(d)
FormsOK == \A f \in Forms : FormOK(f)

TextInv == TypeOK /\ RunsOK /\ OneLiveInvite
LinkInv == FormsOK /\ Apart /\ InviteOK /\ AppOK /\ ClaimedOnce

-----------------------------------------------------------------------------
LEMMA InitInv == Init => TextInv /\ LinkInv
<1> SUFFICES ASSUME Init PROVE TextInv /\ LinkInv
  OBVIOUS
<1> USE DEF Init
<1>1. TypeOK
  <2>1. run \in [Deliveries -> Run]
    BY DEF NoRun, Run, RunSteps
  <2>2. form \in [Forms -> Form]
    BY DEF NewForm, Form, FormSteps
  <2>3. invite \in [Tokens -> Invite] /\ app \in [Apps -> App]
    BY DEF NoInvite, Invite, NoApp, App, Paths
  <2>4. chain \in [Phones -> Seq(Deliveries)]
    OBVIOUS
  <2> QED BY <2>1, <2>2, <2>3, <2>4 DEF TypeOK
<1>2. RunsOK
  BY DEF RunsOK, RunOK, At, NoRun, Working
<1>3. OneLiveInvite
  BY DEF OneLiveInvite, Live, NoInvite
<1>4. FormsOK /\ Apart
  BY DEF FormsOK, FormOK, Apart, Is, NewForm, Linked, Locking
<1>5. InviteOK /\ AppOK /\ ClaimedOnce
  BY DEF InviteOK, AppOK, ClaimedOnce, NoInvite, NoApp
<1> QED BY <1>1, <1>2, <1>3, <1>4, <1>5 DEF TextInv, LinkInv

(* A run whose turn it is knows its phone.                                 *)
LEMMA Known ==
    ASSUME TextInv, NEW d \in Deliveries, Turn(d)
    PROVE  /\ run[d].msg \in Messages /\ Phone(d) \in Phones
           /\ chain[Phone(d)] \in Seq(Deliveries)
           /\ chain[Phone(d)] # <<>> /\ Head(chain[Phone(d)]) = d
BY IntakeAssumption DEF TextInv, RunsOK, RunOK, Turn, Phone, TypeOK, IntakeAssumption

(* One handler of a phone has started at most.                             *)
LEMMA Alone ==
    ASSUME TextInv, NEW d \in Deliveries, Turn(d),
           NEW e \in Deliveries, run[e].step \in Working, Phone(e) = Phone(d)
    PROVE  e = d
BY DEF TextInv, RunsOK, RunOK, Turn

-----------------------------------------------------------------------------
(* The type of what the handlers share, one group of actions at a time.    *)

(* A handler that moves on and changes nothing else.                       *)
LEMMA OneRun ==
    ASSUME TextInv, NEW d \in Deliveries, NEW r \in Run,
           run' = [run EXCEPT ![d] = r], chain' = chain, optOut' = optOut,
           invite' = invite, body' = body,
           Turn(d), r.msg = run[d].msg,
           r.step \in Working,
           r.kind = "link" \/ r.step \in {"lookup", "invite", "mint"} => Phone(d) \notin optOut,
           r.step = "mint" => \A t \in Tokens : Live(t) => invite[t].phone # Phone(d)
    PROVE  RunsOK' /\ run' \in [Deliveries -> Run] /\ OneLiveInvite'
<1>1. run' \in [Deliveries -> Run]
  BY DEF TextInv, TypeOK
<1>2. \A e \in Deliveries : e # d => run'[e] = run[e]
  BY DEF TextInv, TypeOK
<1>3. run'[d] = r
  BY DEF TextInv, TypeOK
<1>4. ASSUME NEW e \in Deliveries PROVE RunOK(e)'
  <2>1. CASE e = d
    <3>1. Phone(d)' = Phone(d)
      BY <1>3 DEF Phone
    <3>2. run'[d].step # "waiting"
      BY <1>3 DEF Working
    <3> QED BY <2>1, <3>1, <3>2, <1>3, Known DEF RunOK, At, Live
  <2>2. CASE e # d
    <3>1. RunOK(e)
      BY DEF TextInv, RunsOK
    <3> QED BY <2>2, <3>1, <1>2 DEF RunOK, At, Phone, Live
  <2> QED BY <2>1, <2>2
<1>5. OneLiveInvite'
  BY DEF TextInv, OneLiveInvite, Live
<1> QED BY <1>1, <1>4, <1>5 DEF RunsOK

(* A handler that ends, whoever else's text it has dealt with.             *)
LEMMA OneLeaves ==
    ASSUME TextInv, NEW d \in Deliveries, Turn(d), Leave(d), optOut' = optOut,
           invite' = invite, body' = body
    PROVE  /\ RunsOK' /\ run' \in [Deliveries -> Run] /\ chain' \in [Phones -> Seq(Deliveries)]
           /\ OneLiveInvite'
<1>1. Ended \in Run /\ Ended.step = "done"
  BY DEF Ended, Run, RunSteps
<1>2. /\ run' = [run EXCEPT ![d] = Ended]
      /\ chain' = [chain EXCEPT ![Phone(d)] = Tail(@)]
  BY DEF Leave
<1>3. run' \in [Deliveries -> Run]
  BY <1>1, <1>2 DEF TextInv, TypeOK
<1>4. chain' \in [Phones -> Seq(Deliveries)]
  BY <1>2, Known DEF TextInv, TypeOK
<1>5. ASSUME NEW e \in Deliveries PROVE RunOK(e)'
  <2>1. CASE e = d
    <3>1. run'[e] = Ended
      BY <2>1, <1>2 DEF TextInv, TypeOK
    <3> QED BY <3>1, <1>1 DEF RunOK, At, Working
  <2>2. CASE e # d
    <3>1. run'[e] = run[e] /\ RunOK(e)
      BY <2>2, <1>2 DEF TextInv, TypeOK, RunsOK
    <3>2. run[e].step \in Working => Phone(e) # Phone(d)
      BY <2>2, Alone
    <3>3. run[e].step \in Working => Phone(e) \in Phones
      BY <3>1, IntakeAssumption DEF RunOK, At, Working, Phone, IntakeAssumption
    <3>4. run[e].step \in Working => chain'[Phone(e)] = chain[Phone(e)]
      BY <3>2, <3>3, <1>2 DEF TextInv, TypeOK
    <3> QED BY <3>1, <3>4 DEF RunOK, At, Phone, Live
  <2> QED BY <2>1, <2>2
<1>6. OneLiveInvite'
  BY DEF TextInv, OneLiveInvite, Live
<1> QED BY <1>3, <1>4, <1>5, <1>6 DEF RunsOK

(* Everything of TypeOK that a handler's steps leave alone.                *)
OtherTypes ==
    /\ recorded \subseteq Messages /\ unrecorded \subseteq Messages
    /\ optOut \subseteq Phones
    /\ invite \in [Tokens -> Invite] /\ app \in [Apps -> App]
    /\ convo \in [Phones -> SUBSET Messages]
    /\ form \in [Forms -> Form] /\ body \in Scripts
    /\ replied \in [Messages -> Nat] /\ crashes \in Nat

(* The record Answer writes.                                               *)
LEMMA Answered ==
    ASSUME TextInv, NEW d \in Deliveries, Turn(d),
           NEW kind \in {"none", "confirmation", "link"}, NEW t \in Tokens \union {0},
           NEW step \in RunSteps
    PROVE  [step |-> step, msg |-> run[d].msg, kind |-> kind, token |-> t, said |-> {}] \in Run
BY Known DEF Run

LEMMA Moved ==
    ASSUME TextInv, NEW d \in Deliveries, NEW step \in RunSteps, Goto(d, step)
    PROVE  \E r \in Run : /\ run' = [run EXCEPT ![d] = r]
                          /\ r.step = step /\ r.msg = run[d].msg /\ r.kind = run[d].kind
<1>1. run[d] \in Run
  BY DEF TextInv, TypeOK
<1> DEFINE r == [run[d] EXCEPT !.step = step]
<1>2. r \in Run /\ r.step = step /\ r.msg = run[d].msg /\ r.kind = run[d].kind
  BY <1>1 DEF Run
<1>3. run' = [run EXCEPT ![d] = r]
  BY <1>1 DEF Goto, TextInv, TypeOK
<1> QED BY <1>2, <1>3

(* Steps that answer or move on and touch nothing the others look at.      *)
LEMMA HandlerMoves ==
    ASSUME TextInv, NEW d \in Deliveries,
           \/ Intake(d) \/ Lookup(d) \/ Help(d) \/ NoInviteLeft(d)
           \/ (\E t \in Tokens : ReuseInvite(d, t))
           \/ ReadConversation(d) \/ WriteConversation(d) \/ LogFails(d)
    PROVE  TextInv'
<1>1. Turn(d) /\ chain' = chain /\ optOut' = optOut /\ invite' = invite /\ body' = body
  BY DEF Intake, Lookup, Help, NoInviteLeft, ReuseInvite, ReadConversation, WriteConversation,
         LogFails, db
<1>2. RunOK(d) /\ run[d] \in Run
  BY DEF TextInv, RunsOK, TypeOK
<1>3. OtherTypes'
  <2>1. CASE WriteConversation(d)
    <3>1. Logged(d) \subseteq Messages
      BY <1>1, <1>2, Known DEF Logged, TextInv, TypeOK, Run
    <3>2. convo' \in [Phones -> SUBSET Messages]
      BY <2>1, <3>1 DEF WriteConversation, TextInv, TypeOK
    <3> QED BY <2>1, <3>2 DEF WriteConversation, OtherTypes, TextInv, TypeOK
  <2>2. CASE ~WriteConversation(d)
    BY <2>2 DEF Intake, Lookup, Help, NoInviteLeft, ReuseInvite, ReadConversation, LogFails, db,
                OtherTypes, TextInv, TypeOK
  <2> QED BY <2>1, <2>2
<1> DEFINE Good(r) ==
         /\ run' = [run EXCEPT ![d] = r] /\ r.msg = run[d].msg /\ r.step \in Working
         /\ r.kind = "link" \/ r.step \in {"lookup", "invite", "mint"} => Phone(d) \notin optOut
         /\ r.step = "mint" => \A t \in Tokens : Live(t) => invite[t].phone # Phone(d)
<1>4. \E r \in Run : Good(r)
  <2>1. CASE Intake(d)
    <3>1. PICK r \in Run : /\ run' = [run EXCEPT ![d] = r]
                           /\ r.step = "lookup" /\ r.msg = run[d].msg /\ r.kind = run[d].kind
      BY <2>1, Moved DEF Intake, RunSteps
    <3> QED BY <2>1, <3>1 DEF Intake, Working
  <2>2. CASE Lookup(d)
    <3>1. CASE OfPhone(Phone(d), SmsLink) # {}
      <4>1. [step |-> "persist", msg |-> run[d].msg, kind |-> "confirmation", token |-> 0,
             said |-> {}] \in Run
        BY <1>1, Answered DEF RunSteps
      <4> QED BY <2>2, <3>1, <4>1 DEF Lookup, Answer, Working
    <3>2. CASE OfPhone(Phone(d), SmsLink) = {}
      <4>1. PICK r \in Run : /\ run' = [run EXCEPT ![d] = r]
                             /\ r.step = "invite" /\ r.msg = run[d].msg /\ r.kind = run[d].kind
        BY <2>2, <3>2, Moved DEF Lookup, RunSteps
      <4> QED BY <2>2, <4>1, <1>2 DEF Lookup, Working, RunOK, At
    <3> QED BY <3>1, <3>2
  <2>3. CASE Help(d)
    <3>1. [step |-> "reply", msg |-> run[d].msg, kind |-> "confirmation", token |-> 0,
           said |-> {}] \in Run
      BY <1>1, Answered DEF RunSteps
    <3> QED BY <2>3, <3>1 DEF Help, Answer, Working
  <2>4. CASE NoInviteLeft(d)
    <3>1. PICK r \in Run : /\ run' = [run EXCEPT ![d] = r]
                           /\ r.step = "mint" /\ r.msg = run[d].msg /\ r.kind = run[d].kind
      BY <2>4, Moved DEF NoInviteLeft, RunSteps
    <3> QED BY <2>4, <3>1, <1>2 DEF NoInviteLeft, Working, RunOK, At
  <2>5. ASSUME NEW t \in Tokens, ReuseInvite(d, t) PROVE \E r \in Run : Good(r)
    <3>1. [step |-> "persist", msg |-> run[d].msg, kind |-> "link", token |-> t,
           said |-> {}] \in Run
      BY <1>1, Answered DEF RunSteps
    <3> QED BY <2>5, <3>1, <1>2 DEF ReuseInvite, Answer, Working, RunOK, At
  <2>6. CASE ReadConversation(d)
    <3> DEFINE r == [step |-> "append", msg |-> run[d].msg, kind |-> run[d].kind,
                     token |-> run[d].token, said |-> convo[Phone(d)]]
    <3>1. r \in Run
      BY <1>1, <1>2, Known DEF Run, RunSteps, TextInv, TypeOK
    <3> QED BY <2>6, <3>1, <1>2 DEF ReadConversation, Working, RunOK, At
  <2>7. CASE WriteConversation(d) \/ LogFails(d)
    <3> DEFINE r == [step |-> "reply", msg |-> run[d].msg, kind |-> run[d].kind, token |-> 0,
                     said |-> {}]
    <3>1. r \in Run
      BY <1>1, <1>2, Answered DEF RunSteps, Run
    <3> QED BY <2>7, <3>1, <1>2 DEF WriteConversation, LogFails, Answer, Working, RunOK, At
  <2> QED BY <2>1, <2>2, <2>3, <2>4, <2>5, <2>6, <2>7
<1>5. RunsOK' /\ run' \in [Deliveries -> Run] /\ OneLiveInvite'
  BY <1>1, <1>4, OneRun
<1>6. TypeOK'
  BY <1>1, <1>3, <1>5 DEF OtherTypes, TypeOK, TextInv
<1> QED BY <1>5, <1>6 DEF TextInv

LEMMA HandlerLeaves ==
    ASSUME TextInv, NEW d \in Deliveries, Silent(d) \/ Reply(d) \/ HandlerFails(d)
    PROVE  TextInv'
<1>1. Turn(d) /\ Leave(d) /\ optOut' = optOut /\ invite' = invite /\ body' = body
  BY DEF Silent, Reply, HandlerFails, db
<1>2. OtherTypes'
  <2>1. CASE Reply(d)
    <3>1. replied' \in [Messages -> Nat]
      BY <2>1, <1>1, Known DEF Reply, TextInv, TypeOK
    <3> QED BY <2>1, <3>1 DEF Reply, db, OtherTypes, TextInv, TypeOK
  <2>2. CASE ~Reply(d)
    BY <2>2 DEF Silent, HandlerFails, db, OtherTypes, TextInv, TypeOK
  <2> QED BY <2>1, <2>2
<1>3. /\ RunsOK' /\ run' \in [Deliveries -> Run] /\ chain' \in [Phones -> Seq(Deliveries)]
      /\ OneLiveInvite'
  BY <1>1, OneLeaves
<1> QED BY <1>2, <1>3 DEF OtherTypes, TypeOK, TextInv

(* STOP and START: no other handler of the phone has started.              *)
LEMMA Keyword ==
    ASSUME TextInv, NEW d \in Deliveries, Stop(d) \/ Start(d)
    PROVE  TextInv'
<1> DEFINE r == [step |-> "reply", msg |-> run[d].msg, kind |-> "confirmation", token |-> 0,
                 said |-> {}]
<1>1. Turn(d) /\ chain' = chain /\ invite' = invite /\ body' = body
  BY DEF Stop, Start
<1>2. r \in Run /\ run' = [run EXCEPT ![d] = r]
  BY <1>1, Answered DEF Stop, Start, Answer, RunSteps
<1>3. run' \in [Deliveries -> Run] /\ run'[d] = r /\ \A e \in Deliveries : e # d => run'[e] = run[e]
  BY <1>2 DEF TextInv, TypeOK
<1>4. optOut' \subseteq Phones /\ \A p \in Phones : p # Phone(d) => (p \in optOut' <=> p \in optOut)
  BY <1>1, Known DEF Stop, Start, TextInv, TypeOK
<1>5. ASSUME NEW e \in Deliveries PROVE RunOK(e)'
  <2>1. CASE e = d
    <3>1. r.step = "reply" /\ r.kind = "confirmation" /\ r.msg = run[d].msg
      OBVIOUS
    <3>2. Phone(d)' = Phone(d)
      BY <1>3, <3>1 DEF Phone
    <3> HIDE DEF r
    <3> QED BY <2>1, <3>1, <3>2, <1>1, <1>3, Known DEF RunOK, At
  <2>2. CASE e # d
    <3>1. run'[e] = run[e] /\ RunOK(e)
      BY <2>2, <1>3 DEF TextInv, RunsOK
    <3>2. run[e].step \in Working => Phone(e) # Phone(d) /\ Phone(e) \in Phones
      BY <2>2, <3>1, <1>1, Alone, IntakeAssumption DEF RunOK, At, Working, Phone, IntakeAssumption
    <3> QED BY <3>1, <3>2, <1>1, <1>4 DEF RunOK, At, Phone, Live, Working
  <2> QED BY <2>1, <2>2
<1>6. OneLiveInvite'
  BY <1>1 DEF TextInv, OneLiveInvite, Live
<1>7. TypeOK'
  BY <1>1, <1>3, <1>4 DEF Stop, Start, TextInv, TypeOK
<1> QED BY <1>5, <1>6, <1>7 DEF TextInv, RunsOK

(* A new invite is its phone's only live one: nobody else can mint.        *)
LEMMA Minted ==
    ASSUME TextInv, NEW d \in Deliveries, NEW t \in Tokens, Mint(d, t)
    PROVE  TextInv'
<1> DEFINE r == [step |-> "persist", msg |-> run[d].msg, kind |-> "link", token |-> t, said |-> {}]
           i == [phone |-> Phone(d), used |-> FALSE, expired |-> FALSE, app |-> 0]
<1>1. Turn(d) /\ chain' = chain /\ optOut' = optOut /\ body' = body /\ At(d, "mint")
  BY DEF Mint
<1>2. r \in Run /\ run' = [run EXCEPT ![d] = r]
  BY <1>1, Answered DEF Mint, Answer, RunSteps
<1>3. run' \in [Deliveries -> Run] /\ run'[d] = r /\ \A e \in Deliveries : e # d => run'[e] = run[e]
  BY <1>2 DEF TextInv, TypeOK
<1>4. i \in Invite /\ i.phone = Phone(d)
  BY <1>1, Known DEF Invite
<1>5. invite' = [invite EXCEPT ![t] = i]
  BY DEF Mint
<1>6. /\ invite' \in [Tokens -> Invite] /\ invite'[t] = i
      /\ \A u \in Tokens : u # t => invite'[u] = invite[u]
  BY <1>4, <1>5 DEF TextInv, TypeOK
<1>7. \A u \in Tokens : Live(u) => invite[u].phone # Phone(d)
  BY <1>1 DEF TextInv, RunsOK, RunOK
<1>8. \A u \in Tokens : Live(u)' => u = t \/ (Live(u) /\ invite'[u].phone = invite[u].phone)
  BY <1>6 DEF Live
<1>9. ASSUME NEW e \in Deliveries PROVE RunOK(e)'
  <2>1. CASE e = d
    <3>1. r.step = "persist" /\ r.kind = "link" /\ r.msg = run[d].msg
      OBVIOUS
    <3>2. Phone(d)' = Phone(d)
      BY <1>3, <3>1 DEF Phone
    <3>3. Phone(d) \notin optOut
      BY <1>1 DEF TextInv, RunsOK, RunOK, At
    <3> HIDE DEF r
    <3> QED BY <2>1, <3>1, <3>2, <3>3, <1>1, <1>3, Known DEF RunOK, At
  <2>2. CASE e # d
    <3>1. run'[e] = run[e] /\ RunOK(e)
      BY <2>2, <1>3 DEF TextInv, RunsOK
    <3>2. run[e].step = "mint" => Phone(e) # Phone(d)
      BY <2>2, <1>1, Alone DEF Working
    <3>3. At(e, "mint") => \A u \in Tokens : Live(u)' => invite'[u].phone # Phone(e)
      BY <3>1, <3>2, <1>4, <1>6, <1>8 DEF RunOK, At
    <3> QED BY <3>1, <3>3, <1>1 DEF RunOK, At, Phone, Working
  <2> QED BY <2>1, <2>2
<1>10. OneLiveInvite'
  BY <1>4, <1>6, <1>7, <1>8 DEF TextInv, OneLiveInvite
<1>11. TypeOK'
  BY <1>1, <1>3, <1>6 DEF Mint, TextInv, TypeOK
<1> QED BY <1>9, <1>10, <1>11 DEF TextInv, RunsOK

LEMMA Received ==
    ASSUME TextInv, NEW d \in Deliveries, NEW m \in Messages,
           Webhook(d, m, TRUE) \/ Webhook(d, m, FALSE) \/ Duplicate(d, m)
    PROVE  TextInv'
<1>1. optOut' = optOut /\ invite' = invite /\ body' = body /\ At(d, "idle")
  BY DEF Webhook, Duplicate, db
<1>2. OneLiveInvite'
  BY <1>1 DEF TextInv, OneLiveInvite, Live
<1>3. PICK r \in Run : /\ run' = [run EXCEPT ![d] = r]
                       /\ r.step = "done" \/ (r.step = "waiting" /\ r.msg = m /\ r.kind = "none")
  <2>1. CASE Duplicate(d, m)
    <3>1. Ended \in Run /\ Ended.step = "done"
      BY DEF Ended, Run, RunSteps
    <3> QED BY <2>1, <3>1 DEF Duplicate
  <2>2. CASE ~Duplicate(d, m)
    <3> DEFINE r == [step |-> "waiting", msg |-> m, kind |-> "none", token |-> 0, said |-> {}]
    <3>1. r \in Run
      BY DEF Run, RunSteps
    <3> QED BY <2>2, <3>1 DEF Webhook
  <2> QED BY <2>1, <2>2
<1>4. run' \in [Deliveries -> Run] /\ run'[d] = r /\ \A e \in Deliveries : e # d => run'[e] = run[e]
  BY <1>3 DEF TextInv, TypeOK
<1>5. /\ chain' \in [Phones -> Seq(Deliveries)]
      /\ \A p \in Phones : chain[p] # <<>> => chain'[p] # <<>> /\ Head(chain'[p]) = Head(chain[p])
  <2>1. CASE Duplicate(d, m)
    BY <2>1 DEF Duplicate, TextInv, TypeOK
  <2>2. CASE ~Duplicate(d, m)
    <3>1. Sender[m] \in Phones
      BY IntakeAssumption DEF IntakeAssumption
    <3>2. chain[Sender[m]] \in Seq(Deliveries)
      BY <3>1 DEF TextInv, TypeOK
    <3>3. Append(chain[Sender[m]], d) \in Seq(Deliveries)
      BY <3>2
    <3>4. chain' = [chain EXCEPT ![Sender[m]] = Append(chain[Sender[m]], d)]
      BY <2>2 DEF Webhook
    <3>5. chain[Sender[m]] # <<>> => /\ Append(chain[Sender[m]], d) # <<>>
                                     /\ Head(Append(chain[Sender[m]], d)) = Head(chain[Sender[m]])
      BY <3>2
    <3> QED BY <3>1, <3>2, <3>3, <3>4, <3>5 DEF TextInv, TypeOK
  <2> QED BY <2>1, <2>2
<1>6. ASSUME NEW e \in Deliveries PROVE RunOK(e)'
  <2>1. CASE e = d
    BY <2>1, <1>3, <1>4 DEF RunOK, At, Working
  <2>2. CASE e # d
    <3>1. run'[e] = run[e] /\ RunOK(e)
      BY <2>2, <1>4 DEF TextInv, RunsOK
    <3>2. run[e].step \in Working => Phone(e) \in Phones
      BY <3>1, IntakeAssumption DEF RunOK, At, Working, Phone, IntakeAssumption
    <3> QED BY <3>1, <3>2, <1>1, <1>5 DEF RunOK, At, Phone, Live, Working
  <2> QED BY <2>1, <2>2
<1>7. TypeOK'
  BY <1>1, <1>4, <1>5 DEF Webhook, Duplicate, db, TextInv, TypeOK
<1> QED BY <1>2, <1>6, <1>7 DEF TextInv, RunsOK

-----------------------------------------------------------------------------
(* The submissions.                                                        *)

(* A submission's or the clock's step adds no live invite, so the handlers *)
(* of texts do not notice it.                                              *)
LEMMA Unnoticed ==
    ASSUME TextInv, chain' = chain, run' = run, optOut' = optOut, body' = body,
           \A t \in Tokens : Live(t)' => Live(t) /\ invite'[t].phone = invite[t].phone
    PROVE  RunsOK' /\ OneLiveInvite'
<1>1. ASSUME NEW e \in Deliveries PROVE RunOK(e)'
  BY DEF TextInv, RunsOK, RunOK, At, Phone
<1>2. OneLiveInvite'
  BY DEF TextInv, OneLiveInvite
<1> QED BY <1>1, <1>2 DEF RunsOK

LEMMA FormTypes ==
    ASSUME TypeOK, NEW f \in Forms, NEW step \in FormSteps
    PROVE  /\ Move(f, step) => form' \in [Forms -> Form]
           /\ End(f) => form' \in [Forms -> Form]
           /\ \A t \in Tokens \union {0}, p \in Phones : Begin(f, step, t, p) => form' \in [Forms -> Form]
           /\ \A a \in Apps : Carry(f, step, a) => form' \in [Forms -> Form]
<1>1. form \in [Forms -> Form] /\ form[f] \in Form
  BY DEF TypeOK
<1>2. Move(f, step) => form' \in [Forms -> Form]
  <2>1. [form[f] EXCEPT !.step = step] \in Form
    BY <1>1 DEF Form
  <2>2. Move(f, step) => form' = [form EXCEPT ![f] = [form[f] EXCEPT !.step = step]]
    BY <1>1 DEF Move
  <2> QED BY <1>1, <2>1, <2>2
<1>3. End(f) => form' \in [Forms -> Form]
  <2>1. NoForm \in Form
    BY DEF NoForm, Form, FormSteps
  <2> QED BY <1>1, <2>1 DEF End
<1>4. ASSUME NEW t \in Tokens \union {0}, NEW p \in Phones, Begin(f, step, t, p)
      PROVE  form' \in [Forms -> Form]
  <2>1. [step |-> step, token |-> t, phone |-> p, app |-> 0] \in Form
    BY DEF Form
  <2> QED BY <1>1, <1>4, <2>1 DEF Begin
<1>5. ASSUME NEW a \in Apps, Carry(f, step, a) PROVE form' \in [Forms -> Form]
  <2>1. [step |-> step, token |-> form[f].token, phone |-> form[f].phone, app |-> a] \in Form
    BY <1>1 DEF Form
  <2> QED BY <1>1, <1>5, <2>1 DEF Carry
<1> QED BY <1>2, <1>3, <1>4, <1>5

LEMMA AppTypes ==
    ASSUME TypeOK, NEW f \in Forms, NEW a \in Apps, NEW path \in Paths, Create(f, a, path)
    PROVE  app' \in [Apps -> App]
<1>1. form[f] \in Form
  BY DEF TypeOK
<1>2. [phone |-> form[f].phone, path |-> path, token |-> form[f].token, recent |-> TRUE] \in App
  BY <1>1 DEF Form, App
<1> QED BY <1>2 DEF Create, TypeOK

LEMMA Submitted ==
    ASSUME TextInv, NEW f \in Forms, Submission(f)
    PROVE  TextInv'
<1>1. TypeOK /\ form[f] \in Form /\ form[f].token \in Tokens \union {0}
  BY DEF TextInv, TypeOK, Form
<1> DEFINE Effect == /\ texts' = texts /\ body' = body /\ crashes' = crashes
                     /\ form' \in [Forms -> Form] /\ app' \in [Apps -> App]
                     /\ invite' \in [Tokens -> Invite]
                     /\ \A t \in Tokens : Live(t)' => Live(t) /\ invite'[t].phone = invite[t].phone
           Kept == /\ invite' = invite /\ texts' = texts /\ body' = body /\ crashes' = crashes
                   /\ form' \in [Forms -> Form] /\ app' \in [Apps -> App]
<1>2. Kept => Effect
  BY <1>1 DEF TypeOK, Live
<1>3. Effect
  <2>1. ASSUME NEW t \in Tokens, PostSurvey(f, t) \/ PostSite(f, t) PROVE Effect
    <3>1. invite[t].phone \in Phones
      BY <1>1, <2>1 DEF PostSurvey, PostSite, Live, TypeOK, Invite
    <3>2. "claim" \in FormSteps /\ "site claim" \in FormSteps
      BY DEF FormSteps
    <3>3. form' \in [Forms -> Form]
      BY <1>1, <2>1, <3>1, <3>2, FormTypes DEF PostSurvey, PostSite
    <3> QED BY <1>1, <1>2, <2>1, <3>3 DEF PostSurvey, PostSite, TypeOK
  <2>2. ASSUME NEW p \in Phones, PostWeb(f, p) PROVE Effect
    <3>1. form' \in [Forms -> Form]
      BY <1>1, <2>2, FormTypes DEF PostWeb, FormSteps
    <3> QED BY <1>1, <1>2, <2>2, <3>1 DEF PostWeb, TypeOK
  <2>3. CASE Claim(f) \/ CheckDuplicate(f) \/ Forward(f)
    <3>1. "check" \in FormSteps /\ "commit" \in FormSteps
      BY DEF FormSteps
    <3>2. form' \in [Forms -> Form]
      BY <1>1, <2>3, <3>1, FormTypes DEF Claim, CheckDuplicate, Forward
    <3> QED BY <1>1, <1>2, <2>3, <3>2 DEF Claim, CheckDuplicate, Forward, TypeOK
  <2>4. CASE SiteClaim(f)
    <3>1. "site create" \in FormSteps
      BY DEF FormSteps
    <3>2. form' \in [Forms -> Form]
      BY <1>1, <2>4, <3>1, FormTypes DEF SiteClaim
    <3>3. CASE invite[form[f].token].used
      BY <1>1, <1>2, <2>4, <3>2, <3>3 DEF SiteClaim, TypeOK
    <3>4. CASE ~invite[form[f].token].used
      <4>1. invite' = [invite EXCEPT ![form[f].token].used = TRUE]
        BY <2>4, <3>4 DEF SiteClaim
      <4>2. invite' \in [Tokens -> Invite]
        BY <4>1, <1>1 DEF TypeOK, Invite
      <4>3. \A t \in Tokens : Live(t)' => Live(t) /\ invite'[t].phone = invite[t].phone
        BY <4>1, <1>1 DEF TypeOK, Live, Invite
      <4> QED BY <1>1, <2>4, <3>2, <4>2, <4>3 DEF SiteClaim, TypeOK
    <3> QED BY <3>3, <3>4
  <2>5. CASE SiteLink(f)
    <3>1. form' \in [Forms -> Form]
      BY <1>1, <2>5, FormTypes DEF SiteLink, FormSteps
    <3>2. form[f].app \in Apps \union {0}
      BY <1>1 DEF Form
    <3>3. invite' = [invite EXCEPT ![form[f].token].app = form[f].app]
      BY <2>5 DEF SiteLink
    <3>4. invite' \in [Tokens -> Invite]
      BY <3>2, <3>3, <1>1 DEF TypeOK, Invite
    <3>5. \A t \in Tokens : Live(t)' => Live(t) /\ invite'[t].phone = invite[t].phone
      BY <3>3, <1>1 DEF TypeOK, Live, Invite
    <3> QED BY <1>1, <2>5, <3>1, <3>4, <3>5 DEF SiteLink, TypeOK
  <2>6. ASSUME NEW a \in Apps, Submit(f, a) PROVE Effect
    <3>1. form' \in [Forms -> Form]
      BY <1>1, <2>6, FormTypes DEF Submit, FormSteps
    <3>2. app' \in [Apps -> App]
      BY <1>1, <2>6, AppTypes DEF Submit, Paths
    <3> DEFINE t == form[f].token
               i == [phone |-> invite[t].phone, used |-> TRUE, expired |-> invite[t].expired, app |-> a]
    <3>3. invite' = [invite EXCEPT ![t] = i]
      BY <2>6 DEF Submit
    <3>4. t \in Tokens => i \in Invite
      BY <1>1 DEF TypeOK, Invite
    <3>5. i.used
      OBVIOUS
    <3> HIDE DEF i, t
    <3>6. invite' \in [Tokens -> Invite]
      BY <3>3, <3>4, <1>1 DEF TypeOK
    <3>7. \A u \in Tokens : Live(u)' => Live(u) /\ invite'[u].phone = invite[u].phone
      BY <3>3, <3>5, <1>1 DEF TypeOK, Live
    <3> QED BY <2>6, <3>1, <3>2, <3>6, <3>7 DEF Submit
  <2>7. ASSUME NEW a \in Apps, SiteCreate(f, a) \/ WebCreate(f, a) PROVE Effect
    <3>1. "site link" \in FormSteps /\ "forward" \in FormSteps /\ "site" \in Paths /\ "web" \in Paths
      BY DEF FormSteps, Paths
    <3>2. form' \in [Forms -> Form]
      BY <1>1, <2>7, <3>1, FormTypes DEF SiteCreate, WebCreate
    <3>3. app' \in [Apps -> App]
      BY <1>1, <2>7, <3>1, AppTypes DEF SiteCreate, WebCreate
    <3> QED BY <1>2, <2>7, <3>2, <3>3 DEF SiteCreate, WebCreate
  <2> QED BY <2>1, <2>2, <2>3, <2>4, <2>5, <2>6, <2>7 DEF Submission
<1>4. RunsOK' /\ OneLiveInvite'
  BY <1>3, Unnoticed DEF texts
<1>5. TypeOK'
  BY <1>1, <1>3 DEF texts, TypeOK
<1> QED BY <1>4, <1>5 DEF TextInv

LEMMA TimePasses ==
    ASSUME TextInv,
           \/ \E t \in Tokens : Expire(t)
           \/ \E a \in Apps : Lapse(a)
           \/ \E p \in Phones : Cleanup(p)
    PROVE  TextInv'
<1>1. ASSUME NEW t \in Tokens, Expire(t) PROVE TextInv'
  <2>1. invite' = [invite EXCEPT ![t].expired = TRUE]
    BY <1>1 DEF Expire
  <2>2. invite' \in [Tokens -> Invite]
    BY <2>1 DEF TextInv, TypeOK, Invite
  <2>3. \A u \in Tokens : Live(u)' => Live(u) /\ invite'[u].phone = invite[u].phone
    BY <2>1 DEF TextInv, TypeOK, Live, Invite
  <2>4. RunsOK' /\ OneLiveInvite'
    BY <1>1, <2>3, Unnoticed DEF Expire, texts
  <2> QED BY <1>1, <2>2, <2>4 DEF Expire, texts, TextInv, TypeOK
<1>2. ASSUME NEW a \in Apps, Lapse(a) PROVE TextInv'
  <2>1. app' \in [Apps -> App]
    BY <1>2 DEF Lapse, TextInv, TypeOK, App
  <2>2. RunsOK' /\ OneLiveInvite'
    BY <1>2, Unnoticed DEF Lapse, texts, Live
  <2> QED BY <1>2, <2>1, <2>2 DEF Lapse, texts, TextInv, TypeOK
<1>3. ASSUME NEW p \in Phones, Cleanup(p) PROVE TextInv'
  <2>1. RunsOK' /\ OneLiveInvite'
    BY <1>3, Unnoticed DEF Cleanup, Live
  <2> QED BY <1>3, <2>1 DEF Cleanup, TextInv, TypeOK
<1> QED BY <1>1, <1>2, <1>3

LEMMA Crashes ==
    ASSUME TextInv, ServerCrash \/ SiteCrash
    PROVE  TextInv'
<1>1. form' \in [Forms -> Form]
  <2>1. NoForm \in Form
    BY DEF NoForm, Form, FormSteps
  <2> QED BY <2>1 DEF ServerCrash, SiteCrash, TextInv, TypeOK
<1>2. CASE ServerCrash
  <2>1. NoRun \in Run /\ NoRun.step = "idle" /\ Ended \in Run /\ Ended.step = "done"
    BY DEF NoRun, Ended, Run, RunSteps
  <2>2. run' \in [Deliveries -> Run] /\ \A d \in Deliveries : run'[d].step \in {"idle", "done"}
    BY <1>2, <2>1 DEF ServerCrash
  <2>3. RunsOK'
    BY <2>2 DEF RunsOK, RunOK, At, Working
  <2>4. OneLiveInvite'
    BY <1>2 DEF ServerCrash, db, TextInv, OneLiveInvite, Live
  <2>5. chain' \in [Phones -> Seq(Deliveries)]
    <3>1. <<>> \in Seq(Deliveries)
      OBVIOUS
    <3>2. chain' = [p \in Phones |-> <<>>]
      BY <1>2 DEF ServerCrash
    <3> QED BY <3>1, <3>2
  <2>6. UNCHANGED <<recorded, optOut, invite, app, convo, body, unrecorded, replied>> /\ crashes' \in Nat
    <3>1. crashes \in Nat /\ crashes' = crashes + 1
      BY <1>2 DEF ServerCrash, TextInv, TypeOK
    <3>2. UNCHANGED <<db, body, unrecorded, replied>>
      BY <1>2 DEF ServerCrash
    <3> QED BY <3>1, <3>2 DEF db
  <2>7. TypeOK'
    BY <1>1, <2>2, <2>5, <2>6 DEF TextInv, TypeOK
  <2> QED BY <2>3, <2>4, <2>7 DEF TextInv
<1>3. CASE SiteCrash
  <2>1. RunsOK' /\ OneLiveInvite'
    BY <1>3, Unnoticed DEF SiteCrash, texts, Live
  <2> QED BY <1>1, <1>3, <2>1 DEF SiteCrash, texts, TextInv, TypeOK
<1> QED BY <1>2, <1>3

LEMMA TextStep == TextInv /\ [Next]_vars => TextInv'
<1> SUFFICES ASSUME TextInv, [Next]_vars PROVE TextInv'
  OBVIOUS
<1>1. CASE Receive
  BY <1>1, Received DEF Receive
<1>2. ASSUME NEW d \in Deliveries, Handle(d) PROVE TextInv'
  BY <1>2, HandlerMoves, HandlerLeaves, Keyword, Minted DEF Handle
<1>3. ASSUME NEW f \in Forms, Submission(f) PROVE TextInv'
  BY <1>3, Submitted
<1>4. CASE UNCHANGED vars
  <2>1. RunsOK' /\ OneLiveInvite'
    BY <1>4, Unnoticed DEF vars, db, Live
  <2> QED BY <1>4, <2>1 DEF vars, db, TextInv, TypeOK
<1> QED BY <1>1, <1>2, <1>3, <1>4, TimePasses, Crashes DEF Next

(* Typing, for any phones, messages, deliveries, submissions and bounds.   *)
THEOREM TypeCorrect == Spec => []TypeOK
<1>1. Init => TextInv
  BY InitInv
<1>2. TextInv => TypeOK
  BY DEF TextInv
<1> QED BY <1>1, <1>2, TextStep, PTL DEF Spec

(* createOrReuseSurveyInvite's two queries never mint a second live invite *)
(* for a phone, whatever is delivered twice, fails, expires or crashes.    *)
THEOREM InvitesAreUnique == Spec => []OneLiveInvite
<1>1. Init => TextInv
  BY InitInv
<1>2. TextInv => OneLiveInvite
  BY DEF TextInv
<1> QED BY <1>1, <1>2, TextStep, PTL DEF Spec

(* The chain orders a phone's STOP after every link already being answered *)
(* and before every later one.                                             *)
THEOREM StopIsObeyed == Spec => SilentAfterStop
<1>1. Init => TextInv
  BY InitInv
<1>2. ASSUME TextInv
      PROVE  \A d \in Deliveries : Reply(d) /\ run[d].kind = "link" => Phone(d) \notin optOut
  BY <1>2 DEF TextInv, RunsOK, RunOK, Reply, At, Working
<1> QED BY <1>1, <1>2, TextStep, PTL DEF Spec, SilentAfterStop

-----------------------------------------------------------------------------
(* One application per link.                                               *)

(* Steps that keep the applications and, of the invites, what was used;    *)
(* a new invite was nobody's before.                                       *)
LEMMA OthersStep ==
    ASSUME TypeOK, LinkInv, \A a \in Apps : app'[a].token = app[a].token,
           \A f \in Forms : form'[f] = form[f] \/ form'[f] = NoForm,
           \A t \in Tokens :
              \/ invite'[t].used = invite[t].used /\ invite'[t].phone = invite[t].phone
              \/ invite[t].phone = "none" /\ ~invite'[t].used /\ invite'[t].phone # "none"
    PROVE  LinkInv'
<1>1. \A a \in Apps : app[a].token \in Tokens \union {0}
  BY DEF TypeOK, App
<1>2. \A t \in Tokens : /\ invite'[t].used <=> invite[t].used
                        /\ invite[t].phone # "none" => invite'[t].phone # "none"
  BY DEF LinkInv, InviteOK
<1>3. ASSUME NEW f \in Forms PROVE FormOK(f)'
  <2>1. CASE form'[f] = NoForm
    BY <2>1 DEF NoForm, FormOK, Is, Linked, Locking
  <2>2. CASE form'[f] = form[f]
    <3>1. Unapplied(form[f].token) => Unapplied(form[f].token)'
      BY <2>2 DEF Unapplied
    <3>2. FormOK(f)
      BY DEF LinkInv, FormsOK
    <3>3. form[f].step \in Locking \/ Is(f, "site create") => form[f].step \in Linked
      BY DEF Locking, Linked, Is
    <3> DEFINE t == form[f].token
    <3>4. form[f].step \in Linked => /\ t \in Tokens
                                     /\ invite'[t].phone # "none"
                                     /\ invite'[t].used <=> invite[t].used
      BY <3>2, <1>2 DEF FormOK
    <3> QED BY <2>2, <3>1, <3>2, <3>3, <3>4 DEF FormOK, Is
  <2> QED BY <2>1, <2>2
<1>4. Apart'
  <2>1. NoForm.step = "idle" /\ NoForm.step \notin Locking
    BY DEF NoForm, Locking
  <2>2. ASSUME NEW f \in Forms
        PROVE  /\ (form'[f].step \in Locking) \/ Is(f, "site create")' => form'[f] = form[f]
    BY <2>1 DEF Is
  <2>3. ASSUME NEW f \in Forms, NEW g \in Forms, form'[f].token = form'[g].token,
               \/ form'[f].step \in Locking /\ form'[g].step \in Locking
               \/ Is(f, "site create")' /\ Is(g, "site create")'
        PROVE  f = g
    <3>1. form'[f] = form[f] /\ form'[g] = form[g]
      BY <2>2, <2>3
    <3> QED BY <2>3, <3>1 DEF LinkInv, Apart, Is
  <2> QED BY <2>3 DEF Apart
<1>5. InviteOK'
  <2>1. InviteOK
    BY DEF LinkInv
  <2>2. ASSUME NEW t \in Tokens, invite'[t].used PROVE invite'[t].phone # "none"
    BY <1>2, <2>1, <2>2 DEF InviteOK
  <2> QED BY <2>2 DEF InviteOK
<1>6. AppOK' /\ ClaimedOnce'
  BY <1>1, <1>2 DEF LinkInv, AppOK, ClaimedOnce
<1> QED BY <1>3, <1>4, <1>5, <1>6 DEF LinkInv, FormsOK

(* A submission that moves on without writing.                             *)
LEMMA FormMoves ==
    ASSUME TypeOK, LinkInv, NEW f \in Forms, NEW r \in Form,
           form' = [form EXCEPT ![f] = r], app' = app, invite' = invite,
           r.step # "idle" => r.phone \in Phones,
           r.step \in Linked => r.token \in Tokens /\ invite[r.token].phone # "none",
           r.step \in Locking => ~invite[r.token].used /\ Unapplied(r.token),
           r.step \in Locking => \A g \in Forms \ {f} :
              form[g].token = r.token => form[g].step \notin Locking,
           r.step \notin {"site create", "site link"},
           r.step = "web create" => r.token = 0
    PROVE  LinkInv'
<1>1. /\ form'[f] = r
      /\ \A g \in Forms : g # f => form'[g] = form[g]
  BY DEF TypeOK
<1>2. ASSUME NEW g \in Forms PROVE FormOK(g)'
  <2>1. CASE g = f
    BY <1>1, <2>1 DEF FormOK, Is, Unapplied
  <2>2. CASE g # f
    BY <1>1, <2>2 DEF LinkInv, FormsOK, FormOK, Is, Unapplied
  <2> QED BY <2>1, <2>2
<1>3. Apart'
  <2>1. ASSUME NEW g \in Forms, Is(g, "site create")' PROVE g # f
    BY <1>1, <2>1 DEF Is
  <2>2. ASSUME NEW g \in Forms, NEW h \in Forms, form'[g].token = form'[h].token,
               \/ form'[g].step \in Locking /\ form'[h].step \in Locking
               \/ Is(g, "site create")' /\ Is(h, "site create")'
        PROVE  g = h
    <3>1. CASE g = f /\ h # f
      BY <1>1, <2>1, <2>2, <3>1
    <3>2. CASE h = f /\ g # f
      BY <1>1, <2>1, <2>2, <3>2
    <3>3. CASE g # f /\ h # f
      <4>1. form'[g] = form[g] /\ form'[h] = form[h]
        BY <1>1, <3>3
      <4> QED BY <2>2, <4>1 DEF LinkInv, Apart, Is
    <3> QED BY <3>1, <3>2, <3>3
  <2> QED BY <2>2 DEF Apart
<1>4. InviteOK' /\ AppOK' /\ ClaimedOnce'
  BY DEF LinkInv, InviteOK, AppOK, ClaimedOnce
<1> QED BY <1>2, <1>3, <1>4 DEF LinkInv, FormsOK

LEMMA Posted ==
    ASSUME TypeOK, LinkInv, NEW f \in Forms,
           \/ \E t \in Tokens : PostSurvey(f, t) \/ PostSite(f, t)
           \/ \E p \in Phones : PostWeb(f, p)
    PROVE  LinkInv'
<1>1. ASSUME NEW t \in Tokens, PostSurvey(f, t) \/ PostSite(f, t) PROVE LinkInv'
  <2>1. invite[t].phone \in Phones /\ invite[t].phone # "none"
    BY <1>1 DEF PostSurvey, PostSite, Live, TypeOK, Invite
  <2>2. PICK step \in {"claim", "site claim"} : Begin(f, step, t, invite[t].phone)
    BY <1>1 DEF PostSurvey, PostSite
  <2> DEFINE r == [step |-> step, token |-> t, phone |-> invite[t].phone, app |-> 0]
  <2>3. /\ r \in Form /\ form' = [form EXCEPT ![f] = r]
        /\ r.step = step /\ r.token = t /\ r.phone = invite[t].phone
    BY <2>1, <2>2 DEF Form, FormSteps, Begin
  <2>4. app' = app /\ invite' = invite
    BY <1>1 DEF PostSurvey, PostSite
  <2>5. step \notin Locking /\ step \notin {"site create", "site link", "web create"}
    BY DEF Locking
  <2> HIDE DEF r
  <2> QED BY <2>1, <2>3, <2>4, <2>5, FormMoves
<1>2. ASSUME NEW p \in Phones, PostWeb(f, p) PROVE LinkInv'
  <2> DEFINE r == [step |-> "web create", token |-> 0, phone |-> p, app |-> 0]
  <2>1. /\ r \in Form /\ form' = [form EXCEPT ![f] = r]
        /\ r.step = "web create" /\ r.token = 0 /\ r.phone = p
    BY <1>2 DEF Form, FormSteps, Begin, PostWeb
  <2>2. app' = app /\ invite' = invite
    BY <1>2 DEF PostWeb
  <2>3. "web create" \notin Linked /\ "web create" \notin Locking
    BY DEF Linked, Locking
  <2> HIDE DEF r
  <2> QED BY <2>1, <2>2, <2>3, FormMoves
<1> QED BY <1>1, <1>2

(* What ends a submission, or its claim and its check.                     *)
LEMMA Ends ==
    ASSUME TypeOK, LinkInv, NEW f \in Forms, End(f), app' = app, invite' = invite
    PROVE  LinkInv'
<1>1. \A g \in Forms : form'[g] = form[g] \/ form'[g] = NoForm
  BY DEF End, TypeOK
<1> QED BY <1>1, OthersStep

LEMMA Checked ==
    ASSUME TypeOK, LinkInv, NEW f \in Forms, Claim(f) \/ CheckDuplicate(f) \/ Forward(f)
    PROVE  LinkInv'
<1>1. app' = app /\ invite' = invite /\ FormOK(f) /\ form[f] \in Form
  BY DEF Claim, CheckDuplicate, Forward, LinkInv, FormsOK, TypeOK
<1>2. CASE End(f)
  BY <1>1, <1>2, Ends
<1>3. CASE ~End(f)
  <2>1. PICK step \in Locking : Move(f, step)
    BY <1>3 DEF Claim, CheckDuplicate, Forward, Locking
  <2> DEFINE r == [form[f] EXCEPT !.step = step]
  <2>2. /\ r \in Form /\ form' = [form EXCEPT ![f] = r]
        /\ r.step = step /\ r.token = form[f].token /\ r.phone = form[f].phone
    BY <1>1, <2>1 DEF Form, FormSteps, Move, TypeOK, Locking
  <2>3. form[f].token \in Tokens /\ invite[form[f].token].phone # "none" /\ form[f].phone \in Phones
    BY <1>1, <1>3 DEF Claim, CheckDuplicate, Forward, FormOK, Is, Linked
  <2>4. ~invite[form[f].token].used
    BY <1>1, <1>3 DEF Claim, CheckDuplicate, Forward, FormOK, Is, Locking
  <2>5. Unapplied(form[f].token)
    BY <2>3, <2>4 DEF Unapplied, LinkInv, AppOK, Tokens
  <2>6. \A g \in Forms \ {f} : form[g].token = form[f].token => form[g].step \notin Locking
    <3>1. CASE Claim(f)
      BY <1>3, <3>1 DEF Claim, Unlocked, Is, Locking
    <3>2. CASE ~Claim(f)
      <4>1. form[f].step \in Locking
        BY <1>3, <3>2 DEF CheckDuplicate, Forward, Is, Locking
      <4> QED BY <4>1 DEF LinkInv, Apart
    <3> QED BY <3>1, <3>2
  <2>7. step \notin {"idle", "site create", "site link", "web create"}
    BY DEF Locking
  <2> HIDE DEF r
  <2> QED BY <1>1, <2>2, <2>3, <2>4, <2>5, <2>6, <2>7, FormMoves
<1> QED BY <1>2, <1>3

LEMMA NoZero == 0 \notin Tokens
BY IntakeAssumption DEF Tokens, IntakeAssumption

(* An application is created: a commit uses its invite with it.            *)
LEMMA Created ==
    ASSUME TypeOK, LinkInv, NEW f \in Forms, NEW a \in Apps, NEW r \in Form, NEW x \in App,
           form' = [form EXCEPT ![f] = r], app' = [app EXCEPT ![a] = x],
           form[f].step \in {"commit", "site create", "web create"},
           r.step \in {"forward", "site link"}, r.step = "site link" => Is(f, "site create"),
           r.token = form[f].token, r.phone = form[f].phone, r.app = a,
           x.token = form[f].token,
           \A u \in Tokens :
              /\ invite'[u].used <=> invite[u].used \/ (Is(f, "commit") /\ u = form[f].token)
              /\ invite'[u].phone = invite[u].phone
    PROVE  LinkInv'
<1> DEFINE t == form[f].token
<1>1. /\ form'[f] = r /\ app'[a] = x
      /\ \A g \in Forms : g # f => form'[g] = form[g]
      /\ \A b \in Apps : b # a => app'[b] = app[b]
  BY DEF TypeOK
<1>2. FormOK(f) /\ 0 \notin Tokens
  BY NoZero DEF LinkInv, FormsOK
<1>3. \/ Is(f, "web create") /\ t = 0
      \/ /\ t \in Tokens /\ Unapplied(t) /\ invite[t].phone # "none"
         /\ \/ Is(f, "commit") /\ ~invite[t].used
            \/ Is(f, "site create") /\ invite[t].used
  BY <1>2 DEF FormOK, Is, Linked, Locking
<1>4. t = 0 \/ (t \in Tokens /\ Unapplied(t) /\ invite'[t].used /\ invite'[t].phone # "none")
  BY <1>3
<1>5. ASSUME NEW g \in Forms, g # f PROVE FormOK(g)'
  <2> DEFINE u == form[g].token
  <2>1. FormOK(g) /\ form'[g] = form[g]
    BY <1>1, <1>5 DEF LinkInv, FormsOK
  <2>2. ASSUME Is(g, "site create") \/ form[g].step \in Locking
        PROVE  u \in Tokens /\ u # t
    <3>1. form[g].step \in Linked
      BY <2>2 DEF Linked, Locking, Is
    <3>2. u \in Tokens
      BY <2>1, <3>1 DEF FormOK
    <3>3. u # t
      <4>1. CASE Is(f, "web create") /\ t = 0
        BY <1>2, <3>2, <4>1
      <4>2. CASE Is(f, "commit") /\ ~invite[t].used
        <5>1. form[f].step \in Locking
          BY <4>2 DEF Is, Locking
        <5>2. form[g].step \in Locking => u # t
          BY <5>1, <1>5 DEF LinkInv, Apart
        <5>3. Is(g, "site create") => u # t
          BY <2>1, <4>2 DEF FormOK
        <5> QED BY <2>2, <5>2, <5>3
      <4>3. CASE Is(f, "site create") /\ invite[t].used
        <5>1. form[g].step \in Locking => u # t
          BY <2>1, <4>3 DEF FormOK
        <5>2. Is(g, "site create") => u # t
          BY <4>3, <1>5 DEF LinkInv, Apart
        <5> QED BY <2>2, <5>1, <5>2
      <4> QED BY <1>3, <4>1, <4>2, <4>3
    <3> QED BY <3>2, <3>3
  <2>3. u # t /\ Unapplied(u) => Unapplied(u)'
    <3> SUFFICES ASSUME u # t, Unapplied(u), NEW b \in Apps PROVE app'[b].token # u
      BY <2>1 DEF Unapplied
    <3>1. CASE b = a
      <4>1. app'[b].token = t
        BY <1>1, <3>1
      <4> QED BY <4>1
    <3>2. CASE b # a
      BY <1>1, <3>2 DEF Unapplied
    <3> QED BY <3>1, <3>2
  <2>4. form[g].step \in Linked => u \in Tokens /\ invite'[u].phone # "none"
    BY <2>1 DEF FormOK
  <2>5. form[g].step \in Locking => ~invite'[u].used /\ Unapplied(u)'
    BY <2>1, <2>2, <2>3 DEF FormOK
  <2>6. Is(g, "site create") => invite'[u].used /\ Unapplied(u)'
    BY <2>1, <2>2, <2>3 DEF FormOK
  <2> QED BY <2>1, <2>4, <2>5, <2>6 DEF FormOK, Is
<1>6. FormOK(f)'
  <2>1. r.step \notin Locking /\ r.step # "site create" /\ r.step # "web create" /\ r.step # "idle"
    BY DEF Locking
  <2>2. r.step \in Linked => Is(f, "site create")
    BY DEF Linked
  <2>3. r.step \in Linked => t \in Tokens /\ invite'[t].phone # "none"
    BY <1>3, <1>4, <2>2 DEF Is
  <2>4. form[f].phone \in Phones
    BY <1>2 DEF FormOK, Is
  <2> QED BY <1>1, <2>1, <2>3, <2>4 DEF FormOK, Is
<1>7. Apart'
  <2>1. ASSUME NEW g \in Forms, Is(g, "site create")' \/ form'[g].step \in Locking
        PROVE  g # f /\ form'[g] = form[g]
    BY <1>1, <2>1 DEF Is, Locking
  <2>2. ASSUME NEW g \in Forms, NEW h \in Forms, form'[g].token = form'[h].token,
               \/ form'[g].step \in Locking /\ form'[h].step \in Locking
               \/ Is(g, "site create")' /\ Is(h, "site create")'
        PROVE  g = h
    <3>1. form'[g] = form[g] /\ form'[h] = form[h]
      BY <2>1, <2>2
    <3> QED BY <2>2, <3>1 DEF LinkInv, Apart, Is
  <2> QED BY <2>2 DEF Apart
<1>8. InviteOK'
  <2>1. InviteOK
    BY DEF LinkInv
  <2>2. ASSUME NEW u \in Tokens, invite'[u].used PROVE invite'[u].phone # "none"
    BY <1>3, <1>2, <2>1, <2>2 DEF InviteOK
  <2> QED BY <2>2 DEF InviteOK
<1>9. AppOK'
  <2>1. ASSUME NEW b \in Apps, app'[b].token # 0 PROVE invite'[app'[b].token].used
    <3>1. CASE b = a
      <4>1. app'[b].token = t
        BY <1>1, <3>1
      <4> QED BY <1>4, <2>1, <4>1
    <3>2. CASE b # a
      <4>1. app'[b] = app[b] /\ app[b].token \in Tokens
        BY <1>1, <2>1, <3>2 DEF TypeOK, App
      <4>2. invite[app[b].token].used
        BY <2>1, <4>1 DEF LinkInv, AppOK
      <4> QED BY <4>1, <4>2
    <3> QED BY <3>1, <3>2
  <2> QED BY <2>1 DEF AppOK
<1>10. ClaimedOnce'
  <2>1. ASSUME NEW b \in Apps, NEW c \in Apps, app'[b].token # 0, app'[b].token = app'[c].token
        PROVE  b = c
    <3>1. CASE b = a /\ c # a
      <4>1. app'[b].token = t /\ app'[c] = app[c]
        BY <1>1, <3>1
      <4> QED BY <1>4, <2>1, <4>1 DEF Unapplied
    <3>2. CASE b # a /\ c = a
      <4>1. app'[b] = app[b] /\ app'[c].token = t
        BY <1>1, <3>2
      <4> QED BY <1>4, <2>1, <4>1 DEF Unapplied
    <3>3. CASE b # a /\ c # a
      <4>1. app'[b] = app[b] /\ app'[c] = app[c]
        BY <1>1, <3>3
      <4>2. app[b].token # 0 /\ app[b].token = app[c].token
        BY <2>1, <4>1
      <4>3. ClaimedOnce
        BY DEF LinkInv
      <4> QED BY <4>2, <4>3 DEF ClaimedOnce
    <3> QED BY <3>1, <3>2, <3>3
  <2> QED BY <2>1 DEF ClaimedOnce
<1> QED BY <1>5, <1>6, <1>7, <1>8, <1>9, <1>10 DEF LinkInv, FormsOK

LEMMA Creation ==
    ASSUME TypeOK, LinkInv, NEW f \in Forms, NEW a \in Apps,
           Submit(f, a) \/ SiteCreate(f, a) \/ WebCreate(f, a)
    PROVE  LinkInv'
<1> DEFINE t == form[f].token
<1>1. FormOK(f) /\ form[f] \in Form
  BY DEF LinkInv, FormsOK, TypeOK
<1>2. form[f].step \in {"commit", "site create", "web create"}
  BY DEF Submit, SiteCreate, WebCreate, Is
<1>3. PICK path \in Paths : Create(f, a, path)
  BY DEF Submit, SiteCreate, WebCreate, Paths
<1>4. PICK step \in {"forward", "site link"} :
         Carry(f, step, a) /\ (step = "site link" => Is(f, "site create"))
  BY DEF Submit, SiteCreate, WebCreate
<1> DEFINE r == [step |-> step, token |-> form[f].token, phone |-> form[f].phone, app |-> a]
           x == [phone |-> form[f].phone, path |-> path, token |-> form[f].token, recent |-> TRUE]
<1>5. /\ r \in Form /\ form' = [form EXCEPT ![f] = r]
      /\ r.step = step /\ r.token = form[f].token /\ r.phone = form[f].phone /\ r.app = a
  BY <1>1, <1>4 DEF Form, FormSteps, Carry
<1>6. x \in App /\ app' = [app EXCEPT ![a] = x] /\ x.token = form[f].token
  BY <1>1, <1>3 DEF Form, App, Create
<1>7. \A u \in Tokens :
         /\ invite'[u].used <=> invite[u].used \/ (Is(f, "commit") /\ u = form[f].token)
         /\ invite'[u].phone = invite[u].phone
  <2>1. CASE Submit(f, a)
    <3> DEFINE i == [phone |-> invite[t].phone, used |-> TRUE, expired |-> invite[t].expired, app |-> a]
    <3>1. /\ invite' = [invite EXCEPT ![t] = i] /\ i.used /\ i.phone = invite[t].phone
          /\ Is(f, "commit")
      BY <2>1 DEF Submit
    <3> HIDE DEF i
    <3>2. \A u \in Tokens : invite'[u] = IF u = t THEN i ELSE invite[u]
      BY <3>1 DEF TypeOK
    <3> QED BY <3>1, <3>2
  <2>2. CASE SiteCreate(f, a) \/ WebCreate(f, a)
    BY <2>2 DEF SiteCreate, WebCreate, Is
  <2> QED BY <2>1, <2>2
<1> HIDE DEF r, x
<1> QED BY <1>2, <1>4, <1>5, <1>6, <1>7, Created

LEMMA Linking ==
    ASSUME TypeOK, LinkInv, NEW f \in Forms, SiteLink(f)
    PROVE  LinkInv'
<1>1. \A t \in Tokens : invite'[t].used = invite[t].used /\ invite'[t].phone = invite[t].phone
  BY DEF SiteLink, TypeOK, Invite
<1>2. \A g \in Forms : form'[g] = form[g] \/ form'[g] = NoForm
  BY DEF SiteLink, End, TypeOK
<1>3. \A a \in Apps : app'[a].token = app[a].token
  BY DEF SiteLink
<1> QED BY <1>1, <1>2, <1>3, OthersStep

(* The site's claim is an update that tests the column it sets.            *)
LEMMA Claims ==
    ASSUME TypeOK, LinkInv, NEW f \in Forms, SiteClaim(f)
    PROVE  LinkInv'
<1> DEFINE t == form[f].token
<1>1. FormOK(f) /\ Is(f, "site claim") /\ Unlocked(t) /\ app' = app
  BY DEF SiteClaim, LinkInv, FormsOK
<1>2. t \in Tokens /\ invite[t].phone # "none" /\ form[f].phone \in Phones
  BY <1>1 DEF FormOK, Is, Linked
<1>3. CASE invite[t].used
  BY <1>1, <1>3, Ends DEF SiteClaim
<1>4. CASE ~invite[t].used
  <2>1. Unapplied(t)
    BY <1>2, <1>4, NoZero DEF Unapplied, LinkInv, AppOK
  <2>2. invite' = [invite EXCEPT ![t].used = TRUE] /\ Move(f, "site create")
    BY <1>4 DEF SiteClaim
  <2>3. /\ invite'[t].used
        /\ \A u \in Tokens : invite'[u].phone = invite[u].phone
        /\ \A u \in Tokens : u # t => invite'[u] = invite[u]
    BY <1>2, <2>2 DEF TypeOK, Invite
  <2>4. /\ form'[f].step = "site create" /\ form'[f].token = t /\ form'[f].phone = form[f].phone
        /\ \A g \in Forms : g # f => form'[g] = form[g]
    BY <2>2 DEF Move, TypeOK, Form
  <2>5. ASSUME NEW g \in Forms, g # f, Is(g, "site create") \/ form[g].step \in Locking
        PROVE  form[g].token # t /\ form[g].token \in Tokens
    <3>1. FormOK(g)
      BY DEF LinkInv, FormsOK
    <3>2. form[g].step \in Locking => form[g].token # t
      BY <1>1 DEF Unlocked, Is, Locking
    <3>3. Is(g, "site create") => form[g].token # t
      BY <1>4, <3>1 DEF FormOK
    <3>4. form[g].step \in Linked
      BY <2>5 DEF Is, Linked, Locking
    <3> QED BY <2>5, <3>1, <3>2, <3>3, <3>4 DEF FormOK
  <2>6. \A u : Unapplied(u) => Unapplied(u)'
    BY <1>1 DEF Unapplied
  <2>7. ASSUME NEW g \in Forms PROVE FormOK(g)'
    <3>1. CASE g = f
      <4>1. "site create" \in Linked /\ "site create" \notin Locking
        BY DEF Linked, Locking
      <4> QED BY <1>2, <2>1, <2>3, <2>4, <2>6, <3>1, <4>1 DEF FormOK, Is
    <3>2. CASE g # f
      <4> DEFINE u == form[g].token
      <4>1. FormOK(g) /\ form'[g] = form[g]
        BY <2>4, <3>2 DEF LinkInv, FormsOK
      <4>2. form[g].step \in Linked => u \in Tokens /\ invite'[u].phone # "none"
        BY <2>3, <4>1 DEF FormOK
      <4>3. form[g].step \in Locking => ~invite'[u].used /\ Unapplied(u)
        BY <2>3, <2>5, <3>2, <4>1 DEF FormOK
      <4>4. Is(g, "site create") => invite'[u].used /\ Unapplied(u)
        BY <2>3, <2>5, <3>2, <4>1 DEF FormOK
      <4> QED BY <2>6, <4>1, <4>2, <4>3, <4>4 DEF FormOK, Is
    <3> QED BY <3>1, <3>2
  <2>8. Apart'
    <3>1. ASSUME NEW g \in Forms, form'[g].step \in Locking PROVE g # f
      BY <2>4, <3>1 DEF Locking
    <3>2. ASSUME NEW g \in Forms, NEW h \in Forms, form'[g].token = form'[h].token,
                 \/ form'[g].step \in Locking /\ form'[h].step \in Locking
                 \/ Is(g, "site create")' /\ Is(h, "site create")'
          PROVE  g = h
      <4>1. CASE g = f /\ h # f
        BY <2>4, <2>5, <3>1, <3>2, <4>1 DEF Is
      <4>2. CASE g # f /\ h = f
        BY <2>4, <2>5, <3>1, <3>2, <4>2 DEF Is
      <4>3. CASE g # f /\ h # f
        <5>1. form'[g] = form[g] /\ form'[h] = form[h]
          BY <2>4, <4>3
        <5> QED BY <3>2, <5>1 DEF LinkInv, Apart, Is
      <4> QED BY <4>1, <4>2, <4>3
    <3> QED BY <3>2 DEF Apart
  <2>9. InviteOK'
    <3>1. ASSUME NEW u \in Tokens, invite'[u].used PROVE invite'[u].phone # "none"
      <4>1. InviteOK
        BY DEF LinkInv
      <4> QED BY <1>2, <2>3, <3>1, <4>1 DEF InviteOK
    <3> QED BY <3>1 DEF InviteOK
  <2>10. AppOK' /\ ClaimedOnce'
    <3>1. \A u \in Tokens : invite[u].used => invite'[u].used
      BY <2>3
    <3>2. \A a \in Apps : app[a].token \in Tokens \union {0}
      BY DEF TypeOK, App
    <3> QED BY <1>1, <3>1, <3>2 DEF LinkInv, AppOK, ClaimedOnce
  <2> QED BY <2>7, <2>8, <2>9, <2>10 DEF LinkInv, FormsOK
<1> QED BY <1>3, <1>4

(* Nothing else touches the applications, a used invite or a submission,   *)
(* but by forgetting the submission.                                       *)
LEMMA Elsewhere ==
    ASSUME TextInv, LinkInv,
           \/ Receive
           \/ \E d \in Deliveries : Handle(d)
           \/ \E t \in Tokens : Expire(t)
           \/ \E a \in Apps : Lapse(a)
           \/ \E p \in Phones : Cleanup(p)
           \/ ServerCrash \/ SiteCrash
           \/ UNCHANGED vars
    PROVE  LinkInv'
<1> USE DEF TextInv
<1> DEFINE Kept == \A t \in Tokens :
                      \/ invite'[t].used = invite[t].used /\ invite'[t].phone = invite[t].phone
                      \/ invite[t].phone = "none" /\ ~invite'[t].used /\ invite'[t].phone # "none"
           Forgotten == \A f \in Forms : form'[f] = form[f] \/ form'[f] = NoForm
           Same == \A a \in Apps : app'[a].token = app[a].token
<1>1. CASE Receive
  BY <1>1, OthersStep DEF Receive, Webhook, Duplicate, db
<1>2. ASSUME NEW d \in Deliveries, Handle(d) PROVE LinkInv'
  <2>1. ASSUME NEW t \in Tokens, Mint(d, t) PROVE LinkInv'
    <3> DEFINE i == [phone |-> Phone(d), used |-> FALSE, expired |-> FALSE, app |-> 0]
    <3>1. Phone(d) # "none"
      BY <2>1, Known, IntakeAssumption DEF Mint, IntakeAssumption
    <3>2. /\ invite' = [invite EXCEPT ![t] = i] /\ ~i.used /\ i.phone # "none"
          /\ invite[t].phone = "none" /\ form' = form /\ app' = app
      BY <2>1, <3>1 DEF Mint
    <3> HIDE DEF i
    <3>3. \A u \in Tokens : u # t => invite'[u] = invite[u]
      BY <3>2 DEF TypeOK
    <3>4. invite'[t] = i
      BY <3>2 DEF TypeOK
    <3> QED BY <3>2, <3>3, <3>4, OthersStep
  <2>2. CASE \A t \in Tokens : ~Mint(d, t)
    <3>1. invite' = invite /\ form' = form /\ app' = app
      BY <1>2, <2>2
         DEF Handle, Stop, Start, Silent, Help, Intake, Lookup, ReuseInvite, NoInviteLeft,
             ReadConversation, WriteConversation, LogFails, Reply, HandlerFails, db
    <3> QED BY <3>1, OthersStep
  <2> QED BY <2>1, <2>2
<1>3. ASSUME NEW t \in Tokens, Expire(t) PROVE LinkInv'
  <2>1. Kept
    BY <1>3 DEF Expire, TypeOK, Invite
  <2> QED BY <1>3, <2>1, OthersStep DEF Expire
<1>4. ASSUME NEW a \in Apps, Lapse(a) PROVE LinkInv'
  <2>1. Same
    BY <1>4 DEF Lapse, TypeOK, App
  <2> QED BY <1>4, <2>1, OthersStep DEF Lapse
<1>5. ASSUME NEW p \in Phones, Cleanup(p) PROVE LinkInv'
  BY <1>5, OthersStep DEF Cleanup
<1>6. CASE ServerCrash \/ SiteCrash
  <2>1. Forgotten
    BY <1>6 DEF ServerCrash, SiteCrash
  <2> QED BY <1>6, <2>1, OthersStep DEF ServerCrash, SiteCrash, db
<1>7. CASE UNCHANGED vars
  BY <1>7, OthersStep DEF vars, db
<1> QED BY <1>1, <1>2, <1>3, <1>4, <1>5, <1>6, <1>7

LEMMA LinkStep == TextInv /\ LinkInv /\ [Next]_vars => LinkInv'
<1> SUFFICES ASSUME TextInv, LinkInv, [Next]_vars PROVE LinkInv'
  OBVIOUS
<1>1. ASSUME NEW f \in Forms, Submission(f) PROVE LinkInv'
  <2>1. TypeOK
    BY DEF TextInv
  <2> QED BY <1>1, <2>1, Posted, Checked, Claims, Linking, Creation DEF Submission
<1> QED BY <1>1, Elsewhere DEF Next

(* A survey link yields one application at most, whichever of the two      *)
(* programs its form is posted to: the row lock and the tested claim       *)
(* suffice, without a transaction around the site's three statements.      *)
THEOREM LinksAreUsedOnce == Spec => []ClaimedOnce
<1>1. Init => TextInv /\ LinkInv
  BY InitInv
<1>2. LinkInv => ClaimedOnce
  BY DEF LinkInv
<1> QED BY <1>1, <1>2, TextStep, LinkStep, PTL DEF Spec

(* The two promises about links, for the run's property.                   *)
THEOREM LinksAreKept == Spec => []LinksKept
BY TypeCorrect, InvitesAreUnique, LinksAreUsedOnce, PTL DEF LinksKept

-----------------------------------------------------------------------------
(* Every message is handled once.                                          *)

Busy(d, m) == Running(d) /\ run[d].msg = m

(* A chain holds the running handlers of its phone, each in one place.     *)
ChainOK ==
    /\ \A p \in Phones : \A i \in 1 .. Len(chain[p]) :
          \A d \in Deliveries : chain[p][i] = d => Running(d) /\ Phone(d) = p
    /\ \A p \in Phones : \A i, j \in 1 .. Len(chain[p]) : chain[p][i] = chain[p][j] => i = j
    /\ \A d \in Deliveries : Running(d) => \E i \in 1 .. Len(chain[Phone(d)]) : chain[Phone(d)][i] = d

(* A message has been answered, or one handler is busy with it, or neither *)
(* and then it was not recorded or was given up.                           *)
HandledOK(m) ==
    /\ replied[m] <= 1
    /\ m \notin recorded => replied[m] = 0 /\ \A d \in Deliveries : ~Busy(d, m)
    /\ \A d \in Deliveries : Busy(d, m) => replied[m] = 0
    /\ \A d, e \in Deliveries : Busy(d, m) /\ Busy(e, m) => d = e

HandledInv == ChainOK /\ \A m \in Messages \ unrecorded : HandledOK(m)

LEMMA HandledInit == Init => HandledInv
<1> SUFFICES ASSUME Init PROVE HandledInv
  OBVIOUS
<1>1. \A d \in Deliveries : ~Running(d)
  BY DEF Init, Running, At, NoRun
<1>2. \A p \in Phones : chain[p] = <<>>
  BY DEF Init
<1>3. \A m \in Messages : replied[m] = 0
  BY DEF Init
<1> QED BY <1>1, <1>2, <1>3 DEF HandledInv, ChainOK, HandledOK, Busy

(* A running handler's phone.                                              *)
LEMMA RunningPhone ==
    ASSUME TextInv, NEW d \in Deliveries, Running(d)
    PROVE  run[d].msg \in Messages /\ Phone(d) \in Phones /\ chain[Phone(d)] \in Seq(Deliveries)
BY IntakeAssumption DEF TextInv, RunsOK, RunOK, Running, Phone, TypeOK, IntakeAssumption

(* A step after which the same handlers run, of the same messages.         *)
LEMMA SameRuns ==
    ASSUME TextInv, HandledInv, UNCHANGED <<chain, recorded, unrecorded, replied>>,
           \A d \in Deliveries : (Running(d)' <=> Running(d)) /\ run'[d].msg = run[d].msg
    PROVE  HandledInv'
<1>1. \A d \in Deliveries : Phone(d)' = Phone(d)
  BY DEF Phone
<1>2. \A p \in Phones : \A i \in 1 .. Len(chain[p]) : chain[p][i] \in Deliveries
  BY DEF TextInv, TypeOK
<1>3. ChainOK'
  <2>1. \A p \in Phones : \A i \in 1 .. Len(chain[p]) :
           \A d \in Deliveries : chain[p][i] = d => Running(d)' /\ Phone(d)' = p
    BY <1>1, <1>2 DEF HandledInv, ChainOK
  <2>2. \A d \in Deliveries : Running(d)' => \E i \in 1 .. Len(chain[Phone(d)]) : chain[Phone(d)][i] = d
    BY DEF HandledInv, ChainOK
  <2>3. \A p \in Phones : \A i, j \in 1 .. Len(chain[p]) : chain[p][i] = chain[p][j] => i = j
    BY DEF HandledInv, ChainOK
  <2> QED BY <1>1, <2>1, <2>2, <2>3 DEF ChainOK
<1>4. ASSUME NEW m \in Messages \ unrecorded PROVE HandledOK(m)'
  <2>1. \A d \in Deliveries : Busy(d, m)' <=> Busy(d, m)
    BY DEF Busy
  <2> QED BY <2>1 DEF HandledInv, HandledOK
<1> QED BY <1>3, <1>4 DEF HandledInv

(* The steps of a handler that do not end it.                              *)
LEMMA GoesOn ==
    ASSUME TextInv, NEW d \in Deliveries,
           \/ Stop(d) \/ Start(d) \/ Intake(d) \/ Lookup(d) \/ Help(d) \/ NoInviteLeft(d)
           \/ (\E t \in Tokens : ReuseInvite(d, t) \/ Mint(d, t))
           \/ ReadConversation(d) \/ WriteConversation(d) \/ LogFails(d)
    PROVE  /\ UNCHANGED <<chain, recorded, unrecorded, replied>>
           /\ \A e \in Deliveries : (Running(e)' <=> Running(e)) /\ run'[e].msg = run[e].msg
<1>1. Turn(d) /\ UNCHANGED <<chain, recorded, unrecorded, replied>>
  BY DEF Stop, Start, Intake, Lookup, Help, NoInviteLeft, ReuseInvite, Mint, ReadConversation,
         WriteConversation, LogFails, db
<1>2. run \in [Deliveries -> Run] /\ run[d] \in Run
  BY DEF TextInv, TypeOK
<1>3. ASSUME NEW step, step \notin {"idle", "done"}, Goto(d, step) \/ \E k, t : Answer(d, k, t, step)
      PROVE  /\ run'[d].step = step /\ run'[d].msg = run[d].msg
             /\ \A e \in Deliveries : e # d => run'[e] = run[e]
  BY <1>2, <1>3 DEF Goto, Answer, Run
<1>4. \/ ReadConversation(d)
      \/ \E step \in Working : Goto(d, step) \/ \E k, t : Answer(d, k, t, step)
  BY DEF Stop, Start, Intake, Lookup, Help, NoInviteLeft, ReuseInvite, Mint, WriteConversation, LogFails, Working
<1>5. /\ run'[d].step \notin {"idle", "done"} /\ run'[d].msg = run[d].msg
      /\ \A e \in Deliveries : e # d => run'[e] = run[e]
  <2>1. CASE ReadConversation(d)
    BY <1>2, <2>1 DEF ReadConversation
  <2>2. CASE \E step \in Working : Goto(d, step) \/ \E k, t : Answer(d, k, t, step)
    <3>1. PICK step \in Working : Goto(d, step) \/ \E k, t : Answer(d, k, t, step)
      BY <2>2
    <3> QED BY <1>3, <3>1 DEF Working
  <2> QED BY <1>4, <2>1, <2>2
<1> QED BY <1>1, <1>5 DEF Running, At, Turn

(* What is left of a chain when its head has gone.                         *)
LEMMA Rest ==
    ASSUME NEW S, NEW s \in Seq(S), s # <<>>
    PROVE  /\ Tail(s) \in Seq(S) /\ Len(s) \in Nat /\ Len(s) >= 1 /\ Len(Tail(s)) = Len(s) - 1
           /\ Head(s) = s[1] /\ \A i \in 1 .. Len(Tail(s)) : Tail(s)[i] = s[i + 1]
BY HeadTailProperties

(* A handler ends, having replied or not.                                  *)
LEMMA LeaveHandled ==
    ASSUME TextInv, HandledInv, NEW d \in Deliveries, Turn(d), Leave(d), UNCHANGED <<recorded, unrecorded>>,
           replied' = replied \/ replied' = [replied EXCEPT ![run[d].msg] = @ + 1]
    PROVE  HandledInv'
<1> DEFINE p0 == Phone(d)
           m0 == run[d].msg
           s  == chain[p0]
<1>1. Running(d) /\ m0 \in Messages /\ p0 \in Phones /\ s \in Seq(Deliveries) /\ s # <<>> /\ Head(s) = d
  BY Known DEF Turn, Running
<1>2. /\ run'[d].step = "done" /\ \A e \in Deliveries : e # d => run'[e] = run[e]
  BY DEF Leave, TextInv, TypeOK, Ended
<1>3. chain'[p0] = Tail(s) /\ \A p \in Phones : p # p0 => chain'[p] = chain[p]
  BY <1>1 DEF Leave, TextInv, TypeOK
<1>4. ~Running(d)' /\ \A e \in Deliveries : e # d => (Running(e)' <=> Running(e)) /\ Phone(e)' = Phone(e)
  BY <1>2 DEF Running, At, Phone
<1>5. /\ Len(s) \in Nat /\ Len(Tail(s)) = Len(s) - 1 /\ s[1] = d
      /\ \A i \in 1 .. Len(Tail(s)) : i + 1 \in 1 .. Len(s) /\ Tail(s)[i] = s[i + 1]
  <2>1. Len(s) \in Nat /\ Len(Tail(s)) = Len(s) - 1 /\ s[1] = d /\ Len(s) >= 1
    BY <1>1, Rest
  <2>2. \A i \in 1 .. Len(Tail(s)) : Tail(s)[i] = s[i + 1]
    BY <1>1, Rest
  <2>3. \A i \in 1 .. Len(Tail(s)) : i + 1 \in 1 .. Len(s)
    BY <2>1
  <2> QED BY <2>1, <2>2, <2>3
<1>6. ASSUME NEW p \in Phones, NEW i \in 1 .. Len(chain[p])
      PROVE  /\ chain[p][i] \in Deliveries /\ Running(chain[p][i]) /\ Phone(chain[p][i]) = p
             /\ \A j \in 1 .. Len(chain[p]) : chain[p][i] = chain[p][j] => i = j
  BY DEF TextInv, TypeOK, HandledInv, ChainOK
<1>7. ASSUME NEW p \in Phones, NEW i \in 1 .. Len(chain'[p]), NEW e \in Deliveries, chain'[p][i] = e
      PROVE  Running(e)' /\ Phone(e)' = p
  <2>1. CASE p = p0
    <3>1. i \in 1 .. Len(Tail(s)) /\ chain'[p][i] = s[i + 1] /\ i + 1 \in 1 .. Len(s)
      BY <1>3, <1>5, <1>7, <2>1
    <3>2. s[i + 1] # d
      <4>1. 1 \in 1 .. Len(s) /\ i + 1 # 1
        <5>1. i \in Nat /\ i >= 1 /\ i + 1 <= Len(s)
          BY <3>1, <1>5
        <5> QED BY <5>1, <1>5
      <4> QED BY <4>1, <3>1, <1>1, <1>5, <1>6
    <3> QED BY <3>1, <3>2, <2>1, <1>1, <1>4, <1>6, <1>7
  <2>2. CASE p # p0
    <3>1. chain'[p][i] = chain[p][i] /\ i \in 1 .. Len(chain[p])
      BY <1>3, <1>7, <2>2
    <3>2. chain[p][i] # d
      <4>1. Phone(chain[p][i]) = p
        BY <3>1, <1>6
      <4> QED BY <4>1, <2>2
    <3> QED BY <3>1, <3>2, <1>4, <1>6, <1>7
  <2> QED BY <2>1, <2>2
<1>8. ASSUME NEW p \in Phones, NEW i \in 1 .. Len(chain'[p]), NEW j \in 1 .. Len(chain'[p]),
             chain'[p][i] = chain'[p][j]
      PROVE  i = j
  <2>1. CASE p = p0
    <3>1. /\ i \in 1 .. Len(Tail(s)) /\ chain'[p][i] = s[i + 1] /\ i + 1 \in 1 .. Len(s)
          /\ j \in 1 .. Len(Tail(s)) /\ chain'[p][j] = s[j + 1] /\ j + 1 \in 1 .. Len(s)
      BY <1>3, <1>5, <1>8, <2>1
    <3>2. i + 1 = j + 1
      BY <3>1, <1>1, <1>6, <1>8
    <3>3. i \in Int /\ j \in Int
      OBVIOUS
    <3> QED BY <3>2, <3>3
  <2>2. CASE p # p0
    BY <1>3, <1>6, <1>8, <2>2
  <2> QED BY <2>1, <2>2
<1>9. ASSUME NEW e \in Deliveries, Running(e)'
      PROVE  \E i \in 1 .. Len(chain'[Phone(e)']) : chain'[Phone(e)'][i] = e
  <2>1. e # d /\ Running(e) /\ Phone(e)' = Phone(e) /\ Phone(e) \in Phones
    BY <1>4, <1>9, RunningPhone
  <2>2. PICK i \in 1 .. Len(chain[Phone(e)]) : chain[Phone(e)][i] = e
    BY <2>1 DEF HandledInv, ChainOK
  <2>3. CASE Phone(e) = p0
    <3>1. i # 1 /\ i \in 1 .. Len(s)
      BY <1>5, <2>1, <2>2, <2>3
    <3>2. i - 1 \in 1 .. Len(Tail(s)) /\ (i - 1) + 1 = i
      BY <1>5, <3>1
    <3>3. Tail(s)[i - 1] = e
      BY <1>5, <2>2, <2>3, <3>2
    <3> QED BY <1>3, <1>1, <2>1, <2>3, <3>2, <3>3
  <2>4. CASE Phone(e) # p0
    BY <1>3, <2>1, <2>2, <2>4
  <2> QED BY <2>3, <2>4
<1>10. ChainOK'
  BY <1>7, <1>8, <1>9 DEF ChainOK
<1>11. ASSUME NEW m \in Messages \ unrecorded PROVE HandledOK(m)'
  <2>0. HandledOK(m) /\ replied \in [Messages -> Nat]
    BY DEF HandledInv, TextInv, TypeOK
  <2>1. \A e \in Deliveries : Busy(e, m)' => Busy(e, m) /\ e # d
    BY <1>2, <1>4 DEF Busy
  <2>2. CASE m = m0
    <3>1. Busy(d, m) /\ replied[m] = 0
      BY <1>1, <2>0, <2>2 DEF Busy, HandledOK
    <3>2. \A e \in Deliveries : ~Busy(e, m)'
      BY <2>0, <2>1, <3>1 DEF HandledOK
    <3>3. m \in recorded
      BY <2>0, <3>1 DEF HandledOK
    <3>4. replied'[m] <= 1
      BY <2>0, <2>2, <3>1
    <3> QED BY <3>2, <3>3, <3>4 DEF HandledOK
  <2>3. CASE m # m0
    <3>1. replied'[m] = replied[m]
      BY <2>0, <2>3
    <3> QED BY <2>0, <2>1, <3>1 DEF HandledOK
  <2> QED BY <2>2, <2>3
<1> QED BY <1>10, <1>11 DEF HandledInv

(* A message arrives: the delivery that brings it joins its phone's chain. *)
LEMMA ArriveHandled ==
    ASSUME TextInv, HandledInv, NEW d \in Deliveries, NEW m \in Messages,
           Webhook(d, m, TRUE) \/ Webhook(d, m, FALSE)
    PROVE  HandledInv'
<1> DEFINE p0 == Sender[m]
           s  == chain[p0]
<1>1. p0 \in Phones /\ s \in Seq(Deliveries) /\ ~Running(d)
  BY IntakeAssumption DEF IntakeAssumption, TextInv, TypeOK, Webhook, Running
<1>2. /\ run'[d].step = "waiting" /\ run'[d].msg = m /\ (\A e \in Deliveries : e # d => run'[e] = run[e])
      /\ chain'[p0] = Append(s, d) /\ (\A p \in Phones : p # p0 => chain'[p] = chain[p])
      /\ replied' = replied
  BY <1>1 DEF Webhook, TextInv, TypeOK
<1>3. /\ Running(d)' /\ Phone(d)' = p0
      /\ \A e \in Deliveries : e # d => (Running(e)' <=> Running(e)) /\ Phone(e)' = Phone(e)
  BY <1>2 DEF Running, At, Phone
<1>4. /\ Len(s) \in Nat /\ Len(Append(s, d)) = Len(s) + 1 /\ Append(s, d)[Len(s) + 1] = d
      /\ \A i \in 1 .. Len(s) : Append(s, d)[i] = s[i]
  BY <1>1
<1>5. ASSUME NEW p \in Phones, NEW i \in 1 .. Len(chain[p])
      PROVE  /\ chain[p][i] \in Deliveries /\ Running(chain[p][i]) /\ Phone(chain[p][i]) = p /\ chain[p][i] # d
             /\ \A j \in 1 .. Len(chain[p]) : chain[p][i] = chain[p][j] => i = j
  BY <1>1 DEF TextInv, TypeOK, HandledInv, ChainOK
<1>6. ASSUME NEW p \in Phones, NEW i \in 1 .. Len(chain'[p])
      PROVE  (i \in 1 .. Len(chain[p]) /\ chain'[p][i] = chain[p][i]) \/ (p = p0 /\ i = Len(s) + 1 /\ chain'[p][i] = d)
  <2>1. CASE p = p0
    <3>1. i \in 1 .. (Len(s) + 1)
      BY <1>2, <1>4, <1>6, <2>1
    <3>2. i \in 1 .. Len(s) \/ i = Len(s) + 1
      BY <1>4, <3>1
    <3> QED BY <1>2, <1>4, <2>1, <3>2
  <2>2. CASE p # p0
    BY <1>2, <1>6, <2>2
  <2> QED BY <2>1, <2>2
<1>7. \A p \in Phones : \A i \in 1 .. Len(chain'[p]) :
         \A e \in Deliveries : chain'[p][i] = e => Running(e)' /\ Phone(e)' = p
  BY <1>3, <1>5, <1>6
<1>8. ASSUME NEW p \in Phones, NEW i \in 1 .. Len(chain'[p]), NEW j \in 1 .. Len(chain'[p]),
             chain'[p][i] = chain'[p][j]
      PROVE  i = j
  <2>1. (i \in 1 .. Len(chain[p]) /\ chain'[p][i] = chain[p][i]) \/ (p = p0 /\ i = Len(s) + 1 /\ chain'[p][i] = d)
    BY <1>6
  <2>2. (j \in 1 .. Len(chain[p]) /\ chain'[p][j] = chain[p][j]) \/ (p = p0 /\ j = Len(s) + 1 /\ chain'[p][j] = d)
    BY <1>6
  <2> QED BY <1>5, <1>8, <2>1, <2>2
<1>9. ASSUME NEW e \in Deliveries, Running(e)'
      PROVE  \E i \in 1 .. Len(chain'[Phone(e)']) : chain'[Phone(e)'][i] = e
  <2>1. CASE e = d
    <3>1. Len(s) + 1 \in 1 .. Len(chain'[p0]) /\ chain'[p0][Len(s) + 1] = d
      BY <1>2, <1>4
    <3> QED BY <1>3, <2>1, <3>1
  <2>2. CASE e # d
    <3>1. Running(e) /\ Phone(e)' = Phone(e) /\ Phone(e) \in Phones
      BY <1>3, <1>9, <2>2, RunningPhone
    <3>2. PICK i \in 1 .. Len(chain[Phone(e)]) : chain[Phone(e)][i] = e
      BY <3>1 DEF HandledInv, ChainOK
    <3>3. CASE Phone(e) = p0
      <4>1. i \in 1 .. Len(s)
        BY <3>2, <3>3
      <4>2. i \in 1 .. Len(chain'[p0]) /\ chain'[p0][i] = e
        BY <1>2, <1>4, <3>2, <3>3, <4>1
      <4> QED BY <3>1, <3>3, <4>2
    <3>4. CASE Phone(e) # p0
      BY <1>2, <3>1, <3>2, <3>4
    <3> QED BY <3>3, <3>4
  <2> QED BY <2>1, <2>2
<1>10. ChainOK'
  BY <1>7, <1>8, <1>9 DEF ChainOK
<1>11. ASSUME NEW n \in Messages \ unrecorded' PROVE HandledOK(n)'
  <2>1. n \in Messages \ unrecorded /\ recorded \subseteq recorded'
    BY <1>11 DEF Webhook
  <2>2. HandledOK(n)
    BY <2>1 DEF HandledInv
  <2>3. CASE n = m
    <3>1. m \notin recorded /\ m \in recorded'
      BY <1>11, <2>3 DEF Webhook
    <3>2. replied'[n] = 0 /\ \A e \in Deliveries : ~Busy(e, n)
      BY <1>2, <2>2, <2>3, <3>1 DEF HandledOK
    <3>3. \A e \in Deliveries : Busy(e, n)' => e = d
      BY <1>2, <1>3, <3>2 DEF Busy
    <3> QED BY <2>3, <3>1, <3>2, <3>3 DEF HandledOK
  <2>4. CASE n # m
    <3>1. \A e \in Deliveries : Busy(e, n)' => Busy(e, n)
      BY <1>2, <1>3, <2>4 DEF Busy
    <3> QED BY <1>2, <2>1, <2>2, <3>1 DEF HandledOK
  <2> QED BY <2>3, <2>4
<1> QED BY <1>10, <1>11 DEF HandledInv

LEMMA HandledStep == TextInv /\ HandledInv /\ [Next]_vars => HandledInv'
<1> SUFFICES ASSUME TextInv, HandledInv, [Next]_vars PROVE HandledInv'
  OBVIOUS
<1>1. CASE UNCHANGED <<run, chain, recorded, unrecorded, replied>>
  BY <1>1, SameRuns DEF Running, At
<1>2. ASSUME NEW d \in Deliveries, NEW m \in Messages, Webhook(d, m, TRUE) \/ Webhook(d, m, FALSE)
      PROVE  HandledInv'
  BY <1>2, ArriveHandled
<1>3. ASSUME NEW d \in Deliveries, NEW m \in Messages, Duplicate(d, m) PROVE HandledInv'
  <2>1. /\ ~Running(d) /\ run'[d].step = "done" /\ (\A e \in Deliveries : e # d => run'[e] = run[e])
        /\ UNCHANGED <<chain, recorded, unrecorded, replied>>
    BY <1>3 DEF Duplicate, Running, TextInv, TypeOK, Ended, db
  <2>2. \A e \in Deliveries : (Running(e)' <=> Running(e)) /\ (Running(e) => run'[e].msg = run[e].msg)
    BY <2>1 DEF Running, At
  <2>3. ChainOK'
    <3>1. \A p \in Phones : \A i \in 1 .. Len(chain[p]) : chain[p][i] \in Deliveries
      BY DEF TextInv, TypeOK
    <3>2. \A e \in Deliveries : Running(e) => Phone(e)' = Phone(e)
      BY <2>2 DEF Phone
    <3>3. \A p \in Phones : \A i \in 1 .. Len(chain[p]) :
             \A e \in Deliveries : chain[p][i] = e => Running(e)' /\ Phone(e)' = p
      BY <2>2, <3>1, <3>2 DEF HandledInv, ChainOK
    <3>4. \A p \in Phones : \A i, j \in 1 .. Len(chain[p]) : chain[p][i] = chain[p][j] => i = j
      BY DEF HandledInv, ChainOK
    <3>5. \A e \in Deliveries : Running(e)' => \E i \in 1 .. Len(chain[Phone(e)']) : chain[Phone(e)'][i] = e
      BY <2>2, <3>2 DEF HandledInv, ChainOK
    <3> QED BY <2>1, <3>3, <3>4, <3>5 DEF ChainOK
  <2>4. ASSUME NEW n \in Messages \ unrecorded PROVE HandledOK(n)'
    <3>1. \A e \in Deliveries : Busy(e, n)' <=> Busy(e, n)
      BY <2>2 DEF Busy
    <3> QED BY <2>1, <3>1 DEF HandledInv, HandledOK
  <2> QED BY <2>1, <2>3, <2>4 DEF HandledInv
<1>4. ASSUME NEW d \in Deliveries, Handle(d) PROVE HandledInv'
  <2>1. CASE Silent(d) \/ Reply(d) \/ HandlerFails(d)
    <3>1. /\ Turn(d) /\ Leave(d) /\ UNCHANGED <<recorded, unrecorded>>
          /\ replied' = replied \/ replied' = [replied EXCEPT ![run[d].msg] = @ + 1]
      BY <2>1 DEF Silent, Reply, HandlerFails, db
    <3> QED BY <3>1, LeaveHandled
  <2>2. CASE ~(Silent(d) \/ Reply(d) \/ HandlerFails(d))
    <3>1. /\ UNCHANGED <<chain, recorded, unrecorded, replied>>
          /\ \A e \in Deliveries : (Running(e)' <=> Running(e)) /\ run'[e].msg = run[e].msg
      BY <1>4, <2>2, GoesOn DEF Handle
    <3> QED BY <3>1, SameRuns
  <2> QED BY <2>1, <2>2
<1>5. CASE ServerCrash
  <2>1. /\ \A d \in Deliveries : run'[d].step \in {"idle", "done"}
        /\ \A p \in Phones : chain'[p] = <<>>
        /\ UNCHANGED <<recorded, unrecorded, replied>>
    BY <1>5 DEF ServerCrash, NoRun, Ended, db
  <2>2. \A d \in Deliveries : ~Running(d)'
    BY <2>1 DEF Running, At
  <2>3. ASSUME NEW m \in Messages \ unrecorded PROVE HandledOK(m)'
    <3>1. \A d \in Deliveries : ~Busy(d, m)'
      BY <2>2 DEF Busy
    <3> QED BY <2>1, <3>1 DEF HandledInv, HandledOK
  <2> QED BY <2>1, <2>2, <2>3 DEF HandledInv, ChainOK
<1>6. ASSUME NEW f \in Forms, Submission(f) PROVE UNCHANGED texts
  BY <1>6 DEF Submission, PostSurvey, PostSite, PostWeb, Claim, CheckDuplicate, SiteClaim, SiteLink, Forward,
              Submit, SiteCreate, WebCreate
<1>7. CASE \/ \E t \in Tokens : Expire(t)
           \/ \E a \in Apps : Lapse(a)
           \/ \E p \in Phones : Cleanup(p)
           \/ SiteCrash
  BY <1>1, <1>7 DEF Expire, Lapse, Cleanup, SiteCrash, texts
<1>8. CASE UNCHANGED vars
  BY <1>1, <1>8 DEF vars, db
<1> QED BY <1>1, <1>2, <1>3, <1>4, <1>5, <1>6, <1>7, <1>8 DEF Next, Receive, texts

LEMMA HandledMeans == ASSUME TextInv, HandledInv PROVE EachHandledOnce
<1>1. AnsweredOnce
  BY DEF HandledInv, HandledOK, AnsweredOnce
<1>2. ASSUME NEW d \in Deliveries, NEW p \in Phones
      PROVE  Cardinality({i \in 1 .. Len(chain[p]) : chain[p][i] = d})
                = IF Running(d) /\ Phone(d) = p THEN 1 ELSE 0
  <2> DEFINE P == {i \in 1 .. Len(chain[p]) : chain[p][i] = d}
  <2>1. CASE Running(d) /\ Phone(d) = p
    <3>1. PICK i \in 1 .. Len(chain[p]) : chain[p][i] = d
      BY <2>1 DEF HandledInv, ChainOK
    <3>2. P = {i}
      BY <3>1 DEF HandledInv, ChainOK
    <3> QED BY <2>1, <3>2, FS_Singleton
  <2>2. CASE ~(Running(d) /\ Phone(d) = p)
    <3>1. P = {}
      BY <2>2 DEF HandledInv, ChainOK
    <3> QED BY <2>2, <3>1, FS_EmptySet
  <2> QED BY <2>1, <2>2
<1> QED BY <1>1, <1>2 DEF EachHandledOnce, ChainSound

(* However often Telnyx delivers a message, and whatever fails, one handler *)
(* answers it; and a phone's chain holds exactly the handlers that have yet *)
(* to end, each once, so that none of them waits for nothing.              *)
THEOREM MessagesAreHandledOnce == Spec => []EachHandledOnce
<1>1. Init => TextInv /\ HandledInv
  BY InitInv, HandledInit
<1>2. TextInv /\ HandledInv => EachHandledOnce
  BY HandledMeans
<1> QED BY <1>1, <1>2, TextStep, HandledStep, PTL DEF Spec

-----------------------------------------------------------------------------
(* One recent application per phone through the server.                    *)

Claimed == {"claim", "check", "commit"}
RecentSurvey(p) == {a \in Apps : app[a].recent /\ app[a].path = "survey" /\ app[a].phone = p}

(* A form's link goes on living while its submission is under way, and     *)
(* when the thirty-day check has passed nothing can be added behind it.    *)
ClaimOK(f) ==
    /\ form[f].step \in Claimed => /\ ~invite[form[f].token].expired
                                   /\ invite[form[f].token].phone = form[f].phone
    /\ Is(f, "commit") => RecentSurvey(form[f].phone) = {}
SecondInv == (\A f \in Forms : ClaimOK(f)) /\ NoSecondApplication

LEMMA SecondInit == Init => SecondInv
<1> SUFFICES ASSUME Init PROVE SecondInv
  OBVIOUS
<1>1. \A f \in Forms : form[f].step = "to come"
  BY DEF Init, NewForm
<1>2. \A a \in Apps : app[a].path = "none"
  BY DEF Init, NoApp
<1> QED BY <1>1, <1>2 DEF SecondInv, ClaimOK, Is, Claimed, NoSecondApplication

(* Two submissions of one phone do not hold their links' rows together:    *)
(* they would be two live links.                                           *)
LEMMA OneHolder ==
    ASSUME TextInv, LinkInv, SecondInv, NEW f \in Forms, NEW g \in Forms,
           form[f].step \in Locking, form[g].step \in Locking, form[f].phone = form[g].phone
    PROVE  f = g
<1>1. \A h \in Forms : form[h].step \in Locking => /\ form[h].step \in Claimed /\ form[h].step \in Linked
                                                   /\ form[h].token \in Tokens /\ Live(form[h].token)
                                                   /\ invite[form[h].token].phone = form[h].phone
  <2> SUFFICES ASSUME NEW h \in Forms, form[h].step \in Locking
               PROVE  /\ form[h].step \in Claimed /\ form[h].step \in Linked
                      /\ form[h].token \in Tokens /\ Live(form[h].token)
                      /\ invite[form[h].token].phone = form[h].phone
    OBVIOUS
  <2>1. form[h].step \in Claimed /\ form[h].step \in Linked
    BY DEF Locking, Claimed, Linked
  <2>2. FormOK(h) /\ ClaimOK(h)
    BY DEF LinkInv, FormsOK, SecondInv
  <2> QED BY <2>1, <2>2 DEF FormOK, ClaimOK, Live
<1>2. form[f].token = form[g].token
  BY <1>1 DEF TextInv, OneLiveInvite
<1> QED BY <1>2 DEF LinkInv, Apart

(* A step that begins, moves or ends one submission at most, and adds no   *)
(* recent application.                                                     *)
LEMMA SecondMoves ==
    ASSUME TypeOK, LinkInv, SecondInv, NEW f \in Forms, \A g \in Forms : g # f => form'[g] = form[g] \/ form'[g] = NoForm,
           \A a \in Apps : /\ app'[a].recent => app[a].recent
                           /\ app'[a].path = app[a].path /\ app'[a].phone = app[a].phone,
           \A g \in Forms : form[g].step \in Claimed =>
              /\ invite'[form[g].token].phone = invite[form[g].token].phone
              /\ ~invite'[form[g].token].expired,
           ClaimOK(f)'
    PROVE  SecondInv'
<1>1. ASSUME NEW g \in Forms, g # f PROVE ClaimOK(g)'
  <2>1. ClaimOK(g)
    BY DEF SecondInv
  <2>2. CASE form'[g] = NoForm
    BY <2>2 DEF NoForm, ClaimOK, Is, Claimed
  <2>3. CASE form'[g] = form[g]
    <3>1. Is(g, "commit") => \A a \in Apps : ~(app'[a].recent /\ app'[a].path = "survey" /\ app'[a].phone = form[g].phone)
      BY <2>1 DEF ClaimOK, RecentSurvey
    <3> QED BY <2>1, <2>3, <3>1 DEF ClaimOK, Is, RecentSurvey
  <2> QED BY <1>1, <2>2, <2>3
<1>2. NoSecondApplication'
  BY DEF SecondInv, NoSecondApplication
<1> QED BY <1>1, <1>2 DEF SecondInv

(* Steps of the texts, of time and crashes.                                *)
LEMMA SecondOthers ==
    ASSUME TypeOK, LinkInv, SecondInv, \A g \in Forms : form'[g] = form[g] \/ form'[g] = NoForm,
           \A a \in Apps : /\ app'[a].recent => app[a].recent
                           /\ app'[a].path = app[a].path /\ app'[a].phone = app[a].phone,
           \A g \in Forms : form[g].step \in Claimed =>
              /\ invite'[form[g].token].phone = invite[form[g].token].phone
              /\ ~invite'[form[g].token].expired
    PROVE  SecondInv'
<1>1. ASSUME NEW g \in Forms PROVE ClaimOK(g)'
  <2>1. ClaimOK(g)
    BY DEF SecondInv
  <2>2. CASE form'[g] = NoForm
    BY <2>2 DEF NoForm, ClaimOK, Is, Claimed
  <2>3. CASE form'[g] = form[g]
    <3>1. Is(g, "commit") => \A a \in Apps : ~(app'[a].recent /\ app'[a].path = "survey" /\ app'[a].phone = form[g].phone)
      BY <2>1 DEF ClaimOK, RecentSurvey
    <3> QED BY <2>1, <2>3, <3>1 DEF ClaimOK, Is, RecentSurvey
  <2> QED BY <2>2, <2>3
<1>2. NoSecondApplication'
  BY DEF SecondInv, NoSecondApplication
<1> QED BY <1>1, <1>2 DEF SecondInv

(* Steps of a submission that create no application.                       *)
LEMMA SecondForm ==
    ASSUME TextInv, LinkInv, SecondInv, NEW f \in Forms,
           \/ (\E t \in Tokens : PostSurvey(f, t) \/ PostSite(f, t)) \/ (\E p \in Phones : PostWeb(f, p))
           \/ Claim(f) \/ CheckDuplicate(f) \/ SiteClaim(f) \/ SiteLink(f) \/ Forward(f)
    PROVE  SecondInv'
<1>1. TypeOK /\ form \in [Forms -> Form] /\ form[f] \in Form /\ app' = app
  BY DEF TextInv, TypeOK, PostSurvey, PostSite, PostWeb, Claim, CheckDuplicate, SiteClaim, SiteLink, Forward
<1>2. \A g \in Forms : g # f => form'[g] = form[g]
  BY <1>1 DEF PostSurvey, PostSite, PostWeb, Claim, CheckDuplicate, SiteClaim, SiteLink, Forward, Begin, Move, End
<1>3. \A t \in Tokens : invite'[t].phone = invite[t].phone /\ invite'[t].expired = invite[t].expired
  <2>1. CASE SiteClaim(f)
    <3>1. invite' = invite \/ invite' = [invite EXCEPT ![form[f].token].used = TRUE]
      BY <2>1 DEF SiteClaim
    <3>2. invite \in [Tokens -> Invite]
      BY <1>1 DEF TypeOK
    <3>3. \A t \in Tokens : invite'[t] = invite[t] \/ invite'[t] = [invite[t] EXCEPT !.used = TRUE]
      BY <3>1, <3>2
    <3>4. ASSUME NEW i \in Invite
          PROVE  [i EXCEPT !.used = TRUE].phone = i.phone /\ [i EXCEPT !.used = TRUE].expired = i.expired
      BY DEF Invite
    <3> QED BY <3>2, <3>3, <3>4
  <2>2. CASE SiteLink(f)
    BY <1>1, <2>2 DEF SiteLink, TypeOK, Invite
  <2>3. CASE ~SiteClaim(f) /\ ~SiteLink(f)
    BY <2>3 DEF PostSurvey, PostSite, PostWeb, Claim, CheckDuplicate, Forward
  <2> QED BY <2>1, <2>2, <2>3
<1>4. ASSUME NEW g \in Forms, form[g].step \in Claimed
      PROVE  /\ form[g].token \in Tokens /\ ~invite[form[g].token].expired
             /\ invite[form[g].token].phone = form[g].phone
  <2>1. FormOK(g) /\ ClaimOK(g)
    BY DEF LinkInv, FormsOK, SecondInv
  <2> QED BY <1>4, <2>1 DEF Claimed, Linked, FormOK, ClaimOK
<1>5. ClaimOK(f)'
  <2>1. ASSUME NEW t \in Tokens, PostSurvey(f, t) PROVE ClaimOK(f)'
    <3>1. form'[f] = [step |-> "claim", token |-> t, phone |-> invite[t].phone, app |-> 0] /\ ~invite[t].expired
      BY <1>1, <2>1 DEF PostSurvey, Begin, Live
    <3> QED BY <1>3, <3>1 DEF ClaimOK, Is
  <2>2. ASSUME form'[f].step \notin Claimed PROVE ClaimOK(f)'
    BY <2>2 DEF ClaimOK, Is, Claimed
  <2>3. ASSUME NEW t \in Tokens, PostSite(f, t) PROVE ClaimOK(f)'
    BY <1>1, <2>2, <2>3 DEF PostSite, Begin, Claimed
  <2>4. ASSUME NEW p \in Phones, PostWeb(f, p) PROVE ClaimOK(f)'
    BY <1>1, <2>2, <2>4 DEF PostWeb, Begin, Claimed
  <2>5. CASE End(f)
    BY <1>1, <2>2, <2>5 DEF End, NoForm, Claimed
  <2>6. ASSUME NEW step, Move(f, step)
        PROVE  form'[f].step = step /\ form'[f].token = form[f].token /\ form'[f].phone = form[f].phone
    BY <1>1, <2>6 DEF Move, Form
  <2>7. ASSUME Move(f, "check"), Is(f, "claim") PROVE ClaimOK(f)'
    BY <1>3, <1>4, <2>6, <2>7 DEF ClaimOK, Is, Claimed
  <2>8. ASSUME Move(f, "commit"), Is(f, "check"), OfPhone(form[f].phone, SmsLink) = {} PROVE ClaimOK(f)'
    <3>1. \A a \in Apps : ~(app[a].recent /\ app[a].path = "survey" /\ app[a].phone = form[f].phone)
      BY <2>8 DEF OfPhone, SmsLink
    <3>2. form'[f].step = "commit" /\ form'[f].token = form[f].token /\ form'[f].phone = form[f].phone
      BY <2>6, <2>8
    <3> QED BY <1>1, <1>3, <1>4, <2>8, <3>1, <3>2 DEF ClaimOK, Is, Claimed, RecentSurvey
  <2>9. CASE Move(f, "site create")
    <3>1. form'[f].step = "site create"
      BY <2>6, <2>9
    <3> QED BY <2>2, <3>1 DEF Claimed
  <2> QED BY <2>1, <2>3, <2>4, <2>5, <2>7, <2>8, <2>9 DEF Claim, CheckDuplicate, SiteClaim, SiteLink, Forward
<1>6. \A g \in Forms : form[g].step \in Claimed =>
         /\ invite'[form[g].token].phone = invite[form[g].token].phone
         /\ ~invite'[form[g].token].expired
  BY <1>3, <1>4
<1> QED BY <1>1, <1>2, <1>5, <1>6, SecondMoves

(* A submission creates its application.                                   *)
LEMMA SecondCreates ==
    ASSUME TextInv, LinkInv, SecondInv, NEW f \in Forms, NEW a \in Apps,
           Submit(f, a) \/ SiteCreate(f, a) \/ WebCreate(f, a)
    PROVE  SecondInv'
<1>1. form \in [Forms -> Form] /\ form[f] \in Form /\ app \in [Apps -> App] /\ invite \in [Tokens -> Invite]
  BY DEF TextInv, TypeOK
<1>2. \A g \in Forms : g # f => form'[g] = form[g]
  BY <1>1 DEF Submit, SiteCreate, WebCreate, Carry
<1>3. form'[f].step \notin Claimed
  <2>1. PICK step \in {"forward", "site link"} : Carry(f, step, a)
    BY DEF Submit, SiteCreate, WebCreate
  <2>2. form'[f].step = step
    BY <1>1, <2>1 DEF Carry
  <2> QED BY <2>1, <2>2 DEF Claimed
<1>4. \A t \in Tokens : invite'[t].phone = invite[t].phone /\ invite'[t].expired = invite[t].expired
  <2>1. CASE Submit(f, a)
    <3> DEFINE t == form[f].token
               i == [phone |-> invite[t].phone, used |-> TRUE, expired |-> invite[t].expired, app |-> a]
    <3>1. invite' = [invite EXCEPT ![t] = i]
      BY <2>1 DEF Submit
    <3>2. i.phone = invite[t].phone /\ i.expired = invite[t].expired
      OBVIOUS
    <3> HIDE DEF i
    <3> QED BY <1>1, <3>1, <3>2
  <2>2. CASE SiteCreate(f, a) \/ WebCreate(f, a)
    BY <2>2 DEF SiteCreate, WebCreate
  <2> QED BY <2>1, <2>2
<1>5. PICK path \in Paths : Create(f, a, path) /\ (path = "survey" => Is(f, "commit"))
  BY DEF Submit, SiteCreate, WebCreate, Paths
<1>6. /\ app'[a].path = path /\ app'[a].phone = form[f].phone
      /\ \A b \in Apps : b # a => app'[b] = app[b]
  BY <1>1, <1>5 DEF Create
<1>7. path = "survey" => \A b \in Apps : ~(app[b].recent /\ app[b].path = "survey" /\ app[b].phone = form[f].phone)
  BY <1>5 DEF SecondInv, ClaimOK, RecentSurvey
<1>8. NoSecondApplication'
  <2> SUFFICES ASSUME NEW b \in Apps, NEW c \in Apps, app'[b].recent, app'[b].path = "survey",
                      app'[c].recent, app'[c].path = "survey", app'[b].phone = app'[c].phone
               PROVE  b = c
    BY DEF NoSecondApplication
  <2>1. CASE b # a /\ c # a
    BY <1>6, <2>1 DEF SecondInv, NoSecondApplication
  <2>2. CASE b = a /\ c # a
    BY <1>6, <1>7, <2>2
  <2>3. CASE b # a /\ c = a
    BY <1>6, <1>7, <2>3
  <2> QED BY <2>1, <2>2, <2>3
<1>9. ASSUME NEW g \in Forms, g # f PROVE ClaimOK(g)'
  <2>1. ClaimOK(g) /\ form'[g] = form[g] /\ FormOK(g)
    BY <1>2, <1>9 DEF SecondInv, LinkInv, FormsOK
  <2>2. form[g].step \in Claimed => form[g].token \in Tokens
    BY <2>1 DEF Claimed, Linked, FormOK
  <2>3. Is(g, "commit") /\ path = "survey" => form[g].phone # form[f].phone
    BY <1>5, <1>9, OneHolder DEF Is, Locking
  <2>4. ASSUME Is(g, "commit"), NEW b \in Apps
        PROVE  ~(app'[b].recent /\ app'[b].path = "survey" /\ app'[b].phone = form[g].phone)
    <3>1. CASE b = a
      BY <1>6, <2>3, <2>4, <3>1
    <3>2. CASE b # a
      BY <1>6, <2>1, <2>4, <3>2 DEF ClaimOK, RecentSurvey
    <3> QED BY <3>1, <3>2
  <2> QED BY <1>4, <2>1, <2>2, <2>4 DEF ClaimOK, Is, RecentSurvey
<1>10. ClaimOK(f)'
  BY <1>3 DEF ClaimOK, Is, Claimed
<1> QED BY <1>8, <1>9, <1>10 DEF SecondInv

LEMMA SecondStep == TextInv /\ LinkInv /\ SecondInv /\ [Next]_vars => SecondInv'
<1> SUFFICES ASSUME TextInv, LinkInv, SecondInv, [Next]_vars PROVE SecondInv'
  OBVIOUS
<1>1. ASSUME NEW g \in Forms, form[g].step \in Claimed
      PROVE  /\ form[g].token \in Tokens /\ ~invite[form[g].token].expired
             /\ invite[form[g].token].phone # "none"
  <2>1. FormOK(g) /\ ClaimOK(g)
    BY DEF LinkInv, FormsOK, SecondInv
  <2> QED BY <1>1, <2>1 DEF Claimed, Linked, FormOK, ClaimOK
<1>2. ASSUME NEW f \in Forms, Submission(f) PROVE SecondInv'
  BY <1>2, SecondForm, SecondCreates DEF Submission
<1>3. TypeOK /\ app \in [Apps -> App] /\ invite \in [Tokens -> Invite]
  BY DEF TextInv, TypeOK
<1>4. CASE UNCHANGED <<invite, app, form>>
  <2>1. \A g \in Forms : form[g].step \in Claimed => ~invite[form[g].token].expired
    BY <1>1
  <2> QED BY <1>3, <1>4, <2>1, SecondOthers
<1>5. CASE Receive
  BY <1>4, <1>5 DEF Receive, Webhook, Duplicate, db
<1>6. ASSUME NEW d \in Deliveries, Handle(d) PROVE SecondInv'
  <2>1. ASSUME NEW t \in Tokens, Mint(d, t) PROVE SecondInv'
    <3>1. invite[t].phone = "none" /\ \A u \in Tokens : u # t => invite'[u] = invite[u]
      BY <1>3, <2>1 DEF Mint
    <3>2. form' = form /\ app' = app
      BY <2>1 DEF Mint
    <3>3. ASSUME NEW g \in Forms, form[g].step \in Claimed
          PROVE  /\ invite'[form[g].token].phone = invite[form[g].token].phone
                 /\ ~invite'[form[g].token].expired
      BY <1>1, <3>1, <3>3
    <3> QED BY <1>3, <3>2, <3>3, SecondOthers
  <2>2. CASE \A t \in Tokens : ~Mint(d, t)
    <3>1. UNCHANGED <<invite, app, form>>
      BY <1>6, <2>2
         DEF Handle, Stop, Start, Silent, Help, Intake, Lookup, ReuseInvite, NoInviteLeft,
             ReadConversation, WriteConversation, LogFails, Reply, HandlerFails, db
    <3> QED BY <1>4, <3>1
  <2> QED BY <2>1, <2>2
<1>7. ASSUME NEW t \in Tokens, Expire(t) PROVE SecondInv'
  <2>1. \A u \in Tokens : u # t => invite'[u] = invite[u]
    BY <1>3, <1>7 DEF Expire
  <2>2. form' = form /\ app' = app /\ \A g \in Forms : form[g].token # t
    BY <1>7 DEF Expire
  <2>3. ASSUME NEW g \in Forms, form[g].step \in Claimed
        PROVE  /\ invite'[form[g].token].phone = invite[form[g].token].phone
               /\ ~invite'[form[g].token].expired
    BY <1>1, <2>1, <2>2, <2>3
  <2> QED BY <1>3, <2>2, <2>3, SecondOthers
<1>8. ASSUME NEW a \in Apps, Lapse(a) PROVE SecondInv'
  <2>1. \A b \in Apps : /\ app'[b].recent => app[b].recent
                        /\ app'[b].path = app[b].path /\ app'[b].phone = app[b].phone
    BY <1>3, <1>8 DEF Lapse, App
  <2>2. form' = form /\ invite' = invite
    BY <1>8 DEF Lapse
  <2> QED BY <1>1, <1>3, <2>1, <2>2, SecondOthers
<1>9. CASE \E p \in Phones : Cleanup(p)
  BY <1>4, <1>9 DEF Cleanup
<1>10. CASE ServerCrash \/ SiteCrash
  <2>1. /\ \A g \in Forms : form'[g] = form[g] \/ form'[g] = NoForm
        /\ invite' = invite /\ app' = app
    BY <1>10 DEF ServerCrash, SiteCrash, db
  <2> QED BY <1>1, <1>3, <2>1, SecondOthers
<1>11. CASE UNCHANGED vars
  BY <1>4, <1>11 DEF vars, db
<1> QED BY <1>2, <1>5, <1>6, <1>7, <1>8, <1>9, <1>10, <1>11 DEF Next

(* The server's check of the last thirty days is a read before its write,  *)
(* and no lock is on the phone; what makes it hold is that a phone has one *)
(* live link and that the claim locks the link.                            *)
THEOREM ServerCreatesOne == Spec => []NoSecondApplication
<1>1. Init => TextInv /\ LinkInv /\ SecondInv
  BY InitInv, SecondInit
<1>2. SecondInv => NoSecondApplication
  BY DEF SecondInv
<1> QED BY <1>1, <1>2, TextStep, LinkStep, SecondStep, PTL DEF Spec

-----------------------------------------------------------------------------
(* Days.                                                                   *)

LEMMA Lengths == DayLength \in Nat \ {0} /\ Week \in Nat \ {0} /\ MaxTime \in Nat
BY ToursAssumption DEF ToursAssumption

LEMMA DaysApart ==
    ASSUME NEW a \in Int, NEW b \in Int, a < b
    PROVE  a * DayLength + DayLength <= b * DayLength
<1>1. DayLength \in Nat \ {0}
  BY Lengths
<1>2. PICK n \in Nat : b = a + 1 + n
  <2>1. b - a - 1 \in Nat /\ b = a + 1 + (b - a - 1)
    OBVIOUS
  <2> QED BY <2>1
<1>3. b * DayLength = a * DayLength + DayLength + n * DayLength
  BY <1>1, <1>2
<1>4. n * DayLength >= 0
  BY <1>1
<1> QED BY <1>1, <1>3, <1>4

LEMMA Division ==
    ASSUME NEW t \in Nat
    PROVE  /\ Day(t) \in Nat
           /\ Day(t) * DayLength <= t /\ t < Day(t) * DayLength + DayLength
<1>1. DayLength \in Nat \ {0}
  BY Lengths
<1> QED BY <1>1 DEF Day

LEMMA DayOf ==
    ASSUME NEW k \in Nat, NEW t \in Nat, k * DayLength <= t, t < k * DayLength + DayLength
    PROVE  Day(t) = k
<1>1. /\ Day(t) \in Nat /\ Day(t) * DayLength <= t /\ t < Day(t) * DayLength + DayLength
  BY Division
<1>2. /\ DayLength \in Nat \ {0} /\ k * DayLength \in Nat /\ Day(t) * DayLength \in Nat
  BY <1>1, Lengths
<1>3. Day(t) < k => Day(t) * DayLength + DayLength <= k * DayLength
  BY <1>1, DaysApart
<1>4. k < Day(t) => k * DayLength + DayLength <= Day(t) * DayLength
  BY <1>1, DaysApart
<1> HIDE DEF Day
<1> QED BY <1>1, <1>2, <1>3, <1>4

LEMMA DayMono ==
    ASSUME NEW a \in Nat, NEW b \in Nat, a <= b
    PROVE  Day(a) <= Day(b)
<1>1. /\ Day(a) \in Nat /\ Day(a) * DayLength <= a
      /\ Day(b) \in Nat /\ b < Day(b) * DayLength + DayLength
  BY Division
<1>2. Day(b) < Day(a) => Day(b) * DayLength + DayLength <= Day(a) * DayLength
  BY <1>1, DaysApart
<1>3. DayLength \in Nat \ {0} /\ Day(a) * DayLength \in Nat /\ Day(b) * DayLength \in Nat
  BY <1>1, Lengths
<1> QED BY <1>1, <1>2, <1>3

(* A time cut from a slot row lies in its day and ends there.              *)
LEMMA SlotTimes ==
    ASSUME NEW s \in SlotIds, NEW x \in Starts(OfferOf[s])
    PROVE  /\ OfferOf[s].step \in Nat \ {0} /\ OfferOf[s].start \in Nat
           /\ x \in Nat /\ OfferOf[s].start <= x /\ x + OfferOf[s].step <= DayLength
           /\ (x - OfferOf[s].start) % OfferOf[s].step = 0
<1>1. /\ OfferOf[s] \in Offer /\ OfferOf[s].end <= DayLength
  BY ToursAssumption DEF ToursAssumption
<1>2. /\ OfferOf[s].step \in Nat \ {0} /\ OfferOf[s].start \in Nat /\ OfferOf[s].end \in Nat
  BY <1>1 DEF Offer
<1>3. /\ x \in OfferOf[s].start .. OfferOf[s].end
      /\ (x - OfferOf[s].start) % OfferOf[s].step = 0
      /\ x + OfferOf[s].step <= OfferOf[s].end
  BY DEF Starts
<1> QED BY <1>1, <1>2, <1>3, Lengths

LEMMA Multiples ==
    ASSUME NEW n \in Nat \ {0}, NEW a \in Nat, NEW b \in Nat, a % n = 0, b % n = 0, a < b
    PROVE  a + n <= b
<1>1. a = n * (a \div n) /\ b = n * (b \div n) /\ a \div n \in Nat /\ b \div n \in Nat
  OBVIOUS
<1>2. PICK i \in Nat, j \in Nat : a = n * i /\ b = n * j
  BY <1>1
<1>3. i < j
  <2>1. j <= i => n * j <= n * i
    <3> SUFFICES ASSUME j <= i PROVE n * j <= n * i
      OBVIOUS
    <3>1. PICK k \in Nat : i = j + k
      <4>1. i - j \in Nat /\ i = j + (i - j)
        OBVIOUS
      <4> QED BY <4>1
    <3>2. n * i = n * j + n * k /\ n * k >= 0
      BY <3>1
    <3> QED BY <3>2
  <2> QED BY <1>2, <2>1
<1>4. PICK k \in Nat : j = i + 1 + k
  <2>1. j - i - 1 \in Nat /\ j = i + 1 + (j - i - 1)
    BY <1>3
  <2> QED BY <2>1
<1>5. n * j = n * i + n + n * k /\ n * k >= 0
  BY <1>4
<1> QED BY <1>2, <1>5

(* A time of a slot row, on some day.                                      *)
Cut(t, s) == \E d \in Nat : \E x \in Starts(OfferOf[s]) : t = d * DayLength + x

LEMMA CutsApart ==
    ASSUME NEW s \in SlotIds, NEW t \in Nat, NEW u \in Nat, Cut(t, s), Cut(u, s), t < u
    PROVE  t + OfferOf[s].step <= u
<1>1. PICK d \in Nat, x \in Starts(OfferOf[s]) : t = d * DayLength + x
  BY DEF Cut
<1>2. PICK e \in Nat, y \in Starts(OfferOf[s]) : u = e * DayLength + y
  BY DEF Cut
<1> DEFINE step == OfferOf[s].step
           start == OfferOf[s].start
<1>3. /\ step \in Nat \ {0} /\ start \in Nat
      /\ x \in Nat /\ start <= x /\ x + step <= DayLength /\ (x - start) % step = 0
      /\ y \in Nat /\ start <= y /\ y + step <= DayLength /\ (y - start) % step = 0
  BY SlotTimes
<1>4. d * DayLength \in Nat /\ e * DayLength \in Nat /\ DayLength \in Nat
  BY Lengths
<1> HIDE DEF step, start
<1>5. CASE d < e
  <2>1. d * DayLength + DayLength <= e * DayLength
    BY <1>5, DaysApart
  <2> QED BY <1>1, <1>2, <1>3, <1>4, <2>1 DEF step
<1>6. CASE e < d
  <2>1. e * DayLength + DayLength <= d * DayLength
    BY <1>6, DaysApart
  <2> QED BY <1>1, <1>2, <1>3, <1>4, <2>1
<1>7. CASE d = e
  <2>1. x < y
    BY <1>1, <1>2, <1>3, <1>4, <1>7
  <2>2. x - start \in Nat /\ y - start \in Nat /\ x - start < y - start
    BY <1>3, <2>1
  <2>3. (x - start) + step <= y - start
    BY <1>3, <2>2, Multiples
  <2> QED BY <1>1, <1>2, <1>3, <1>4, <1>7, <2>3 DEF step
<1> QED BY <1>5, <1>6, <1>7

-----------------------------------------------------------------------------
(* The invariant.                                                          *)

Requests == Guests \X Try

WindowState == [from : Nat, to : Nat, d1 : Nat, d2 : Int]
GuestState ==
    [st : {"new", "reading", "listed", "waiting", "done", "canceling", "canceled"},
     slots : SUBSET SlotIds, window : WindowState, list : SUBSET Entry, asof : Nat, try : Try,
     b : Nat]
ReqState ==
    [pc : {"idle", "sent", "free", "inserted", "over"}, pick : Entry \cup {None}, b : Nat]
TabState == [shown : SUBSET Ids, slots : [SlotIds -> SlotStatus]]

SettingOK == cast \in Casts /\ now \in 0..MaxTime
RowsOK    == made \in 0..MaxBookings /\ DOMAIN row = Made /\ \A b \in Made : row[b] \in Booking
GuestsOK  == /\ guest \in [Guests -> GuestState]
             /\ \A g \in Guests : guest[g].asof <= made /\ guest[g].b <= made
ReqsOK    == req \in [Requests -> ReqState] /\ \A r \in Requests : req[r].b <= made
PagesOK   == slot \in [SlotIds -> SlotStatus] /\ tab \in [Tabs -> TabState]
BoundsOK  == /\ fails \in 0..cast.fails /\ acts \in 0..cast.acts
             /\ told \subseteq Ids \X {"new", "canceled"} /\ withdrawn \subseteq Made
PeakOK    == peak \in [Times -> 0..Cardinality(Requests)]

Types == SettingOK /\ RowsOK /\ GuestsOK /\ ReqsOK /\ PagesOK /\ BoundsOK /\ PeakOK

(* Every time that is listed, picked or booked was cut from its slot row.  *)
ListsCut == \A g \in Guests : \A e \in guest[g].list : Cut(e.t, e.slot)
PicksCut == \A r \in Requests :
    req[r].pc # "idle" => req[r].pick \in Entry /\ Cut(req[r].pick.t, req[r].pick.slot)
RowsCut  == \A b \in Made : Cut(row[b].t, row[b].slot)

(* A request that inserted has its row.                                    *)
Picked == \A r \in Requests :
    req[r].pc = "inserted" => /\ req[r].b \in Made
                              /\ row[req[r].b].who = r[1] /\ row[req[r].b].t = req[r].pick.t

(* A guest who was told "scheduled" has a row, also while canceling it.    *)
Promised == ScheduledIsBooked /\ \A g \in Guests : guest[g].st = "canceling" => guest[g].b \in Made

(* The window of a list that is being put together.                        *)
Reading == \A g \in Guests : guest[g].st = "reading" =>
    \E from \in Nat : /\ guest[g].window = Window(g, from)
                      /\ Day(from) <= Day(MaxTime) + 1
                      /\ g \in Web => \E k \in Nat : from = k * DayLength

(* Each request past its check may still become a booking of its time.     *)
Counted(t) == {b \in LiveBookings(t) : ~row[b].revived}
Spoken     == \A t \in Times : Cardinality(Counted(t)) + Cardinality(Past(t)) <= peak[t]

(* What the landlord is owed a mail about (LandlordTold).                  *)
Owed == {<<b, "new">> : b \in {c \in Made : \A r \in Guests \X Try :
                                   ~(req[r].pc = "inserted" /\ req[r].b = c)}}
        \cup {<<b, "canceled">> : b \in withdrawn}

Inv == /\ Types /\ ListsCut /\ PicksCut /\ RowsCut /\ Picked /\ Promised /\ Reading
       /\ OfferedWasFree /\ Spoken /\ LandlordTold

-----------------------------------------------------------------------------
(* What the invariant gives.                                               *)

LEMMA TypesGive == Types => TourTypeOK
<1> SUFFICES ASSUME Types PROVE TourTypeOK
  OBVIOUS
<1>1. made \in Nat
  BY ToursAssumption DEF Types, RowsOK, ToursAssumption
<1>2. /\ cast \in Casts /\ now \in 0..MaxTime /\ slot \in [SlotIds -> SlotStatus]
      /\ made \in 0..MaxBookings /\ DOMAIN row = Made /\ \A b \in Made : row[b] \in Booking
      /\ fails \in 0..cast.fails /\ acts \in 0..cast.acts
      /\ told \subseteq Ids \X {"new", "canceled"} /\ withdrawn \subseteq Made
  BY DEF Types, SettingOK, RowsOK, PagesOK, BoundsOK
<1>3. ASSUME NEW g \in Guests
      PROVE  /\ guest[g].st \in {"new", "reading", "listed", "waiting", "done", "canceling", "canceled"}
             /\ guest[g].slots \subseteq SlotIds /\ guest[g].list \subseteq Entry
             /\ guest[g].asof \in 0..made /\ guest[g].try \in Try /\ guest[g].b \in 0..made
  <2>1. /\ guest[g] \in GuestState /\ guest[g].asof <= made /\ guest[g].b <= made
    BY DEF Types, GuestsOK
  <2> QED BY <1>1, <2>1 DEF GuestState
<1>4. ASSUME NEW r \in Guests \X Try
      PROVE  /\ req[r].pc \in {"idle", "sent", "free", "inserted", "over"}
             /\ req[r].pick \in Entry \cup {None} /\ req[r].b \in 0..made
  <2>1. req[r] \in ReqState /\ req[r].b <= made
    BY DEF Types, ReqsOK, Requests
  <2> QED BY <1>1, <2>1 DEF ReqState
<1>5. tab \in [Tabs -> [shown : SUBSET Ids, slots : [SlotIds -> SlotStatus]]]
  BY DEF Types, PagesOK, TabState
<1>6. peak \in [Times -> 0..Cardinality(Guests \X Try)]
  BY DEF Types, PeakOK, Requests
<1> QED BY <1>2, <1>3, <1>4, <1>5, <1>6 DEF TourTypeOK

LEMMA Finite ==
    /\ IsFiniteSet(Requests)
    /\ \A S \in SUBSET Requests : IsFiniteSet(S) /\ Cardinality(S) \in Nat
                                  /\ Cardinality(S) <= Cardinality(Requests)
    /\ Cardinality(Requests) \in Nat
<1>1. IsFiniteSet(Guests)
  BY ToursAssumption DEF ToursAssumption
<1>2. IsFiniteSet(Try)
  <2>1. Try = 1..2
    <3>1. {1, 2} = 1..2
      OBVIOUS
    <3> QED BY <3>1 DEF Try
  <2>2. IsFiniteSet(1..2)
    <3>1. 1 \in Int /\ 2 \in Int
      OBVIOUS
    <3> QED BY <3>1, FS_Interval
  <2> QED BY <2>1, <2>2
<1>3. IsFiniteSet(Requests)
  BY <1>1, <1>2, FS_Product DEF Requests
<1> QED BY <1>3, FS_Subset, FS_CardinalityType

LEMMA FiniteRows ==
    ASSUME RowsOK
    PROVE  /\ made \in Nat /\ IsFiniteSet(Made)
           /\ \A S \in SUBSET Made : IsFiniteSet(S) /\ Cardinality(S) \in Nat
<1>1. made \in Nat /\ MaxBookings \in Nat
  BY ToursAssumption DEF RowsOK, ToursAssumption
<1>2. IsFiniteSet(Made)
  <2>1. 1 \in Int /\ made \in Int
    BY <1>1
  <2> QED BY <2>1, FS_Interval DEF Made
<1> QED BY <1>1, <1>2, FS_Subset, FS_CardinalityType

LEMMA BoundedFollows == Inv => LiveBounded
<1> SUFFICES ASSUME Inv, NEW t \in Times PROVE Cardinality(Counted(t)) <= peak[t]
  BY DEF LiveBounded, Counted
<1>1. Counted(t) \in SUBSET Made /\ Past(t) \in SUBSET Requests
  BY DEF Counted, LiveBookings, Past, Requests
<1>2. Cardinality(Counted(t)) \in Nat /\ Cardinality(Past(t)) \in Nat
  BY <1>1, Finite, FiniteRows DEF Inv, Types
<1>3. peak[t] \in Nat
  <2>1. peak[t] \in 0..Cardinality(Requests)
    BY DEF Inv, Types, PeakOK
  <2> QED BY <2>1, Finite
<1>4. Cardinality(Counted(t)) + Cardinality(Past(t)) <= peak[t]
  BY DEF Inv, Spoken
<1> QED BY <1>2, <1>3, <1>4

LEMMA OverlapFollows == Inv => OverlapNeedsTwoSlots
<1> SUFFICES ASSUME Inv, NEW b \in Made, NEW c \in Made,
                    row[b].t < row[c].t, row[c].t < row[b].t + OfferOf[row[b].slot].step,
                    row[b].slot = row[c].slot
             PROVE  FALSE
  BY DEF OverlapNeedsTwoSlots
<1>1. row[b] \in Booking /\ row[c] \in Booking
  BY DEF Inv, Types, RowsOK
<1>2. /\ row[b].slot \in SlotIds /\ row[b].t \in Nat /\ row[c].t \in Nat
  BY <1>1 DEF Booking, Times
<1>3. Cut(row[b].t, row[b].slot) /\ Cut(row[c].t, row[b].slot)
  BY DEF Inv, RowsCut
<1>4. row[b].t + OfferOf[row[b].slot].step <= row[c].t
  BY <1>2, <1>3, CutsApart
<1>5. OfferOf[row[b].slot].step \in Nat
  BY <1>2, ToursAssumption DEF ToursAssumption, Offer
<1> QED BY <1>2, <1>4, <1>5

-----------------------------------------------------------------------------
(* The beginning.                                                          *)

LEMMA NewStates ==
    /\ NewGuest \in GuestState /\ NewGuest.st = "new" /\ NewGuest.list = {}
    /\ NewGuest.asof = 0 /\ NewGuest.b = 0
    /\ NoReq \in ReqState /\ NoReq.pc = "idle" /\ NoReq.pick = None /\ NoReq.b = 0
<1>1. NoWindow \in WindowState
  BY DEF NoWindow, WindowState
<1> QED BY <1>1 DEF NewGuest, GuestState, Try, NoReq, ReqState

LEMMA TourInitInv == TourInit => Inv
<1> SUFFICES ASSUME TourInit PROVE Inv
  OBVIOUS
<1> USE DEF TourInit
<1>0. Made = {} /\ MaxBookings \in Nat
  BY ToursAssumption DEF Made, ToursAssumption
<1>1. Types
  <2>1. SettingOK
    BY Lengths DEF SettingOK
  <2>2. RowsOK
    BY <1>0 DEF RowsOK
  <2>3. GuestsOK /\ ReqsOK
    BY NewStates DEF GuestsOK, ReqsOK, Requests
  <2>4. PagesOK
    <3>1. {"none", "on"} \subseteq SlotStatus
      BY DEF SlotStatus
    <3>2. slot \in [SlotIds -> SlotStatus]
      BY <3>1
    <3> QED BY <3>2 DEF PagesOK, TabState
  <2>5. BoundsOK
    <3>1. cast.fails \in Nat /\ cast.acts \in Nat
      BY ToursAssumption DEF ToursAssumption
    <3> QED BY <3>1 DEF BoundsOK
  <2>6. PeakOK
    BY Finite DEF PeakOK
  <2> QED BY <2>1, <2>2, <2>3, <2>4, <2>5, <2>6 DEF Types
<1>2. ListsCut /\ PicksCut /\ RowsCut /\ Picked /\ Promised /\ Reading
  BY <1>0, NewStates DEF ListsCut, PicksCut, RowsCut, Picked, Promised, ScheduledIsBooked, Reading,
                         Requests
<1>3. OfferedWasFree
  BY <1>0, NewStates DEF OfferedWasFree
<1>4. Spoken
  <2> SUFFICES ASSUME NEW t \in Times
               PROVE  Cardinality(Counted(t)) + Cardinality(Past(t)) <= peak[t]
    BY DEF Spoken
  <2>1. Counted(t) = {} /\ Past(t) = {}
    BY <1>0, NewStates DEF Counted, LiveBookings, Past
  <2> QED BY <2>1, FS_EmptySet
<1>5. LandlordTold
  <2>1. Owed = {}
    BY <1>0 DEF Owed
  <2>2. Cardinality(Owed \ told) = 0 /\ fails = 0
    BY <2>1, FS_EmptySet
  <2> QED BY <2>2 DEF LandlordTold, Owed
<1> QED BY <1>1, <1>2, <1>3, <1>4, <1>5 DEF Inv

-----------------------------------------------------------------------------
(* What most steps leave as it is: the list a guest has and what he was    *)
(* told, and what a booking row was made for.                              *)

Kept(g) ==
    /\ guest'[g].list = guest[g].list /\ guest'[g].window = guest[g].window
    /\ guest'[g].asof = guest[g].asof /\ guest'[g].b = guest[g].b
    /\ guest'[g].st = "reading" => guest[g].st = "reading"
    /\ guest'[g].st = "done" => guest[g].st = "done" /\ guest'[g].try = guest[g].try
    /\ guest'[g].st = "canceling" => guest[g].st \in {"done", "canceling"}

RowsStand ==
    /\ Made \subseteq Made'
    /\ \A b \in Made : /\ row'[b].t = row[b].t /\ row'[b].slot = row[b].slot
                       /\ row'[b].who = row[b].who
                       /\ row[b].revived => row'[b].revived
                       /\ row'[b].status # "canceled" /\ ~row'[b].revived
                             => row[b].status # "canceled"

LEMMA RowsUnchanged == UNCHANGED rows => RowsStand
BY DEF rows, RowsStand, Made

LEMMA ListsKept ==
    ASSUME ListsCut, \A g \in Guests : Kept(g) \/ guest'[g].list = {}
    PROVE  ListsCut'
<1> SUFFICES ASSUME NEW g \in Guests, NEW e \in guest'[g].list
             PROVE  Cut(e.t, e.slot)
  BY DEF ListsCut, Cut
<1>1. e \in guest[g].list
  BY DEF Kept
<1> QED BY <1>1 DEF ListsCut

LEMMA PicksKept ==
    ASSUME PicksCut, \A r \in Requests : req'[r].pick = req[r].pick,
           \A r \in Requests : req'[r].pc # "idle" => req[r].pc # "idle"
    PROVE  PicksCut'
<1> SUFFICES ASSUME NEW r \in Requests, req'[r].pc # "idle"
             PROVE  req'[r].pick \in Entry /\ Cut(req'[r].pick.t, req'[r].pick.slot)
  BY DEF PicksCut, Cut, Entry, Times, Day
<1>1. req'[r].pick = req[r].pick /\ req[r].pc # "idle"
  OBVIOUS
<1> QED BY <1>1 DEF PicksCut

LEMMA RowsKept ==
    ASSUME RowsCut, RowsStand, made' = made
    PROVE  RowsCut'
<1> SUFFICES ASSUME NEW b \in Made PROVE Cut(row'[b].t, row'[b].slot)
  BY DEF RowsCut, Cut, Made
<1> QED BY DEF RowsCut, RowsStand

(* No request inserts: the rows in hand stay.                              *)
LEMMA PickedKept ==
    ASSUME Picked, RowsStand,
           \A r \in Requests : req'[r].pick = req[r].pick /\ req'[r].b = req[r].b,
           \A r \in Requests : req'[r].pc = "inserted" => req[r].pc = "inserted"
    PROVE  Picked'
<1> SUFFICES ASSUME NEW r \in Requests, req'[r].pc = "inserted"
             PROVE  /\ req'[r].b \in Made'
                    /\ row'[req'[r].b].who = r[1] /\ row'[req'[r].b].t = req'[r].pick.t
  BY DEF Picked
<1>1. req'[r].pick = req[r].pick /\ req'[r].b = req[r].b /\ req[r].pc = "inserted"
  OBVIOUS
<1>2. req[r].b \in Made /\ row[req[r].b].who = r[1] /\ row[req[r].b].t = req[r].pick.t
  BY <1>1 DEF Picked
<1>3. /\ req[r].b \in Made'
      /\ row'[req[r].b].who = row[req[r].b].who /\ row'[req[r].b].t = row[req[r].b].t
  BY <1>2 DEF RowsStand
<1> QED BY <1>1, <1>2, <1>3

LEMMA PromisesKept ==
    ASSUME Promised, RowsStand,
           \A g \in Guests : \/ Kept(g)
                             \/ guest'[g].st \notin {"done", "canceling"},
           \A g \in Guests : guest'[g].st = "done" =>
               req'[<<g, guest'[g].try>>].pick = req[<<g, guest'[g].try>>].pick
    PROVE  Promised'
<1>1. ASSUME NEW g \in Guests, guest'[g].st = "done"
      PROVE  /\ guest'[g].b \in Made'
             /\ row'[guest'[g].b].who = g
             /\ row'[guest'[g].b].t = req'[<<g, guest'[g].try>>].pick.t
  <2>1. Kept(g)
    BY <1>1
  <2>2. guest[g].st = "done" /\ guest'[g].try = guest[g].try /\ guest'[g].b = guest[g].b
    BY <1>1, <2>1 DEF Kept
  <2>3. /\ guest[g].b \in Made /\ row[guest[g].b].who = g
        /\ row[guest[g].b].t = req[<<g, guest[g].try>>].pick.t
    BY <2>2 DEF Promised, ScheduledIsBooked
  <2>4. /\ guest[g].b \in Made' /\ row'[guest[g].b].who = row[guest[g].b].who
        /\ row'[guest[g].b].t = row[guest[g].b].t
    BY <2>3 DEF RowsStand
  <2>5. req'[<<g, guest'[g].try>>].pick = req[<<g, guest'[g].try>>].pick
    BY <1>1
  <2> QED BY <2>2, <2>3, <2>4, <2>5
<1>2. ASSUME NEW g \in Guests, guest'[g].st = "canceling"
      PROVE  guest'[g].b \in Made'
  <2>1. guest'[g].b = guest[g].b /\ guest[g].st \in {"done", "canceling"}
    BY <1>2 DEF Kept
  <2>2. guest[g].b \in Made
    BY <2>1 DEF Promised, ScheduledIsBooked
  <2> QED BY <2>1, <2>2 DEF RowsStand
<1> QED BY <1>1, <1>2 DEF Promised, ScheduledIsBooked

LEMMA ReadingKept ==
    ASSUME Reading, \A g \in Guests : Kept(g) \/ guest'[g].st # "reading"
    PROVE  Reading'
<1> SUFFICES ASSUME NEW g \in Guests, guest'[g].st = "reading"
             PROVE  \E from \in Nat : /\ guest'[g].window = Window(g, from)
                                      /\ Day(from) <= Day(MaxTime) + 1
                                      /\ g \in Web => \E k \in Nat : from = k * DayLength
  BY DEF Reading, Window, Day
<1>1. guest[g].st = "reading" /\ guest'[g].window = guest[g].window
  BY DEF Kept
<1> QED BY <1>1 DEF Reading

(* New rows are younger than every list.                                   *)
LEMMA OffersKept ==
    ASSUME OfferedWasFree, RowsStand, GuestsOK, made \in Nat,
           \A b \in Made' : b \in Made \/ (b \in Nat /\ b > made),
           \A g \in Guests : Kept(g) \/ guest'[g].list = {}
    PROVE  OfferedWasFree'
<1> SUFFICES ASSUME NEW g \in Guests, NEW e \in guest'[g].list, NEW b \in Made',
                    row'[b].t = e.t, row'[b].status # "canceled"
             PROVE  \/ b > guest'[g].asof \/ row'[b].revived
                    \/ g \in Callers /\ e.t \notin guest'[g].window.from..guest'[g].window.to
  BY DEF OfferedWasFree, LiveBookings
<1>1. Kept(g)
  OBVIOUS
<1>2. /\ e \in guest[g].list /\ guest'[g].asof = guest[g].asof
      /\ guest'[g].window = guest[g].window
  BY <1>1 DEF Kept
<1>3. guest[g].asof \in Nat /\ guest[g].asof <= made
  BY DEF GuestsOK, GuestState
<1>4. CASE b \in Made
  <2>1. CASE row'[b].revived
    BY <2>1
  <2>2. CASE ~row'[b].revived
    <3>1. /\ row[b].t = e.t /\ row[b].status # "canceled" /\ ~row[b].revived
      BY <1>4, <2>2 DEF RowsStand
    <3>2. b \in LiveBookings(e.t)
      BY <1>4, <3>1 DEF LiveBookings
    <3>3. \/ b > guest[g].asof \/ row[b].revived
          \/ g \in Callers /\ e.t \notin guest[g].window.from..guest[g].window.to
      BY <1>2, <3>2 DEF OfferedWasFree
    <3> QED BY <1>2, <3>1, <3>3
  <2> QED BY <2>1, <2>2
<1>5. CASE b \in Nat /\ b > made
  BY <1>2, <1>3, <1>5
<1> QED BY <1>4, <1>5

LEMMA SpokenKept ==
    ASSUME Spoken, RowsStand, RowsOK, made' = made, peak' = peak, PeakOK,
           \A r \in Requests : req'[r].pc = "free" =>
               req[r].pc = "free" /\ req'[r].pick = req[r].pick
    PROVE  Spoken'
<1> SUFFICES ASSUME NEW t \in Times
             PROVE  Cardinality(Counted(t)') + Cardinality(Past(t)') <= peak'[t]
  BY DEF Spoken
<1>1. Counted(t)' \subseteq Counted(t)
  BY DEF Counted, LiveBookings, RowsStand, Made
<1>2. Past(t)' \subseteq Past(t)
  BY DEF Past, Requests
<1>3. Counted(t) \in SUBSET Made /\ Past(t) \in SUBSET Requests
  BY DEF Counted, LiveBookings, Past, Requests
<1>4. /\ IsFiniteSet(Counted(t)) /\ Cardinality(Counted(t)) \in Nat
      /\ IsFiniteSet(Past(t)) /\ Cardinality(Past(t)) \in Nat
  BY <1>3, Finite, FiniteRows
<1>5. Cardinality(Counted(t)') <= Cardinality(Counted(t)) /\ Cardinality(Counted(t)') \in Nat
  BY <1>1, <1>4, FS_Subset, FS_CardinalityType
<1>6. Cardinality(Past(t)') <= Cardinality(Past(t)) /\ Cardinality(Past(t)') \in Nat
  BY <1>2, <1>4, FS_Subset, FS_CardinalityType
<1>7. Cardinality(Counted(t)) + Cardinality(Past(t)) <= peak[t]
  BY DEF Spoken
<1>8. peak[t] \in Nat
  BY Finite DEF PeakOK
<1> QED BY <1>4, <1>5, <1>6, <1>7, <1>8

LEMMA OwedFinite ==
    ASSUME RowsOK, withdrawn \subseteq Made
    PROVE  IsFiniteSet(Owed) /\ IsFiniteSet(Owed \ told) /\ Cardinality(Owed \ told) \in Nat
<1> DEFINE News == Made \X {"new"}
           Spans == Made \X {"canceled"}
<1>1. IsFiniteSet(News) /\ IsFiniteSet(Spans)
  BY FiniteRows, FS_Product, FS_Singleton
<1>2. IsFiniteSet(News \cup Spans)
  BY <1>1, FS_Union
<1>3. Owed \subseteq News \cup Spans
  BY DEF Owed
<1>4. IsFiniteSet(Owed)
  BY <1>2, <1>3, FS_Subset
<1>5. Owed \ told \subseteq Owed
  OBVIOUS
<1>6. IsFiniteSet(Owed \ told)
  BY <1>4, <1>5, FS_Subset
<1> QED BY <1>4, <1>6, FS_CardinalityType

(* Nothing new is owed, or one thing for one more failure.                 *)
LEMMA ToldKept ==
    ASSUME LandlordTold, RowsOK, withdrawn \subseteq Made, fails \in Nat, fails' \in Nat,
           NEW x,
           \/ Owed' \ told' \subseteq Owed \ told /\ fails' >= fails
           \/ Owed' \ told' \subseteq (Owed \ told) \cup {x} /\ fails' >= fails + 1
    PROVE  LandlordTold'
<1>1. IsFiniteSet(Owed \ told) /\ Cardinality(Owed \ told) \in Nat
  BY OwedFinite
<1>2. Cardinality(Owed \ told) <= fails
  BY DEF LandlordTold, Owed
<1>3. Cardinality(Owed' \ told') <= fails'
  <2>1. CASE Owed' \ told' \subseteq Owed \ told /\ fails' >= fails
    <3>1. /\ Cardinality(Owed' \ told') <= Cardinality(Owed \ told)
          /\ Cardinality(Owed' \ told') \in Nat
      BY <1>1, <2>1, FS_Subset, FS_CardinalityType
    <3> QED BY <1>1, <1>2, <2>1, <3>1
  <2>2. CASE Owed' \ told' \subseteq (Owed \ told) \cup {x} /\ fails' >= fails + 1
    <3> DEFINE old == Owed \ told
    <3>1. IsFiniteSet(old) /\ Cardinality(old) \in Nat /\ Cardinality(old) <= fails
      BY <1>1, <1>2
    <3> HIDE DEF old
    <3>2. /\ IsFiniteSet(old \cup {x})
          /\ Cardinality(old \cup {x}) = Cardinality(old)
             \/ Cardinality(old \cup {x}) = Cardinality(old) + 1
      BY <3>1, FS_AddElement
    <3>3. Cardinality(old \cup {x}) \in Nat
      BY <3>2, FS_CardinalityType
    <3>4. Owed' \ told' \subseteq old \cup {x}
      BY <2>2 DEF old
    <3>5. /\ Cardinality(Owed' \ told') <= Cardinality(old \cup {x})
          /\ Cardinality(Owed' \ told') \in Nat
      BY <3>2, <3>4, FS_Subset, FS_CardinalityType
    <3> QED BY <2>2, <3>1, <3>2, <3>3, <3>5
  <2> QED BY <2>1, <2>2
<1> QED BY <1>3 DEF LandlordTold, Owed

-----------------------------------------------------------------------------
(* How a request ends for its guest.                                       *)

(* Hearing that one is booked: what the page shows next is his own row.    *)
Heard(r, g) ==
    /\ g = r[1] /\ guest'[g].try = r[2]
    /\ guest'[g].st = "done" /\ guest'[g].list = {} /\ guest'[g].b = req[r].b

LEMMA RequestParts ==
    ASSUME NEW r \in Requests
    PROVE  r[1] \in Guests /\ r[2] \in Try /\ r = <<r[1], r[2]>>
BY DEF Requests

LEMMA Answers ==
    ASSUME GuestsOK, ReqsOK, made \in Nat, NEW r \in Requests, NEW st \in {"listed", "done"},
           guest' = TourAnswer(r, st)
    PROVE  /\ guest' \in [Guests -> GuestState]
           /\ \A g \in Guests : guest'[g].asof <= made /\ guest'[g].b <= made
           /\ \A g \in Guests : Kept(g) \/ (st = "done" /\ Heard(r, g))
<1>1. /\ r[1] \in Guests /\ r[2] \in Try
      /\ guest \in [Guests -> GuestState] /\ \A g \in Guests : guest[g].asof <= made
      /\ \A g \in Guests : guest[g].b <= made
  BY RequestParts DEF GuestsOK
<1>2. req[r] \in ReqState /\ req[r].b <= made
  BY DEF ReqsOK
<1>3. req[r].b \in Nat
  BY <1>2 DEF ReqState
<1>4. ASSUME guest' = guest
      PROVE  \A g \in Guests : Kept(g)
  BY <1>4 DEF Kept
<1>5. CASE ~(guest[r[1]].st = "waiting" /\ guest[r[1]].try = r[2])
  <2>1. guest' = guest
    BY <1>5 DEF TourAnswer
  <2> QED BY <1>1, <1>4, <2>1
<1>6. CASE guest[r[1]].st = "waiting" /\ guest[r[1]].try = r[2] /\ st = "done"
  <2> DEFINE n == [NewGuest EXCEPT !.st = st, !.try = r[2], !.b = req[r].b]
  <2>1. guest' = [guest EXCEPT ![r[1]] = n]
    BY <1>6 DEF TourAnswer
  <2>2. /\ n \in GuestState /\ n.st = "done" /\ n.list = {} /\ n.try = r[2]
        /\ n.b = req[r].b /\ n.asof = 0
    BY <1>1, <1>3, <1>6, NewStates DEF GuestState
  <2> HIDE DEF n
  <2>3. guest'[r[1]] = n /\ \A g \in Guests : g # r[1] => guest'[g] = guest[g]
    BY <1>1, <2>1
  <2>4. guest' \in [Guests -> GuestState]
    BY <1>1, <2>1, <2>2
  <2>5. Heard(r, r[1])
    BY <2>2, <2>3 DEF Heard
  <2>6. \A g \in Guests : g # r[1] => Kept(g)
    BY <2>3 DEF Kept
  <2>7. \A g \in Guests : guest'[g].asof <= made /\ guest'[g].b <= made
    BY <1>1, <1>2, <2>2, <2>3
  <2> QED BY <1>6, <2>4, <2>5, <2>6, <2>7
<1>7. CASE guest[r[1]].st = "waiting" /\ guest[r[1]].try = r[2] /\ st = "listed"
  <2> DEFINE n == [guest[r[1]] EXCEPT !.st = st]
  <2>1. guest' = [guest EXCEPT ![r[1]] = n]
    BY <1>7 DEF TourAnswer
  <2>2. guest[r[1]] \in GuestState
    BY <1>1
  <2>3. /\ n \in GuestState /\ n.st = "listed" /\ n.list = guest[r[1]].list
        /\ n.window = guest[r[1]].window
        /\ n.b = guest[r[1]].b /\ n.asof = guest[r[1]].asof
    BY <1>7, <2>2 DEF GuestState
  <2> HIDE DEF n
  <2>4. guest'[r[1]] = n /\ \A g \in Guests : g # r[1] => guest'[g] = guest[g]
    BY <1>1, <2>1
  <2>5. guest' \in [Guests -> GuestState]
    BY <1>1, <2>1, <2>3
  <2>6. \A g \in Guests : Kept(g)
    BY <2>3, <2>4 DEF Kept
  <2>7. \A g \in Guests : guest'[g].asof <= made /\ guest'[g].b <= made
    BY <1>1, <2>3, <2>4
  <2> QED BY <2>5, <2>6, <2>7
<1> QED BY <1>5, <1>6, <1>7

-----------------------------------------------------------------------------
(* The types of what an action leaves alone.                               *)

LEMMA SettingStays == SettingOK /\ UNCHANGED setting => SettingOK'
BY DEF setting, SettingOK

LEMMA RowsStay == RowsOK /\ UNCHANGED rows => RowsOK'
BY DEF rows, RowsOK, Made

LEMMA GuestsStay == GuestsOK /\ UNCHANGED <<made, guest>> => GuestsOK'
BY DEF GuestsOK

LEMMA ReqsStay == ReqsOK /\ UNCHANGED <<made, req>> => ReqsOK'
BY DEF ReqsOK

LEMMA PagesStay == PagesOK /\ UNCHANGED <<slot, tab>> => PagesOK'
BY DEF PagesOK

LEMMA BoundsStay ==
    BoundsOK /\ UNCHANGED <<cast, made, fails, acts, told, withdrawn>> => BoundsOK'
BY DEF BoundsOK, Made

LEMMA PeakStays == PeakOK /\ UNCHANGED peak => PeakOK'
BY DEF PeakOK

LEMMA CastIs == SettingOK => cast.fails \in Nat /\ cast.acts \in Nat
BY ToursAssumption DEF SettingOK, ToursAssumption

LEMMA FailsAre == Inv => fails \in Nat
<1> SUFFICES ASSUME Inv PROVE fails \in Nat
  OBVIOUS
<1>1. cast.fails \in Nat /\ fails \in 0..cast.fails
  BY CastIs DEF Inv, Types, BoundsOK
<1> QED BY <1>1

LEMMA ToldStays ==
    ASSUME Inv, UNCHANGED <<made, told, withdrawn>>, fails' \in Nat, fails' >= fails,
           \A r \in Requests : req[r].pc = "inserted" => req'[r].pc = "inserted" /\ req'[r].b = req[r].b
    PROVE  LandlordTold'
<1>1. Owed' \subseteq Owed
  BY DEF Owed, Made, Requests
<1>2. Owed' \ told' \subseteq Owed \ told
  BY <1>1
<1> QED BY <1>2, ToldKept, FailsAre DEF Inv, Types, BoundsOK

(* A step of a guest that only puts him into another state.                *)
LEMMA GuestMoves ==
    ASSUME Inv, UNCHANGED <<setting, slot, rows, req, tab, acts, ghost>>,
           fails' \in 0..cast.fails, fails' >= fails,
           NEW g \in Guests, NEW n \in GuestState, guest' = [guest EXCEPT ![g] = n],
           n.list = guest[g].list, n.window = guest[g].window, n.asof = guest[g].asof,
           n.b = guest[g].b, n.st # "reading", n.st # "done",
           n.st = "canceling" => guest[g].st \in {"done", "canceling"}
    PROVE  Inv'
<1>1. guest \in [Guests -> GuestState] /\ made \in Nat
  BY FiniteRows DEF Inv, Types, GuestsOK
<1>2. guest'[g] = n /\ \A h \in Guests : h # g => guest'[h] = guest[h]
  BY <1>1
<1>3. \A h \in Guests : Kept(h)
  BY <1>2 DEF Kept
<1>4. GuestsOK'
  <2>1. guest' \in [Guests -> GuestState]
    BY <1>1
  <2>2. \A h \in Guests : guest'[h].asof <= made /\ guest'[h].b <= made
    BY <1>2 DEF Inv, Types, GuestsOK
  <2>3. made' = made
    BY DEF rows
  <2> QED BY <2>1, <2>2, <2>3 DEF GuestsOK
<1>5. RowsStand /\ made' = made /\ req' = req /\ peak' = peak
  BY RowsUnchanged DEF rows, ghost
<1>6. Types'
  <2>1. SettingOK'
    BY SettingStays DEF Inv, Types
  <2>2. RowsOK'
    BY RowsStay DEF Inv, Types
  <2>3. ReqsOK'
    BY <1>5, ReqsStay DEF Inv, Types
  <2>4. PagesOK'
    BY PagesStay DEF Inv, Types
  <2>5. BoundsOK'
    BY <1>5 DEF Inv, Types, BoundsOK, ghost, setting, Made
  <2>6. PeakOK'
    BY <1>5, PeakStays DEF Inv, Types
  <2> QED BY <1>4, <2>1, <2>2, <2>3, <2>4, <2>5, <2>6 DEF Types
<1>7. ListsCut'
  BY <1>3, ListsKept DEF Inv
<1>8. PicksCut'
  BY <1>5, PicksKept DEF Inv
<1>9. RowsCut'
  BY <1>5, RowsKept DEF Inv
<1>10. Picked'
  BY <1>5, PickedKept DEF Inv
<1>11. Promised'
  <2>1. \A h \in Guests : req'[<<h, guest'[h].try>>].pick = req[<<h, guest'[h].try>>].pick
    BY <1>5
  <2> QED BY <1>3, <1>5, <2>1, PromisesKept DEF Inv
<1>12. Reading'
  BY <1>3, ReadingKept DEF Inv
<1>13. OfferedWasFree'
  <2>1. Made' = Made
    BY <1>5 DEF Made
  <2> QED BY <1>1, <1>3, <1>5, <2>1, OffersKept DEF Inv, Types
<1>14. Spoken'
  BY <1>5, SpokenKept DEF Inv, Types
<1>15. LandlordTold'
  <2>1. fails' \in Nat
    BY CastIs DEF Inv, Types
  <2> QED BY <1>5, <2>1, ToldStays DEF ghost
<1> QED BY <1>6, <1>7, <1>8, <1>9, <1>10, <1>11, <1>12, <1>13, <1>14, <1>15 DEF Inv

LEMMA FailsRise ==
    ASSUME Inv, \/ fails' = fails
                \/ fails < cast.fails /\ fails' = fails + 1
    PROVE  fails' \in 0..cast.fails /\ fails' >= fails /\ fails' \in Nat
<1>1. cast.fails \in Nat /\ fails \in 0..cast.fails
  BY CastIs DEF Inv, Types, BoundsOK
<1> QED BY <1>1

LEMMA AnswerLostKeeps == ASSUME Inv, NEW g \in Guests, AnswerLost(g) PROVE Inv'
<1> USE DEF AnswerLost
<1>1. guest[g] \in GuestState
  BY DEF Inv, Types, GuestsOK
<1> DEFINE n == [guest[g] EXCEPT !.st = "listed", !.try = 2]
<1>2. /\ n \in GuestState /\ n.st = "listed" /\ n.list = guest[g].list
      /\ n.window = guest[g].window /\ n.asof = guest[g].asof /\ n.b = guest[g].b
  BY <1>1 DEF GuestState, Try
<1>3. guest' = [guest EXCEPT ![g] = n]
  OBVIOUS
<1> HIDE DEF n
<1>4. fails' \in 0..cast.fails /\ fails' >= fails
  BY FailsRise
<1> QED BY <1>2, <1>3, <1>4, GuestMoves

LEMMA CancelReadKeeps == ASSUME Inv, NEW g \in Guests, CancelRead(g) PROVE Inv'
<1> USE DEF CancelRead
<1>1. guest[g] \in GuestState
  BY DEF Inv, Types, GuestsOK
<1> DEFINE n == [guest[g] EXCEPT !.st = "canceling"]
<1>2. /\ n \in GuestState /\ n.st = "canceling" /\ n.list = guest[g].list
      /\ n.window = guest[g].window /\ n.asof = guest[g].asof /\ n.b = guest[g].b
  BY <1>1 DEF GuestState
<1>3. guest' = [guest EXCEPT ![g] = n]
  OBVIOUS
<1> HIDE DEF n
<1>4. fails' \in 0..cast.fails /\ fails' >= fails
  BY FailsRise
<1> QED BY <1>2, <1>3, <1>4, GuestMoves

-----------------------------------------------------------------------------
(* Lists.                                                                  *)

LEMMA ListSlotsKeeps == ASSUME Inv, NEW g \in Guests, ListSlots(g) PROVE Inv'
<1> USE DEF ListSlots
<1>1. /\ guest \in [Guests -> GuestState] /\ guest[g] \in GuestState /\ made \in Nat
      /\ now \in Nat /\ now <= MaxTime /\ MaxTime \in Nat /\ DayLength \in Nat \ {0} /\ Week \in Nat
  BY FiniteRows, Lengths DEF Inv, Types, GuestsOK, SettingOK
<1>2. PICK from \in IF g \in Web THEN {Day(now) * DayLength}
                                 ELSE {now, (Day(now) + 1) * DayLength} :
         guest' = [guest EXCEPT ![g] = [@ EXCEPT !.st = "reading", !.slots = Active,
                                                 !.window = Window(g, from), !.list = {}]]
  OBVIOUS
<1>3. Day(now) \in Nat /\ Day(now) <= Day(MaxTime) /\ Day(MaxTime) \in Nat
  BY <1>1, DayMono, Division
<1>4. /\ Day(now) * DayLength \in Nat /\ (Day(now) + 1) * DayLength \in Nat
      /\ Day(now) + 1 \in Nat
  BY <1>1, <1>3
<1>5. /\ Day(Day(now) * DayLength) = Day(now)
      /\ Day((Day(now) + 1) * DayLength) = Day(now) + 1
  <2>1. \A k \in Nat : k * DayLength \in Nat /\ Day(k * DayLength) = k
    <3> SUFFICES ASSUME NEW k \in Nat PROVE k * DayLength \in Nat /\ Day(k * DayLength) = k
      OBVIOUS
    <3>1. k * DayLength \in Nat
      BY <1>1
    <3>2. k * DayLength <= k * DayLength /\ k * DayLength < k * DayLength + DayLength
      BY <1>1, <3>1
    <3> QED BY <3>1, <3>2, DayOf
  <2> QED BY <1>3, <1>4, <2>1
<1>6. /\ from \in Nat /\ Day(from) \in Nat /\ Day(from) <= Day(MaxTime) + 1
      /\ g \in Web => \E k \in Nat : from = k * DayLength
  <2>1. CASE g \in Web
    <3>1. from = Day(now) * DayLength
      BY <1>2, <2>1
    <3> QED BY <1>3, <1>4, <1>5, <3>1
  <2>2. CASE g \notin Web
    <3>1. from = now \/ from = (Day(now) + 1) * DayLength
      BY <1>2, <2>2
    <3> QED BY <1>1, <1>3, <1>4, <1>5, <2>2, <3>1
  <2> QED BY <2>1, <2>2
<1> HIDE DEF Day
<1> DEFINE n == [guest[g] EXCEPT !.st = "reading", !.slots = Active,
                                 !.window = Window(g, from), !.list = {}]
<1>7. Window(g, from) \in WindowState
  <2>1. Week * DayLength \in Nat
    BY <1>1
  <2> QED BY <1>1, <1>6, <2>1 DEF Window, WindowState
<1>8. Active \subseteq SlotIds
  BY DEF Active
<1>9. /\ n \in GuestState /\ n.st = "reading" /\ n.list = {} /\ n.window = Window(g, from)
      /\ n.asof = guest[g].asof /\ n.b = guest[g].b
  BY <1>1, <1>7, <1>8 DEF GuestState
<1>10. guest' = [guest EXCEPT ![g] = n]
  BY <1>2
<1> HIDE DEF n
<1>11. guest'[g] = n /\ \A h \in Guests : h # g => guest'[h] = guest[h]
  BY <1>1, <1>10
<1>12. \A h \in Guests : h # g => Kept(h)
  BY <1>11 DEF Kept
<1>13. GuestsOK'
  <2>1. guest' \in [Guests -> GuestState]
    BY <1>1, <1>9, <1>10
  <2>2. \A h \in Guests : guest'[h].asof <= made /\ guest'[h].b <= made
    BY <1>9, <1>11 DEF Inv, Types, GuestsOK
  <2>3. made' = made
    BY DEF rows
  <2> QED BY <2>1, <2>2, <2>3 DEF GuestsOK
<1>14. RowsStand /\ made' = made /\ req' = req /\ peak' = peak /\ fails' = fails
  BY RowsUnchanged DEF rows, ghost
<1>15. Types'
  <2>1. SettingOK' /\ RowsOK' /\ ReqsOK' /\ PagesOK' /\ PeakOK'
    BY <1>14, SettingStays, RowsStay, ReqsStay, PagesStay, PeakStays DEF Inv, Types
  <2>2. BoundsOK'
    BY <1>14 DEF Inv, Types, BoundsOK, ghost, setting, Made
  <2> QED BY <1>13, <2>1, <2>2 DEF Types
<1>16. ListsCut'
  <2>1. \A h \in Guests : Kept(h) \/ guest'[h].list = {}
    BY <1>9, <1>11, <1>12
  <2> QED BY <2>1, ListsKept DEF Inv
<1>17. PicksCut' /\ RowsCut' /\ Picked'
  BY <1>14, PicksKept, RowsKept, PickedKept DEF Inv
<1>18. Promised'
  <2>1. \A h \in Guests : Kept(h) \/ guest'[h].st \notin {"done", "canceling"}
    BY <1>9, <1>11, <1>12
  <2>2. \A h \in Guests : req'[<<h, guest'[h].try>>].pick = req[<<h, guest'[h].try>>].pick
    BY <1>14
  <2> QED BY <1>14, <2>1, <2>2, PromisesKept DEF Inv
<1>19. Reading'
  <2> SUFFICES ASSUME NEW h \in Guests, guest'[h].st = "reading"
               PROVE  \E f \in Nat : /\ guest'[h].window = Window(h, f)
                                     /\ Day(f) <= Day(MaxTime) + 1
                                     /\ h \in Web => \E k \in Nat : f = k * DayLength
    BY DEF Reading, Window, Day
  <2>1. CASE h = g
    BY <1>6, <1>9, <1>11, <2>1
  <2>2. CASE h # g
    BY <1>11, <2>2 DEF Inv, Reading
  <2> QED BY <2>1, <2>2
<1>20. OfferedWasFree'
  <2>1. Made' = Made
    BY <1>14 DEF Made
  <2>2. \A h \in Guests : Kept(h) \/ guest'[h].list = {}
    BY <1>9, <1>11, <1>12
  <2> QED BY <1>1, <1>14, <2>1, <2>2, OffersKept DEF Inv, Types
<1>21. Spoken' /\ LandlordTold'
  <2>1. Spoken'
    BY <1>14, SpokenKept DEF Inv, Types
  <2>2. fails \in Nat /\ fails >= fails
    BY FailsAre
  <2>3. UNCHANGED <<made, told, withdrawn>>
    BY <1>14 DEF ghost
  <2> QED BY <1>14, <2>1, <2>2, <2>3, ToldStays
<1> QED BY <1>15, <1>16, <1>17, <1>18, <1>19, <1>20, <1>21 DEF Inv

(* What AvailableSlots lists: times cut from a slot row, none of them      *)
(* booked, each on one of the days asked for.                              *)
LEMMA Available ==
    ASSUME NEW S \in SUBSET SlotIds, NEW booked, NEW d1 \in Nat, NEW d2 \in Int,
           NEW e \in AvailableSlots(S, booked, d1, d2)
    PROVE  \E d \in d1..d2 : \E s \in S : \E x \in Starts(OfferOf[s]) :
              e = [t |-> d * DayLength + x, slot |-> s] /\ d * DayLength + x \notin booked
<1>1. PICK f \in S \X (d1..d2) :
         e \in {[t |-> f[2] * DayLength + x, slot |-> f[1]] :
                   x \in {y \in Starts(OfferOf[f[1]]) : f[2] * DayLength + y \notin booked}}
  BY DEF AvailableSlots
<1>2. PICK x \in Starts(OfferOf[f[1]]) :
         e = [t |-> f[2] * DayLength + x, slot |-> f[1]] /\ f[2] * DayLength + x \notin booked
  BY <1>1
<1>3. f[1] \in S /\ f[2] \in d1..d2
  OBVIOUS
<1> QED BY <1>2, <1>3

LEMMA ListBookingsKeeps == ASSUME Inv, NEW g \in Guests, ListBookings(g) PROVE Inv'
<1> USE DEF ListBookings
<1>1. /\ guest \in [Guests -> GuestState] /\ guest[g] \in GuestState /\ made \in Nat
      /\ MaxTime \in Nat /\ DayLength \in Nat \ {0} /\ Week \in Nat \ {0}
      /\ guest[g].b <= made
  BY FiniteRows, Lengths DEF Inv, Types, GuestsOK
<1>2. PICK from \in Nat : /\ guest[g].window = Window(g, from)
                          /\ Day(from) <= Day(MaxTime) + 1
                          /\ g \in Web => \E k \in Nat : from = k * DayLength
  BY DEF Inv, Reading
<1>3. Day(from) \in Nat /\ Day(MaxTime) \in Nat
  BY <1>1, <1>2, Division
<1> HIDE DEF Day
<1> DEFINE w == guest[g].window
           booked == {row[b].t : b \in {c \in Made : row[c].status # "canceled"
                                                     /\ row[c].t \in w.from..w.to}}
           list == AvailableSlots(guest[g].slots, booked, w.d1, w.d2)
           n == [guest[g] EXCEPT !.st = "listed", !.slots = {}, !.asof = made, !.list = list]
<1>4. guest' = [guest EXCEPT ![g] = n]
  OBVIOUS
<1>5. /\ w.from = from /\ w.to = from + Week * DayLength /\ w.d1 = Day(from)
      /\ w.d2 \in Int /\ w.d2 <= Day(from) + Week
      /\ g \in Web => w.d2 = Day(from) + Week - 1
  BY <1>1, <1>2, <1>3 DEF Window
<1>6. guest[g].slots \in SUBSET SlotIds
  BY <1>1 DEF GuestState
<1> HIDE DEF w
<1>7. ASSUME NEW e \in list
      PROVE  \E d \in Day(from)..w.d2 : \E s \in SlotIds : \E x \in Starts(OfferOf[s]) :
                /\ e = [t |-> d * DayLength + x, slot |-> s]
                /\ d * DayLength + x \notin booked
  <2> DEFINE bk == booked
  <2>1. e \in AvailableSlots(guest[g].slots, bk, w.d1, w.d2)
    OBVIOUS
  <2> HIDE DEF bk
  <2>2. \E d \in w.d1..w.d2 : \E s \in guest[g].slots : \E x \in Starts(OfferOf[s]) :
            e = [t |-> d * DayLength + x, slot |-> s] /\ d * DayLength + x \notin bk
    BY <1>3, <1>5, <1>6, <2>1, Available
  <2> QED BY <1>5, <1>6, <2>2 DEF bk
<1> HIDE DEF list
<1>8. ASSUME NEW e \in list
      PROVE  /\ e \in Entry /\ Cut(e.t, e.slot) /\ e.t \notin booked
             /\ g \in Web => e.t \in w.from..w.to
  <2>0. PICK d \in Day(from)..w.d2 : \E s \in SlotIds : \E x \in Starts(OfferOf[s]) :
           /\ e = [t |-> d * DayLength + x, slot |-> s]
           /\ d * DayLength + x \notin booked
    BY <1>7
  <2>11. PICK s \in SlotIds : \E x \in Starts(OfferOf[s]) :
           /\ e = [t |-> d * DayLength + x, slot |-> s]
           /\ d * DayLength + x \notin booked
    BY <2>0
  <2>1. PICK x \in Starts(OfferOf[s]) :
           /\ e = [t |-> d * DayLength + x, slot |-> s]
           /\ d * DayLength + x \notin booked
    BY <2>11
  <2>2. /\ d \in Nat /\ Day(from) <= d /\ d <= w.d2
        /\ x \in Nat /\ x < DayLength
    <3>1. /\ OfferOf[s].step \in Nat \ {0} /\ x \in Nat /\ x + OfferOf[s].step <= DayLength
      BY SlotTimes
    <3> QED BY <1>1, <1>3, <1>5, <3>1
  <2>3. e.t = d * DayLength + x /\ e.slot = s
    BY <2>1
  <2>4. d * DayLength \in Nat /\ (Day(MaxTime) + Week + 2) * DayLength \in Nat
    BY <1>1, <1>3, <2>2
  <2>5. d * DayLength + DayLength <= (Day(MaxTime) + Week + 2) * DayLength
    <3>1. d < Day(MaxTime) + Week + 2
      BY <1>1, <1>2, <1>3, <1>5, <2>2
    <3>2. Day(MaxTime) + Week + 2 \in Int
      BY <1>1, <1>3
    <3> QED BY <2>2, <3>1, <3>2, DaysApart
  <2>6. (Day(MaxTime) + Week + 2) * DayLength = DayLength * (Day(MaxTime) + Week + 2)
    BY <1>1, <1>3
  <2>7. e.t \in Times
    BY <1>1, <2>2, <2>3, <2>4, <2>5, <2>6 DEF Times
  <2>8. e \in Entry
    BY <2>1, <2>3, <2>7 DEF Entry
  <2>9. Cut(e.t, e.slot)
    BY <2>2, <2>3 DEF Cut
  <2>10. ASSUME g \in Web PROVE e.t \in w.from..w.to
    <3>1. PICK k \in Nat : from = k * DayLength
      BY <1>2, <2>10
    <3>2. Day(from) = k
      BY <1>1, <1>2, <3>1, DayOf
    <3>3. k <= d /\ d < k + Week
      BY <1>1, <1>5, <2>2, <2>10, <3>2
    <3>4. k * DayLength <= d * DayLength
      <4>1. k < d => k * DayLength + DayLength <= d * DayLength
        BY <2>2, DaysApart
      <4>2. k * DayLength \in Nat
        BY <1>1
      <4> QED BY <1>1, <2>2, <2>4, <3>3, <4>1, <4>2
    <3>5. d * DayLength + DayLength <= (k + Week) * DayLength
      BY <1>1, <2>2, <3>3, DaysApart
    <3>6. (k + Week) * DayLength = k * DayLength + Week * DayLength
      BY <1>1
    <3>7. k * DayLength \in Nat /\ Week * DayLength \in Nat
      BY <1>1
    <3> QED BY <1>1, <1>5, <2>2, <2>3, <2>4, <3>1, <3>4, <3>5, <3>6, <3>7
  <2> QED BY <2>1, <2>3, <2>8, <2>9, <2>10
<1>9. /\ n \in GuestState /\ n.st = "listed" /\ n.list = list /\ n.asof = made
      /\ n.b = guest[g].b /\ n.window = w
  <2>1. list \subseteq Entry
    BY <1>8
  <2> QED BY <1>1, <2>1 DEF GuestState, w
<1> HIDE DEF n
<1>10. guest'[g] = n /\ \A h \in Guests : h # g => guest'[h] = guest[h]
  BY <1>1, <1>4
<1>11. \A h \in Guests : h # g => Kept(h)
  BY <1>10 DEF Kept
<1>12. RowsStand /\ made' = made /\ row' = row /\ req' = req /\ peak' = peak /\ fails' = fails
  BY RowsUnchanged DEF rows, ghost
<1>13. GuestsOK'
  <2>1. guest' \in [Guests -> GuestState]
    BY <1>1, <1>4, <1>9
  <2>2. \A h \in Guests : guest'[h].asof <= made /\ guest'[h].b <= made
    BY <1>1, <1>9, <1>10 DEF Inv, Types, GuestsOK
  <2> QED BY <1>12, <2>1, <2>2 DEF GuestsOK
<1>14. Types'
  <2>1. SettingOK' /\ RowsOK' /\ ReqsOK' /\ PagesOK' /\ PeakOK'
    BY <1>12, SettingStays, RowsStay, ReqsStay, PagesStay, PeakStays DEF Inv, Types
  <2>2. BoundsOK'
    BY <1>12 DEF Inv, Types, BoundsOK, ghost, setting, Made
  <2> QED BY <1>13, <2>1, <2>2 DEF Types
<1>15. ListsCut'
  <2> SUFFICES ASSUME NEW h \in Guests, NEW e \in guest'[h].list PROVE Cut(e.t, e.slot)
    BY DEF ListsCut, Cut
  <2>1. CASE h = g
    BY <1>8, <1>9, <1>10, <2>1
  <2>2. CASE h # g
    BY <1>10, <2>2 DEF Inv, ListsCut
  <2> QED BY <2>1, <2>2
<1>16. PicksCut' /\ RowsCut' /\ Picked'
  BY <1>12, PicksKept, RowsKept, PickedKept DEF Inv
<1>17. Promised'
  <2>1. \A h \in Guests : Kept(h) \/ guest'[h].st \notin {"done", "canceling"}
    BY <1>9, <1>10, <1>11
  <2>2. \A h \in Guests : req'[<<h, guest'[h].try>>].pick = req[<<h, guest'[h].try>>].pick
    BY <1>12
  <2> QED BY <1>12, <2>1, <2>2, PromisesKept DEF Inv
<1>18. Reading'
  <2>1. \A h \in Guests : Kept(h) \/ guest'[h].st # "reading"
    BY <1>9, <1>10, <1>11
  <2> QED BY <2>1, ReadingKept DEF Inv
<1>19. OfferedWasFree'
  <2> SUFFICES ASSUME NEW h \in Guests, NEW e \in guest'[h].list, NEW b \in Made',
                      row'[b].t = e.t, row'[b].status # "canceled"
               PROVE  \/ b > guest'[h].asof \/ row'[b].revived
                      \/ h \in Callers /\ e.t \notin guest'[h].window.from..guest'[h].window.to
    BY DEF OfferedWasFree, LiveBookings
  <2>1. b \in Made /\ row[b].t = e.t /\ row[b].status # "canceled"
    BY <1>12 DEF Made
  <2>2. CASE h # g
    <3>1. guest'[h] = guest[h]
      BY <1>10, <2>2
    <3>2. b \in LiveBookings(e.t)
      BY <2>1 DEF LiveBookings
    <3>3. \/ b > guest[h].asof \/ row[b].revived
          \/ h \in Callers /\ e.t \notin guest[h].window.from..guest[h].window.to
      BY <3>1, <3>2 DEF Inv, OfferedWasFree
    <3> QED BY <1>12, <3>1, <3>3
  <2>3. CASE h = g
    <3>1. e \in list /\ guest'[h].window = w
      BY <1>9, <1>10, <2>3
    <3>2. e.t \notin booked /\ (g \in Web => e.t \in w.from..w.to)
      BY <1>8, <3>1
    <3>3. e.t \notin w.from..w.to
      BY <2>1, <3>2
    <3>4. g \in Callers
      BY <3>2, <3>3 DEF Guests
    <3> QED BY <2>3, <3>1, <3>3, <3>4
  <2> QED BY <2>2, <2>3
<1>20. Spoken' /\ LandlordTold'
  <2>1. Spoken'
    BY <1>12, SpokenKept DEF Inv, Types
  <2>2. fails \in Nat /\ fails >= fails
    BY FailsAre
  <2>3. UNCHANGED <<made, told, withdrawn>>
    BY <1>12 DEF ghost
  <2> QED BY <1>12, <2>1, <2>2, <2>3, ToldStays
<1> QED BY <1>14, <1>15, <1>16, <1>17, <1>18, <1>19, <1>20 DEF Inv

-----------------------------------------------------------------------------
(* Booking.                                                                *)

LEMMA SubmitKeeps == ASSUME Inv, NEW g \in Guests, SubmitTour(g) PROVE Inv'
<1> USE DEF SubmitTour
<1>1. /\ guest \in [Guests -> GuestState] /\ guest[g] \in GuestState /\ made \in Nat
      /\ req \in [Requests -> ReqState]
  BY FiniteRows DEF Inv, Types, GuestsOK, ReqsOK
<1> DEFINE r == <<g, guest[g].try>>
<1>2. r \in Requests
  BY <1>1 DEF GuestState, Requests
<1>3. PICK e \in guest[g].list : req' = [req EXCEPT ![r] = [pc |-> "sent", pick |-> e, b |-> 0]]
  OBVIOUS
<1> DEFINE n == [guest[g] EXCEPT !.st = "waiting"]
           q == [pc |-> "sent", pick |-> e, b |-> 0]
<1>4. /\ n \in GuestState /\ n.st = "waiting" /\ n.list = guest[g].list
      /\ n.window = guest[g].window /\ n.asof = guest[g].asof /\ n.b = guest[g].b
  BY <1>1 DEF GuestState
<1>5. guest' = [guest EXCEPT ![g] = n]
  OBVIOUS
<1>6. e \in Entry /\ Cut(e.t, e.slot)
  BY <1>1 DEF GuestState, Inv, ListsCut
<1>7. q \in ReqState /\ q.pc = "sent" /\ q.pick = e /\ q.b = 0
  BY <1>6 DEF ReqState
<1>8. req[r].pc \in {"idle", "over"}
  OBVIOUS
<1> HIDE DEF n, q
<1>9. req' = [req EXCEPT ![r] = q]
  BY <1>3 DEF q
<1> HIDE DEF r
<1>10. guest'[g] = n /\ \A h \in Guests : h # g => guest'[h] = guest[h]
  BY <1>1, <1>5
<1>11. req'[r] = q /\ \A p \in Requests : p # r => req'[p] = req[p]
  BY <1>1, <1>2, <1>9
<1>12. \A h \in Guests : Kept(h)
  BY <1>4, <1>10 DEF Kept
<1>13. RowsStand /\ made' = made /\ peak' = peak /\ fails' = fails
  BY RowsUnchanged DEF rows, ghost
<1>14. GuestsOK' /\ ReqsOK'
  <2>1. guest' \in [Guests -> GuestState] /\ req' \in [Requests -> ReqState]
    BY <1>1, <1>2, <1>4, <1>5, <1>7, <1>9
  <2>2. \A h \in Guests : guest'[h].asof <= made /\ guest'[h].b <= made
    BY <1>4, <1>10 DEF Inv, Types, GuestsOK
  <2>3. \A p \in Requests : req'[p].b <= made
    BY <1>1, <1>7, <1>11 DEF Inv, Types, ReqsOK
  <2> QED BY <1>13, <2>1, <2>2, <2>3 DEF GuestsOK, ReqsOK
<1>15. Types'
  <2>1. SettingOK' /\ RowsOK' /\ PagesOK' /\ PeakOK'
    BY <1>13, SettingStays, RowsStay, PagesStay, PeakStays DEF Inv, Types
  <2>2. BoundsOK'
    BY <1>13 DEF Inv, Types, BoundsOK, ghost, setting, Made
  <2> QED BY <1>14, <2>1, <2>2 DEF Types
<1>16. ListsCut' /\ RowsCut' /\ Reading'
  BY <1>12, <1>13, ListsKept, RowsKept, ReadingKept DEF Inv
<1>17. PicksCut'
  <2> SUFFICES ASSUME NEW p \in Requests, req'[p].pc # "idle"
               PROVE  req'[p].pick \in Entry /\ Cut(req'[p].pick.t, req'[p].pick.slot)
    BY DEF PicksCut, Cut, Entry, Times, Day
  <2>1. CASE p = r
    BY <1>6, <1>7, <1>11, <2>1
  <2>2. CASE p # r
    BY <1>11, <2>2 DEF Inv, PicksCut
  <2> QED BY <2>1, <2>2
<1>18. Picked'
  <2> SUFFICES ASSUME NEW p \in Requests, req'[p].pc = "inserted"
               PROVE  /\ req'[p].b \in Made'
                      /\ row'[req'[p].b].who = p[1] /\ row'[req'[p].b].t = req'[p].pick.t
    BY DEF Picked
  <2>1. CASE p = r
    BY <1>6, <1>7, <1>11, <2>1
  <2>2. CASE p # r
    <3>1. req'[p] = req[p] /\ Made' = Made /\ row' = row
      BY <1>11, <2>2 DEF rows, Made
    <3> QED BY <3>1 DEF Inv, Picked
  <2> QED BY <2>1, <2>2
<1>19. Promised'
  <2>1. ASSUME NEW h \in Guests, guest'[h].st = "done"
        PROVE  req'[<<h, guest'[h].try>>].pick = req[<<h, guest'[h].try>>].pick
    <3>1. h # g
      BY <1>4, <1>10, <2>1
    <3>2. guest'[h] = guest[h] /\ guest[h] \in GuestState
      BY <1>1, <1>10, <3>1
    <3>3. <<h, guest'[h].try>> \in Requests /\ <<h, guest'[h].try>> # r
      BY <3>1, <3>2 DEF GuestState, Requests, r
    <3> QED BY <1>11, <3>3
  <2> QED BY <1>12, <1>13, <2>1, PromisesKept DEF Inv
<1>20. OfferedWasFree'
  <2>1. Made' = Made
    BY <1>13 DEF Made
  <2> QED BY <1>1, <1>12, <1>13, <2>1, OffersKept DEF Inv, Types
<1>21. Spoken'
  <2>1. \A p \in Requests : req'[p].pc = "free" => req[p].pc = "free" /\ req'[p].pick = req[p].pick
    BY <1>7, <1>11
  <2> QED BY <1>13, <2>1, SpokenKept DEF Inv, Types
<1>22. LandlordTold'
  <2>1. \A p \in Requests :
           req[p].pc = "inserted" => req'[p].pc = "inserted" /\ req'[p].b = req[p].b
    BY <1>8, <1>11
  <2>2. fails \in Nat /\ fails >= fails
    BY FailsAre
  <2>3. UNCHANGED <<made, told, withdrawn>>
    BY <1>13 DEF ghost
  <2> QED BY <1>13, <2>1, <2>2, <2>3, ToldStays
<1> QED BY <1>15, <1>16, <1>17, <1>18, <1>19, <1>20, <1>21, <1>22 DEF Inv

(* A request ends: its guest hears of it unless he gave up on it.          *)
LEMMA RequestEnds ==
    ASSUME Inv, UNCHANGED <<setting, slot, rows, tab, acts, peak, withdrawn>>,
           NEW r \in Requests, NEW st \in {"listed", "done"}, guest' = TourAnswer(r, st),
           req[r].pc # "idle", st = "done" => req[r].pc = "inserted",
           req' = [req EXCEPT ![r].pc = "over"],
           fails' \in 0..cast.fails, told' \subseteq Ids \X {"new", "canceled"}, LandlordTold'
    PROVE  Inv'
<1>1. /\ made \in Nat /\ req \in [Requests -> ReqState] /\ req[r] \in ReqState
      /\ GuestsOK /\ ReqsOK
  BY FiniteRows DEF Inv, Types, ReqsOK
<1> DEFINE q == [req[r] EXCEPT !.pc = "over"]
<1>2. q \in ReqState /\ q.pc = "over" /\ q.pick = req[r].pick /\ q.b = req[r].b
  BY <1>1 DEF ReqState
<1>3. req' = [req EXCEPT ![r] = q]
  OBVIOUS
<1> HIDE DEF q
<1>4. req'[r] = q /\ \A p \in Requests : p # r => req'[p] = req[p]
  BY <1>1, <1>3
<1>5. \A p \in Requests : req'[p].pick = req[p].pick /\ req'[p].b = req[p].b
  BY <1>2, <1>4
<1>6. \A p \in Requests : req'[p].pc # "over" => req'[p].pc = req[p].pc
  BY <1>2, <1>4
<1>7. /\ guest' \in [Guests -> GuestState]
      /\ \A g \in Guests : guest'[g].asof <= made /\ guest'[g].b <= made
      /\ \A g \in Guests : Kept(g) \/ (st = "done" /\ Heard(r, g))
  BY <1>1, Answers
<1>8. \A g \in Guests : Heard(r, g) => guest'[g].list = {} /\ guest'[g].st = "done"
  BY DEF Heard
<1>9. RowsStand /\ made' = made /\ row' = row /\ peak' = peak
  BY RowsUnchanged DEF rows
<1>10. GuestsOK' /\ ReqsOK'
  <2>1. req' \in [Requests -> ReqState]
    BY <1>1, <1>2, <1>3
  <2>2. \A p \in Requests : req'[p].b <= made
    BY <1>5 DEF Inv, Types, ReqsOK
  <2> QED BY <1>7, <1>9, <2>1, <2>2 DEF GuestsOK, ReqsOK
<1>11. Types'
  <2>1. SettingOK' /\ RowsOK' /\ PagesOK' /\ PeakOK'
    BY <1>9, SettingStays, RowsStay, PagesStay, PeakStays DEF Inv, Types
  <2>2. BoundsOK'
    BY <1>9 DEF Inv, Types, BoundsOK, setting, Made
  <2> QED BY <1>10, <2>1, <2>2 DEF Types
<1>12. ListsCut'
  <2>1. \A g \in Guests : Kept(g) \/ guest'[g].list = {}
    BY <1>7, <1>8
  <2> QED BY <2>1, ListsKept DEF Inv
<1>13. PicksCut'
  <2>1. \A p \in Requests : req'[p].pc # "idle" => req[p].pc # "idle"
    BY <1>2, <1>4
  <2> QED BY <1>5, <2>1, PicksKept DEF Inv
<1>14. RowsCut' /\ Picked'
  <2>1. \A p \in Requests : req'[p].pc = "inserted" => req[p].pc = "inserted"
    BY <1>6
  <2> QED BY <1>5, <1>9, <2>1, RowsKept, PickedKept DEF Inv
<1>15. Promised'
  <2>1. ASSUME NEW g \in Guests, guest'[g].st = "done"
        PROVE  /\ guest'[g].b \in Made'
               /\ row'[guest'[g].b].who = g
               /\ row'[guest'[g].b].t = req'[<<g, guest'[g].try>>].pick.t
    <3>1. CASE Kept(g)
      <4>1. guest[g].st = "done" /\ guest'[g].try = guest[g].try /\ guest'[g].b = guest[g].b
        BY <2>1, <3>1 DEF Kept
      <4>2. /\ guest[g].b \in Made /\ row[guest[g].b].who = g
            /\ row[guest[g].b].t = req[<<g, guest[g].try>>].pick.t
        BY <4>1 DEF Inv, Promised, ScheduledIsBooked
      <4>3. <<g, guest'[g].try>> \in Requests
        BY <1>7 DEF GuestState, Requests
      <4>4. req'[<<g, guest'[g].try>>].pick = req[<<g, guest'[g].try>>].pick
        BY <1>5, <4>3
      <4> QED BY <1>9, <4>1, <4>2, <4>4 DEF Made
    <3>2. CASE st = "done" /\ Heard(r, g)
      <4>1. g = r[1] /\ guest'[g].try = r[2] /\ guest'[g].b = req[r].b
        BY <3>2 DEF Heard
      <4>2. <<g, guest'[g].try>> = r
        BY <4>1, RequestParts
      <4>3. req[r].b \in Made /\ row[req[r].b].who = r[1] /\ row[req[r].b].t = req[r].pick.t
        BY <3>2 DEF Inv, Picked
      <4>4. req'[<<g, guest'[g].try>>].pick = req[r].pick
        BY <1>5, <4>2
      <4> QED BY <1>9, <4>1, <4>3, <4>4 DEF Made
    <3> QED BY <1>7, <3>1, <3>2
  <2>2. ASSUME NEW g \in Guests, guest'[g].st = "canceling"
        PROVE  guest'[g].b \in Made'
    <3>1. Kept(g)
      BY <1>7, <1>8, <2>2
    <3>2. guest'[g].b = guest[g].b /\ guest[g].st \in {"done", "canceling"}
      BY <2>2, <3>1 DEF Kept
    <3>3. guest[g].b \in Made
      BY <3>2 DEF Inv, Promised, ScheduledIsBooked
    <3> QED BY <1>9, <3>2, <3>3 DEF Made
  <2> QED BY <2>1, <2>2 DEF Promised, ScheduledIsBooked
<1>16. Reading'
  <2>1. \A g \in Guests : Kept(g) \/ guest'[g].st # "reading"
    BY <1>7, <1>8
  <2> QED BY <2>1, ReadingKept DEF Inv
<1>17. OfferedWasFree'
  <2>1. Made' = Made
    BY <1>9 DEF Made
  <2>2. \A g \in Guests : Kept(g) \/ guest'[g].list = {}
    BY <1>7, <1>8
  <2> QED BY <1>1, <1>9, <2>1, <2>2, OffersKept DEF Inv, Types
<1>18. Spoken'
  <2>1. \A p \in Requests : req'[p].pc = "free" => req[p].pc = "free" /\ req'[p].pick = req[p].pick
    BY <1>5, <1>6
  <2> QED BY <1>9, <2>1, SpokenKept DEF Inv, Types
<1> QED BY <1>11, <1>12, <1>13, <1>14, <1>15, <1>16, <1>17, <1>18 DEF Inv

LEMMA RequestFailsKeeps == ASSUME Inv, NEW r \in Requests, RequestFails(r) PROVE Inv'
<1> USE DEF RequestFails
<1>1. fails' \in 0..cast.fails /\ fails' >= fails /\ fails' \in Nat
  BY FailsRise
<1>2. req \in [Requests -> ReqState]
  BY DEF Inv, Types, ReqsOK
<1>3. \A p \in Requests : p # r => req'[p] = req[p]
  BY <1>2
<1>4. \A p \in Requests :
         req[p].pc = "inserted" => req'[p].pc = "inserted" /\ req'[p].b = req[p].b
  BY <1>3
<1>5. UNCHANGED <<made, told, withdrawn, peak>>
  BY DEF rows, ghost
<1>6. LandlordTold'
  BY <1>1, <1>4, <1>5, ToldStays
<1>7. told' \subseteq Ids \X {"new", "canceled"}
  BY <1>5 DEF Inv, Types, BoundsOK
<1> QED BY <1>1, <1>5, <1>6, <1>7, RequestEnds

LEMMA MailBookedKeeps ==
    ASSUME Inv, NEW r \in Requests, NEW ok \in BOOLEAN, MailBooked(r, ok) PROVE Inv'
<1> USE DEF MailBooked
<1>1. fails' \in 0..cast.fails /\ fails' >= fails /\ fails' \in Nat
  BY FailsRise
<1>2. req \in [Requests -> ReqState] /\ req[r] \in ReqState /\ made \in Nat
  BY FiniteRows DEF Inv, Types, ReqsOK
<1>3. \A p \in Requests : p # r => req'[p] = req[p]
  BY <1>2
<1>4. made' = made /\ row' = row /\ withdrawn' = withdrawn /\ peak' = peak
  BY DEF rows
<1>5. req[r].b \in Made
  BY DEF Inv, Picked
<1>6. Made \subseteq Ids
  <2>1. made \in 0..MaxBookings /\ MaxBookings \in Nat
    BY ToursAssumption DEF Inv, Types, RowsOK, ToursAssumption
  <2> QED BY <2>1 DEF Made, Ids
<1>7. told' \subseteq Ids \X {"new", "canceled"}
  BY <1>5, <1>6 DEF Inv, Types, BoundsOK
<1> DEFINE x == <<req[r].b, "new">>
<1>8. Owed' \subseteq Owed \cup {x}
  <2> SUFFICES ASSUME NEW c \in Made, \A p \in Requests : ~(req'[p].pc = "inserted" /\ req'[p].b = c),
                      c # req[r].b
               PROVE  \A p \in Requests : ~(req[p].pc = "inserted" /\ req[p].b = c)
    BY <1>4 DEF Owed, Made, Requests
  <2> SUFFICES ASSUME NEW p \in Requests, req[p].pc = "inserted", req[p].b = c PROVE FALSE
    OBVIOUS
  <2>1. p # r
    OBVIOUS
  <2> QED BY <1>3, <2>1
<1>9. LandlordTold'
  <2>1. CASE ok
    <3>1. told' = told \cup {x} /\ fails' = fails
      BY <2>1
    <3>2. Owed' \ told' \subseteq Owed \ told
      BY <1>8, <3>1
    <3> QED BY <1>1, <3>2, ToldKept, FailsAre DEF Inv, Types, BoundsOK
  <2>2. CASE ~ok
    <3>1. told' = told /\ fails' = fails + 1
      BY <2>2
    <3>2. Owed' \ told' \subseteq (Owed \ told) \cup {x} /\ fails' >= fails + 1
      BY <1>1, <1>8, <3>1, FailsAre
    <3> HIDE DEF x
    <3> QED BY <1>1, <3>2, ToldKept, FailsAre DEF Inv, Types, BoundsOK
  <2> QED BY <2>1, <2>2
<1> QED BY <1>1, <1>7, <1>9, RequestEnds

LEMMA CheckKeeps == ASSUME Inv, NEW r \in Requests, Check(r) PROVE Inv'
<1> DEFINE t == req[r].pick.t
<1>1. CASE LiveBookings(t) # {}
  <2>1. /\ UNCHANGED <<setting, slot, rows, tab, acts, peak, withdrawn>>
        /\ guest' = TourAnswer(r, "listed") /\ req[r].pc = "sent"
        /\ req' = [req EXCEPT ![r].pc = "over"] /\ fails' = fails /\ told' = told
    BY <1>1 DEF Check
  <2>2. fails' \in 0..cast.fails /\ fails' >= fails /\ fails' \in Nat
    BY <2>1, FailsRise
  <2>3. req \in [Requests -> ReqState]
    BY DEF Inv, Types, ReqsOK
  <2>4. \A p \in Requests : p # r => req'[p] = req[p]
    BY <2>1, <2>3
  <2>5. \A p \in Requests :
           req[p].pc = "inserted" => req'[p].pc = "inserted" /\ req'[p].b = req[p].b
    BY <2>1, <2>4
  <2>6. UNCHANGED <<made, told, withdrawn>>
    BY <2>1 DEF rows
  <2>7. LandlordTold'
    BY <2>2, <2>5, <2>6, ToldStays
  <2>8. told' \subseteq Ids \X {"new", "canceled"}
    BY <2>1 DEF Inv, Types, BoundsOK
  <2> QED BY <2>1, <2>2, <2>7, <2>8, RequestEnds
<1>2. CASE LiveBookings(t) = {}
  <2>1. /\ UNCHANGED <<setting, slot, rows, guest, tab, fails, acts, told, withdrawn>>
        /\ req[r].pc = "sent" /\ req' = [req EXCEPT ![r].pc = "free"]
        /\ peak' = IF peak[t] <= Cardinality(Past(t))
                   THEN [peak EXCEPT ![t] = Cardinality(Past(t)) + 1] ELSE peak
    BY <1>2 DEF Check
  <2>2. /\ made \in Nat /\ req \in [Requests -> ReqState] /\ req[r] \in ReqState
        /\ guest \in [Guests -> GuestState] /\ peak \in [Times -> 0..Cardinality(Requests)]
    BY FiniteRows DEF Inv, Types, ReqsOK, GuestsOK, PeakOK
  <2> DEFINE q == [req[r] EXCEPT !.pc = "free"]
  <2>3. q \in ReqState /\ q.pc = "free" /\ q.pick = req[r].pick /\ q.b = req[r].b
    BY <2>2 DEF ReqState
  <2>4. req' = [req EXCEPT ![r] = q]
    BY <2>1
  <2> HIDE DEF q
  <2>5. req'[r] = q /\ \A p \in Requests : p # r => req'[p] = req[p]
    BY <2>2, <2>4
  <2>6. \A p \in Requests : req'[p].pick = req[p].pick /\ req'[p].b = req[p].b
    BY <2>3, <2>5
  <2>7. RowsStand /\ made' = made /\ row' = row /\ guest' = guest /\ fails' = fails
    BY <2>1, RowsUnchanged DEF rows
  <2>8. \A g \in Guests : Kept(g)
    BY <2>7 DEF Kept
  <2>9. t \in Times
    <3>1. req[r].pick \in Entry
      BY <2>1 DEF Inv, PicksCut
    <3> QED BY <3>1 DEF Entry
  <2> HIDE DEF t
  <2>10. /\ Past(t) \in SUBSET Requests /\ r \notin Past(t) /\ IsFiniteSet(Past(t))
         /\ Cardinality(Past(t)) \in Nat
         /\ Cardinality(Past(t) \cup {r}) = Cardinality(Past(t)) + 1
         /\ Cardinality(Past(t)) + 1 <= Cardinality(Requests)
    <3>1. Past(t) \in SUBSET Requests /\ r \notin Past(t) /\ Past(t) \cup {r} \in SUBSET Requests
      BY <2>1 DEF Past, Requests
    <3>2. IsFiniteSet(Past(t)) /\ Cardinality(Past(t)) \in Nat
      BY <3>1, Finite
    <3>3. Cardinality(Past(t) \cup {r}) = Cardinality(Past(t)) + 1
      BY <3>1, <3>2, FS_AddElement
    <3>4. Cardinality(Past(t) \cup {r}) <= Cardinality(Requests)
      BY <3>1, Finite
    <3> QED BY <3>1, <3>2, <3>3, <3>4
  <2>11. /\ \A u \in Times : peak[u] \in Nat /\ peak'[u] \in Nat /\ peak[u] <= peak'[u]
         /\ peak'[t] >= Cardinality(Past(t)) + 1
         /\ peak' \in [Times -> 0..Cardinality(Requests)]
    <3>1. \A u \in Times : peak[u] \in Nat /\ peak[u] <= Cardinality(Requests)
      BY <2>2, Finite
    <3>2. CASE peak[t] <= Cardinality(Past(t))
      <4>1. peak' = [peak EXCEPT ![t] = Cardinality(Past(t)) + 1]
        BY <2>1, <3>2
      <4>2. Cardinality(Past(t)) + 1 \in 0..Cardinality(Requests)
        BY <2>10, Finite
      <4>3. peak'[t] = Cardinality(Past(t)) + 1 /\ \A u \in Times : u # t => peak'[u] = peak[u]
        BY <2>2, <2>9, <4>1
      <4>4. peak' \in [Times -> 0..Cardinality(Requests)]
        BY <2>2, <4>1, <4>2
      <4>5. ASSUME NEW u \in Times PROVE peak'[u] \in Nat /\ peak[u] <= peak'[u]
        <5>1. CASE u = t
          BY <2>10, <3>1, <3>2, <4>3, <5>1
        <5>2. CASE u # t
          BY <3>1, <4>3, <5>2
        <5> QED BY <5>1, <5>2
      <4> QED BY <2>10, <3>1, <4>3, <4>4, <4>5
    <3>3. CASE ~(peak[t] <= Cardinality(Past(t)))
      <4>1. peak' = peak
        BY <2>1, <3>3
      <4> QED BY <2>2, <2>9, <2>10, <3>1, <3>3, <4>1
    <3> QED BY <3>2, <3>3
  <2>12. Types'
    <3>1. SettingOK' /\ RowsOK' /\ PagesOK' /\ GuestsOK'
      BY <2>1, <2>7, SettingStays, RowsStay, PagesStay, GuestsStay DEF Inv, Types
    <3>2. BoundsOK'
      BY <2>1, <2>7 DEF Inv, Types, BoundsOK, setting, Made
    <3>3. PeakOK'
      BY <2>11 DEF PeakOK
    <3>4. ReqsOK'
      <4>1. req' \in [Requests -> ReqState]
        BY <2>2, <2>3, <2>4
      <4>2. \A p \in Requests : req'[p].b <= made
        BY <2>6 DEF Inv, Types, ReqsOK
      <4> QED BY <2>7, <4>1, <4>2 DEF ReqsOK
    <3> QED BY <3>1, <3>2, <3>3, <3>4 DEF Types
  <2>13. ListsCut' /\ Reading' /\ RowsCut'
    BY <2>7, <2>8, ListsKept, ReadingKept, RowsKept DEF Inv
  <2>14. PicksCut'
    <3>1. \A p \in Requests : req'[p].pc # "idle" => req[p].pc # "idle"
      BY <2>1, <2>5
    <3> QED BY <2>6, <3>1, PicksKept DEF Inv
  <2>15. Picked'
    <3>1. \A p \in Requests : req'[p].pc = "inserted" => req[p].pc = "inserted"
      BY <2>3, <2>5
    <3> QED BY <2>6, <2>7, <3>1, PickedKept DEF Inv
  <2>16. Promised'
    <3>1. ASSUME NEW g \in Guests
          PROVE  req'[<<g, guest'[g].try>>].pick = req[<<g, guest'[g].try>>].pick
      <4>1. <<g, guest'[g].try>> \in Requests
        BY <2>2, <2>7 DEF GuestState, Requests
      <4> QED BY <2>6, <4>1
    <3> QED BY <2>7, <2>8, <3>1, PromisesKept DEF Inv
  <2>17. OfferedWasFree'
    <3>1. Made' = Made
      BY <2>7 DEF Made
    <3> QED BY <2>2, <2>7, <2>8, <3>1, OffersKept DEF Inv, Types
  <2>18. Spoken'
    <3> SUFFICES ASSUME NEW u \in Times
                 PROVE  Cardinality(Counted(u)') + Cardinality(Past(u)') <= peak'[u]
      BY DEF Spoken
    <3>1. Counted(u)' = Counted(u)
      BY <2>7 DEF Counted, LiveBookings, Made
    <3>2. CASE u = t
      <4>1. Counted(u) = {}
        BY <1>2, <3>2 DEF Counted, t
      <4>2. Past(u)' = Past(t) \cup {r}
        BY <2>3, <2>5, <3>2 DEF Past, Requests, t
      <4>3. Cardinality(Counted(u)') = 0 /\ Cardinality(Past(u)') = Cardinality(Past(t)) + 1
        BY <2>10, <3>1, <4>1, <4>2, FS_EmptySet
      <4> QED BY <2>9, <2>10, <2>11, <3>2, <4>3
    <3>3. CASE u # t
      <4>1. Past(u)' = Past(u)
        BY <2>1, <2>3, <2>5, <3>3 DEF Past, Requests, t
      <4>2. Cardinality(Counted(u)) + Cardinality(Past(u)) <= peak[u]
        BY DEF Inv, Spoken
      <4>3. Counted(u) \in SUBSET Made /\ Past(u) \in SUBSET Requests
        BY DEF Counted, LiveBookings, Past, Requests
      <4>4. Cardinality(Counted(u)) \in Nat /\ Cardinality(Past(u)) \in Nat
        BY <4>3, Finite, FiniteRows DEF Inv, Types
      <4> QED BY <2>11, <3>1, <4>1, <4>2, <4>4
    <3> QED BY <3>2, <3>3
  <2>19. LandlordTold'
    <3>1. \A p \in Requests :
             req[p].pc = "inserted" => req'[p].pc = "inserted" /\ req'[p].b = req[p].b
      BY <2>1, <2>5
    <3>2. fails \in Nat /\ fails >= fails
      BY FailsAre
    <3> QED BY <2>1, <2>7, <3>1, <3>2, ToldStays
  <2> QED BY <2>12, <2>13, <2>14, <2>15, <2>16, <2>17, <2>18, <2>19 DEF Inv
<1> QED BY <1>1, <1>2

LEMMA InsertKeeps == ASSUME Inv, NEW r \in Requests, Insert(r) PROVE Inv'
<1> USE DEF Insert
<1> DEFINE t == req[r].pick.t
           s == req[r].pick.slot
           new == [t |-> t, slot |-> s, who |-> r[1], revived |-> FALSE, status |-> "confirmed"]
<1>1. /\ made \in Nat /\ MaxBookings \in Nat /\ made' = made + 1 /\ made < MaxBookings
      /\ req \in [Requests -> ReqState] /\ req[r] \in ReqState /\ req[r].pc = "free"
      /\ guest \in [Guests -> GuestState]
      /\ UNCHANGED <<setting, slot, guest, tab, fails, acts, ghost>>
  BY FiniteRows, ToursAssumption DEF Inv, Types, ReqsOK, GuestsOK, ToursAssumption
<1>2. req[r].pick \in Entry /\ Cut(t, s)
  BY <1>1 DEF Inv, PicksCut
<1>3. r[1] \in Guests
  BY RequestParts
<1>4. new \in Booking
  BY <1>2, <1>3 DEF Booking, Entry
<1>5. /\ new.t = t /\ new.slot = s /\ new.who = r[1] /\ new.revived = FALSE
      /\ new.status = "confirmed"
  OBVIOUS
<1>6. Made' = Made \cup {made + 1} /\ made + 1 \notin Made
  BY <1>1 DEF Made
<1>7. /\ DOMAIN row' = Made'
      /\ \A b \in Made : row'[b] = row[b]
      /\ row'[made + 1] = new
  <2>1. row' = [b \in 1..(made + 1) |-> IF b \in Made THEN row[b] ELSE new]
    OBVIOUS
  <2> HIDE DEF new
  <2>2. 1..(made + 1) = Made'
    BY <1>1 DEF Made
  <2>3. row' = [b \in Made' |-> IF b \in Made THEN row[b] ELSE new]
    BY <2>1, <2>2
  <2> QED BY <1>6, <2>3
<1> DEFINE q == [req[r] EXCEPT !.pc = "inserted", !.b = made + 1]
<1>8. q \in ReqState /\ q.pc = "inserted" /\ q.pick = req[r].pick /\ q.b = made + 1
  <2> DEFINE m == made + 1
  <2>1. req[r] \in ReqState /\ m \in Nat
    BY <1>1
  <2> HIDE DEF m, Insert
  <2>2. q = [req[r] EXCEPT !.pc = "inserted", !.b = m]
    BY DEF m
  <2> HIDE DEF q
  <2>3. q \in ReqState /\ q.pc = "inserted" /\ q.pick = req[r].pick /\ q.b = m
    BY <2>1, <2>2 DEF ReqState
  <2> QED BY <2>3 DEF m
<1>9. req' = [req EXCEPT ![r] = q]
  OBVIOUS
<1> HIDE DEF q, new
<1>10. req'[r] = q /\ \A p \in Requests : p # r => req'[p] = req[p]
  BY <1>1, <1>9
<1>11. \A p \in Requests : req'[p].pick = req[p].pick
  BY <1>8, <1>10
<1>12. RowsStand
  BY <1>6, <1>7 DEF RowsStand
<1>13. \A g \in Guests : Kept(g)
  BY <1>1 DEF Kept
<1>14. peak' = peak /\ told' = told /\ withdrawn' = withdrawn
  BY <1>1 DEF ghost
<1>15. RowsOK'
  <2>1. made' \in 0..MaxBookings
    BY <1>1
  <2>2. \A b \in Made' : row'[b] \in Booking
    BY <1>4, <1>6, <1>7 DEF Inv, Types, RowsOK
  <2>3. \A b \in Made' : row'[b] \in Booking'
    BY <2>2 DEF Booking, Times, Day
  <2> QED BY <1>7, <2>1, <2>3 DEF RowsOK
<1>16. Types'
  <2>1. SettingOK' /\ PagesOK' /\ PeakOK'
    BY <1>1, <1>14, SettingStays, PagesStay, PeakStays DEF Inv, Types
  <2>2. BoundsOK'
    BY <1>1, <1>6, <1>14 DEF Inv, Types, BoundsOK, setting
  <2>3. GuestsOK'
    <3>1. ASSUME NEW g \in Guests
          PROVE  guest[g].asof <= made + 1 /\ guest[g].b <= made + 1
      <4>1. /\ guest[g] \in GuestState /\ guest[g].asof <= made /\ guest[g].b <= made
        BY DEF Inv, Types, GuestsOK
      <4>2. guest[g].asof \in Nat /\ guest[g].b \in Nat
        BY <4>1 DEF GuestState
      <4> QED BY <1>1, <4>1, <4>2
    <3> QED BY <1>1, <3>1 DEF GuestsOK
  <2>4. ReqsOK'
    <3>1. req' \in [Requests -> ReqState]
      BY <1>1, <1>8, <1>9
    <3>2. \A p \in Requests : req'[p].b <= made + 1
      <4>1. ASSUME NEW p \in Requests PROVE req'[p].b <= made + 1
        <5>1. CASE p = r
          BY <1>1, <1>8, <1>10, <5>1
        <5>2. CASE p # r
          <6>1. req'[p] = req[p] /\ req[p].b <= made /\ req[p] \in ReqState
            BY <1>1, <1>10, <5>2 DEF Inv, Types, ReqsOK
          <6>2. req[p].b \in Nat
            BY <6>1 DEF ReqState
          <6> QED BY <1>1, <6>1, <6>2
        <5> QED BY <5>1, <5>2
      <4> QED BY <4>1
    <3> QED BY <1>1, <3>1, <3>2 DEF ReqsOK
  <2> QED BY <1>15, <2>1, <2>2, <2>3, <2>4 DEF Types
<1>17. ListsCut' /\ Reading'
  BY <1>13, ListsKept, ReadingKept DEF Inv
<1>18. PicksCut'
  <2>1. \A p \in Requests : req'[p].pc # "idle" => req[p].pc # "idle"
    BY <1>1, <1>10
  <2> QED BY <1>11, <2>1, PicksKept DEF Inv
<1>19. RowsCut'
  <2> SUFFICES ASSUME NEW b \in Made' PROVE Cut(row'[b].t, row'[b].slot)
    BY DEF RowsCut, Cut
  <2>1. CASE b \in Made
    BY <1>7, <2>1 DEF Inv, RowsCut
  <2>2. CASE b = made + 1
    BY <1>2, <1>5, <1>7, <2>2
  <2> QED BY <1>6, <2>1, <2>2
<1>20. Picked'
  <2> SUFFICES ASSUME NEW p \in Requests, req'[p].pc = "inserted"
               PROVE  /\ req'[p].b \in Made'
                      /\ row'[req'[p].b].who = p[1] /\ row'[req'[p].b].t = req'[p].pick.t
    BY DEF Picked
  <2>1. CASE p = r
    BY <1>5, <1>6, <1>7, <1>8, <1>10, <2>1
  <2>2. CASE p # r
    <3>1. req'[p] = req[p]
      BY <1>10, <2>2
    <3>2. req[p].b \in Made /\ row[req[p].b].who = p[1] /\ row[req[p].b].t = req[p].pick.t
      BY <3>1 DEF Inv, Picked
    <3>3. row'[req[p].b] = row[req[p].b] /\ req[p].b \in Made'
      BY <1>6, <1>7, <3>2
    <3> QED BY <3>1, <3>2, <3>3
  <2> QED BY <2>1, <2>2
<1>21. Promised'
  <2>1. ASSUME NEW g \in Guests
        PROVE  req'[<<g, guest'[g].try>>].pick = req[<<g, guest'[g].try>>].pick
    <3>1. <<g, guest'[g].try>> \in Requests
      BY <1>1 DEF GuestState, Requests
    <3> QED BY <1>11, <3>1
  <2> QED BY <1>12, <1>13, <2>1, PromisesKept DEF Inv
<1>22. OfferedWasFree'
  <2>1. \A b \in Made' : b \in Made \/ (b \in Nat /\ b > made)
    BY <1>1, <1>6
  <2> QED BY <1>1, <1>12, <1>13, <2>1, OffersKept DEF Inv, Types
<1>23. Spoken'
  <2> SUFFICES ASSUME NEW u \in Times
               PROVE  Cardinality(Counted(u)') + Cardinality(Past(u)') <= peak'[u]
    BY DEF Spoken
  <2>1. Cardinality(Counted(u)) + Cardinality(Past(u)) <= peak[u]
    BY DEF Inv, Spoken
  <2>2. Counted(u) \in SUBSET Made /\ Past(u) \in SUBSET Requests
    BY DEF Counted, LiveBookings, Past, Requests
  <2>3. /\ IsFiniteSet(Counted(u)) /\ Cardinality(Counted(u)) \in Nat
        /\ IsFiniteSet(Past(u)) /\ Cardinality(Past(u)) \in Nat
    BY <2>2, Finite, FiniteRows DEF Inv, Types
  <2>4. CASE u = t
    <3>1. Counted(u)' = Counted(u) \cup {made + 1}
      BY <1>5, <1>6, <1>7, <2>4 DEF Counted, LiveBookings
    <3>2. Past(u)' = Past(u) \ {r} /\ r \in Past(u)
      BY <1>1, <1>8, <1>10, <2>4 DEF Past, Requests
    <3>3. Cardinality(Counted(u)') = Cardinality(Counted(u)) + 1
      BY <1>6, <2>2, <2>3, <3>1, FS_AddElement
    <3>4. Cardinality(Past(u)') = Cardinality(Past(u)) - 1
      BY <2>3, <3>2, FS_RemoveElement
    <3> QED BY <1>14, <2>1, <2>3, <3>3, <3>4
  <2>5. CASE u # t
    <3>1. Counted(u)' = Counted(u)
      BY <1>5, <1>6, <1>7, <2>5 DEF Counted, LiveBookings
    <3>2. Past(u)' = Past(u)
      BY <1>1, <1>8, <1>10, <2>5 DEF Past, Requests
    <3> QED BY <1>14, <2>1, <3>1, <3>2
  <2> QED BY <2>4, <2>5
<1>24. LandlordTold'
  <2>1. Owed' \subseteq Owed
    <3>1. \A c \in Made' : (\A p \in Requests : ~(req'[p].pc = "inserted" /\ req'[p].b = c))
              => c \in Made
      BY <1>6, <1>8, <1>10
    <3>2. \A c \in Made, p \in Requests : req[p].pc = "inserted" /\ req[p].b = c
              => req'[p].pc = "inserted" /\ req'[p].b = c
      BY <1>1, <1>10
    <3> QED BY <1>14, <3>1, <3>2 DEF Owed, Requests
  <2>2. Owed' \ told' \subseteq Owed \ told
    BY <1>14, <2>1
  <2>3. fails' = fails /\ fails \in Nat /\ fails >= fails
    BY <1>1, FailsAre
  <2> QED BY <2>2, <2>3, ToldKept DEF Inv, Types, BoundsOK
<1> QED BY <1>16, <1>17, <1>18, <1>19, <1>20, <1>21, <1>22, <1>23, <1>24 DEF Inv

-----------------------------------------------------------------------------
(* Cancelling and the dashboard.                                           *)

(* A step that writes the status of rows and nothing else of theirs, and   *)
(* leaves the requests and the lists alone.                                *)
LEMMA StatusMoves ==
    ASSUME Inv, UNCHANGED <<setting, made, req, peak>>, RowsStand, Types', LandlordTold',
           \A g \in Guests : Kept(g)
    PROVE  Inv'
<1>1. guest \in [Guests -> GuestState] /\ made \in Nat
  BY FiniteRows DEF Inv, Types, GuestsOK
<1>2. ListsCut' /\ Reading' /\ RowsCut'
  BY ListsKept, ReadingKept, RowsKept DEF Inv
<1>3. PicksCut'
  BY PicksKept DEF Inv
<1>4. Picked'
  BY PickedKept DEF Inv
<1>5. Promised'
  <2>1. \A g \in Guests : req'[<<g, guest'[g].try>>].pick = req[<<g, guest'[g].try>>].pick
    OBVIOUS
  <2> QED BY <2>1, PromisesKept DEF Inv
<1>6. OfferedWasFree'
  <2>1. Made' = Made
    BY DEF Made
  <2> QED BY <1>1, <2>1, OffersKept DEF Inv, Types
<1>7. Spoken'
  BY SpokenKept DEF Inv, Types
<1> QED BY <1>2, <1>3, <1>4, <1>5, <1>6, <1>7 DEF Inv

LEMMA CancelWriteKeeps ==
    ASSUME Inv, NEW g \in Guests, NEW ok \in BOOLEAN, CancelWrite(g, ok) PROVE Inv'
<1> USE DEF CancelWrite
<1> DEFINE b == guest[g].b
<1>1. /\ guest \in [Guests -> GuestState] /\ guest[g] \in GuestState /\ made \in Nat
      /\ made' = made /\ req' = req /\ peak' = peak /\ UNCHANGED <<setting, slot, tab, acts>>
      /\ guest[g].st = "canceling"
  BY FiniteRows DEF Inv, Types, GuestsOK
<1>2. fails' \in 0..cast.fails /\ fails' >= fails /\ fails' \in Nat
  BY FailsRise
<1>3. b \in Made
  BY <1>1 DEF Inv, Promised
<1>4. DOMAIN row = Made /\ row[b] \in Booking /\ \A c \in Made : row[c] \in Booking
  BY <1>3 DEF Inv, Types, RowsOK
<1> DEFINE new == [row[b] EXCEPT !.status = "canceled"]
           n == [guest[g] EXCEPT !.st = "canceled"]
<1>5. /\ new \in Booking /\ new.t = row[b].t /\ new.slot = row[b].slot /\ new.who = row[b].who
      /\ new.revived = row[b].revived /\ new.status = "canceled"
  BY <1>4 DEF Booking
<1>6. /\ n \in GuestState /\ n.st = "canceled" /\ n.list = guest[g].list
      /\ n.window = guest[g].window /\ n.asof = guest[g].asof /\ n.b = guest[g].b
  BY <1>1 DEF GuestState
<1>7. row' = [row EXCEPT ![b] = new] /\ guest' = [guest EXCEPT ![g] = n]
  OBVIOUS
<1>8. /\ told' = IF ok THEN told \cup {<<b, "canceled">>} ELSE told
      /\ withdrawn' = withdrawn \cup {b}
      /\ ok \/ fails' = fails + 1
      /\ ok => fails' = fails
  OBVIOUS
<1> HIDE DEF n, new, b
<1>9. /\ guest'[g] = n /\ \A h \in Guests : h # g => guest'[h] = guest[h]
      /\ DOMAIN row' = Made /\ row'[b] = new /\ \A c \in Made : c # b => row'[c] = row[c]
  BY <1>1, <1>3, <1>4, <1>7
<1>10. \A h \in Guests : Kept(h)
  BY <1>6, <1>9 DEF Kept
<1>11. Made' = Made
  BY <1>1 DEF Made
<1>12. RowsStand
  BY <1>5, <1>9, <1>11 DEF RowsStand
<1>13. Made \subseteq Ids
  <2>1. made \in 0..MaxBookings /\ MaxBookings \in Nat
    BY ToursAssumption DEF Inv, Types, RowsOK, ToursAssumption
  <2> QED BY <2>1 DEF Made, Ids
<1>14. Types'
  <2>1. SettingOK' /\ ReqsOK' /\ PagesOK' /\ PeakOK'
    BY <1>1, SettingStays, ReqsStay, PagesStay, PeakStays DEF Inv, Types
  <2>2. RowsOK'
    <3>1. \A c \in Made : row'[c] \in Booking
      BY <1>4, <1>5, <1>9
    <3>2. \A c \in Made' : row'[c] \in Booking'
      BY <1>11, <3>1 DEF Booking, Times, Day
    <3>3. made' \in 0..MaxBookings
      BY <1>1 DEF Inv, Types, RowsOK
    <3> QED BY <1>9, <1>11, <3>2, <3>3 DEF RowsOK
  <2>3. GuestsOK'
    <3>1. guest' \in [Guests -> GuestState]
      BY <1>1, <1>6, <1>7
    <3>2. \A h \in Guests : guest'[h].asof <= made /\ guest'[h].b <= made
      BY <1>6, <1>9 DEF Inv, Types, GuestsOK
    <3> QED BY <1>1, <3>1, <3>2 DEF GuestsOK
  <2>4. BoundsOK'
    <3>1. told' \subseteq Ids \X {"new", "canceled"}
      BY <1>3, <1>8, <1>13 DEF Inv, Types, BoundsOK
    <3>2. withdrawn' \subseteq Made'
      BY <1>3, <1>8, <1>11 DEF Inv, Types, BoundsOK
    <3>3. acts' \in 0..cast'.acts /\ fails' \in 0..cast'.fails
      BY <1>1, <1>2 DEF Inv, Types, BoundsOK, setting
    <3> QED BY <3>1, <3>2, <3>3 DEF BoundsOK
  <2> QED BY <2>1, <2>2, <2>3, <2>4 DEF Types
<1>15. LandlordTold'
  <2> DEFINE x == <<b, "canceled">>
  <2>1. Owed' = Owed \cup {x}
    BY <1>1, <1>8, <1>11 DEF Owed
  <2>2. CASE ok
    <3>1. Owed' \ told' \subseteq Owed \ told /\ fails' >= fails
      BY <1>2, <1>8, <2>1, <2>2
    <3> QED BY <1>2, <3>1, ToldKept, FailsAre DEF Inv, Types, BoundsOK
  <2>3. CASE ~ok
    <3>1. Owed' \ told' \subseteq (Owed \ told) \cup {x}
      BY <1>8, <2>1, <2>3
    <3>2. fails' >= fails + 1
      BY <1>8, <2>3, FailsAre
    <3> HIDE DEF x
    <3> QED BY <1>2, <3>1, <3>2, ToldKept, FailsAre DEF Inv, Types, BoundsOK
  <2> QED BY <2>2, <2>3
<1> QED BY <1>1, <1>10, <1>12, <1>14, <1>15, StatusMoves

LEMMA SetStatusKeeps ==
    ASSUME Inv, NEW l \in Tabs, NEW b \in Made, NEW s \in {"completed", "no_show", "canceled"},
           SetStatus(l, b, s)
    PROVE  Inv'
<1> USE DEF SetStatus
<1>1. /\ made \in Nat /\ made' = made /\ req' = req /\ guest' = guest /\ slot' = slot
      /\ UNCHANGED <<setting, fails>> /\ peak' = peak /\ told' = told /\ withdrawn' = withdrawn
      /\ acts < cast.acts /\ acts' = acts + 1
  BY FiniteRows DEF Inv, Types, ghost, LandlordActs
<1>2. DOMAIN row = Made /\ row[b] \in Booking /\ \A c \in Made : row[c] \in Booking
  BY DEF Inv, Types, RowsOK
<1> DEFINE new == [row[b] EXCEPT !.status = s,
                                 !.revived = row[b].revived \/ (row[b].status = "canceled" /\ s # "canceled")]
<1>3. /\ new \in Booking /\ new.t = row[b].t /\ new.slot = row[b].slot /\ new.who = row[b].who
      /\ new.revived = (row[b].revived \/ (row[b].status = "canceled" /\ s # "canceled"))
      /\ new.status = s
  BY <1>2 DEF Booking
<1>4. row' = [row EXCEPT ![b] = new]
  OBVIOUS
<1>5. tab' = [tab EXCEPT ![l].shown = @ \ {b}]
  OBVIOUS
<1> HIDE DEF new, SetStatus
<1>6. DOMAIN row' = Made /\ row'[b] = new /\ \A c \in Made : c # b => row'[c] = row[c]
  BY <1>2, <1>4
<1>7. Made' = Made
  BY <1>1 DEF Made
<1>8. RowsStand
  BY <1>3, <1>6, <1>7 DEF RowsStand
<1>9. \A g \in Guests : Kept(g)
  BY <1>1 DEF Kept
<1>10. Types'
  <2>1. SettingOK' /\ ReqsOK' /\ GuestsOK' /\ PeakOK'
    BY <1>1, SettingStays, ReqsStay, GuestsStay, PeakStays DEF Inv, Types
  <2>2. RowsOK'
    <3>1. \A c \in Made : row'[c] \in Booking
      BY <1>2, <1>3, <1>6
    <3>2. \A c \in Made' : row'[c] \in Booking'
      BY <1>7, <3>1 DEF Booking, Times, Day
    <3>3. made' \in 0..MaxBookings
      BY <1>1 DEF Inv, Types, RowsOK
    <3> QED BY <1>6, <1>7, <3>2, <3>3 DEF RowsOK
  <2>3. PagesOK'
    <3>1. tab \in [Tabs -> TabState] /\ tab[l] \in TabState
      BY DEF Inv, Types, PagesOK
    <3>2. [tab[l] EXCEPT !.shown = @ \ {b}] \in TabState
      BY <3>1 DEF TabState
    <3>3. tab' \in [Tabs -> TabState]
      BY <1>5, <3>1, <3>2
    <3>4. TabState' = TabState
      BY DEF TabState
    <3> QED BY <1>1, <3>3, <3>4 DEF Inv, Types, PagesOK
  <2>4. BoundsOK'
    <3>1. cast.acts \in Nat /\ acts \in 0..cast.acts
      BY CastIs DEF Inv, Types, BoundsOK
    <3>2. acts' \in 0..cast.acts
      BY <1>1, <3>1
    <3> QED BY <1>1, <1>7, <3>2 DEF Inv, Types, BoundsOK, setting
  <2> QED BY <2>1, <2>2, <2>3, <2>4 DEF Types
<1>11. LandlordTold'
  <2>1. fails \in Nat /\ fails >= fails /\ fails' = fails
    BY <1>1, FailsAre
  <2> QED BY <1>1, <2>1, ToldStays
<1> QED BY <1>1, <1>8, <1>9, <1>10, <1>11, StatusMoves

(* What the landlord does to slots and pages, and the clock, change        *)
(* nothing that was offered, booked or told.                               *)
LEMMA NothingBooked ==
    ASSUME Inv, UNCHANGED <<rows, guest, req, fails, ghost>>, cast' = cast,
           now' \in 0..MaxTime, acts' \in 0..cast.acts, PagesOK'
    PROVE  Inv'
<1>1. made' = made /\ row' = row /\ peak' = peak /\ told' = told /\ withdrawn' = withdrawn
  BY DEF rows, ghost
<1>2. RowsStand
  BY RowsUnchanged
<1>3. \A g \in Guests : Kept(g)
  BY DEF Kept
<1>4. Types'
  <2>1. RowsOK' /\ ReqsOK' /\ GuestsOK' /\ PeakOK'
    BY <1>1, RowsStay, ReqsStay, GuestsStay, PeakStays DEF Inv, Types
  <2>2. SettingOK'
    BY DEF Inv, Types, SettingOK
  <2>3. BoundsOK'
    BY <1>1 DEF Inv, Types, BoundsOK, Made
  <2> QED BY <2>1, <2>2, <2>3 DEF Types
<1>5. LandlordTold'
  <2>1. fails \in Nat /\ fails >= fails
    BY FailsAre
  <2> QED BY <1>1, <2>1, ToldStays
<1>6. guest \in [Guests -> GuestState] /\ made \in Nat /\ Made' = Made
  BY <1>1, FiniteRows DEF Inv, Types, GuestsOK, Made
<1>7. ListsCut' /\ Reading' /\ RowsCut'
  BY <1>1, <1>2, <1>3, ListsKept, ReadingKept, RowsKept DEF Inv
<1>8. PicksCut' /\ Picked'
  BY <1>2, PicksKept, PickedKept DEF Inv
<1>9. Promised'
  <2>1. \A g \in Guests : req'[<<g, guest'[g].try>>].pick = req[<<g, guest'[g].try>>].pick
    OBVIOUS
  <2> QED BY <1>2, <1>3, <2>1, PromisesKept DEF Inv
<1>10. OfferedWasFree'
  BY <1>2, <1>3, <1>6, OffersKept DEF Inv, Types
<1>11. Spoken'
  BY <1>1, <1>2, SpokenKept DEF Inv, Types
<1> QED BY <1>4, <1>5, <1>7, <1>8, <1>9, <1>10, <1>11 DEF Inv

LEMMA Acting == ASSUME Inv PROVE LandlordActs => acts' \in 0..cast.acts
<1>1. cast.acts \in Nat /\ acts \in 0..cast.acts
  BY CastIs DEF Inv, Types, BoundsOK
<1> QED BY <1>1 DEF LandlordActs

LEMMA PageTypes ==
    ASSUME Inv, NEW l \in Tabs
    PROVE  /\ slot \in [SlotIds -> SlotStatus] /\ tab \in [Tabs -> TabState]
           /\ tab[l].shown \in SUBSET Ids /\ tab[l].slots \in [SlotIds -> SlotStatus]
           /\ \A S \in SUBSET Ids, f \in [SlotIds -> SlotStatus] :
                 [shown |-> S, slots |-> f] \in TabState
           /\ tab[l] = [shown |-> tab[l].shown, slots |-> tab[l].slots]
           /\ {"on", "off", "deleted"} \subseteq SlotStatus
<1>1. slot \in [SlotIds -> SlotStatus] /\ tab \in [Tabs -> TabState]
  BY DEF Inv, Types, PagesOK
<1>2. tab[l] \in TabState
  BY <1>1
<1> QED BY <1>1, <1>2 DEF TabState, SlotStatus

LEMMA PageWith ==
    ASSUME Inv, NEW l \in Tabs, NEW f \in [SlotIds -> SlotStatus]
    PROVE  [tab[l] EXCEPT !.slots = f] \in TabState
<1>1. tab[l] \in TabState
  BY DEF Inv, Types, PagesOK
<1> QED BY <1>1 DEF TabState

LEMMA AddSlotKeeps ==
    ASSUME Inv, NEW l \in Tabs, NEW s \in SlotIds, AddSlot(l, s) PROVE Inv'
<1> USE DEF AddSlot
<1>1. acts' \in 0..cast.acts /\ cast' = cast /\ now' \in 0..MaxTime
  BY Acting DEF setting, Inv, Types, SettingOK
<1>2. slot' \in [SlotIds -> SlotStatus]
  BY PageTypes
<1>3. tab' = [tab EXCEPT ![l].slots = slot']
  OBVIOUS
<1>4. [tab[l] EXCEPT !.slots = slot'] \in TabState
  BY <1>2, PageWith
<1>5. tab' \in [Tabs -> TabState]
  BY <1>3, <1>4, PageTypes
<1>6. PagesOK'
  BY <1>2, <1>5 DEF PagesOK, TabState
<1> QED BY <1>1, <1>6, NothingBooked

LEMMA ChangeSlotKeeps ==
    ASSUME Inv, NEW l \in Tabs, NEW s \in SlotIds, NEW to \in {"on", "off", "deleted"},
           ChangeSlot(l, s, to)
    PROVE  Inv'
<1> USE DEF ChangeSlot
<1>1. acts' \in 0..cast.acts /\ cast' = cast /\ now' \in 0..MaxTime
  BY Acting DEF setting, Inv, Types, SettingOK
<1>2. slot' \in [SlotIds -> SlotStatus] /\ tab' \in [Tabs -> TabState]
  <2>1. CASE slot[s] \in {"on", "off"}
    <3>1. slot' = [slot EXCEPT ![s] = to] /\ tab' = [tab EXCEPT ![l].slots[s] = to]
      BY <2>1
    <3>2. slot' \in [SlotIds -> SlotStatus]
      BY <3>1, PageTypes
    <3>3. [tab[l].slots EXCEPT ![s] = to] \in [SlotIds -> SlotStatus]
      BY PageTypes
    <3>4. [tab[l] EXCEPT !.slots = [tab[l].slots EXCEPT ![s] = to]] \in TabState
      BY <3>3, PageWith
    <3>5. tab' = [tab EXCEPT ![l] = [tab[l] EXCEPT !.slots = [tab[l].slots EXCEPT ![s] = to]]]
      BY <3>1, PageTypes
    <3> QED BY <3>2, <3>4, <3>5, PageTypes
  <2>2. CASE slot[s] \notin {"on", "off"}
    BY <2>2, PageTypes
  <2> QED BY <2>1, <2>2
<1>3. PagesOK'
  BY <1>2 DEF PagesOK, TabState
<1> QED BY <1>1, <1>3, NothingBooked

LEMMA OpenPageKeeps == ASSUME Inv, NEW l \in Tabs, OpenPage(l) PROVE Inv'
<1> USE DEF OpenPage
<1>1. acts' \in 0..cast.acts /\ cast' = cast /\ now' \in 0..MaxTime
  BY DEF setting, Inv, Types, SettingOK, BoundsOK
<1> DEFINE S == {b \in Made : row[b].status = "confirmed"}
<1>2. S \in SUBSET Ids
  <2>1. made \in 0..MaxBookings /\ MaxBookings \in Nat
    BY ToursAssumption DEF Inv, Types, RowsOK, ToursAssumption
  <2> QED BY <2>1 DEF Made, Ids
<1>3. tab' = [tab EXCEPT ![l] = [shown |-> S, slots |-> slot]]
  OBVIOUS
<1> HIDE DEF S
<1>4. [shown |-> S, slots |-> slot] \in TabState
  BY <1>2, PageTypes
<1>5. tab' \in [Tabs -> TabState] /\ slot' = slot
  BY <1>3, <1>4, PageTypes
<1>6. PagesOK'
  BY <1>5, PageTypes DEF PagesOK, TabState
<1> QED BY <1>1, <1>6, NothingBooked

LEMMA TickKeeps == ASSUME Inv, Tick PROVE Inv'
<1> USE DEF Tick
<1>1. now' \in 0..MaxTime
  BY Lengths DEF Inv, Types, SettingOK
<1>2. acts' \in 0..cast.acts
  BY DEF Inv, Types, BoundsOK
<1>3. PagesOK'
  BY PagesStay DEF Inv, Types
<1> QED BY <1>1, <1>2, <1>3, NothingBooked

LEMMA StutterKeeps == ASSUME Inv, UNCHANGED tourVars PROVE Inv'
<1>1. now' \in 0..MaxTime /\ cast' = cast
  BY DEF tourVars, setting, Inv, Types, SettingOK
<1>2. acts' \in 0..cast.acts
  BY DEF tourVars, Inv, Types, BoundsOK
<1>3. PagesOK'
  BY PagesStay DEF tourVars, Inv, Types
<1> QED BY <1>1, <1>2, <1>3, NothingBooked DEF tourVars

-----------------------------------------------------------------------------
(* The theorems.                                                           *)

LEMMA NextInv == Inv /\ [TourNext]_tourVars => Inv'
<1> SUFFICES ASSUME Inv, [TourNext]_tourVars PROVE Inv'
  OBVIOUS
<1>1. ASSUME NEW g \in Guests, GuestStep(g) PROVE Inv'
  <2>1. CASE ListSlots(g)
    BY <2>1, ListSlotsKeeps
  <2>2. CASE ListBookings(g)
    BY <2>2, ListBookingsKeeps
  <2>3. CASE SubmitTour(g)
    BY <2>3, SubmitKeeps
  <2>4. CASE AnswerLost(g)
    BY <2>4, AnswerLostKeeps
  <2>5. CASE CancelRead(g)
    BY <2>5, CancelReadKeeps
  <2>6. ASSUME NEW ok \in BOOLEAN, CancelWrite(g, ok) PROVE Inv'
    BY <2>6, CancelWriteKeeps
  <2> QED BY <1>1, <2>1, <2>2, <2>3, <2>4, <2>5, <2>6 DEF GuestStep
<1>2. ASSUME NEW r \in Requests, RequestStep(r) PROVE Inv'
  <2>1. CASE Check(r)
    BY <2>1, CheckKeeps
  <2>2. CASE Insert(r)
    BY <2>2, InsertKeeps
  <2>3. CASE RequestFails(r)
    BY <2>3, RequestFailsKeeps
  <2>4. ASSUME NEW ok \in BOOLEAN, MailBooked(r, ok) PROVE Inv'
    BY <2>4, MailBookedKeeps
  <2> QED BY <1>2, <2>1, <2>2, <2>3, <2>4 DEF RequestStep
<1>3. ASSUME NEW l \in Tabs, LandlordStep(l) PROVE Inv'
  <2>1. CASE OpenPage(l)
    BY <2>1, OpenPageKeeps
  <2>2. ASSUME NEW s \in SlotIds, AddSlot(l, s) PROVE Inv'
    BY <2>2, AddSlotKeeps
  <2>3. ASSUME NEW s \in SlotIds, NEW to \in {"on", "off", "deleted"}, ChangeSlot(l, s, to)
        PROVE  Inv'
    BY <2>3, ChangeSlotKeeps
  <2>4. ASSUME NEW b \in Made, NEW s \in {"completed", "no_show", "canceled"}, SetStatus(l, b, s)
        PROVE  Inv'
    BY <2>4, SetStatusKeeps
  <2> QED BY <1>3, <2>1, <2>2, <2>3, <2>4 DEF LandlordStep
<1>4. CASE Tick
  BY <1>4, TickKeeps
<1>5. CASE UNCHANGED tourVars
  BY <1>5, StutterKeeps
<1> QED BY <1>1, <1>2, <1>3, <1>4, <1>5 DEF TourNext, Requests

LEMMA InvAlways == TourSpec => []Inv
BY TourInitInv, NextInv, PTL DEF TourSpec

\* Every variable keeps its type, whoever visits and however often the landlord acts.
THEOREM TourTypeCorrect == TourSpec => []TourTypeOK
<1>1. Inv => TourTypeOK
  BY TypesGive DEF Inv
<1> QED BY <1>1, InvAlways, PTL

\* The two look-ups before a booking (getAvailableSlots, bookTour) keep a time to one tour,
\* but for requests past their look-up together; what is offered was free when the list was
\* made, and times cut from one slot row never overlap.
THEOREM TimesAreKept == TourSpec => []SlotsKept
<1>1. Inv => SlotsKept
  BY TypesGive, BoundedFollows, OverlapFollows DEF Inv, SlotsKept
<1> QED BY <1>1, InvAlways, PTL

\* A guest told "Tour Scheduled!" has his row at the time he picked, and the landlord is
\* mailed about every booking and every withdrawal but for the mails that failed.
THEOREM PeopleAreTold == TourSpec => []PeopleTold
<1>1. Inv => PeopleTold
  BY DEF Inv, Promised, PeopleTold
<1> QED BY <1>1, InvAlways, PTL
=============================================================================
