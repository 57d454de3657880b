---------------------------- MODULE SurveyIntake ----------------------------
(***************************************************************************)
(* How a text becomes a rental application.  The Telnyx webhook            *)
(* (telnyx-sms.ts) dedupes a message by its id, answers 200 and queues it  *)
(* on its phone's promise chain; handleIncomingSms obeys STOP and START    *)
(* and answers a text with a survey link (survey-intake.ts).  The link's   *)
(* form can be posted to the server (survey.ts, one transaction) or to the *)
(* tenant site (api/apply, statement by statement), and the open /apply    *)
(* page takes applications without a link.                                 *)
(*                                                                         *)
(* One property with intake enabled, phones of unknown tenants.  Steps are *)
(* the awaits that touch the database.                                     *)
(***************************************************************************)
EXTENDS Integers, Sequences, FiniteSets

CONSTANTS
    Phones, Messages, Sender,  \* who sent a message
    Scripts,                   \* what the messages may say
    Deliveries,                \* webhook calls: first deliveries and retries
    Forms,                     \* submissions
    Order,                     \* bound: numbers deliveries, messages and forms, which come in turn
    MaxInvites, MaxApps,       \* bounds on the tables
    MaxCrashes                 \* bound on crashes of server and site together

Tokens == 1 .. MaxInvites
Apps   == 1 .. MaxApps

ASSUME IntakeAssumption ==
    /\ Sender \in [Messages -> Phones]
    /\ Scripts \subseteq [Messages -> {"stop", "start", "help", "text"}]
    /\ Order \in [Deliveries \union Messages \union Forms -> Nat]
    /\ "none" \notin Phones /\ "none" \notin Messages
    /\ MaxInvites \in Nat /\ MaxApps \in Nat /\ MaxCrashes \in Nat

VARIABLES
    \* the database
    recorded,   \* ProcessedWebhookEvent
    optOut,     \* SmsOptOut
    invite,     \* SurveyInvite
    app,        \* Application
    convo,      \* SmsConversation: the messages logged ({}: no row)
    \* the server's and the site's memory
    chain,      \* phoneChains
    run,        \* a delivery's handler
    form,       \* a submission's handler
    \* the world
    body,       \* what the messages say
    unrecorded, \* messages whose dedupe insert failed
    replied,    \* replies handed to the outbound path
    crashes

db    == <<recorded, optOut, invite, app, convo>>
texts == <<recorded, optOut, convo, chain, run, unrecorded, replied>>
vars  == <<db, chain, run, form, body, unrecorded, replied, crashes>>

RunSteps  == {"idle", "waiting", "lookup", "invite", "mint", "persist", "append", "reply", "done"}
FormSteps == {"to come", "idle", "claim", "check", "commit", "forward", "site claim", "site create",
              "site link", "web create"}
Paths     == {"none", "survey", "site", "web"}
Invite    == [phone : Phones \union {"none"}, used : BOOLEAN, expired : BOOLEAN, app : Apps \union {0}]
App       == [phone : Phones \union {"none"}, path : Paths, token : Tokens \union {0}, recent : BOOLEAN]
Run       == [step : RunSteps, msg : Messages \union {"none"}, kind : {"none", "confirmation", "link"},
              token : Tokens \union {0}, said : SUBSET Messages]
Form      == [step : FormSteps, token : Tokens \union {0}, phone : Phones \union {"none"},
              app : Apps \union {0}]

NoInvite == [phone |-> "none", used |-> FALSE, expired |-> FALSE, app |-> 0]
NoApp    == [phone |-> "none", path |-> "none", token |-> 0, recent |-> FALSE]
NoRun    == [step |-> "idle", msg |-> "none", kind |-> "none", token |-> 0, said |-> {}]
Ended    == [step |-> "done", msg |-> "none", kind |-> "none", token |-> 0, said |-> {}]
NoForm   == [step |-> "idle", token |-> 0, phone |-> "none", app |-> 0]
NewForm  == [step |-> "to come", token |-> 0, phone |-> "none", app |-> 0]

TypeOK ==
    /\ recorded \subseteq Messages /\ unrecorded \subseteq Messages
    /\ optOut \subseteq Phones
    /\ invite \in [Tokens -> Invite]
    /\ app \in [Apps -> App]
    /\ convo \in [Phones -> SUBSET Messages]
    /\ chain \in [Phones -> Seq(Deliveries)]
    /\ run \in [Deliveries -> Run]
    /\ form \in [Forms -> Form]
    /\ body \in Scripts
    /\ replied \in [Messages -> Nat]
    /\ crashes \in Nat

Init ==
    /\ recorded = {} /\ unrecorded = {} /\ optOut = {}
    /\ invite = [t \in Tokens |-> NoInvite]
    /\ app = [a \in Apps |-> NoApp]
    /\ convo = [p \in Phones |-> {}]
    /\ chain = [p \in Phones |-> <<>>]
    /\ run = [d \in Deliveries |-> NoRun]
    /\ form = [f \in Forms |-> NewForm]
    /\ body \in Scripts
    /\ replied = [m \in Messages |-> 0]
    /\ crashes = 0

-----------------------------------------------------------------------------
(* The webhook.                                                            *)

Phone(d)      == Sender[run[d].msg]
Text(d)       == body[run[d].msg]
At(d, step)   == run[d].step = step
Goto(d, step) == run' = [run EXCEPT ![d].step = step]

(* Mutant: the unique violation is treated like any other failure.         *)
WebhookUndeduped(d, m, inserted) ==
    /\ At(d, "idle")
    /\ recorded' = recorded \union {m}
    /\ run' = [run EXCEPT ![d] = [step |-> "waiting", msg |-> m, kind |-> "none",
                                  token |-> 0, said |-> {}]]
    /\ chain' = [chain EXCEPT ![Sender[m]] = Append(@, d)]
    /\ UNCHANGED <<optOut, invite, app, convo, form, body, unrecorded, replied, crashes>>

(* Insert the message's id; a unique violation means a retry, any other    *)
(* failure is ignored.  Then answer 200 and queue the message.  (One step: *)
(* after the insert the handler does not wait again.)                      *)
Webhook(d, m, inserted) ==
    /\ At(d, "idle")
    /\ inserted => m \notin recorded
    /\ recorded' = IF inserted THEN recorded \union {m} ELSE recorded
    /\ unrecorded' = IF inserted THEN unrecorded ELSE unrecorded \union {m}
    /\ run' = [run EXCEPT ![d] = [step |-> "waiting", msg |-> m, kind |-> "none",
                                  token |-> 0, said |-> {}]]
    /\ chain' = [chain EXCEPT ![Sender[m]] = Append(@, d)]
    /\ UNCHANGED <<optOut, invite, app, convo, form, body, replied, crashes>>

Duplicate(d, m) ==
    /\ At(d, "idle") /\ m \in recorded
    /\ run' = [run EXCEPT ![d] = Ended]
    /\ UNCHANGED <<db, chain, form, body, unrecorded, replied, crashes>>

-----------------------------------------------------------------------------
(* The chain, and handleIncomingSms.                                       *)

(* Mutant: no chain.                                                       *)
TurnOfAny(d) == ~At(d, "idle") /\ ~At(d, "done")

(* prev.then(fn, fn): a handler starts when its predecessor has ended,     *)
(* however it ended.                                                       *)
Turn(d) == /\ ~At(d, "idle") /\ ~At(d, "done")
           /\ chain[Phone(d)] # <<>> /\ Head(chain[Phone(d)]) = d

Leave(d) == /\ chain' = [chain EXCEPT ![Phone(d)] = Tail(@)]
            /\ run' = [run EXCEPT ![d] = Ended]

Answer(d, kind, token, step) ==
    run' = [run EXCEPT ![d] = [step |-> step, msg |-> run[d].msg, kind |-> kind,
                               token |-> token, said |-> {}]]

Stop(d) ==
    /\ Turn(d) /\ At(d, "waiting") /\ Text(d) = "stop"
    /\ optOut' = optOut \union {Phone(d)}
    /\ Answer(d, "confirmation", 0, "reply")
    /\ UNCHANGED <<recorded, invite, app, convo, chain, form, body, unrecorded, replied, crashes>>

Start(d) ==
    /\ Turn(d) /\ At(d, "waiting") /\ Text(d) = "start"
    /\ optOut' = optOut \ {Phone(d)}
    /\ Answer(d, "confirmation", 0, "reply")
    /\ UNCHANGED <<recorded, invite, app, convo, chain, form, body, unrecorded, replied, crashes>>

(* An opted-out phone is ignored; a text during a live call goes into it.  *)
Silent(d) ==
    /\ Turn(d) /\ At(d, "waiting")
    /\ Text(d) = "text" \/ (Text(d) = "help" /\ Phone(d) \in optOut)
    /\ Leave(d)
    /\ UNCHANGED <<db, form, body, unrecorded, replied, crashes>>

Help(d) ==
    /\ Turn(d) /\ At(d, "waiting") /\ Text(d) = "help" /\ Phone(d) \notin optOut
    /\ Answer(d, "confirmation", 0, "reply")
    /\ UNCHANGED <<db, chain, form, body, unrecorded, replied, crashes>>

Intake(d) ==
    /\ Turn(d) /\ At(d, "waiting") /\ Text(d) = "text" /\ Phone(d) \notin optOut
    /\ Goto(d, "lookup")
    /\ UNCHANGED <<db, chain, form, body, unrecorded, replied, crashes>>

(* Completed applications of the last 30 days, by channel.                 *)
OfPhone(p, paths) == {a \in Apps : app[a].phone = p /\ app[a].recent /\ app[a].path \in paths}
SmsLink == {"survey", "site"}

(* handleSurveyIntake: an application on file is acknowledged.             *)
Lookup(d) ==
    /\ Turn(d) /\ At(d, "lookup")
    /\ IF OfPhone(Phone(d), SmsLink) # {} THEN Answer(d, "confirmation", 0, "persist")
       ELSE Goto(d, "invite")
    /\ UNCHANGED <<db, chain, form, body, unrecorded, replied, crashes>>

Live(t) == invite[t].phone # "none" /\ ~invite[t].used /\ ~invite[t].expired

(* createOrReuseSurveyInvite: the newest live invite, or else a new one.   *)
ReuseInvite(d, t) ==
    /\ Turn(d) /\ At(d, "invite")
    /\ Live(t) /\ invite[t].phone = Phone(d)
    /\ \A u \in Tokens : Live(u) /\ invite[u].phone = Phone(d) => u <= t
    /\ Answer(d, "link", t, "persist")
    /\ UNCHANGED <<db, chain, form, body, unrecorded, replied, crashes>>

NoInviteLeft(d) ==
    /\ Turn(d) /\ At(d, "invite")
    /\ \A t \in Tokens : Live(t) => invite[t].phone # Phone(d)
    /\ Goto(d, "mint")
    /\ UNCHANGED <<db, chain, form, body, unrecorded, replied, crashes>>

Mint(d, t) ==
    /\ Turn(d) /\ At(d, "mint")
    /\ invite[t].phone = "none" /\ \A u \in Tokens : invite[u].phone = "none" => t <= u
    /\ invite' = [invite EXCEPT ![t] = [phone |-> Phone(d), used |-> FALSE, expired |-> FALSE, app |-> 0]]
    /\ Answer(d, "link", t, "persist")
    /\ UNCHANGED <<recorded, optOut, app, convo, chain, form, body, unrecorded, replied, crashes>>

(* persistIntakeExchange: read the conversation, write it back longer.     *)
ReadConversation(d) ==
    /\ Turn(d) /\ At(d, "persist")
    /\ run' = [run EXCEPT ![d] = [step |-> "append", msg |-> run[d].msg, kind |-> run[d].kind,
                                  token |-> run[d].token, said |-> convo[Phone(d)]]]
    /\ UNCHANGED <<db, chain, form, body, unrecorded, replied, crashes>>

(* An update of a row that is gone, or a second row, is refused.           *)
Logged(d) == IF (run[d].said = {}) = (convo[Phone(d)] = {})
             THEN run[d].said \union {run[d].msg} ELSE convo[Phone(d)]

WriteConversation(d) ==
    /\ Turn(d) /\ At(d, "append")
    /\ convo' = [convo EXCEPT ![Phone(d)] = Logged(d)]
    /\ Answer(d, run[d].kind, 0, "reply")
    /\ UNCHANGED <<recorded, optOut, invite, app, chain, form, body, unrecorded, replied, crashes>>

(* Best effort: a failure to log does not block the reply.                 *)
LogFails(d) ==
    /\ Turn(d) /\ (At(d, "persist") \/ At(d, "append"))
    /\ Answer(d, run[d].kind, 0, "reply")
    /\ UNCHANGED <<db, chain, form, body, unrecorded, replied, crashes>>

Reply(d) ==
    /\ Turn(d) /\ At(d, "reply")
    /\ replied' = [replied EXCEPT ![run[d].msg] = @ + 1]
    /\ Leave(d)
    /\ UNCHANGED <<db, form, body, unrecorded, crashes>>

(* A query throws: the message is dropped and the chain goes on.           *)
HandlerFails(d) ==
    /\ Turn(d)
    /\ Leave(d)
    /\ UNCHANGED <<db, form, body, unrecorded, replied, crashes>>

-----------------------------------------------------------------------------
(* Submissions.                                                            *)

Is(f, step)   == form[f].step = step
Move(f, step) == form' = [form EXCEPT ![f].step = step]
Begin(f, step, t, p) == /\ Is(f, "to come")
                        /\ form' = [form EXCEPT ![f] = [step |-> step, token |-> t, phone |-> p, app |-> 0]]
End(f)        == form' = [form EXCEPT ![f] = NoForm]

(* POST /survey/:token, and POST /api/apply with a token: the invite is    *)
(* known, unused and not expired.                                          *)
PostSurvey(f, t) ==
    /\ Live(t)
    /\ Begin(f, "claim", t, invite[t].phone)
    /\ UNCHANGED <<texts, invite, app, body, crashes>>

PostSite(f, t) ==
    /\ Live(t)
    /\ Begin(f, "site claim", t, invite[t].phone)
    /\ UNCHANGED <<texts, invite, app, body, crashes>>

(* The claim holds the invite's row until its transaction ends.            *)
Unlocked(t) == \A g \in Forms : form[g].token = t => ~Is(g, "check") /\ ~Is(g, "commit")

Claim(f) ==
    /\ Is(f, "claim") /\ Unlocked(form[f].token)
    /\ IF invite[form[f].token].used THEN End(f) ELSE Move(f, "check")
    /\ UNCHANGED <<texts, invite, app, body, crashes>>

(* Mutant: the claim alone decides.                                        *)
CheckDuplicateNever(f) ==
    /\ Is(f, "check")
    /\ Move(f, "commit")
    /\ UNCHANGED <<texts, invite, app, body, crashes>>

(* A duplicate throws, and the claim is rolled back.                       *)
CheckDuplicate(f) ==
    /\ Is(f, "check")
    /\ IF OfPhone(form[f].phone, SmsLink) # {} THEN End(f) ELSE Move(f, "commit")
    /\ UNCHANGED <<texts, invite, app, body, crashes>>

Fresh(a) == app[a].phone = "none" /\ \A b \in Apps : app[b].phone = "none" => a <= b
Create(f, a, path) ==
    /\ Fresh(a)
    /\ app' = [app EXCEPT ![a] = [phone |-> form[f].phone, path |-> path,
                                  token |-> form[f].token, recent |-> TRUE]]

Carry(f, step, a) ==
    form' = [form EXCEPT ![f] = [step |-> step, token |-> form[f].token,
                                 phone |-> form[f].phone, app |-> a]]

Submit(f, a) ==
    /\ Is(f, "commit")
    /\ Create(f, a, "survey")
    /\ invite' = [invite EXCEPT ![form[f].token] =
                     [phone |-> @.phone, used |-> TRUE, expired |-> @.expired, app |-> a]]
    /\ Carry(f, "forward", a)
    /\ UNCHANGED <<texts, body, crashes>>

(* Mutant: the invite is marked whether or not somebody else has done so.  *)
SiteClaimBlind(f) ==
    /\ Is(f, "site claim") /\ Unlocked(form[f].token)
    /\ invite' = [invite EXCEPT ![form[f].token].used = TRUE]
    /\ Move(f, "site create")
    /\ UNCHANGED <<texts, app, body, crashes>>

(* The tenant site: the same claim, outside a transaction.                 *)
SiteClaim(f) ==
    /\ Is(f, "site claim") /\ Unlocked(form[f].token)
    /\ IF invite[form[f].token].used THEN End(f) /\ UNCHANGED invite
       ELSE /\ invite' = [invite EXCEPT ![form[f].token].used = TRUE]
            /\ Move(f, "site create")
    /\ UNCHANGED <<texts, app, body, crashes>>

SiteCreate(f, a) ==
    /\ Is(f, "site create")
    /\ Create(f, a, "site")
    /\ Carry(f, "site link", a)
    /\ UNCHANGED <<texts, invite, body, crashes>>

SiteLink(f) ==
    /\ Is(f, "site link")
    /\ invite' = [invite EXCEPT ![form[f].token].app = form[f].app]
    /\ End(f)
    /\ UNCHANGED <<texts, app, body, crashes>>

(* The open page: the typed phone has no recent application of either kind.*)
PostWeb(f, p) ==
    /\ OfPhone(p, {"survey", "site", "web"}) = {}
    /\ Begin(f, "web create", 0, p)
    /\ UNCHANGED <<texts, invite, app, body, crashes>>

WebCreate(f, a) ==
    /\ Is(f, "web create")
    /\ Create(f, a, "web")
    /\ Carry(f, "forward", a)
    /\ UNCHANGED <<texts, invite, body, crashes>>

(* The thank-you page first, then forwardSurveySummary.                    *)
Forward(f) ==
    /\ Is(f, "forward")
    /\ End(f)
    /\ UNCHANGED <<texts, invite, app, body, crashes>>

-----------------------------------------------------------------------------
(* Time and crashes.                                                       *)

(* A form takes moments and an invite lasts seven days.                    *)
Expire(t) ==
    /\ Live(t) /\ \A f \in Forms : form[f].token # t
    /\ invite' = [invite EXCEPT ![t].expired = TRUE]
    /\ UNCHANGED <<texts, app, form, body, crashes>>

(* Thirty days pass, or the landlord rejects the application.              *)
Lapse(a) ==
    /\ app[a].recent
    /\ app' = [app EXCEPT ![a].recent = FALSE]
    /\ UNCHANGED <<texts, invite, form, body, crashes>>

(* cleanupExpiredConversations.                                            *)
Cleanup(p) ==
    /\ convo[p] # {}
    /\ convo' = [convo EXCEPT ![p] = {}]
    /\ UNCHANGED <<recorded, optOut, invite, app, chain, run, form, body, unrecorded, replied, crashes>>

SiteSteps == {"site claim", "site create", "site link"}

(* The 200 has been sent: what was queued is lost, and so is the forward   *)
(* of an application whose submission had not come to it.                  *)
ServerCrash ==
    /\ crashes < MaxCrashes /\ crashes' = crashes + 1
    /\ chain' = [p \in Phones |-> <<>>]
    /\ run' = [d \in Deliveries |-> IF At(d, "idle") THEN NoRun ELSE Ended]
    /\ form' = [f \in Forms |-> IF form[f].step \in SiteSteps \union {"to come"} THEN form[f] ELSE NoForm]
    /\ UNCHANGED <<db, body, unrecorded, replied>>

SiteCrash ==
    /\ crashes < MaxCrashes /\ crashes' = crashes + 1
    /\ form' = [f \in Forms |-> IF form[f].step \in SiteSteps THEN NoForm ELSE form[f]]
    /\ UNCHANGED <<texts, invite, app, body>>

-----------------------------------------------------------------------------
Handle(d) == \/ Stop(d) \/ Start(d) \/ Silent(d) \/ Help(d) \/ Intake(d) \/ Lookup(d)
             \/ (\E t \in Tokens : ReuseInvite(d, t) \/ Mint(d, t)) \/ NoInviteLeft(d)
             \/ ReadConversation(d) \/ WriteConversation(d) \/ LogFails(d)
             \/ Reply(d) \/ HandlerFails(d)

(* Bound: what is alike comes in the order of its numbers.                 *)
First(x, S) == x \in S /\ \A y \in S : Order[x] <= Order[y]
Seen == recorded \union unrecorded

Receive == \E d \in Deliveries, m \in Messages :
              /\ First(d, {e \in Deliveries : At(e, "idle")})
              /\ m \in Seen \/ First(m, Messages \ Seen)
              /\ Webhook(d, m, TRUE) \/ Webhook(d, m, FALSE) \/ Duplicate(d, m)

Submission(f) ==
    \/ (\E t \in Tokens : PostSurvey(f, t) \/ PostSite(f, t))
    \/ (\E p \in Phones : PostWeb(f, p))
    \/ Claim(f) \/ CheckDuplicate(f) \/ SiteClaim(f) \/ SiteLink(f) \/ Forward(f)
    \/ (\E a \in Apps : Submit(f, a) \/ SiteCreate(f, a) \/ WebCreate(f, a))

Next == \/ Receive
        \/ \E d \in Deliveries : Handle(d)
        \/ \E f \in Forms : /\ Is(f, "to come") => First(f, {g \in Forms : Is(g, "to come")})
                           /\ Submission(f)
        \/ \E t \in Tokens : Expire(t)
        \/ \E a \in Apps : Lapse(a)
        \/ \E p \in Phones : Cleanup(p)
        \/ ServerCrash \/ SiteCrash

Spec == Init /\ [][Next]_vars

-----------------------------------------------------------------------------
(* Properties.                                                             *)

(* "A retry racing the original must not mint two tokens": a phone has at  *)
(* most one live invite, although the look-up and the creation are two     *)
(* queries and nothing in the table forbids a second.                      *)
OneLiveInvite ==
    \A t, u \in Tokens :
        Live(t) /\ Live(u) /\ invite[t].phone = invite[u].phone => t = u

(* A survey link yields one application at most, whichever of the two      *)
(* programs its form is posted to, and however the posts race.             *)
ClaimedOnce ==
    \A a, b \in Apps : app[a].token # 0 /\ app[a].token = app[b].token => a = b

(* The server's thirty-day check holds although it reads before it writes: *)
(* of the links a phone was sent, the server turns one into a recent       *)
(* application.                                                            *)
NoSecondApplication ==
    \A a, b \in Apps :
        /\ app[a].recent /\ app[a].path = "survey"
        /\ app[b].recent /\ app[b].path = "survey"
        /\ app[a].phone = app[b].phone
        => a = b

(* A message is answered once however often Telnyx delivers it, unless the *)
(* insert that should remember it failed.                                  *)
AnsweredOnce == \A m \in Messages \ unrecorded : replied[m] <= 1

(* A phone's messages are handled in turn: once its STOP has taken effect, *)
(* no link that an earlier text was being answered with goes out.          *)
SilentAfterStop ==
    [][\A d \in Deliveries :
          Reply(d) /\ run[d].kind = "link" => Phone(d) \notin optOut]_vars

(* No message blocks its phone's chain and none is lost while the server   *)
(* lives: what waits in a chain is a message of that phone, each once, and *)
(* what is at its head is a handler that can go on.                        *)
Running(d) == ~At(d, "idle") /\ ~At(d, "done")
ChainSound ==
    \A d \in Deliveries, p \in Phones :
        Cardinality({i \in 1 .. Len(chain[p]) : chain[p][i] = d})
            = IF Running(d) /\ Phone(d) = p THEN 1 ELSE 0

(* Every message gets one answer from a handler that its phone's chain lets *)
(* run: retries are told apart from messages, and failures from the end of *)
(* the chain.                                                              *)
EachHandledOnce == AnsweredOnce /\ ChainSound

(* What the links of a survey promise together: one that works per phone,  *)
(* and one application per link (SurveyInvite, claimed by updateMany).     *)
LinksKept == TypeOK /\ OneLiveInvite /\ ClaimedOnce
=============================================================================
