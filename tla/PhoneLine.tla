----------------------------- MODULE PhoneLine -----------------------------
(***************************************************************************)
(* The phone numbers of the properties and what carries their calls: the   *)
(* integration settings and the cache the dashboard reads them through     *)
(* (packages/shared), the requests that buy, release and try a number      *)
(* (apps/dashboard, api/properties/[id]/phone and test-call), and the      *)
(* phone system an administrator starts and watches: an ngrok tunnel and   *)
(* the webhooks of every number (apps/dashboard/src/lib/phone-system.ts).  *)
(*                                                                         *)
(* Three stores are changed one after the other and never together: the    *)
(* Twilio account, the ngrok agent and the database.                       *)
(***************************************************************************)
EXTENDS Integers, FiniteSets, Sequences

CONSTANTS
  Props,      \* properties
  Nums,       \* phone numbers Twilio sells
  Reqs,       \* requests the dashboard may be serving at once
  Env,        \* [Field -> Value]: the environment's settings, under those of the database
  Forms,      \* what the administrator may save: functions from some fields to values
  MaxValue,   \* settings are told apart by numbers; 0 is no setting
  MaxBought,  \* bound: purchases ever made
  Casts       \* bound: which operations meet, how many requests, saves and mishaps there are

Field == {"sid", "token", "url"}
Value == 0..MaxValue
Op == {"assign", "release", "call", "start", "status"}

PhoneLineAssumption ==
  /\ MaxValue \in Nat /\ MaxBought \in Nat
  /\ IsFiniteSet(Props) /\ IsFiniteSet(Nums) /\ IsFiniteSet(Reqs)
  /\ Env \in [Field -> Value]
  /\ \A f \in Forms : DOMAIN f \subseteq Field /\ \A k \in DOMAIN f : f[k] \in Value
  /\ Casts \subseteq [ops : SUBSET Op, reqs : Nat, saves : Nat, haps : Nat, conf : [Field -> Value]]

NoNum == "no number"
Ids   == 1..MaxBought
NoSid == 0     \* twilioPhoneSid is null
Mock  == -1    \* PN_mock_<time>, made up when Twilio is not configured
Given == -2    \* PN_<time>, made up by the onboarding wizard
Empty == -1    \* no entry in the cache, nothing read

VARIABLES
  cast,
  conf,     \* [Field -> Value]: the SystemConfig rows; 0 for none
  cache,    \* [Field -> Value or Empty]: the cache of the dashboard's process
  save,     \* the PUT of the settings being served
  here,     \* [Props -> is there a Property row]
  active,   \* [Props -> Property.isActive]
  row,      \* [Props -> the phone columns of the Property row]
  bought,   \* the purchases ever made at Twilio, in order
  agent,    \* is an ngrok agent running
  tunnel,   \* [Value -> "none" | "right" | "wrong"]: the port each public URL leads to
  req,      \* [Reqs -> a request]
  begun, saves, haps,
  strays,   \* history: events after which a purchase and a row may disagree
  behind    \* history: fields whose cache may hold what the store no longer says

network == <<agent, tunnel>>
account == <<here, active, row, bought>>
budget  == <<begun, saves, haps>>
vars == <<cast, conf, cache, save, account, network, req, budget, strays, behind>>

-----------------------------------------------------------------------------
(* Records *)

Unset == [f \in Field |-> 0]
Row == [phone : Nums \cup {NoNum}, sid : Ids \cup {NoSid, Mock, Given}]
Purchase == [num : Nums, acct : Value \ {0}, hook : Value, kept : BOOLEAN]
NoSave == [pc |-> "idle", form |-> <<>>, left |-> {}, done |-> {}]
Idle ==
  [op |-> "none", p |-> "none", n |-> NoNum, pc |-> "idle", need |-> <<>>,
   read |-> Empty, got |-> Unset, sid |-> NoSid, todo |-> {}, listed |-> {}, ok |-> TRUE, calm |-> TRUE]

\* what resolveConfig finds for f past its cache
Effective(f) == IF conf[f] # 0 THEN conf[f] ELSE Env[f]

Bought == 1..Len(bought)
Live(s) == s \in Bought /\ bought[s].kept
Real == {row[p].sid : p \in {q \in Props : here[q] /\ row[q].sid \in Ids}}
ForSale(n) == \A s \in Bought : bought[s].num = n => ~bought[s].kept

\* credentials that Twilio takes, and takes for the account of purchase s
Signed(got) == got["sid"] # 0 /\ got["token"] = got["sid"]
Owns(got, s) == Signed(got) /\ Live(s) /\ bought[s].acct = got["sid"]

\* a number or a tunnel changes: for the starts and checks under way it is not calm
Uneasy(q) == IF q.op \in {"start", "status"} THEN [q EXCEPT !.calm = FALSE] ELSE q
Stirred(r, new) ==
  [q \in Reqs |-> IF q = r THEN new ELSE Uneasy(req[q])]
Go(r, new) == req' = [req EXCEPT ![r] = new]

Init ==
  /\ cast \in Casts
  /\ conf = cast.conf /\ cache = [f \in Field |-> Empty] /\ save = NoSave
  /\ row = [p \in Props |-> [phone |-> NoNum, sid |-> NoSid]]
  /\ bought = <<>>
  /\ agent = FALSE /\ tunnel = [v \in Value |-> "none"]
  /\ req = [r \in Reqs |-> Idle]
  /\ begun = 0 /\ saves = 0 /\ haps = 0
  /\ strays = 0 /\ behind = {}

-----------------------------------------------------------------------------
(* Settings: the administrator saves, requests read through the cache *)

\* a save of the integrations page: the fields typed into, blank ones to be cleared
SaveBegin ==
  /\ save.pc = "idle" /\ saves < cast.saves
  /\ \E f \in Forms : save' = [pc |-> "write", form |-> f, left |-> DOMAIN f, done |-> {}]
  /\ saves' = saves + 1
  /\ UNCHANGED <<cast, conf, cache, account, network, req, begun, haps, strays, behind>>

\* fields that a request has read from the store and not yet put into the cache
Pending == {Head(req[r].need) : r \in {q \in Reqs : req[q].pc = "fill"}}

SaveField ==
  /\ save.pc = "write"
  /\ \E f \in save.left :
       /\ conf' = [conf EXCEPT ![f] = save.form[f]]
       /\ save' = [save EXCEPT !.left = @ \ {f}, !.done = @ \cup {f}]
       /\ behind' = behind \cup ({f} \cap Pending)
  /\ UNCHANGED <<cast, cache, account, network, req, budget, strays>>

\* an error between two fields: what is stored stays, the cache is not cleared
SaveFails ==
  /\ save.pc = "write" /\ haps < cast.haps
  /\ save' = NoSave /\ haps' = haps + 1 /\ behind' = behind \cup save.done
  /\ UNCHANGED <<cast, conf, cache, account, network, req, begun, saves, strays>>

\* mutant: the cache keeps what it has
SaveEndsQuiet ==
  /\ save.pc = "write" /\ save.left = {}
  /\ save' = NoSave
  /\ UNCHANGED <<cast, conf, cache, account, network, req, budget, strays, behind>>

SaveEnds ==
  /\ save.pc = "write" /\ save.left = {}
  /\ save' = NoSave /\ cache' = [f \in Field |-> Empty]
  /\ behind' = behind \cap Pending
  /\ UNCHANGED <<cast, conf, account, network, req, budget, strays>>

\* an entry is a minute old (before the first save, reading it again changes nothing)
Expire(f) ==
  /\ cache[f] # Empty /\ saves > 0
  /\ cache' = [cache EXCEPT ![f] = Empty]
  /\ behind' = behind \ ({f} \ Pending)
  /\ UNCHANGED <<cast, conf, save, account, network, req, budget, strays>>

\* where a request goes once its settings are known
Next1(op) ==
  CASE op = "assign" -> "buy" [] op = "release" -> "remove" [] op = "call" -> "place"
    [] op = "start" -> "tunnel" [] op = "status" -> "tunnel"

Got(q, v) ==
  [q EXCEPT !.got[Head(q.need)] = v, !.need = Tail(q.need), !.read = Empty,
            !.pc = IF Len(q.need) = 1 THEN Next1(q.op) ELSE "conf"]

\* resolveConfig: the cache answers at once; the store is awaited and then remembered
ResolveCached(r) ==
  /\ req[r].pc = "conf" /\ cache[Head(req[r].need)] # Empty
  /\ Go(r, Got(req[r], cache[Head(req[r].need)]))
  /\ UNCHANGED <<cast, conf, cache, save, account, network, budget, strays, behind>>

ResolveRead(r) ==
  /\ req[r].pc = "conf" /\ cache[Head(req[r].need)] = Empty
  /\ Go(r, [req[r] EXCEPT !.pc = "fill", !.read = Effective(Head(req[r].need))])
  /\ UNCHANGED <<cast, conf, cache, save, account, network, budget, strays, behind>>

\* no setting at all is not remembered
ResolveFill(r) ==
  /\ req[r].pc = "fill"
  /\ cache' = IF req[r].read = 0 THEN cache ELSE [cache EXCEPT ![Head(req[r].need)] = req[r].read]
  /\ Go(r, Got(req[r], req[r].read))
  /\ UNCHANGED <<cast, conf, save, account, network, budget, strays, behind>>

-----------------------------------------------------------------------------
(* One property's number *)

Begin(r) ==
  /\ req[r].pc = "idle" /\ begun < cast.reqs
  /\ \E op \in cast.ops :
       \/ /\ op \in {"start", "status"}
          /\ Go(r, [Idle EXCEPT !.op = op, !.pc = "conf", !.need = <<"sid", "token", "url">>])
       \/ /\ op \in {"assign", "release", "call"}
          /\ \E p \in Props, n \in Nums \cup {NoNum} :
               /\ (n # NoNum) = (op = "assign")
               /\ Go(r, [Idle EXCEPT !.op = op, !.pc = "look", !.p = p, !.n = n])
  /\ begun' = begun + 1
  /\ UNCHANGED <<cast, conf, cache, save, account, network, saves, haps, strays, behind>>

\* others that are past their look at p
Overlapping(r) ==
  {q \in Reqs \ {r} : req[q].op \in {"assign", "release"} /\ req[q].p = req[r].p
                        /\ req[q].pc \notin {"idle", "look"}}

Needs(op) == IF op = "release" THEN <<"sid", "token">> ELSE <<"sid", "token", "url">>

\* mutant: a property that has a number may be given another
MayPassAny(q) ==
  /\ here[q.p]
  /\ \/ q.op = "assign"
     \/ q.op = "release" /\ row[q.p].phone # NoNum
     \/ q.op = "call" /\ row[q.p].phone # NoNum /\ active[q.p]

\* what the request's first look at the property must find
MayPass(q) ==
  /\ here[q.p]
  /\ \/ q.op = "assign" /\ row[q.p].phone = NoNum
     \/ q.op = "release" /\ row[q.p].phone # NoNum
     \/ q.op = "call" /\ row[q.p].phone # NoNum /\ active[q.p]

Refused(r) ==
  /\ req[r].pc = "look" /\ ~MayPass(req[r])
  /\ Go(r, Idle)
  /\ UNCHANGED <<cast, conf, cache, save, account, network, budget, strays, behind>>

Passed(r) ==
  /\ req[r].pc = "look" /\ MayPass(req[r])
  /\ strays' = IF Overlapping(r) # {} /\ req[r].op # "call" THEN strays + 1 ELSE strays
  /\ UNCHANGED <<cast, conf, cache, save, account, network, budget, behind>>

\* a number is to be bought, released at Twilio unless it is a made-up one, or called from
Look(r) ==
  /\ Passed(r)
  /\ IF req[r].op = "release" /\ row[req[r].p].sid = Mock
       THEN Go(r, [req[r] EXCEPT !.pc = "clear"])
       ELSE Go(r, [req[r] EXCEPT !.pc = "conf", !.need = Needs(req[r].op), !.sid = row[req[r].p].sid])

\* the onboarding wizard brings a sid it made up: nothing is bought
LookGiven(r) ==
  /\ Passed(r) /\ req[r].op = "assign"
  /\ Go(r, [req[r] EXCEPT !.pc = "write", !.sid = Given])

\* a purchase, its webhooks at the public URL the request knows; 0 is http://localhost:3001
Buy(r) ==
  LET q == req[r] IN
  /\ q.pc = "buy"
  /\ \/ /\ q.got["sid"] = 0 \/ q.got["token"] = 0
        /\ Go(r, [q EXCEPT !.pc = "write", !.sid = Mock]) /\ UNCHANGED bought
     \/ /\ Signed(q.got) /\ Len(bought) < MaxBought
        /\ ForSale(q.n)
        /\ bought' = Append(bought, [num |-> q.n, acct |-> q.got["sid"], hook |-> q.got["url"], kept |-> TRUE])
        /\ req' = Stirred(r, [q EXCEPT !.pc = "write", !.sid = Len(bought) + 1])
     \/ /\ q.got["sid"] # 0 /\ q.got["token"] # 0 /\ Go(r, Idle) /\ UNCHANGED bought
  /\ UNCHANGED <<cast, conf, cache, save, here, active, row, network, budget, strays, behind>>

Write(r) ==
  LET q == req[r] IN
  /\ q.pc = "write"
  /\ IF here[q.p] /\ \A p \in Props \ {q.p} : ~(here[p] /\ row[p].phone = q.n)
       THEN /\ row' = [row EXCEPT ![q.p] = [phone |-> q.n, sid |-> q.sid]]
            /\ active' = [active EXCEPT ![q.p] = TRUE]
            /\ UNCHANGED strays
       ELSE /\ strays' = IF q.sid \in Ids THEN strays + 1 ELSE strays
            /\ UNCHANGED <<row, active>>
  /\ req' = Stirred(r, Idle)
  /\ UNCHANGED <<cast, conf, cache, save, here, bought, network, budget, behind>>

\* Twilio is asked to release the number; whatever it says, the row is cleared next
Remove(r) ==
  LET q == req[r] IN
  /\ q.pc = "remove"
  /\ \/ /\ Owns(q.got, q.sid)
        /\ bought' = [bought EXCEPT ![q.sid] = [@ EXCEPT !.kept = FALSE]]
        /\ UNCHANGED strays
     \/ /\ UNCHANGED bought
        /\ strays' = IF Live(q.sid) THEN strays + 1 ELSE strays
  /\ req' = Stirred(r, [q EXCEPT !.pc = "clear"])
  /\ UNCHANGED <<cast, conf, cache, save, here, active, row, network, budget, behind>>

Clear(r) ==
  LET q == req[r] IN
  /\ q.pc = "clear"
  /\ IF here[q.p] THEN /\ row' = [row EXCEPT ![q.p] = [phone |-> NoNum, sid |-> NoSid]]
                         /\ active' = [active EXCEPT ![q.p] = FALSE]
                    ELSE UNCHANGED <<row, active>>
  /\ req' = Stirred(r, Idle)
  /\ UNCHANGED <<cast, conf, cache, save, here, bought, network, budget, strays, behind>>

\* a test call: Twilio is asked to call the landlord, or refuses
Place(r) ==
  /\ req[r].pc = "place" /\ Go(r, Idle)
  /\ UNCHANGED <<cast, conf, cache, save, account, network, budget, strays, behind>>

\* the property's row is deleted (Listing); its number stays bought
Gone(p) ==
  /\ here[p] /\ here' = [here EXCEPT ![p] = FALSE]
  /\ active' = [active EXCEPT ![p] = FALSE]
  /\ strays' = IF row[p].sid \in Ids THEN strays + 1 ELSE strays
  /\ req' = [q \in Reqs |-> Uneasy(req[q])]
  /\ UNCHANGED <<cast, conf, cache, save, row, bought, network, budget, behind>>

\* the dashboard restarts between two steps of a request, and its cache is gone
Restart ==
  /\ haps < cast.haps
  /\ \E r \in Reqs : req[r].pc # "idle"
  /\ req' = [r \in Reqs |-> Idle] /\ cache' = [f \in Field |-> Empty] /\ save' = NoSave
  /\ strays' = strays + Cardinality({r \in Reqs : req[r].pc \in {"write", "clear"} /\ req[r].sid \in Ids})
  /\ haps' = haps + 1 /\ behind' = {}
  /\ UNCHANGED <<cast, conf, account, network, begun, saves>>

-----------------------------------------------------------------------------
(* The phone system *)

\* mutant: any tunnel of the domain will do
PortMatchesAny(t) == t # "none"

PortMatches(t) == t = "right"

Url(r) == req[r].got["url"]
Found(r) == IF agent THEN tunnel[Url(r)] ELSE "none"
Fail(r) == Go(r, [req[r] EXCEPT !.pc = "done", !.ok = FALSE])

\* startPhoneSystem: the tunnel of the public URL is reused, made anew, or waited for
EnsureTunnel(r) ==
  /\ req[r].op = "start" /\ req[r].pc = "tunnel"
  /\ \/ Url(r) = 0 /\ Fail(r) /\ UNCHANGED network
     \/ /\ Url(r) # 0 /\ agent /\ PortMatches(Found(r))
        /\ Go(r, [req[r] EXCEPT !.pc = "health"]) /\ UNCHANGED network
     \/ /\ Url(r) # 0 /\ agent /\ ~PortMatches(Found(r))     \* dropped, then created
        /\ \/ /\ tunnel' = [tunnel EXCEPT ![Url(r)] = "right"]
              /\ req' = Stirred(r, [req[r] EXCEPT !.pc = "health"])
           \/ /\ \E t \in {Found(r), "none"} : tunnel' = [tunnel EXCEPT ![Url(r)] = t]
              /\ req' = Stirred(r, [req[r] EXCEPT !.pc = "done", !.ok = FALSE])
        /\ UNCHANGED agent
     \/ /\ Url(r) # 0 /\ ~agent                              \* an agent is spawned
        /\ \/ /\ agent' = TRUE /\ tunnel' = [v \in Value |-> IF v = Url(r) THEN "right" ELSE "none"]
              /\ req' = Stirred(r, [req[r] EXCEPT !.pc = "wait"])
           \/ Go(r, [req[r] EXCEPT !.pc = "wait"]) /\ UNCHANGED network
  /\ UNCHANGED <<cast, conf, cache, save, account, budget, strays, behind>>

\* for up to 15 seconds: a tunnel of the domain, wherever it leads
WaitTunnel(r) ==
  /\ req[r].pc = "wait"
  /\ IF Found(r) # "none" THEN Go(r, [req[r] EXCEPT !.pc = "health"]) ELSE Fail(r)
  /\ UNCHANGED <<cast, conf, cache, save, account, network, budget, strays, behind>>

\* getPhoneSystemStatus: the tunnel as it is
ReadTunnel(r) ==
  /\ req[r].op = "status" /\ req[r].pc = "tunnel"
  /\ Go(r, [req[r] EXCEPT !.pc = IF Url(r) # 0 /\ Found(r) # "none" THEN "health" ELSE "list",
                          !.ok = Signed(req[r].got) /\ Url(r) # 0 /\ PortMatches(Found(r))])
  /\ UNCHANGED <<cast, conf, cache, save, account, network, budget, strays, behind>>

\* the public URL answers: what listens at the tunnel's port may, or not
Health(r) ==
  /\ req[r].pc = "health"
  /\ \E up \in {FALSE} \cup {Found(r) # "none"} :
       \/ req[r].op = "status" /\ Go(r, [req[r] EXCEPT !.pc = "list", !.ok = @ /\ up])
       \/ req[r].op = "start" /\ ~up /\ Fail(r)
       \/ req[r].op = "start" /\ up /\ Go(r, [req[r] EXCEPT !.pc = "list"])
  /\ UNCHANGED <<cast, conf, cache, save, account, network, budget, strays, behind>>

\* realNumbers: the properties with a sid of Twilio's own form
ListNumbers(r) ==
  LET q == req[r]
      keyed == q.got["sid"] # 0 /\ q.got["token"] # 0 /\ Url(r) # 0 IN
  /\ q.pc = "list"
  /\ IF keyed THEN Go(r, [q EXCEPT !.pc = "each", !.todo = Real, !.listed = Real,
                                   !.ok = @ /\ (q.op = "start" \/ Real # {})])
              ELSE Fail(r)
  /\ UNCHANGED <<cast, conf, cache, save, account, network, budget, strays, behind>>

\* one number after the other: a start sets its webhooks, a check reads them
EachNumber(r) ==
  LET q == req[r] IN
  /\ q.pc = "each" /\ q.todo # {}
  /\ \E s \in q.todo :
       \/ /\ q.op = "start" /\ Owns(q.got, s)
          /\ bought' = [bought EXCEPT ![s] = [@ EXCEPT !.hook = Url(r)]]
          /\ req' = Stirred(r, [q EXCEPT !.todo = @ \ {s}])
       \/ /\ q.op = "status" /\ Owns(q.got, s)
          /\ Go(r, [q EXCEPT !.todo = @ \ {s}, !.ok = @ /\ bought[s].hook = Url(r)])
          /\ UNCHANGED bought
       \/ /\ Go(r, [q EXCEPT !.todo = @ \ {s}, !.ok = FALSE])
          /\ UNCHANGED bought
  /\ UNCHANGED <<cast, conf, cache, save, here, active, row, network, budget, strays, behind>>

EachDone(r) ==
  /\ req[r].pc = "each" /\ req[r].todo = {}
  /\ Go(r, [req[r] EXCEPT !.pc = "done"])
  /\ UNCHANGED <<cast, conf, cache, save, account, network, budget, strays, behind>>

Answer(r) ==
  /\ req[r].pc = "done" /\ Go(r, Idle)
  /\ UNCHANGED <<cast, conf, cache, save, account, network, budget, strays, behind>>

\* somebody stops the agent, or starts a tunnel of the domain for another port
Network ==
  /\ haps < cast.haps
  /\ \/ agent' = FALSE /\ agent /\ tunnel' = [v \in Value |-> "none"]
     \/ agent' = TRUE /\ \E v \in Value \ {0} : tunnel[v] = "none" /\ tunnel' = [tunnel EXCEPT ![v] = "wrong"]
  /\ haps' = haps + 1 /\ req' = [q \in Reqs |-> Uneasy(req[q])]
  /\ UNCHANGED <<cast, conf, cache, save, account, begun, saves, strays, behind>>

-----------------------------------------------------------------------------

Settings == SaveBegin \/ SaveField \/ SaveFails \/ SaveEnds \/ \E f \in Field : Expire(f)
Resolve(r) == ResolveCached(r) \/ ResolveRead(r) \/ ResolveFill(r)
NumberStep(r) ==
  \/ Begin(r) \/ Refused(r) \/ Look(r) \/ LookGiven(r)
  \/ Buy(r) \/ Write(r) \/ Remove(r) \/ Clear(r) \/ Place(r)
SystemStep(r) ==
  \/ EnsureTunnel(r) \/ WaitTunnel(r) \/ ReadTunnel(r) \/ Health(r)
  \/ ListNumbers(r) \/ EachNumber(r) \/ EachDone(r) \/ Answer(r)

Next ==
  \/ Settings
  \/ \E r \in Reqs : Resolve(r) \/ NumberStep(r) \/ SystemStep(r)
  \/ Restart \/ Network

-----------------------------------------------------------------------------
(* Properties *)

TypeOK ==
  /\ conf \in [Field -> Value] /\ cache \in [Field -> (Value \ {0}) \cup {Empty}]
  /\ here \in [Props -> BOOLEAN] /\ active \in [Props -> BOOLEAN] /\ row \in [Props -> Row]
  /\ Len(bought) <= MaxBought /\ \A s \in Bought : bought[s] \in Purchase
  /\ agent \in BOOLEAN /\ tunnel \in [Value -> {"none", "right", "wrong"}]
  /\ behind \subseteq Field /\ strays \in Nat

\* purchases that Twilio bills and nothing refers to, and rows whose number is gone
Held == {req[r].sid : r \in {q \in Reqs : req[q].pc \in {"write", "remove", "clear"}}}
Orphans == {s \in Bought : bought[s].kept /\ s \notin Real \cup Held}
Dangling == {s \in Real : ~bought[s].kept /\ s \notin Held}

\* A number the account pays for is a property's number, and a property's number is one the
\* account has; each exception stands for a deleted property, a number Twilio would not take
\* back, a number another property already shows, a restart, or two requests at once for one
\* property (api/properties/[id]/phone/route.ts).
LineKept == Cardinality(Orphans) + Cardinality(Dangling) <= strays

\* What startPhoneSystem and getPhoneSystemStatus call ready is ready: if nothing was touched
\* while they looked, the tunnel leads to the server's port and every number's webhooks to the
\* tunnel (lib/phone-system.ts).
ReadyReaches ==
  \A r \in Reqs :
    (req[r].pc = "done" /\ req[r].ok /\ req[r].calm) =>
      /\ agent /\ tunnel[Url(r)] = "right"
      /\ \A s \in Real : bought[s].kept /\ bought[s].hook = Url(r)

\* The cache disagrees with the settings only while a save is under way, after one that failed
\* half-way, or for a value that was being read while it was overwritten (config-resolver.ts).
StaleOnlyByRace ==
  \A f \in Field :
    (cache[f] # Empty /\ cache[f] # Effective(f)) => f \in behind \cup save.done
=============================================================================
