------------------------------- MODULE SmsRelay -------------------------------
(***************************************************************************)
(* The guarded, ledgered sending of relay-guards.ts: every outbound text   *)
(* is a row of OutboundRelayMessage, written by the task that asked for it *)
(* (relaySendWithGuards) and later by the sweep (sweepOnce), which retries *)
(* what failed, drains what was deferred and sends the daily heartbeat.    *)
(*                                                                         *)
(* Tasks run concurrently, one step per await.  A crash of the server      *)
(* loses their memory (the inFlight set included) and keeps the ledger.    *)
(* Time is relative: a sent row is of this hour, of this day, or older.    *)
(***************************************************************************)
EXTENDS Integers, FiniteSets

CONSTANTS
    Phones, Owner,     \* recipients; Owner is sms_relay.forward_to
    Stoppers,          \* phones that text STOP and START
    Apps,              \* applications whose summary is forwarded
    Callers,           \* concurrent runs of relaySendWithGuards
    Sweep,             \* the sweep timer's task
    MaxRows,           \* bound on the ledger
    Batch,             \* rows a sweep reads (take: 10)
    SweepSends,        \* MAX_SENDS_PER_SWEEP
    MaxAttempts,       \* MAX_ATTEMPTS
    HourlyCap, DailyCap, NewRecipientCap,
    CooldownOn,        \* cooldown_minutes > 0; its window is the hour
    SendResults,       \* subset of {"ok", "error", "late"}: what osascript can do
    MaxCrashes,        \* bound on the server's crashes
    Hosts              \* what a start of the server may find: transport or none

Rows  == 1 .. MaxRows
Tasks == Callers \union {Sweep}
Kinds == {"link", "forward", "heartbeat", "confirmation"}
Asked == Kinds \union {"none", "retry"}
Steps == {"idle", "reserve", "opt-out", "create", "cooldown", "caps", "attempt",
          "sending", "ok", "error", "mark", "next"}

(* A run: where it is, what it was asked to send ("retry": a row of the    *)
(* sweep's), the row it writes, and, for the properties only, the phones   *)
(* opted out ever since it began.                                          *)
Run     == [step : Steps, kind : Asked, to : Phones \union {"none"},
            app : Apps \union {"none"}, row : Rows \union {0}, silent : SUBSET Phones]
NoRun   == [step |-> "idle", kind |-> "none", to |-> "none", app |-> "none", row |-> 0,
            silent |-> {}]
Message == [kind : Asked, to : Phones \union {"none"}, app : Apps \union {"none"}]
NoMessage == [kind |-> "none", to |-> "none", app |-> "none"]
Statuses == {"none", "pending", "deferred", "failed", "sent"}
Reasons  == {"none", "cooldown", "cap", "unavailable", "error", "opted out"}

ASSUME RelayAssumption ==
    /\ Owner \in Phones /\ Stoppers \subseteq Phones
    /\ Sweep \notin Callers /\ IsFiniteSet(Callers)
    /\ MaxRows \in Nat /\ Batch \in Nat /\ SweepSends \in Nat /\ MaxAttempts \in Nat \ {0}
    /\ HourlyCap \in Nat /\ DailyCap \in Nat /\ NewRecipientCap \in Nat
    /\ SendResults \subseteq {"ok", "error", "late"}
    /\ CooldownOn \in BOOLEAN /\ MaxCrashes \in Nat /\ Hosts \subseteq BOOLEAN

VARIABLES
    \* the database
    msg,       \* a row's recipient, application and the kind the caller asked for
    status,    \* "none": no such row yet
    attempts,
    why,       \* lastError
    age,       \* of sentAt: 0 this hour, 1 this day, 2 older
    beat,      \* a heartbeat row was created today
    optOut,    \* SmsOptOut
    completed, forwarded, \* applications: status completed, forwardedAt set
    \* the server's memory
    up,        \* getRelayTransport().available
    inFlight, task, queue, sends,
    \* the world
    delivered, \* how often a row's text reached the phone
    crashes

rows   == <<msg, status, attempts, why, age, beat>>
db     == <<rows, optOut, completed, forwarded>>
memory == <<inFlight, task, queue, sends>>
world  == <<up, delivered, crashes>>
relayVars   == <<db, memory, world>>

(* What a step of a run leaves alone.                                      *)
people == <<optOut, completed, forwarded>>

RelayTypeOK ==
    /\ msg \in [Rows -> Message]
    /\ status \in [Rows -> Statuses]
    /\ attempts \in [Rows -> Nat]
    /\ why \in [Rows -> Reasons]
    /\ age \in [Rows -> 0 .. 2]
    /\ beat \in BOOLEAN /\ up \in BOOLEAN
    /\ optOut \subseteq Phones
    /\ completed \subseteq Apps /\ forwarded \subseteq Apps
    /\ inFlight \subseteq (Phones \union {"none"}) \X Asked
    /\ task \in [Tasks -> Run]
    /\ queue \subseteq Rows /\ sends \in Nat
    /\ delivered \in [Rows -> Nat] /\ crashes \in Nat

RelayInit ==
    /\ msg = [r \in Rows |-> NoMessage]
    /\ status = [r \in Rows |-> "none"]
    /\ attempts = [r \in Rows |-> 0]
    /\ why = [r \in Rows |-> "none"]
    /\ age = [r \in Rows |-> 0]
    /\ beat = FALSE
    /\ optOut = {} /\ completed = {} /\ forwarded = {}
    /\ up \in Hosts
    /\ inFlight = {}
    /\ task = [t \in Tasks |-> NoRun]
    /\ queue = {} /\ sends = 0
    /\ delivered = [r \in Rows |-> 0]
    /\ crashes = 0

-----------------------------------------------------------------------------
(* Bookkeeping of a run.                                                   *)

At(t, step)   == task[t].step = step
Goto(t, step) == task' = [task EXCEPT ![t].step = step]
RowOf(t)        == task[t].row
Retrying(t)   == task[t].kind = "retry"
FlightKey(t)  == <<task[t].to, task[t].kind>>

Begin(t, step, kind, to, app, row) ==
    task' = [task EXCEPT ![t] = [step |-> step, kind |-> kind, to |-> to, app |-> app,
                                 row |-> row, silent |-> optOut]]

Turn == [step |-> "next", kind |-> "none", to |-> "none", app |-> "none", row |-> 0,
         silent |-> {}]

(* The end of relaySendWithGuards (its finally), or of the sweep's turn.   *)
Finish(t) ==
    IF Retrying(t) THEN /\ task' = [task EXCEPT ![t] = Turn]
                        /\ UNCHANGED inFlight
    ELSE /\ task' = [task EXCEPT ![t] = NoRun]
         /\ inFlight' = inFlight \ {FlightKey(t)}

Write(r, st, reason) == /\ status' = [status EXCEPT ![r] = st]
                        /\ why' = [why EXCEPT ![r] = reason]

Used == {r \in Rows : status[r] # "none"}
Asking(t) == task[t].step \in {"reserve", "opt-out", "create"}
(* Bound: as many requests as the ledger has room for.                     *)
HasRoom == Cardinality(Used) + Cardinality({t \in Tasks : Asking(t)}) < MaxRows

-----------------------------------------------------------------------------
(* Requests: a reply to a tenant (processTelnyxInbound), or the summary of *)
(* an application (forwardSurveySummary), asked for again by a repeated    *)
(* complete_application call.                                              *)

RequestReply(t, kind, to) ==
    /\ At(t, "idle") /\ HasRoom /\ up
    /\ Begin(t, "reserve", kind, to, "none", 0)
    /\ UNCHANGED <<db, inFlight, queue, sends, world>>

RequestForward(t, a) ==
    /\ At(t, "idle") /\ HasRoom
    /\ a \notin forwarded                                   \* forwardedAt is null
    /\ completed' = completed \union {a}
    /\ Begin(t, "reserve", "forward", Owner, a, 0)
    /\ UNCHANGED <<rows, optOut, forwarded, inFlight, queue, sends, world>>

-----------------------------------------------------------------------------
(* relaySendWithGuards.                                                    *)

Reserve(t) ==
    /\ At(t, "reserve")
    /\ IF FlightKey(t) \in inFlight                         \* duplicate in flight
       THEN task' = [task EXCEPT ![t] = NoRun] /\ UNCHANGED inFlight
       ELSE /\ inFlight' = inFlight \union {FlightKey(t)}
            /\ Goto(t, "opt-out")
    /\ UNCHANGED <<db, queue, sends, world>>

CheckOptOut(t) ==
    /\ At(t, "opt-out")
    /\ IF task[t].kind # "confirmation" /\ task[t].to \in optOut
       THEN Finish(t)
       ELSE Goto(t, "create") /\ UNCHANGED inFlight
    /\ UNCHANGED <<db, queue, sends, world>>

(* The row exists before any attempt; ids grow with createdAt.             *)
CreateRow(t, r) ==
    /\ At(t, "create")
    /\ status[r] = "none" /\ \A s \in Rows : status[s] = "none" => r <= s
    /\ msg' = [msg EXCEPT ![r] = [kind |-> task[t].kind, to |-> task[t].to, app |-> task[t].app]]
    /\ status' = [status EXCEPT ![r] = "pending"]
    /\ beat' = (beat \/ task[t].kind = "heartbeat")
    /\ task' = [task EXCEPT ![t] =
                   [step |-> IF task[t].kind = "link" THEN "cooldown" ELSE "caps",
                    kind |-> task[t].kind, to |-> task[t].to, app |-> task[t].app,
                    row |-> r, silent |-> task[t].silent]]
    /\ UNCHANGED <<attempts, why, age, people, inFlight, queue, sends, world>>

(* The column kind: a confirmation is stored as a link.                    *)
Kind(r) == IF msg[r].kind = "confirmation" THEN "link" ELSE msg[r].kind

SentWithin(a) == {r \in Rows : status[r] = "sent" /\ age[r] <= a}
SentLinks     == {r \in SentWithin(0) : Kind(r) = "link"}

(* Another link sent to the same phone within the window fails the row.    *)
Cooldown(t) ==
    /\ At(t, "cooldown")
    /\ IF CooldownOn /\ \E s \in SentLinks \ {RowOf(t)} : msg[s].to = task[t].to
       THEN /\ Write(RowOf(t), "failed", "cooldown")
            /\ attempts' = [attempts EXCEPT ![RowOf(t)] = MaxAttempts]
            /\ Finish(t)
       ELSE Goto(t, "caps") /\ UNCHANGED <<status, why, attempts, inFlight>>
    /\ UNCHANGED <<msg, age, beat, people, queue, sends, world>>

SentTo(p)  == {r \in Rows : status[r] = "sent" /\ msg[r].to = p}
Reached(a) == {msg[r].to : r \in {s \in Rows : status[s] = "sent" /\ age[s] = a}}
NewToday   == (Reached(0) \union Reached(1)) \ Reached(2)

(* Two slots of the hour are kept for forwards; one is always left.        *)
EffectiveCap(kind) ==
    IF kind \in {"forward", "heartbeat"} THEN HourlyCap
    ELSE IF HourlyCap - 2 < 1 THEN 1 ELSE HourlyCap - 2

Capped(r) ==
    \/ Cardinality(SentWithin(0)) >= EffectiveCap(Kind(r))
    \/ Cardinality(SentWithin(1)) >= DailyCap
    \/ SentTo(msg[r].to) = {} /\ Cardinality(NewToday) >= NewRecipientCap

(* checkCaps: a breach defers the row; the sweep leaves the row as it is.  *)
CheckCaps(t) ==
    /\ At(t, "caps")
    /\ IF ~Capped(RowOf(t)) THEN Goto(t, "attempt") /\ UNCHANGED <<status, why, inFlight>>
       ELSE /\ Finish(t)
            /\ IF Retrying(t) THEN UNCHANGED <<status, why>> ELSE Write(RowOf(t), "deferred", "cap")
    /\ UNCHANGED <<msg, attempts, age, beat, people, queue, sends, world>>

(* attemptSend: no transport parks the row, else the attempt is counted.   *)
Attempt(t) ==
    /\ At(t, "attempt")
    /\ sends' = IF Retrying(t) THEN sends + 1 ELSE sends
    /\ IF up
       THEN /\ attempts' = [attempts EXCEPT ![RowOf(t)] = @ + 1]
            /\ Goto(t, "sending")
            /\ UNCHANGED <<status, why, inFlight>>
       ELSE /\ Write(RowOf(t), "deferred", "unavailable")
            /\ Finish(t)
            /\ UNCHANGED attempts
    /\ UNCHANGED <<msg, age, beat, people, queue, world>>

(* osascript: it sends, it fails, or it is killed after the text went out. *)
Send(t, result) ==
    /\ At(t, "sending")
    /\ delivered' = IF result = "error" THEN delivered
                    ELSE [delivered EXCEPT ![RowOf(t)] = @ + 1]
    /\ Goto(t, IF result = "ok" THEN "ok" ELSE "error")
    /\ UNCHANGED <<db, inFlight, queue, sends, up, crashes>>

RecordSent(t) ==
    /\ At(t, "ok")
    /\ Write(RowOf(t), "sent", "none")
    /\ age' = [age EXCEPT ![RowOf(t)] = 0]
    /\ IF task[t].kind = "forward"
       THEN Goto(t, "mark") /\ inFlight' = inFlight \ {FlightKey(t)}
       ELSE Finish(t)
    /\ UNCHANGED <<msg, attempts, beat, people, queue, sends, world>>

RecordFailed(t) ==
    /\ At(t, "error")
    /\ Write(RowOf(t), "failed", "error")
    /\ Finish(t)
    /\ UNCHANGED <<msg, attempts, age, beat, people, queue, sends, world>>

(* forwardSurveySummary again: forwardedAt, only after its own send.       *)
MarkForwarded(t) ==
    /\ At(t, "mark")
    /\ forwarded' = forwarded \union {task[t].app}
    /\ task' = [task EXCEPT ![t] = NoRun]
    /\ UNCHANGED <<rows, optOut, completed, inFlight, queue, sends, world>>

-----------------------------------------------------------------------------
(* sweepOnce.                                                              *)

(* Mutant: pending rows are taken whatever their age.                      *)
CandidateOfAnyAge(r) ==
    \/ status[r] \in {"deferred", "pending"}
    \/ status[r] = "failed" /\ why[r] # "cooldown" /\ attempts[r] < MaxAttempts

(* Mutant: what the caps deferred is left to an operator.                  *)
CandidateFailedOnly(r) ==
    \/ status[r] = "failed" /\ why[r] # "cooldown" /\ attempts[r] < MaxAttempts
    \/ status[r] = "pending" /\ \A t \in Tasks : RowOf(t) # r

(* A pending row counts as abandoned after five minutes, longer than any   *)
(* run that still holds it (a send is killed after 25 seconds).            *)
Candidate(r) ==
    \/ status[r] = "deferred"
    \/ status[r] = "failed" /\ why[r] # "cooldown" /\ attempts[r] < MaxAttempts
    \/ status[r] = "pending" /\ \A t \in Tasks : RowOf(t) # r
Candidates == {r \in Rows : Candidate(r)}

SweepScan ==
    /\ At(Sweep, "idle") /\ up
    /\ queue' = {r \in Candidates : Cardinality({s \in Candidates : s < r}) < Batch}
    /\ queue' # {} \/ ~beat
    /\ sends' = 0
    /\ task' = [task EXCEPT ![Sweep] = Turn]
    /\ UNCHANGED <<db, inFlight, world>>

(* Mutant: the sweep trusts the opt-out check made when the row was asked. *)
SweepRowUnchecked(r) ==
    /\ At(Sweep, "next") /\ sends < SweepSends
    /\ r \in queue /\ \A s \in queue : r <= s
    /\ queue' = queue \ {r}
    /\ Begin(Sweep, "caps", "retry", msg[r].to, "none", r)
    /\ UNCHANGED <<db, inFlight, sends, world>>

SweepRow(r) ==
    /\ At(Sweep, "next") /\ sends < SweepSends
    /\ r \in queue /\ \A s \in queue : r <= s
    /\ queue' = queue \ {r}
    /\ IF msg[r].to \in optOut
       THEN /\ Write(r, "failed", "opted out")
            /\ attempts' = [attempts EXCEPT ![r] = MaxAttempts]
            /\ UNCHANGED task
       ELSE /\ Begin(Sweep, "caps", "retry", msg[r].to, "none", r)
            /\ UNCHANGED <<status, why, attempts>>
    /\ UNCHANGED <<msg, age, beat, people, inFlight, sends, world>>

(* The loop is over: the daily heartbeat goes through the same guards.     *)
SweepEnd ==
    /\ At(Sweep, "next") /\ (queue = {} \/ sends >= SweepSends)
    /\ IF ~beat /\ HasRoom THEN Begin(Sweep, "reserve", "heartbeat", Owner, "none", 0)
       ELSE task' = [task EXCEPT ![Sweep] = NoRun]
    /\ queue' = {} /\ sends' = 0
    /\ UNCHANGED <<db, inFlight, world>>

-----------------------------------------------------------------------------
(* The environment: STOP and START, the clock, the server's crashes.       *)

OptOut(p) ==
    /\ p \notin optOut
    /\ optOut' = optOut \union {p}
    /\ UNCHANGED <<rows, completed, forwarded, memory, world>>

OptIn(p) ==
    /\ p \in optOut
    /\ optOut' = optOut \ {p}
    /\ task' = [t \in Tasks |-> [task[t] EXCEPT !.silent = @ \ {p}]]
    /\ UNCHANGED <<rows, completed, forwarded, inFlight, queue, sends, world>>

Older(from, to) ==
    age' = [r \in Rows |-> IF status[r] = "sent" /\ age[r] <= from THEN to ELSE age[r]]

HourPasses ==
    /\ SentWithin(0) # {}
    /\ Older(0, 1)
    /\ UNCHANGED <<msg, status, attempts, why, beat, people, memory, world>>

DayPasses ==
    /\ SentWithin(1) # {} \/ beat
    /\ Older(1, 2)
    /\ beat' = FALSE
    /\ UNCHANGED <<msg, status, attempts, why, people, memory, world>>

Crash ==
    /\ crashes < MaxCrashes
    /\ crashes' = crashes + 1
    /\ up' \in Hosts
    /\ inFlight' = {}
    /\ task' = [t \in Tasks |-> NoRun]
    /\ queue' = {} /\ sends' = 0
    /\ UNCHANGED <<db, delivered>>

-----------------------------------------------------------------------------
Guarded(t) == \/ Reserve(t) \/ CheckOptOut(t) \/ Cooldown(t) \/ CheckCaps(t)
              \/ (\E r \in Rows : CreateRow(t, r))
              \/ Attempt(t) \/ (\E res \in SendResults : Send(t, res))
              \/ RecordSent(t) \/ RecordFailed(t) \/ MarkForwarded(t)

SweepStep == SweepScan \/ (\E r \in Rows : SweepRow(r)) \/ SweepEnd

Request == \E t \in Callers :
              \/ \E p \in Phones \ {Owner} : \E kind \in {"link", "confirmation"} :
                    RequestReply(t, kind, p)
              \/ \E a \in Apps : RequestForward(t, a)

RelayNext == \/ Request
        \/ \E t \in Tasks : Guarded(t)
        \/ SweepStep
        \/ \E p \in Stoppers : OptOut(p) \/ OptIn(p)
        \/ HourPasses \/ DayPasses \/ Crash

RelaySpec == RelayInit /\ [][RelayNext]_relayVars

(* Every started run goes on, the timer keeps firing, time goes by.        *)
Fairness == /\ \A t \in Tasks : WF_relayVars(Guarded(t))
            /\ WF_relayVars(SweepStep)
            /\ WF_relayVars(HourPasses) /\ WF_relayVars(DayPasses)
FairSpec == RelaySpec /\ Fairness

-----------------------------------------------------------------------------
(* Properties.                                                             *)

(* The caps are read first and the row becomes "sent" three awaits later,  *)
(* so runs under different flight keys, and the sweep, can pass the same   *)
(* count together.  The overshoot is bounded by the other runs: the hour,  *)
(* the slots reserved for forwards and the day each hold up to it.         *)
Least1(n) == IF n < 1 THEN 1 ELSE n
Others == Cardinality(Tasks) - 1

HourHolds  == Cardinality(SentWithin(0)) <= Least1(HourlyCap) + Others
LinksHold  == Cardinality(SentLinks) <= Least1(HourlyCap - 2) + Others
DayHolds   == Cardinality(SentWithin(1)) <= Least1(DailyCap) + Others
CapOvershootBounded == HourHolds /\ LinksHold /\ DayHolds

(* A text that is going out does not go to a phone that had opted out      *)
(* before the run began and stayed so: a request and a sweep both look at  *)
(* SmsOptOut again.  Only an asked-for confirmation is exempt.             *)
OptOutRespected ==
    \A t \in Tasks : At(t, "sending") =>
        task[t].to \notin task[t].silent \/ task[t].kind = "confirmation"

(* While no send times out, a row's text reaches the phone at most once    *)
(* for each life of the server, although the run that created the row and  *)
(* the sweep both send it: a crash between Send and RecordSent leaves a    *)
(* pending row that went out.                                              *)
DeliveredOnce == \A r \in Rows : delivered[r] <= 1 + crashes

(* Nothing stays in the ledger waiting: with a transport and caps above    *)
(* zero every row ends up sent, or failed for good, also when the server   *)
(* crashed on the way; without a transport rows wait for one.              *)
Settled(r) == status[r] = "sent" \/ (status[r] = "failed" /\ attempts[r] >= MaxAttempts)
EventuallySettled == \A r \in Rows : status[r] # "none" ~> (Settled(r) \/ ~up)
=============================================================================
