------------------------------- MODULE VoiceCall -------------------------------
(***************************************************************************)
(* A phone call and its AI session (call-handler.ts).  The voice webhook   *)
(* hands out a media stream while lines are free; handleMediaStream sets   *)
(* the call up, several awaits long, before it listens to the stream's     *)
(* socket; the OpenAI socket is reopened when it closes; "stop" and the    *)
(* socket's close each run handleCallEnd; a monitor watches the clock.     *)
(*                                                                         *)
(* Everything between two awaits is one step.  The vendor (Twilio or       *)
(* Telnyx) and OpenAI are external.                                        *)
(***************************************************************************)
EXTENDS Integers, FiniteSets

CONSTANTS
    Calls,
    MaxConcurrent,  \* MAX_CONCURRENT_CALLS
    MaxReconnects,  \* MAX_RECONNECTS
    MaxFailures     \* bound on queries and connections that fail

ASSUME VoiceAssumption ==
    MaxConcurrent \in Nat /\ MaxReconnects \in Nat /\ MaxFailures \in Nat

VARIABLES
    up,          \* the process lives
    socket,      \* the vendor's side of a call: twilioWs
    setup,       \* handleMediaStream
    registry,    \* activeCalls
    monitor,     \* callMonitors
    ws, current, \* the OpenAI sockets a call has opened; call.openaiWs
    reconnects,  \* call.reconnectCount
    resuming,    \* reconnectOpenAI's that are awaiting
    ending,      \* handleCallEnd's, by what called them
    log,         \* CallLog
    usage,       \* UsageRecord rows of a call
    failures

memory == <<registry, monitor, ws, current, reconnects, resuming>>
vars   == <<up, socket, setup, memory, ending, log, usage, failures>>

Sessions == 1 .. MaxReconnects + 1
Enders   == {"stop", "close"}

TypeOK ==
    /\ up \in BOOLEAN
    /\ socket \in [Calls -> {"none", "ringing", "open", "closing", "closed"}]
    /\ setup \in [Calls -> {"none", "running", "live", "gone"}]
    /\ registry \subseteq Calls /\ monitor \subseteq Calls
    /\ ws \in [Calls -> [Sessions -> {"none", "open", "closing", "closed"}]]
    /\ current \in [Calls -> Sessions \union {0}]
    /\ reconnects \in [Calls -> 0 .. MaxReconnects + 1]
    /\ resuming \in [Calls -> Nat]
    /\ ending \in [Calls -> [Enders -> {"idle", "log", "usage", "done"}]]
    /\ log \in [Calls -> {"none", "open", "ended"}]
    /\ usage \in [Calls -> Nat]
    /\ failures \in 0 .. MaxFailures

Init ==
    /\ up = TRUE
    /\ socket = [k \in Calls |-> "none"]
    /\ setup = [k \in Calls |-> "none"]
    /\ registry = {} /\ monitor = {}
    /\ ws = [k \in Calls |-> [s \in Sessions |-> "none"]]
    /\ current = [k \in Calls |-> 0]
    /\ reconnects = [k \in Calls |-> 0]
    /\ resuming = [k \in Calls |-> 0]
    /\ ending = [k \in Calls |-> [e \in Enders |-> "idle"]]
    /\ log = [k \in Calls |-> "none"]
    /\ usage = [k \in Calls |-> 0]
    /\ failures = 0

Fail == failures < MaxFailures /\ failures' = failures + 1

-----------------------------------------------------------------------------
(* The webhook and the stream's set-up.                                    *)

Admit(k) ==
    /\ up /\ socket[k] = "none" /\ Cardinality(registry) < MaxConcurrent
    /\ socket' = [socket EXCEPT ![k] = "ringing"]
    /\ UNCHANGED <<up, setup, memory, ending, log, usage, failures>>

(* "All lines are currently busy", or the caller gave up while it rang.    *)
TurnAway(k) ==
    /\ up
    /\ \/ socket[k] = "none" /\ Cardinality(registry) >= MaxConcurrent
       \/ socket[k] = "ringing"
    /\ socket' = [socket EXCEPT ![k] = "closed"]
    /\ UNCHANGED <<up, setup, memory, ending, log, usage, failures>>

(* The stream's start event: handleMediaStream is called.                  *)
Connect(k) ==
    /\ up /\ socket[k] = "ringing"
    /\ socket' = [socket EXCEPT ![k] = "open"]
    /\ setup' = [setup EXCEPT ![k] = "running"]
    /\ UNCHANGED <<up, memory, ending, log, usage, failures>>

Hung(k) == socket' = [socket EXCEPT ![k] = IF @ = "open" THEN "closing" ELSE @]

(* A query throws or the property is gone: the route closes the socket.    *)
SetupFails(k) ==
    /\ up /\ setup[k] = "running" /\ Fail
    /\ Hung(k)
    /\ setup' = [setup EXCEPT ![k] = "gone"]
    /\ UNCHANGED <<up, memory, ending, log, usage>>

Opens(k, s) ==
    /\ ws' = [ws EXCEPT ![k] = [@ EXCEPT ![s] = "open"]]
    /\ current' = [current EXCEPT ![k] = s]

(* The call log is there; the listeners are registered and the buffered    *)
(* start event replayed, in one go, whatever the socket has come to.       *)
Start(k) ==
    /\ up /\ setup[k] = "running"
    /\ setup' = [setup EXCEPT ![k] = "live"]
    /\ log' = [log EXCEPT ![k] = "open"]
    /\ registry' = registry \union {k} /\ monitor' = monitor \union {k}
    /\ Opens(k, 1)
    /\ UNCHANGED <<up, socket, reconnects, resuming, ending, usage, failures>>

(* No API key: the throw is logged, the call stays mute and unregistered.  *)
StartFails(k) ==
    /\ up /\ setup[k] = "running" /\ Fail
    /\ setup' = [setup EXCEPT ![k] = "live"]
    /\ log' = [log EXCEPT ![k] = "open"]
    /\ UNCHANGED <<up, socket, memory, ending, usage>>

-----------------------------------------------------------------------------
(* handleCallEnd.                                                          *)

At(k, e, step)   == up /\ ending[k][e] = step
Goto(k, e, step) == ending' = [ending EXCEPT ![k] = [@ EXCEPT ![e] = step]]

CloseSession(k) ==
    ws' = [ws EXCEPT ![k] = [s \in Sessions |->
              IF s = current[k] /\ @[s] = "open" THEN "closing" ELSE @[s]]]

(* A call that is still registered is wound up, even a second time.        *)
EndBegin(k, e) ==
    /\ IF k \in registry
       THEN monitor' = monitor \ {k} /\ CloseSession(k) /\ Goto(k, e, "log")
       ELSE Goto(k, e, "done") /\ UNCHANGED <<monitor, ws>>
    /\ UNCHANGED <<registry, current, reconnects, resuming>>

StopEvent(k) ==
    /\ At(k, "stop", "idle") /\ setup[k] = "live" /\ socket[k] \in {"open", "closing"}
    /\ EndBegin(k, "stop")
    /\ UNCHANGED <<up, socket, setup, log, usage, failures>>

(* The socket closes, from either side; before the set-up is through       *)
(* nobody listens.                                                         *)
SocketCloses(k) ==
    /\ up /\ socket[k] \in {"open", "closing"}
    /\ socket' = [socket EXCEPT ![k] = "closed"]
    /\ IF setup[k] = "live" THEN EndBegin(k, "close") ELSE UNCHANGED <<memory, ending>>
    /\ UNCHANGED <<up, setup, log, usage, failures>>

EndLog(k, e) ==
    /\ At(k, e, "log")
    /\ log' = [log EXCEPT ![k] = "ended"]
    /\ Goto(k, e, "usage")
    /\ UNCHANGED <<up, socket, setup, memory, usage, failures>>

(* The usage is recorded; then, not before, the line is free.              *)
EndUsage(k, e) ==
    /\ At(k, e, "usage")
    /\ usage' = [usage EXCEPT ![k] = @ + 1]
    /\ registry' = registry \ {k}
    /\ Goto(k, e, "done")
    /\ UNCHANGED <<up, socket, setup, monitor, ws, current, reconnects, resuming,
                   log, failures>>

(* An unhandled rejection ends the process.                                *)
Dies ==
    /\ up' = FALSE
    /\ socket' = [k \in Calls |-> IF socket[k] = "none" THEN "none" ELSE "closed"]
    /\ registry' = {} /\ monitor' = {}
    /\ ws' = [k \in Calls |-> [s \in Sessions |->
                 IF ws[k][s] = "none" THEN "none" ELSE "closed"]]
    /\ resuming' = [k \in Calls |-> 0]
    /\ UNCHANGED <<setup, current, reconnects, ending, log, usage>>

(* Mutant: the call's end is not tried again.                              *)
EndFailsUncaught(k, e) ==
    /\ (At(k, e, "log") \/ At(k, e, "usage")) /\ Fail
    /\ Goto(k, e, "done")
    /\ UNCHANGED <<up, socket, setup, memory, log, usage>>

(* The message listener catches; the close listener does not.              *)
EndFails(k, e) ==
    /\ (At(k, e, "log") \/ At(k, e, "usage")) /\ Fail
    /\ IF e = "stop" THEN /\ Goto(k, e, "done")
                          /\ UNCHANGED <<up, socket, setup, memory, log, usage>>
       ELSE Dies

-----------------------------------------------------------------------------
(* The OpenAI sockets and the monitor.                                     *)

Live(k, s) == ws[k][s] \in {"open", "closing"}

(* Mutant: a socket that we closed ourselves is not reopened.              *)
SessionClosesQuietly(k, s) ==
    /\ up /\ Live(k, s)
    /\ ws' = [ws EXCEPT ![k] = [@ EXCEPT ![s] = "closed"]]
    /\ IF k \notin registry \/ socket[k] # "open" \/ ws[k][s] = "closing"
       THEN UNCHANGED <<socket, reconnects, resuming>>
       ELSE /\ reconnects' = [reconnects EXCEPT ![k] = @ + 1]
            /\ IF reconnects[k] = MaxReconnects
               THEN Hung(k) /\ UNCHANGED resuming
               ELSE resuming' = [resuming EXCEPT ![k] = @ + 1] /\ UNCHANGED socket
    /\ UNCHANGED <<up, setup, registry, monitor, current, ending, log, usage, failures>>

(* onClose, whoever closed it: reconnectOpenAI up to its first await, or   *)
(* the call is hung up when it has reconnected too often.                  *)
SessionCloses(k, s) ==
    /\ up /\ Live(k, s)
    /\ ws' = [ws EXCEPT ![k] = [@ EXCEPT ![s] = "closed"]]
    /\ IF k \notin registry \/ socket[k] # "open"
       THEN UNCHANGED <<socket, reconnects, resuming>>
       ELSE /\ reconnects' = [reconnects EXCEPT ![k] = @ + 1]
            /\ IF reconnects[k] = MaxReconnects
               THEN Hung(k) /\ UNCHANGED resuming
               ELSE resuming' = [resuming EXCEPT ![k] = @ + 1] /\ UNCHANGED socket
    /\ UNCHANGED <<up, setup, registry, monitor, current, ending, log, usage, failures>>

(* The awaits are over and the new socket is the call's; registry and      *)
(* vendor's socket are not looked at again.                                *)
Resume(k, s) ==
    /\ up /\ resuming[k] > 0 /\ s = current[k] + 1
    /\ resuming' = [resuming EXCEPT ![k] = @ - 1]
    /\ Opens(k, s)
    /\ UNCHANGED <<up, socket, setup, registry, monitor, reconnects, ending, log, usage, failures>>

(* Nobody catches what reconnectOpenAI throws.                             *)
ResumeFails(k) == up /\ resuming[k] > 0 /\ Fail /\ Dies

(* A tick of the monitor finds the call over its limit.  (How long a call  *)
(* has lasted is left to chance.)                                          *)
MonitorExpires(k) ==
    /\ k \in monitor /\ socket[k] = "open"
    /\ Hung(k)
    /\ UNCHANGED <<up, setup, memory, ending, log, usage, failures>>

(* Mutant: the monitor does not leave the reopening to the close event.    *)
MonitorReconnectsItself(k) ==
    /\ k \in monitor /\ ws[k][current[k]] = "open"
    /\ CloseSession(k)
    /\ resuming' = [resuming EXCEPT ![k] = @ + 1]
    /\ UNCHANGED <<up, socket, setup, registry, monitor, current, reconnects, ending, log, usage, failures>>

(* At 45 minutes, and at every later tick: close, so as to reopen.         *)
MonitorReconnects(k) ==
    /\ k \in monitor /\ ws[k][current[k]] = "open"
    /\ CloseSession(k)
    /\ UNCHANGED <<up, socket, setup, registry, monitor, current, reconnects, resuming, ending,
                   log, usage, failures>>

-----------------------------------------------------------------------------
SetUp(k) == SetupFails(k) \/ Start(k) \/ StartFails(k)
EndStep(k, e) == EndLog(k, e) \/ EndUsage(k, e) \/ EndFails(k, e)
Reopen(k) == (\E s \in Sessions : Resume(k, s)) \/ ResumeFails(k)

Next == \E k \in Calls :
    \/ Admit(k) \/ TurnAway(k) \/ Connect(k) \/ SetUp(k)
    \/ StopEvent(k) \/ SocketCloses(k)
    \/ \E e \in Enders : EndStep(k, e)
    \/ \E s \in Sessions : SessionCloses(k, s)
    \/ Reopen(k)
    \/ MonitorExpires(k) \/ MonitorReconnects(k)

Spec == Init /\ [][Next]_vars

(* Every await comes back; a socket that is being closed closes; the       *)
(* vendor closes the socket of a call that it has stopped.                 *)
Closes(k) == (socket[k] = "closing" \/ ending[k]["stop"] # "idle") /\ SocketCloses(k)
Fairness == \A k \in Calls :
    /\ WF_vars(SetUp(k)) /\ WF_vars(Reopen(k)) /\ WF_vars(Closes(k))
    /\ \A e \in Enders : WF_vars(EndStep(k, e))
    /\ \A s \in Sessions : WF_vars(ws[k][s] = "closing" /\ SessionCloses(k, s))
FairSpec == Spec /\ Fairness

-----------------------------------------------------------------------------
(* Properties.                                                             *)

(* A call never talks to two AI sessions: one socket at most is not closed,*)
(* it is call.openaiWs, and none is while a reconnect is under way,        *)
(* although the monitor, OpenAI, the vendor and handleCallEnd all close it.*)
OneSession ==
    \A k \in Calls :
        /\ \A s \in Sessions : Live(k, s) => s = current[k]
        /\ resuming[k] <= 1
        /\ resuming[k] > 0 => \A s \in Sessions : ~Live(k, s)

(* A call that has left the registry has its log ended and its usage       *)
(* recorded, whichever of the two handleCallEnd's came first or failed.    *)
BilledWhenGone ==
    \A k \in Calls :
        up /\ current[k] # 0 /\ k \notin registry => log[k] = "ended" /\ usage[k] > 0

(* A line whose call has ended is free again: once handleCallEnd has been  *)
(* called the registry loses the call, though the first attempt may fail.  *)
SlotFreed ==
    \A k \in Calls :
        (k \in registry /\ \E e \in Enders : ending[k][e] # "idle") ~> k \notin registry

(* Nobody is left on a dead line: a caller whose AI session has closed     *)
(* gets a new one, or is hung up on.                                       *)
Mute(k) == k \in registry /\ socket[k] = "open" /\ ws[k][current[k]] = "closed"
CallerNotAbandoned == \A k \in Calls : Mute(k) ~> ~Mute(k)

(* A call talks to one AI session while it lasts and is billed when it has *)
(* gone, whatever closes, fails or comes twice.                            *)
CallKept == TypeOK /\ OneSession /\ BilledWhenGone
=============================================================================
