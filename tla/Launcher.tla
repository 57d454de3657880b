------------------------------ MODULE Launcher ------------------------------
(***************************************************************************)
(* The process level on Windows: scripts/launch.mjs, which takes over from *)
(* the launcher named in .launcher.pid and then runs the API server and    *)
(* the two Next.js servers; the API server's graceful shutdown with its    *)
(* drain and BullMQ jobs; and scripts/win/autostart.ps1, which starts the  *)
(* launcher again when it exits with a code other than 0.                  *)
(*                                                                         *)
(* Time is left out: a wait that the code bounds may end at any moment.    *)
(* Process ids are not used twice, and both Next.js servers are one.       *)
(***************************************************************************)
EXTENDS Integers, FiniteSets

CONSTANTS
  MaxPids,   \* bound: launchers ever started
  Casts,     \* bound: how many launchers take part, and may they start together?
  Ports,     \* the API server's ports, in the order they are tried
  Redis,     \* the launchers whose API server reaches Redis
  Faults     \* what goes wrong, one of them and once

ASSUME LauncherAssumption ==
  /\ MaxPids \in Nat /\ Casts \subseteq [pids : 0..MaxPids, together : BOOLEAN]
  /\ Ports \in Nat \ {0} /\ Redis \subseteq Nat
  /\ Faults \subseteq {"death", "crash", "abort", "fail"}

Pids == 1..MaxPids
Starting == {"look", "read", "wait", "unlink", "claim", "sweep", "infra", "build"}
Events ==
  {"death", "crash", "abort", "fail", "overlap", "forced", "slow", "late", "cutJob"}

VARIABLES
  cast,
  born,      \* launchers started so far
  pc,        \* [Pids -> where the launcher stands]
  prev,      \* [Pids -> the launcher it waits for, or 0]
  code,      \* [Pids -> 0 or 1, its exit code (or the one it will have)]
  pidfile,   \* .launcher.pid: 0 when there is none
  stopfile,  \* .launcher.stop: is it there?
  sup,       \* the supervisor: [at, pid]
  web,       \* [Pids -> its Next.js servers]
  api,       \* [Pids -> its API server]
  port,      \* [Pids -> the API server's port, 0 before it is picked]
  asked,     \* [Pids -> was the API server told to shut down?]
  queue,     \* [Pids -> are BullMQ queues and workers registered?]
  busy,      \* [Pids -> is a job running?]
  past       \* history: what has happened

files == <<pidfile, stopfile>>
launchers == <<cast, born, pc, prev, code, sup>>
servers == <<web, api, port, asked, queue, busy>>
vars == <<launchers, files, servers, past>>

-----------------------------------------------------------------------------
TypeOK ==
  /\ cast \in Casts /\ born \in 0..cast.pids
  /\ pc \in [Pids -> Starting \cup {"none", "serve", "stop", "gone"}]
  /\ prev \in [Pids -> 0..MaxPids] /\ code \in [Pids -> {0, 1}]
  /\ pidfile \in 0..MaxPids /\ stopfile \in BOOLEAN
  /\ sup \in [at : {"due", "runs", "down"}, pid : 0..MaxPids]
  /\ web \in [Pids -> {"none", "boot", "up", "gone"}]
  /\ api \in [Pids -> {"none", "boot", "up", "calls", "jobs", "last", "gone"}]
  /\ port \in [Pids -> 0..Ports] /\ asked \in [Pids -> BOOLEAN]
  /\ queue \in [Pids -> BOOLEAN] /\ busy \in [Pids -> BOOLEAN]
  /\ past \subseteq Events

Init ==
  /\ cast \in Casts /\ born = 0 /\ pc = [i \in Pids |-> "none"]
  /\ prev = [i \in Pids |-> 0] /\ code = [i \in Pids |-> 0]
  /\ pidfile = 0 /\ stopfile = FALSE /\ sup = [at |-> "due", pid |-> 0]
  /\ web = [i \in Pids |-> "none"] /\ api = [i \in Pids |-> "none"]
  /\ port = [i \in Pids |-> 0] /\ asked = [i \in Pids |-> FALSE]
  /\ queue = [i \in Pids |-> FALSE] /\ busy = [i \in Pids |-> FALSE] /\ past = {}

Alive(i) == pc[i] \notin {"none", "gone"}
Running(i) == api[i] \notin {"none", "gone"}
Listening(i) == api[i] = "up"
To(i, step) == pc' = [pc EXCEPT ![i] = step]
Happens(fault) == fault \in Faults /\ past \cap Faults = {} /\ past' = past \cup {fault}

\* the API server of i ends here and now, with what it was doing
ApiEnds(i) ==
  /\ api' = [api EXCEPT ![i] = "gone"]
  /\ queue' = [queue EXCEPT ![i] = FALSE] /\ busy' = [busy EXCEPT ![i] = FALSE]

\* the launcher's own exit
Exits(i, c) == To(i, "gone") /\ code' = [code EXCEPT ![i] = c]

-----------------------------------------------------------------------------
(* Who starts a launcher *)

Start ==
  /\ born < cast.pids
  /\ cast.together \/ \A i \in Pids : pc[i] \notin Starting
  /\ born' = born + 1
  /\ To(born + 1, "look")
  /\ past' = past \cup (IF \E i \in Pids : pc[i] \in Starting THEN {"overlap"} ELSE {})
  /\ UNCHANGED <<cast, prev, code, files, servers>>

UserStarts == Start /\ UNCHANGED sup

SupervisorStarts ==
  /\ sup.at = "due"
  /\ Start
  /\ sup' = [at |-> "runs", pid |-> born + 1]

\* exit code 0 stands the supervisor down
SupervisorSees ==
  /\ sup.at = "runs" /\ pc[sup.pid] = "gone"
  /\ sup' = [at |-> IF code[sup.pid] = 0 THEN "down" ELSE "due", pid |-> 0]
  /\ UNCHANGED <<cast, born, pc, prev, code, files, servers, past>>

-----------------------------------------------------------------------------
(* Step 0: relaunch = restart *)

Look(i) ==
  /\ pc[i] = "look"
  /\ To(i, IF pidfile # 0 THEN "read" ELSE "claim")
  /\ UNCHANGED <<cast, born, prev, code, sup, files, servers, past>>

\* the file may be gone between existsSync and readFileSync: the launcher dies of it
ReadPidfile(i) ==
  /\ pc[i] = "read"
  /\ IF pidfile = 0
     THEN Exits(i, 1) /\ UNCHANGED <<prev, stopfile>>
     ELSE /\ UNCHANGED code
          /\ IF Alive(pidfile)
             THEN To(i, "wait") /\ prev' = [prev EXCEPT ![i] = pidfile] /\ stopfile' = TRUE
             ELSE To(i, "claim") /\ UNCHANGED <<prev, stopfile>>
  /\ UNCHANGED <<cast, born, sup, pidfile, servers, past>>

\* mutant: the new launcher only signals
WaitNot(i) ==
  /\ pc[i] = "wait"
  /\ To(i, "unlink")
  /\ UNCHANGED <<cast, born, prev, code, sup, files, servers, past>>

WaitOver(i) ==
  /\ pc[i] = "wait" /\ ~Alive(prev[i])
  /\ To(i, "unlink")
  /\ UNCHANGED <<cast, born, prev, code, sup, files, servers, past>>

\* after 30 s: taskkill /T /F ends the launcher with everything it started
GiveUp(i) ==
  /\ pc[i] = "wait" /\ Alive(prev[i])
  /\ LET p == prev[i] IN
       /\ pc' = [pc EXCEPT ![i] = "unlink", ![p] = "gone"]
       /\ code' = [code EXCEPT ![p] = 1]
       /\ web' = [web EXCEPT ![p] = IF @ = "none" THEN @ ELSE "gone"]
       /\ IF Running(p) THEN ApiEnds(p) ELSE UNCHANGED <<api, queue, busy>>
  /\ past' = past \cup {"forced"}
  /\ UNCHANGED <<cast, born, prev, sup, files, port, asked>>

\* mutant: the stop file is left to the launcher it was meant for
UnlinkNot(i) ==
  /\ pc[i] = "unlink"
  /\ To(i, "claim")
  /\ UNCHANGED <<cast, born, prev, code, sup, files, servers, past>>

Unlink(i) ==
  /\ pc[i] = "unlink"
  /\ stopfile' = FALSE /\ To(i, "claim")
  /\ UNCHANGED <<cast, born, prev, code, sup, pidfile, servers, past>>
Claim(i) ==
  /\ pc[i] = "claim"
  /\ pidfile' = i /\ To(i, "sweep")
  /\ UNCHANGED <<cast, born, prev, code, sup, stopfile, servers, past>>

\* Next.js servers that listen are killed; an API server is looked for by a command
\* line that the launcher's own "node dist/index.js" does not match
Sweep(i) ==
  /\ pc[i] = "sweep"
  /\ web' = [j \in Pids |-> IF web[j] = "up" THEN "gone" ELSE web[j]]
  /\ To(i, "infra")
  /\ UNCHANGED <<cast, born, prev, code, sup, files, api, port, asked, queue, busy, past>>

-----------------------------------------------------------------------------
(* Steps 1 to 10: infrastructure, ports, migrations and build, servers *)

\* infra, migrations or the build fail: the pid file stays
StartFails(i) ==
  /\ pc[i] \in {"infra", "build"} /\ Happens("fail")
  /\ Exits(i, 1)
  /\ UNCHANGED <<cast, born, prev, sup, files, servers>>

FreePorts == (1..Ports) \ {port[j] : j \in {k \in Pids : Listening(k)}}
FirstFree == IF FreePorts = {} THEN 1 ELSE CHOOSE p \in FreePorts : \A q \in FreePorts : p <= q

\* infra.mjs up starts what does not listen yet, and it outlives every launcher;
\* then port 3000 must be free; the API server takes the first port nobody listens on
PickPorts(i) ==
  /\ pc[i] = "infra"
  /\ IF \E j \in Pids : web[j] = "up"
     THEN Exits(i, 1) /\ UNCHANGED port
     ELSE /\ port' = [port EXCEPT ![i] = FirstFree]
          /\ To(i, "build") /\ UNCHANGED code
  /\ UNCHANGED <<cast, born, prev, sup, files, web, api, asked, queue, busy, past>>

Spawn(i) ==
  /\ pc[i] = "build"
  /\ web' = [web EXCEPT ![i] = "boot"] /\ api' = [api EXCEPT ![i] = "boot"]
  /\ To(i, "serve")
  /\ UNCHANGED <<cast, born, prev, code, sup, files, port, asked, queue, busy, past>>

\* a server whose port is taken exits
WebListens(i) ==
  /\ web[i] = "boot"
  /\ web' = [web EXCEPT ![i] = IF \E j \in Pids : web[j] = "up" THEN "gone" ELSE "up"]
  /\ UNCHANGED <<launchers, files, api, port, asked, queue, busy, past>>

\* told to shut down before it listens, the server closes and its listen then fails
ApiListens(i) ==
  /\ api[i] = "boot"
  /\ api' = [api EXCEPT ![i] =
       IF asked[i] \/ ~Alive(i) \/ port[i] \notin FreePorts THEN "gone" ELSE "up"]
  /\ UNCHANGED <<launchers, files, web, port, asked, queue, busy, past>>

-----------------------------------------------------------------------------
(* shutdownAll *)

\* the Next.js servers are killed, the API server is asked over IPC and stdin
BeginStop(i, c) ==
  /\ To(i, "stop") /\ code' = [code EXCEPT ![i] = c]
  /\ web' = [web EXCEPT ![i] = "gone"]
  /\ asked' = [asked EXCEPT ![i] = TRUE]

\* every half second, also while it stops
Poll(i) ==
  /\ pc[i] \in {"serve", "stop"} /\ stopfile
  /\ stopfile' = FALSE
  /\ IF pc[i] = "serve" THEN BeginStop(i, 0) ELSE UNCHANGED <<pc, code, web, asked>>
  /\ UNCHANGED <<cast, born, prev, sup, pidfile, api, port, queue, busy, past>>

CtrlC(i) ==
  /\ pc[i] = "serve"
  /\ BeginStop(i, 0)
  /\ UNCHANGED <<cast, born, prev, sup, files, api, port, queue, busy, past>>

ChildGone(i) == web[i] = "gone" \/ api[i] = "gone"
\* one server less stops the stack
ChildExit(i) ==
  /\ pc[i] = "serve" /\ ChildGone(i)
  /\ BeginStop(i, 1)
  /\ UNCHANGED <<cast, born, prev, sup, files, api, port, queue, busy, past>>

Stopped(i) ==
  /\ pc[i] = "stop" /\ ~Running(i)
  /\ To(i, "gone") /\ pidfile' = IF pidfile = i THEN 0 ELSE pidfile
  /\ UNCHANGED <<cast, born, prev, code, sup, stopfile, servers, past>>

\* SHUTDOWN_GRACE_MS and ten seconds are over
StopForced(i) ==
  /\ pc[i] = "stop" /\ Running(i)
  /\ ApiEnds(i)
  /\ To(i, "gone") /\ pidfile' = IF pidfile = i THEN 0 ELSE pidfile
  /\ UNCHANGED <<cast, born, prev, code, sup, stopfile, web, port, asked, past>>

-----------------------------------------------------------------------------
(* The API server *)

\* jobs are registered after listen; while the scheduler closes they are refused, and
\* once it has closed the flag is down again
RegisterJob(i) ==
  /\ i \in Redis /\ api[i] \in {"up", "calls", "last"} /\ ~queue[i]
  /\ queue' = [queue EXCEPT ![i] = TRUE]
  /\ past' = past \cup (IF api[i] = "last" THEN {"late"} ELSE {})
  /\ UNCHANGED <<launchers, files, web, api, port, asked, busy>>

\* the workers take jobs until the scheduler closes
JobStarts(i) ==
  /\ queue[i] /\ api[i] # "jobs" /\ ~busy[i]
  /\ busy' = [busy EXCEPT ![i] = TRUE]
  /\ UNCHANGED <<launchers, files, web, api, port, asked, queue, past>>

JobEnds(i) ==
  /\ busy[i]
  /\ busy' = [busy EXCEPT ![i] = FALSE]
  /\ UNCHANGED <<launchers, files, web, api, port, asked, queue, past>>

\* mutant: the server only listens to IPC
ShutdownAsked(i) ==
  /\ api[i] = "up" /\ asked[i]
  /\ api' = [api EXCEPT ![i] = "calls"]
  /\ UNCHANGED <<launchers, files, web, port, asked, queue, busy, past>>

\* told over IPC, or its stdin ended with the launcher: it stops listening
ShutdownBegins(i) ==
  /\ api[i] = "up" /\ (asked[i] \/ ~Alive(i))
  /\ api' = [api EXCEPT ![i] = "calls"]
  /\ UNCHANGED <<launchers, files, web, port, asked, queue, busy, past>>

\* no call is left, or the grace period is over: as long as that takes
CallsDrained(i) ==
  /\ api[i] = "calls"
  /\ api' = [api EXCEPT ![i] = "jobs"]
  /\ UNCHANGED <<launchers, files, web, port, asked, queue, busy, past>>

\* the workers have drained, or ten seconds are over
SchedulerClosed(i) ==
  /\ api[i] = "jobs"
  /\ past' = past \cup (IF busy[i] THEN {"slow"} ELSE {})
  /\ queue' = [queue EXCEPT ![i] = FALSE]
  /\ api' = [api EXCEPT ![i] = "last"]
  /\ UNCHANGED <<launchers, files, web, port, asked, busy>>

\* Redis and Prisma are closed, and then exit(0)
ApiExits(i) ==
  /\ api[i] = "last"
  /\ ApiEnds(i)
  /\ past' = past \cup (IF busy[i] THEN {"cutJob"} ELSE {})
  /\ UNCHANGED <<launchers, files, web, port, asked>>

-----------------------------------------------------------------------------
(* What goes wrong *)

LauncherDies(i) ==
  /\ pc[i] \in {"serve", "stop"} /\ Happens("death")
  /\ Exits(i, 1)
  /\ UNCHANGED <<cast, born, prev, sup, files, servers>>

ApiCrashes(i) ==
  /\ Running(i) /\ Happens("crash")
  /\ ApiEnds(i)
  /\ UNCHANGED <<launchers, files, web, port, asked>>

WebCrashes(i) ==
  /\ web[i] \in {"boot", "up"} /\ Happens("crash")
  /\ web' = [web EXCEPT ![i] = "gone"]
  /\ UNCHANGED <<launchers, files, api, port, asked, queue, busy>>

\* Ctrl-C before the handlers are there
Aborted(i) ==
  /\ pc[i] \in Starting /\ Happens("abort")
  /\ Exits(i, 1)
  /\ UNCHANGED <<cast, born, prev, sup, files, servers>>

-----------------------------------------------------------------------------
Launch(i) ==
  \/ Look(i) \/ ReadPidfile(i) \/ WaitOver(i) \/ GiveUp(i) \/ Unlink(i) \/ Claim(i) \/ Sweep(i)
  \/ PickPorts(i) \/ Spawn(i)
  \/ Poll(i) \/ ChildExit(i) \/ Stopped(i) \/ StopForced(i)
Serve(i) ==
  \/ WebListens(i) \/ ApiListens(i) \/ ShutdownBegins(i)
  \/ CallsDrained(i) \/ SchedulerClosed(i) \/ ApiExits(i)
Work(i) == RegisterJob(i) \/ JobStarts(i) \/ JobEnds(i)
Fault(i) == StartFails(i) \/ LauncherDies(i) \/ ApiCrashes(i) \/ WebCrashes(i) \/ Aborted(i)

Next ==
  \/ UserStarts \/ SupervisorStarts \/ SupervisorSees
  \/ \E i \in Pids : Launch(i) \/ CtrlC(i) \/ Serve(i) \/ Work(i) \/ Fault(i)

Spec == Init /\ [][Next]_vars

\* a server's process runs on: its timers fire and its stdin ends with the launcher
Fairness == \A i \in Pids : WF_vars(Serve(i))
FairSpec == Spec /\ Fairness

-----------------------------------------------------------------------------
(* Properties *)

\* Unless launchers start at the same time or one dies under its servers, two API
\* servers are never alive together, drained or not: a new launcher waits for the whole
\* stack of the old one, or kills it.  Relay sweeps and job workers run once.
ServersApart ==
  (\E i, j \in Pids : i # j /\ Running(i) /\ Running(j)) => past \cap {"overlap", "death"} # {}

\* Unless launchers start at the same time, a serving launcher is the one that
\* .launcher.pid names, so that the next relaunch finds it.
Findable ==
  \A i \in Pids : pc[i] = "serve" => pidfile = i \/ "overlap" \in past

\* A job is cut off by the server's exit only if its worker did not close within ten
\* seconds, or was registered after the scheduler had closed.
JobsDrained == "cutJob" \in past => past \cap {"slow", "late"} # {}

\* A launcher that obeys the stop file does so for a launcher waiting for it, and not
\* for one that has gone on: without aborted or simultaneous starts no stop file is left.
StopWasMeant == [][
  \A i \in Pids : pc[i] = "serve" /\ pc'[i] = "stop" /\ stopfile /\ ~stopfile' =>
    (\E w \in Pids : pc[w] = "wait" /\ prev[w] = i) \/ past \cap {"overlap", "abort"} # {}]_vars

\* README-WINDOWS.md: "exits 0 (Ctrl-C, takeover, stop-file) -> the supervisor stands
\* down": a launcher that has started its servers is started again only after a crash, a
\* forced takeover or a clash of simultaneous starts.
StandsDown == [][
  sup.at = "runs" /\ sup'.at = "due" /\ web[sup.pid] # "none" =>
    past \cap {"death", "crash", "forced", "overlap"} # {}]_vars

\* The API server of a launcher that is no more ends, however the launcher ended.
OrphansEnd == \A i \in Pids : pc[i] = "gone" ~> ~Running(i)

\* One stack runs, the next launcher can find it, and it winds up what it has begun
\* (launch.mjs acquire, shutdownAll; graceful-shutdown.ts).
StackKept == TypeOK /\ ServersApart /\ Findable /\ JobsDrained

\* A launcher stops when it is told to and comes back when it was not (the stop file;
\* autostart.ps1's supervisor).
LauncherObeys == StopWasMeant /\ StandsDown
=============================================================================
