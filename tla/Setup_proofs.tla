---------------------------- MODULE Setup_proofs ----------------------------
(***************************************************************************)
(* Proofs about how a landlord's side of the program is set up and started *)
(* - Launcher, for any number of launchers, any ports and any faults, and  *)
(* PropertyDesk (the pages of Listing with the numbers of PhoneLine), for  *)
(* any properties, tabs, requests and purchases.                           *)
(***************************************************************************)
EXTENDS Launcher, PropertyDesk, FiniteSetTheorems, SequenceTheorems, WellFoundedInduction, TLAPS

-----------------------------------------------------------------------------
(* Types                                                                   *)

\* the lowest of the free ports exists
LEMMA PortExists == FirstFree \in 1..Ports
<1>1. Ports \in Nat \ {0}
  BY LauncherAssumption DEF LauncherAssumption
<1>2. CASE FreePorts = {}
  BY <1>1, <1>2 DEF FirstFree
<1>3. CASE FreePorts # {}
  <2>1. FreePorts \in SUBSET Nat /\ FreePorts \subseteq 1..Ports
    BY <1>1 DEF FreePorts
  <2>2. IsWellFoundedOn(OpToRel(<, Nat), Nat)
    BY NatLessThanWellFounded
  <2>3. PICK p \in FreePorts : \A q \in FreePorts : ~(<<q, p>> \in OpToRel(<, Nat))
    BY <1>3, <2>1, <2>2, WFMin
  <2>4. \A q \in FreePorts : p <= q
    <3> SUFFICES ASSUME NEW q \in FreePorts PROVE p <= q
      OBVIOUS
    <3>1. ~(q < p)
      BY <2>1, <2>3 DEF OpToRel
    <3> QED BY <2>1, <3>1
  <2>5. \E r \in FreePorts : \A q \in FreePorts : r <= q
    BY <2>4
  <2> QED BY <1>3, <2>1, <2>5 DEF FirstFree
<1> QED BY <1>2, <1>3


LEMMA InitTypes == Init => TypeOK
<1> SUFFICES ASSUME Init PROVE TypeOK
  OBVIOUS
<1>1. /\ cast \in [pids : 0..MaxPids, together : BOOLEAN]
      /\ MaxPids \in Nat /\ Ports \in Nat
  BY LauncherAssumption DEF Init, LauncherAssumption
<1>2. born \in 0..cast.pids /\ pidfile \in 0..MaxPids
  BY <1>1 DEF Init
<1>3. sup \in [at : {"due", "runs", "down"}, pid : 0..MaxPids]
  BY <1>1 DEF Init
<1>4. prev \in [Pids -> 0..MaxPids] /\ port \in [Pids -> 0..Ports]
  BY <1>1 DEF Init
<1> QED BY <1>2, <1>3, <1>4 DEF Init, TypeOK

LEMMA CastTypes == TypeOK => cast.pids \in 0..MaxPids /\ MaxPids \in Nat
BY LauncherAssumption DEF TypeOK, LauncherAssumption

LEMMA StartTypes == ASSUME TypeOK, UserStarts \/ SupervisorStarts PROVE TypeOK'
<1>1. Start /\ born + 1 \in Pids /\ born + 1 \in 0..cast.pids /\ born + 1 \in 0..MaxPids
  BY CastTypes DEF UserStarts, SupervisorStarts, Start, TypeOK, Pids
<1>2. sup' \in [at : {"due", "runs", "down"}, pid : 0..MaxPids]
  BY <1>1 DEF UserStarts, SupervisorStarts, TypeOK
<1>3. past' \in SUBSET Events
  BY <1>1 DEF Start, TypeOK, Events
<1>4. pc' \in [Pids -> Starting \cup {"none", "serve", "stop", "gone"}]
  BY <1>1 DEF Start, To, TypeOK, Starting
<1> QED BY <1>1, <1>2, <1>3, <1>4 DEF Start, TypeOK, files, servers

\* what the steps before a launcher serves do to the types
LEMMA StartingTypes ==
  ASSUME TypeOK, NEW i \in Pids,
         Look(i) \/ ReadPidfile(i) \/ WaitOver(i) \/ Unlink(i) \/ Claim(i) \/ Sweep(i)
  PROVE  TypeOK'
<1>1. i \in 0..MaxPids
  BY CastTypes DEF Pids
<1>2. CASE Look(i) \/ WaitOver(i) \/ Unlink(i) \/ Claim(i)
  <2>1. CASE Look(i)
    BY <1>1, <2>1 DEF TypeOK, Look, To, Starting, files, servers
  <2>2. CASE WaitOver(i)
    BY <1>1, <2>2 DEF TypeOK, WaitOver, To, Starting, files, servers
  <2>3. CASE Unlink(i)
    BY <1>1, <2>3 DEF TypeOK, Unlink, To, Starting, files, servers
  <2>4. CASE Claim(i)
    BY <1>1, <2>4 DEF TypeOK, Claim, To, Starting, files, servers
  <2> QED BY <1>2, <2>1, <2>2, <2>3, <2>4
<1>3. CASE ReadPidfile(i)
  <2>0. \/ prev' = prev /\ stopfile' = stopfile
        \/ prev' = [prev EXCEPT ![i] = pidfile] /\ stopfile' = TRUE
    BY <1>3 DEF ReadPidfile
  <2>1. prev' \in [Pids -> 0..MaxPids]
    BY <2>0 DEF TypeOK
  <2>4. stopfile' \in BOOLEAN
    BY <2>0 DEF TypeOK
  <2>3. code' \in [Pids -> {0, 1}]
    BY <1>3 DEF TypeOK, ReadPidfile, Exits
  <2>2. pc' \in [Pids -> Starting \cup {"none", "serve", "stop", "gone"}]
    BY <1>3 DEF TypeOK, ReadPidfile, Exits, To, Starting
  <2> QED BY <1>3, <2>1, <2>2, <2>3, <2>4 DEF TypeOK, ReadPidfile, servers
<1>4. CASE Sweep(i)
  BY <1>4 DEF TypeOK, Sweep, To, Starting, files
<1> QED BY <1>2, <1>3, <1>4

LEMMA GiveUpTypes == ASSUME TypeOK, NEW i \in Pids, GiveUp(i) PROVE TypeOK'
<1> DEFINE p == prev[i]
<1>1. pc' \in [Pids -> Starting \cup {"none", "serve", "stop", "gone"}]
  BY DEF TypeOK, GiveUp, Starting
<1>2. code' \in [Pids -> {0, 1}]
  BY DEF TypeOK, GiveUp
<1>3. web' \in [Pids -> {"none", "boot", "up", "gone"}]
  BY DEF TypeOK, GiveUp
<1>4. /\ api' \in [Pids -> {"none", "boot", "up", "calls", "jobs", "last", "gone"}]
      /\ queue' \in [Pids -> BOOLEAN] /\ busy' \in [Pids -> BOOLEAN]
  BY DEF TypeOK, GiveUp, ApiEnds
<1>5. past' \in SUBSET Events
  BY DEF TypeOK, GiveUp, Events
<1> QED BY <1>1, <1>2, <1>3, <1>4, <1>5 DEF TypeOK, GiveUp, files

LEMMA BuildTypes ==
  ASSUME TypeOK, NEW i \in Pids, PickPorts(i) \/ Spawn(i) \/ StartFails(i)
  PROVE  TypeOK'
<1>1. CASE PickPorts(i)
  <2>1. FirstFree \in 0..Ports
    BY PortExists
  <2>2. port' \in [Pids -> 0..Ports]
    BY <1>1, <2>1 DEF TypeOK, PickPorts
  <2> QED BY <1>1, <2>2 DEF TypeOK, PickPorts, Exits, To, Starting, files
<1>2. CASE Spawn(i)
  BY <1>2 DEF TypeOK, Spawn, To, Starting, files
<1>3. CASE StartFails(i)
  BY <1>3, LauncherAssumption
     DEF TypeOK, StartFails, Exits, To, Happens, Events, Starting, files, servers, LauncherAssumption
<1> QED BY <1>1, <1>2, <1>3

LEMMA StopTypes ==
  ASSUME TypeOK, NEW i \in Pids,
         Poll(i) \/ CtrlC(i) \/ ChildExit(i) \/ Stopped(i) \/ StopForced(i)
  PROVE  TypeOK'
<1>1. CASE Poll(i)
  BY <1>1 DEF TypeOK, Poll, BeginStop, To, Starting, files, servers
<1>2. CASE CtrlC(i) \/ ChildExit(i)
  BY <1>2 DEF TypeOK, CtrlC, ChildExit, BeginStop, To, Starting, files, servers
<1>3. CASE Stopped(i)
  BY <1>3, CastTypes DEF TypeOK, Stopped, To, Starting, files, servers
<1>4. CASE StopForced(i)
  BY <1>4, CastTypes DEF TypeOK, StopForced, ApiEnds, To, Starting, files, servers
<1> QED BY <1>1, <1>2, <1>3, <1>4

LEMMA ServeTypes ==
  ASSUME TypeOK, NEW i \in Pids, Serve(i) \/ Work(i)
  PROVE  TypeOK'
<1>1. CASE WebListens(i)
  BY <1>1 DEF TypeOK, WebListens, launchers, files
<1>2. CASE ApiListens(i) \/ ShutdownBegins(i) \/ CallsDrained(i)
  BY <1>2 DEF TypeOK, ApiListens, ShutdownBegins, CallsDrained, launchers, files
<1>3. CASE SchedulerClosed(i)
  BY <1>3 DEF TypeOK, SchedulerClosed, Events, launchers, files
<1>4. CASE ApiExits(i)
  BY <1>4 DEF TypeOK, ApiExits, ApiEnds, Events, launchers, files
<1>5. CASE RegisterJob(i)
  BY <1>5 DEF TypeOK, RegisterJob, Events, launchers, files
<1>6. CASE JobStarts(i) \/ JobEnds(i)
  BY <1>6 DEF TypeOK, JobStarts, JobEnds, launchers, files
<1> QED BY <1>1, <1>2, <1>3, <1>4, <1>5, <1>6 DEF Serve, Work

LEMMA FaultTypes ==
  ASSUME TypeOK, NEW i \in Pids,
         LauncherDies(i) \/ ApiCrashes(i) \/ WebCrashes(i) \/ Aborted(i)
  PROVE  TypeOK'
<1>1. ASSUME NEW fault, Happens(fault) PROVE past' \in SUBSET Events
  BY <1>1, LauncherAssumption DEF Happens, TypeOK, Events, LauncherAssumption
<1>2. CASE LauncherDies(i) \/ Aborted(i)
  BY <1>1, <1>2 DEF TypeOK, LauncherDies, Aborted, Exits, To, Starting, files, servers
<1>3. CASE ApiCrashes(i)
  BY <1>1, <1>3 DEF TypeOK, ApiCrashes, ApiEnds, launchers, files
<1>4. CASE WebCrashes(i)
  BY <1>1, <1>4 DEF TypeOK, WebCrashes, launchers, files
<1> QED BY <1>2, <1>3, <1>4

LEMMA TypeStep == TypeOK /\ [Next]_vars => TypeOK'
<1> SUFFICES ASSUME TypeOK, [Next]_vars PROVE TypeOK'
  OBVIOUS
<1>1. CASE UNCHANGED vars
  BY <1>1 DEF vars, launchers, files, servers, TypeOK
<1>2. CASE SupervisorSees
  BY <1>2, CastTypes DEF SupervisorSees, TypeOK, files, servers
<1>3. ASSUME NEW i \in Pids, Launch(i) \/ CtrlC(i) PROVE TypeOK'
  BY <1>3, StartingTypes, GiveUpTypes, BuildTypes, StopTypes DEF Launch
<1>4. ASSUME NEW i \in Pids, Fault(i) PROVE TypeOK'
  BY <1>4, BuildTypes, FaultTypes DEF Fault
<1> QED BY <1>1, <1>2, <1>3, <1>4, StartTypes, ServeTypes DEF Next

(* The launchers' places, exit codes, ports and processes keep their types *)
(* in every reachable state, for any number of launchers and any ports.    *)
THEOREM TypeCorrect == Spec => []TypeOK
<1> QED BY InitTypes, TypeStep, PTL DEF Spec

-----------------------------------------------------------------------------
(* Jobs: what still runs in the server's last step was too slow or too late *)

JobInv ==
  /\ \A i \in Pids : api[i] = "last" =>
       /\ queue[i] => "late" \in past
       /\ busy[i] => past \cap {"slow", "late"} # {}
  /\ JobsDrained

\* a step after which no server is in its last step that was not
LEMMA JobsKept ==
  ASSUME JobInv, past \subseteq past', "cutJob" \in past' => "cutJob" \in past,
         \A i \in Pids : api'[i] = "last" =>
            api[i] = "last" /\ (queue'[i] => queue[i]) /\ (busy'[i] => busy[i])
  PROVE  JobInv'
BY DEF JobInv, JobsDrained

LEMMA FaultHistory ==
  ASSUME NEW fault, Happens(fault)
  PROVE  past \subseteq past' /\ ("cutJob" \in past' => "cutJob" \in past)
BY LauncherAssumption DEF Happens, LauncherAssumption

LEMMA JobsOfLaunchers ==
  ASSUME TypeOK, JobInv, NEW i \in Pids, Launch(i) \/ CtrlC(i) \/ Fault(i)
  PROVE  JobInv'
<1>1. CASE GiveUp(i) \/ StopForced(i)
  BY <1>1, JobsKept DEF GiveUp, StopForced, ApiEnds, TypeOK
<1>2. CASE ApiCrashes(i)
  BY <1>2, FaultHistory, JobsKept DEF ApiCrashes, ApiEnds, TypeOK
<1>3. CASE Spawn(i)
  BY <1>3, JobsKept DEF Spawn, TypeOK
<1>4. CASE \/ Look(i) \/ ReadPidfile(i) \/ WaitOver(i) \/ Unlink(i) \/ Claim(i) \/ Sweep(i)
           \/ PickPorts(i) \/ Poll(i) \/ ChildExit(i) \/ Stopped(i) \/ CtrlC(i)
  BY <1>4, JobsKept DEF Look, ReadPidfile, WaitOver, Unlink, Claim, Sweep, PickPorts, Poll,
                        ChildExit, Stopped, CtrlC, servers
<1>5. CASE StartFails(i) \/ LauncherDies(i) \/ WebCrashes(i) \/ Aborted(i)
  BY <1>5, FaultHistory, JobsKept DEF StartFails, LauncherDies, WebCrashes, Aborted, servers
<1> QED BY <1>1, <1>2, <1>3, <1>4, <1>5 DEF Launch, Fault

LEMMA JobsOfServers ==
  ASSUME TypeOK, JobInv, NEW i \in Pids, Serve(i) \/ Work(i)
  PROVE  JobInv'
<1>1. CASE WebListens(i)
  BY <1>1, JobsKept DEF WebListens
<1>2. CASE ApiListens(i) \/ ShutdownBegins(i) \/ CallsDrained(i)
  BY <1>2, JobsKept DEF ApiListens, ShutdownBegins, CallsDrained, TypeOK
<1>3. CASE SchedulerClosed(i)
  BY <1>3 DEF SchedulerClosed, JobInv, JobsDrained, TypeOK
<1>4. CASE ApiExits(i)
  BY <1>4 DEF ApiExits, ApiEnds, JobInv, JobsDrained, TypeOK
<1>5. CASE RegisterJob(i)
  BY <1>5 DEF RegisterJob, JobInv, JobsDrained, TypeOK
<1>6. CASE JobStarts(i)
  BY <1>6 DEF JobStarts, JobInv, JobsDrained, TypeOK
<1>7. CASE JobEnds(i)
  BY <1>7, JobsKept DEF JobEnds, TypeOK
<1> QED BY <1>1, <1>2, <1>3, <1>4, <1>5, <1>6, <1>7 DEF Serve, Work

LEMMA JobsStep == TypeOK /\ JobInv /\ [Next]_vars => JobInv'
<1> SUFFICES ASSUME TypeOK, JobInv, [Next]_vars PROVE JobInv'
  OBVIOUS
<1>1. CASE UNCHANGED vars
  BY <1>1, JobsKept DEF vars, servers
<1>2. CASE UserStarts \/ SupervisorStarts \/ SupervisorSees
  BY <1>2, JobsKept DEF UserStarts, SupervisorStarts, Start, SupervisorSees, servers
<1> QED BY <1>1, <1>2, JobsOfLaunchers, JobsOfServers DEF Next

(* However a shutdown, late registrations and crashes fall together, the   *)
(* exit of an API server cuts off no job but a slow or a late one.         *)
THEOREM JobsAreDrained == Spec => []JobsDrained
<1>1. Init => JobInv
  BY DEF Init, JobInv, JobsDrained
<1>2. JobInv => JobsDrained
  BY DEF JobInv
<1> QED BY <1>1, <1>2, JobsStep, TypeCorrect, PTL DEF Spec

-----------------------------------------------------------------------------
(* Who holds the machine: from its claim to its end a launcher is the one  *)
(* the pid file names                                                      *)

Holding == {"sweep", "infra", "build", "serve", "stop"}

Base ==
  /\ \A i \in Pids : i > born => pc[i] = "none"
  /\ pidfile # 0 => pc[pidfile] \in Holding \cup {"gone"}
  /\ \A i \in Pids : pc[i] = "wait" => prev[i] \in Pids \ {i}
  /\ \A i \in Pids : pc[i] \in Starting \cup {"none"} =>
       web[i] = "none" /\ api[i] = "none" /\ ~asked[i]
  /\ \A i \in Pids : pc[i] \in {"build", "serve"} => port[i] \in 1..Ports

\* one launcher starts at a time; the one that waits waits for the holder
Ordered ==
  /\ \A i, j \in Pids : pc[i] \in Starting /\ pc[j] \in Starting => i = j
  /\ \A i \in Pids : pc[i] \in Holding => pidfile = i
  /\ \A i, j \in Pids : pc[j] \in {"unlink", "claim"} => pc[i] \notin Holding
  /\ \A i, j \in Pids : pc[j] = "wait" /\ pc[i] \in Holding => i = prev[j]

Order == "overlap" \notin past => Ordered

\* what most steps do to a launcher
Down(i) ==
  \/ pc'[i] = pc[i]
  \/ pc'[i] = "gone" /\ pc[i] # "none"
  \/ pc[i] \in Holding /\ pc'[i] \in Holding /\ (pc'[i] \in Starting => pc[i] \in Starting)

LEMMA Places == Starting \cap {"none", "serve", "stop", "gone"} = {} /\ "gone" \notin Holding /\ "none" \notin Holding
BY DEF Starting, Holding

LEMMA BaseDown ==
  ASSUME TypeOK, TypeOK', Base, \A i \in Pids : Down(i), prev' = prev, born' = born,
         pidfile' = pidfile \/ pidfile' = 0,
         \A i \in Pids : pc'[i] \in Starting \cup {"none"} =>
           web'[i] = web[i] /\ api'[i] = api[i] /\ asked'[i] = asked[i],
         \A i \in Pids : pc'[i] \in {"build", "serve"} =>
           pc[i] \in {"build", "serve"} /\ port'[i] = port[i]
  PROVE  Base'
<1>1. \A i \in Pids : i > born' => pc'[i] = "none"
  BY Places DEF Base, Down
<1>2. pidfile' # 0 => pc'[pidfile'] \in Holding \cup {"gone"}
  BY Places, CastTypes DEF Base, Down, TypeOK, Pids
<1>3. \A i \in Pids : pc'[i] = "wait" => prev'[i] \in Pids \ {i}
  BY DEF Base, Down, Holding
<1>4. ASSUME NEW i \in Pids, pc'[i] \in Starting \cup {"none"}
      PROVE  web'[i] = "none" /\ api'[i] = "none" /\ ~asked'[i]
  BY <1>4, Places DEF Base, Down
<1>5. \A i \in Pids : pc'[i] \in {"build", "serve"} => port'[i] \in 1..Ports
  BY DEF Base
<1> QED BY <1>1, <1>2, <1>3, <1>4, <1>5 DEF Base

LEMMA OrderDown ==
  ASSUME TypeOK, Base, Order, \A i \in Pids : Down(i), prev' = prev, past \subseteq past',
         pidfile' = pidfile \/ (pidfile' = 0 /\ (pidfile # 0 => pc'[pidfile] = "gone"))
  PROVE  Order'
<1> SUFFICES ASSUME "overlap" \notin past' PROVE Ordered'
  BY DEF Order
<1>1. Ordered
  BY DEF Order
<1>2. \A i, j \in Pids : pc'[i] \in Starting /\ pc'[j] \in Starting => i = j
  BY <1>1, Places DEF Ordered, Down
<1>3. \A i \in Pids : pc'[i] \in Holding => pc[i] \in Holding
  BY Places DEF Down
<1>4. \A i \in Pids : pc'[i] \in Holding => pidfile' = i
  <2> SUFFICES ASSUME NEW i \in Pids, pc'[i] \in Holding PROVE pidfile' = i
    OBVIOUS
  <2>1. pidfile = i
    BY <1>1, <1>3 DEF Ordered
  <2>2. pidfile # 0
    BY <2>1 DEF Pids
  <2> QED BY <2>1, <2>2, Places
<1>5. \A i, j \in Pids : pc'[j] \in {"unlink", "claim"} => pc'[i] \notin Holding
  BY <1>1, <1>3 DEF Ordered, Down, Holding
<1>6. \A i, j \in Pids : pc'[j] = "wait" /\ pc'[i] \in Holding => i = prev'[j]
  BY <1>1, <1>3 DEF Ordered, Down, Holding
<1> QED BY <1>2, <1>4, <1>5, <1>6 DEF Ordered


LEMMA StartOrder ==
  ASSUME TypeOK, Base, Order, UserStarts \/ SupervisorStarts
  PROVE  Base' /\ Order'
<1> DEFINE n == born + 1
<1>1. /\ n \in Pids /\ n > born /\ n # 0 /\ born' = n
      /\ pc' = [pc EXCEPT ![n] = "look"]
      /\ prev' = prev /\ pidfile' = pidfile /\ web' = web /\ api' = api /\ asked' = asked /\ port' = port
  BY CastTypes DEF UserStarts, SupervisorStarts, Start, To, TypeOK, Pids, files, servers
<1>2. pc[n] = "none"
  BY <1>1 DEF Base
<1>3. pc'[n] = "look" /\ \A i \in Pids : i # n => pc'[i] = pc[i]
  BY <1>1 DEF TypeOK
<1>4. pidfile # 0 => pidfile \in Pids /\ pidfile # n
  BY <1>2, Places, CastTypes DEF Base, TypeOK, Pids
<1>5. Base'
  <2>1. \A i \in Pids : i > born' => pc'[i] = "none"
    BY <1>1, <1>3, CastTypes DEF Base, TypeOK, Pids
  <2>2. pidfile' # 0 => pc'[pidfile'] \in Holding \cup {"gone"}
    BY <1>1, <1>3, <1>4 DEF Base
  <2> QED BY <1>1, <1>2, <1>3, <2>1, <2>2 DEF Base
<1>6. Order'
  <2> SUFFICES ASSUME "overlap" \notin past' PROVE Ordered'
    BY DEF Order
  <2>1. Ordered /\ \A i \in Pids : pc[i] \notin Starting
    BY DEF UserStarts, SupervisorStarts, Start, Order
  <2> QED BY <1>1, <1>3, <2>1 DEF Ordered, Holding, Starting
<1> QED BY <1>5, <1>6

\* a launcher finds its predecessor, waits for it, and is the only one then
LEMMA TakeoverOrder ==
  ASSUME TypeOK, Base, Order, NEW i \in Pids,
         Look(i) \/ ReadPidfile(i) \/ WaitOver(i) \/ Unlink(i) \/ Claim(i)
  PROVE  Base' /\ Order'
<1>1. /\ UNCHANGED <<web, api, asked, port, born, past>>
      /\ \A j \in Pids : j # i => pc'[j] = pc[j] /\ prev'[j] = prev[j]
  BY DEF Look, ReadPidfile, WaitOver, Unlink, Claim, To, Exits, servers, TypeOK
<1>2. pc[i] \in Starting /\ pc[i] \notin Holding /\ i # 0
  BY DEF Look, ReadPidfile, WaitOver, Unlink, Claim, Starting, Holding, Pids
<1>3. pidfile # 0 => pidfile \in Pids /\ pidfile # i
  BY <1>2, Places, CastTypes DEF Base, TypeOK, Pids
<1>4. CASE Look(i)
  <2>1. pc'[i] = (IF pidfile # 0 THEN "read" ELSE "claim") /\ pidfile' = pidfile /\ prev' = prev
    BY <1>4 DEF Look, To, TypeOK, files
  <2>2. Base'
    BY <1>1, <1>2, <1>3, <2>1 DEF Base, Starting
  <2>3. Ordered => Ordered'
    BY <1>1, <1>2, <1>3, <2>1 DEF Ordered, Starting, Holding, Pids
  <2> QED BY <1>1, <2>2, <2>3 DEF Order
<1>5. CASE ReadPidfile(i)
  <2>1. /\ pidfile' = pidfile
        /\ \/ pidfile = 0 /\ pc'[i] = "gone" /\ prev'[i] = prev[i]
           \/ pidfile # 0 /\ Alive(pidfile) /\ pc'[i] = "wait" /\ prev'[i] = pidfile
           \/ pidfile # 0 /\ ~Alive(pidfile) /\ pc'[i] = "claim" /\ prev'[i] = prev[i]
    BY <1>5 DEF ReadPidfile, To, Exits, TypeOK
  <2>2. Base'
    BY <1>1, <1>2, <1>3, <2>1 DEF Base, Starting, Holding
  <2>3. Ordered => Ordered'
    BY <1>1, <1>2, <1>3, <2>1, Places DEF Ordered, Starting, Holding, Alive, Pids
  <2> QED BY <1>1, <2>2, <2>3 DEF Order
<1>6. CASE WaitOver(i)
  <2>1. pc[i] = "wait" /\ ~Alive(prev[i]) /\ pc'[i] = "unlink" /\ pidfile' = pidfile /\ prev' = prev
    BY <1>6 DEF WaitOver, To, TypeOK, files
  <2>2. Base'
    BY <1>1, <1>2, <1>3, <2>1 DEF Base, Starting
  <2>3. Ordered => Ordered'
    BY <1>1, <1>2, <2>1 DEF Ordered, Starting, Holding, Alive
  <2> QED BY <1>1, <2>2, <2>3 DEF Order
<1>7. CASE Unlink(i)
  <2>1. pc[i] = "unlink" /\ pc'[i] = "claim" /\ pidfile' = pidfile /\ prev' = prev
    BY <1>7 DEF Unlink, To, TypeOK
  <2>2. Base'
    BY <1>1, <1>2, <1>3, <2>1 DEF Base, Starting
  <2>3. Ordered => Ordered'
    BY <1>1, <1>2, <2>1 DEF Ordered, Starting, Holding
  <2> QED BY <1>1, <2>2, <2>3 DEF Order
<1>8. CASE Claim(i)
  <2>1. pc[i] = "claim" /\ pc'[i] = "sweep" /\ pidfile' = i /\ prev' = prev
    BY <1>8 DEF Claim, To, TypeOK
  <2>2. Base'
    BY <1>1, <1>2, <2>1 DEF Base, Starting, Holding
  <2>3. Ordered => Ordered'
    BY <1>1, <1>2, <2>1 DEF Ordered, Starting, Holding
  <2> QED BY <1>1, <2>2, <2>3 DEF Order
<1> QED BY <1>4, <1>5, <1>6, <1>7, <1>8


\* what a forced takeover leaves: the old launcher and its servers are gone
LEMMA Forced ==
  ASSUME TypeOK, Base, NEW i \in Pids, GiveUp(i)
  PROVE  /\ prev[i] \in Pids /\ prev[i] # i /\ pc[i] = "wait" /\ pc'[i] = "unlink"
         /\ pc[prev[i]] # "none" /\ pc'[prev[i]] = "gone"
         /\ web'[prev[i]] \notin {"boot", "up"} /\ api'[prev[i]] \in {"none", "gone"}
         /\ web[prev[i]] = "none" => web'[prev[i]] = "none"
         /\ api[prev[i]] = "none" => api'[prev[i]] = "none"
         /\ code'[i] = code[i]
         /\ \A j \in Pids : j # i /\ j # prev[i] => pc'[j] = pc[j] /\ code'[j] = code[j]
         /\ \A j \in Pids : j # prev[i] => web'[j] = web[j] /\ api'[j] = api[j]
         /\ past' = past \cup {"forced"}
         /\ UNCHANGED <<born, prev, pidfile, stopfile, sup, port, asked>>
<1>1. pc[i] = "wait" /\ prev[i] \in Pids /\ prev[i] # i /\ pc[prev[i]] # "none"
  BY DEF GiveUp, Base, Alive
<1>2. pc' = [pc EXCEPT ![i] = "unlink", ![prev[i]] = "gone"]
  BY DEF GiveUp
<1>3. pc'[i] = "unlink" /\ pc'[prev[i]] = "gone" /\ \A j \in Pids : j # i /\ j # prev[i] => pc'[j] = pc[j]
  BY <1>1, <1>2 DEF TypeOK
<1>4. /\ web'[prev[i]] \notin {"boot", "up"} /\ \A j \in Pids : j # prev[i] => web'[j] = web[j]
      /\ web[prev[i]] = "none" => web'[prev[i]] = "none"
  BY <1>1 DEF GiveUp, TypeOK
<1>5. /\ api'[prev[i]] \in {"none", "gone"} /\ \A j \in Pids : j # prev[i] => api'[j] = api[j]
      /\ api[prev[i]] = "none" => api'[prev[i]] = "none"
  BY <1>1 DEF GiveUp, ApiEnds, Running, TypeOK
<1>6. code'[i] = code[i] /\ \A j \in Pids : j # i /\ j # prev[i] => code'[j] = code[j]
  BY <1>1 DEF GiveUp, TypeOK
<1> QED BY <1>1, <1>3, <1>4, <1>5, <1>6 DEF GiveUp, files

LEMMA GiveUpOrder ==
  ASSUME TypeOK, Base, Order, NEW i \in Pids, GiveUp(i)
  PROVE  Base' /\ Order'
<1> DEFINE p == prev[i]
<1>1. Base'
  <2>1. \A j \in Pids : j > born' => pc'[j] = "none"
    BY Forced DEF Base
  <2>2. pidfile' # 0 => pc'[pidfile'] \in Holding \cup {"gone"}
    <3>1. pidfile' = pidfile /\ (pidfile # 0 => pidfile \in Pids /\ pc[pidfile] \in Holding \cup {"gone"})
      BY Forced, CastTypes DEF Base, TypeOK, Pids
    <3>2. pidfile # 0 => pidfile # i
      BY <3>1, Forced DEF Holding
    <3> QED BY <3>1, <3>2, Forced
  <2>3. \A j \in Pids : pc'[j] = "wait" => prev'[j] \in Pids \ {j}
    BY Forced DEF Base
  <2>4. \A j \in Pids : pc'[j] \in Starting \cup {"none"} =>
          web'[j] = "none" /\ api'[j] = "none" /\ ~asked'[j]
    BY Forced DEF Base, Starting
  <2>5. \A j \in Pids : pc'[j] \in {"build", "serve"} => port'[j] \in 1..Ports
    BY Forced DEF Base
  <2> QED BY <2>1, <2>2, <2>3, <2>4, <2>5 DEF Base
<1>2. Order'
  <2> SUFFICES ASSUME "overlap" \notin past' PROVE Ordered'
    BY DEF Order
  <2>1. Ordered
    BY Forced DEF Order
  <2>2. \A j \in Pids : pc[j] \in Holding => j = p
    BY <2>1, Forced DEF Ordered
  <2>3. \A j \in Pids : pc'[j] \notin Holding
    BY <2>2, Forced DEF Holding
  <2>4. \A j \in Pids : pc'[j] \in Starting => pc[j] \in Starting
    BY Forced DEF Starting
  <2> QED BY <2>1, <2>3, <2>4 DEF Ordered
<1> QED BY <1>1, <1>2

LEMMA PickPortsOrder ==
  ASSUME TypeOK, Base, Order, NEW i \in Pids, PickPorts(i)
  PROVE  Base' /\ Order'
<1>1. /\ UNCHANGED <<born, prev, pidfile, web, api, asked, past>> /\ pc[i] = "infra"
      /\ \A j \in Pids : j # i => pc'[j] = pc[j] /\ port'[j] = port[j]
      /\ pc'[i] = "gone" \/ (pc'[i] = "build" /\ port'[i] = FirstFree)
  BY DEF PickPorts, Exits, To, files, TypeOK
<1>2. \A j \in Pids : Down(j)
  BY <1>1 DEF Down, Holding, Starting
<1>3. Order'
  BY <1>1, <1>2, OrderDown
<1>4. Base'
  <2>1. \A j \in Pids : j > born' => pc'[j] = "none"
    BY <1>1 DEF Base
  <2>2. pidfile' # 0 => pc'[pidfile'] \in Holding \cup {"gone"}
    BY <1>1, CastTypes DEF Base, TypeOK, Pids, Holding
  <2>3. \A j \in Pids : pc'[j] \in {"build", "serve"} => port'[j] \in 1..Ports
    BY <1>1, PortExists DEF Base
  <2>4. \A j \in Pids : pc'[j] \in Starting \cup {"none"} => pc[j] \in Starting \cup {"none"}
    BY <1>1 DEF Starting
  <2>5. \A j \in Pids : pc'[j] = "wait" => pc[j] = "wait"
    BY <1>1
  <2> QED BY <1>1, <2>1, <2>2, <2>3, <2>4, <2>5 DEF Base
<1> QED BY <1>3, <1>4

LEMMA HoldersOrder ==
  ASSUME TypeOK, TypeOK', Base, Order, NEW i \in Pids,
         \/ Sweep(i) \/ Spawn(i) \/ Poll(i) \/ CtrlC(i) \/ ChildExit(i) \/ Stopped(i)
         \/ StopForced(i) \/ StartFails(i) \/ LauncherDies(i) \/ Aborted(i)
  PROVE  Base' /\ Order'
<1>1. /\ prev' = prev /\ born' = born /\ port' = port /\ past \subseteq past'
      /\ \A j \in Pids : j # i => pc'[j] = pc[j] /\ api'[j] = api[j] /\ asked'[j] = asked[j]
      /\ \A j \in Pids : j # i /\ web'[j] # web[j] => web[j] = "up"
  BY DEF Sweep, Spawn, Poll, CtrlC, ChildExit, Stopped, StopForced, StartFails, LauncherDies,
         Aborted, BeginStop, ApiEnds, Exits, To, Happens, files, servers, TypeOK
<1>2. /\ Down(i)
      /\ pc'[i] \notin Starting \cup {"none"} \/ Sweep(i)
      /\ Sweep(i) => /\ pc[i] = "sweep" /\ pc'[i] = "infra"
                     /\ api'[i] = api[i] /\ asked'[i] = asked[i] /\ (web'[i] # web[i] => web[i] = "up")
      /\ pc'[i] \in {"build", "serve"} => pc[i] \in {"build", "serve"}
  <2>1. CASE Sweep(i)
    BY <2>1 DEF Sweep, To, Down, Holding, Starting, TypeOK
  <2>2. CASE Spawn(i) \/ Poll(i) \/ CtrlC(i) \/ ChildExit(i)
    BY <2>2 DEF Spawn, Poll, CtrlC, ChildExit, BeginStop, To, Down, Holding, Starting, TypeOK, Sweep
  <2>3. CASE Stopped(i) \/ StopForced(i) \/ StartFails(i) \/ LauncherDies(i) \/ Aborted(i)
    BY <2>3 DEF Stopped, StopForced, StartFails, LauncherDies, Aborted, Exits, To, Down, Starting, Sweep, TypeOK
  <2> QED BY <2>1, <2>2, <2>3
<1>3. \A j \in Pids : Down(j)
  BY <1>1, <1>2 DEF Down
<1>4. pidfile' = pidfile \/ (pidfile' = 0 /\ pidfile = i /\ pc'[i] = "gone")
  BY DEF Sweep, Spawn, Poll, CtrlC, ChildExit, Stopped, StopForced, StartFails, LauncherDies,
         Aborted, To, files, TypeOK
<1>5. Order'
  BY <1>1, <1>3, <1>4, OrderDown
<1>6. \A j \in Pids : pc'[j] \in Starting \cup {"none"} =>
        web'[j] = web[j] /\ api'[j] = api[j] /\ asked'[j] = asked[j]
  BY <1>1, <1>2 DEF Base, Starting
<1>7. \A j \in Pids : pc'[j] \in {"build", "serve"} =>
        pc[j] \in {"build", "serve"} /\ port'[j] = port[j]
  BY <1>1, <1>2
<1> QED BY <1>1, <1>3, <1>4, <1>5, <1>6, <1>7, BaseDown


\* the servers' own steps move no launcher
LEMMA ServersOrder ==
  ASSUME TypeOK, TypeOK', Base, Order, UNCHANGED launchers, UNCHANGED files, past \subseteq past',
         port' = port, asked' = asked,
         \A i \in Pids : web[i] = "none" => web'[i] = "none",
         \A i \in Pids : api[i] = "none" => api'[i] = "none"
  PROVE  Base' /\ Order'
<1>1. UNCHANGED <<born, pc, prev, pidfile>> /\ \A i \in Pids : Down(i)
  BY DEF launchers, files, Down
<1>2. \A j \in Pids : pc'[j] \in Starting \cup {"none"} =>
        web'[j] = web[j] /\ api'[j] = api[j] /\ asked'[j] = asked[j]
  BY <1>1 DEF Base
<1>3. Base'
  BY <1>1, <1>2, BaseDown
<1>4. pidfile' = pidfile \/ (pidfile' = 0 /\ (pidfile # 0 => pc'[pidfile] = "gone"))
  BY <1>1
<1> QED BY <1>1, <1>3, <1>4, OrderDown

\* every step of a server is such a step
LEMMA ServerSteps ==
  ASSUME TypeOK, Base, NEW i \in Pids,
         Serve(i) \/ Work(i) \/ ApiCrashes(i) \/ WebCrashes(i)
  PROVE  /\ UNCHANGED <<launchers, files, port, asked>> /\ past \subseteq past'
         /\ \A j \in Pids : j # i => web'[j] = web[j] /\ api'[j] = api[j]
         /\ web[i] = "none" => web'[i] = "none"
         /\ api[i] = "none" => api'[i] = "none"
<1>1. CASE WebListens(i) \/ WebCrashes(i)
  BY <1>1 DEF WebListens, WebCrashes, Happens, TypeOK
<1>2. CASE ApiListens(i) \/ ShutdownBegins(i) \/ CallsDrained(i) \/ SchedulerClosed(i)
  BY <1>2 DEF ApiListens, ShutdownBegins, CallsDrained, SchedulerClosed, TypeOK
<1>3. CASE ApiExits(i)
  BY <1>3 DEF ApiExits, ApiEnds, TypeOK
<1>4. CASE ApiCrashes(i)
  BY <1>4 DEF ApiCrashes, ApiEnds, Running, Happens, TypeOK
<1>5. CASE Work(i)
  BY <1>5 DEF Work, RegisterJob, JobStarts, JobEnds
<1> QED BY <1>1, <1>2, <1>3, <1>4, <1>5 DEF Serve

LEMMA OrderStep == TypeOK /\ Base /\ Order /\ [Next]_vars => Base' /\ Order'
<1> SUFFICES ASSUME TypeOK, Base, Order, [Next]_vars PROVE Base' /\ Order'
  OBVIOUS
<1>1. TypeOK'
  BY TypeStep
<1>2. CASE UNCHANGED vars
  BY <1>1, <1>2, ServersOrder DEF vars, servers
<1>3. CASE SupervisorSees
  <2>1. UNCHANGED <<born, pc, prev, pidfile, past, servers>> /\ \A i \in Pids : Down(i)
    BY <1>3 DEF SupervisorSees, files, Down
  <2> QED BY <2>1 DEF servers, Base, Order, Ordered
<1>4. ASSUME NEW i \in Pids, Serve(i) \/ Work(i) \/ ApiCrashes(i) \/ WebCrashes(i)
      PROVE  Base' /\ Order'
  <2>1. /\ UNCHANGED <<launchers, files, port, asked>> /\ past \subseteq past'
        /\ \A j \in Pids : web[j] = "none" => web'[j] = "none"
        /\ \A j \in Pids : api[j] = "none" => api'[j] = "none"
    BY <1>4, ServerSteps
  <2> QED BY <1>1, <2>1, ServersOrder
<1>5. ASSUME NEW i \in Pids, Launch(i) \/ CtrlC(i) \/ StartFails(i) \/ LauncherDies(i) \/ Aborted(i)
      PROVE  Base' /\ Order'
  BY <1>1, <1>5, TakeoverOrder, GiveUpOrder, PickPortsOrder, HoldersOrder DEF Launch
<1> QED BY <1>1, <1>2, <1>3, <1>4, <1>5, StartOrder DEF Next, Fault

LEMMA InitOrder == Init => Base /\ Order
BY DEF Init, Base, Order, Ordered, Starting, Holding

(* Launchers that start one after the other hand the machine over in turn: *)
(* the one that serves is the one the pid file names, whatever dies, is    *)
(* forced or aborted.                                                      *)
THEOREM ServingIsFindable == Spec => []Findable
<1>1. Order => Findable
  BY DEF Order, Ordered, Findable, Holding
<1> QED BY <1>1, InitOrder, OrderStep, TypeCorrect, PTL DEF Spec

-----------------------------------------------------------------------------
(* Servers: unless a launcher dies, they run under one that serves or stops *)

Owned == "death" \notin past =>
  \A i \in Pids : /\ web[i] \in {"boot", "up"} => pc[i] = "serve"
                  /\ Running(i) => pc[i] \in {"serve", "stop"}

LEMMA Grows == [Next]_vars => past \subseteq past'
BY DEF Next, vars, UserStarts, SupervisorStarts, Start, SupervisorSees, Launch, Look, ReadPidfile,
       WaitOver, GiveUp, Unlink, Claim, Sweep, PickPorts, Spawn, Poll, ChildExit, Stopped,
       StopForced, CtrlC, Serve, WebListens, ApiListens, ShutdownBegins, CallsDrained,
       SchedulerClosed, ApiExits, Work, RegisterJob, JobStarts, JobEnds, Fault, StartFails,
       LauncherDies, ApiCrashes, WebCrashes, Aborted, Happens

LEMMA SupMoves == ASSUME [Next]_vars PROVE SupervisorStarts \/ SupervisorSees \/ sup' = sup
BY DEF Next, vars, launchers, UserStarts, Launch, Look, ReadPidfile,
     WaitOver, GiveUp, Unlink, Claim, Sweep, PickPorts, Spawn, Poll, ChildExit, Stopped,
     StopForced, CtrlC, Serve, WebListens, ApiListens, ShutdownBegins, CallsDrained,
     SchedulerClosed, ApiExits, Work, RegisterJob, JobStarts, JobEnds, Fault, StartFails,
     LauncherDies, ApiCrashes, WebCrashes, Aborted

LEMMA StopfileMoves ==
  ASSUME TypeOK, [Next]_vars, ~stopfile, stopfile'
  PROVE  \E i \in Pids : ReadPidfile(i) /\ pc'[i] = "wait"
<1>1. \E i \in Pids : ReadPidfile(i)
  BY DEF Next, vars, files, UserStarts, SupervisorStarts, Start, SupervisorSees, Launch, Look,
     WaitOver, GiveUp, Unlink, Claim, Sweep, PickPorts, Spawn, Poll, ChildExit, Stopped,
     StopForced, CtrlC, Serve, WebListens, ApiListens, ShutdownBegins, CallsDrained,
     SchedulerClosed, ApiExits, Work, RegisterJob, JobStarts, JobEnds, Fault, StartFails,
     LauncherDies, ApiCrashes, WebCrashes, Aborted
<1> QED BY <1>1 DEF ReadPidfile, To, TypeOK

LEMMA WaitingMoves ==
  ASSUME TypeOK, Base, [Next]_vars, NEW w \in Pids, pc[w] \in {"wait", "unlink"}
  PROVE  \/ pc'[w] = pc[w] \/ pc'[w] = "unlink" \/ Unlink(w) \/ Aborted(w)
         \/ \E i \in Pids : GiveUp(i) /\ w = prev[i]
<1>1. CASE UNCHANGED vars \/ SupervisorSees
  BY <1>1 DEF vars, launchers, SupervisorSees
<1>2. CASE UserStarts \/ SupervisorStarts
  BY <1>2, CastTypes DEF UserStarts, SupervisorStarts, Start, To, TypeOK, Pids, Base
<1>3. ASSUME NEW i \in Pids, GiveUp(i)
      PROVE  pc'[w] = pc[w] \/ pc'[w] = "unlink" \/ w = prev[i]
  BY <1>3, Forced
<1>4. ASSUME NEW i \in Pids,
             \/ Look(i) \/ ReadPidfile(i) \/ Claim(i) \/ Sweep(i) \/ PickPorts(i) \/ Spawn(i)
             \/ Poll(i) \/ ChildExit(i) \/ Stopped(i) \/ StopForced(i) \/ CtrlC(i)
             \/ StartFails(i) \/ LauncherDies(i)
      PROVE  pc'[w] = pc[w]
  BY <1>4 DEF Look, ReadPidfile, Claim, Sweep, PickPorts, Spawn, Poll, ChildExit, Stopped,
              StopForced, CtrlC, StartFails, LauncherDies, BeginStop, Exits, To, TypeOK
<1>5. ASSUME NEW i \in Pids, WaitOver(i) \/ Unlink(i) \/ Aborted(i)
      PROVE  pc'[w] = pc[w] \/ pc'[w] = "unlink" \/ (w = i /\ ~WaitOver(i))
  BY <1>5 DEF WaitOver, Unlink, Aborted, Exits, To, TypeOK
<1>6. ASSUME NEW i \in Pids, Serve(i) \/ Work(i) \/ ApiCrashes(i) \/ WebCrashes(i)
      PROVE  pc'[w] = pc[w]
  BY <1>6, ServerSteps DEF launchers
<1> QED BY <1>1, <1>2, <1>3, <1>4, <1>5, <1>6 DEF Next, Launch, Fault

LEMMA OwnedStep == TypeOK /\ Base /\ Owned /\ [Next]_vars => Owned'
<1> SUFFICES ASSUME TypeOK, Base, Owned, [Next]_vars, "death" \notin past' PROVE Owned'
  BY DEF Owned
<1>1. past \subseteq past'
  BY Grows
<1>2. \A i \in Pids : /\ web[i] \in {"boot", "up"} => pc[i] = "serve"
                      /\ Running(i) => pc[i] \in {"serve", "stop"}
  BY <1>1 DEF Owned

\* a launcher that has servers stays where it is
<1> DEFINE Kept == /\ \A i \in Pids : web'[i] \in {"boot", "up"} => web[i] \in {"boot", "up"}
                   /\ \A i \in Pids : Running(i)' => Running(i)
                   /\ \A i \in Pids : Running(i)' => pc'[i] \in {pc[i], "stop"}
                   /\ \A i \in Pids : web'[i] \in {"boot", "up"} => pc'[i] = pc[i]
<1>3. Kept => Owned'
  BY <1>2 DEF Owned
<1>4. CASE UNCHANGED vars
  BY <1>3, <1>4 DEF vars, launchers, servers, Running
<1>5. CASE UserStarts \/ SupervisorStarts
  <2>1. /\ born + 1 \in Pids /\ web' = web /\ api' = api /\ pc[born + 1] = "none"
        /\ \A j \in Pids : j # born + 1 => pc'[j] = pc[j]
    BY <1>5, CastTypes DEF UserStarts, SupervisorStarts, Start, To, TypeOK, Pids, servers, Base
  <2>2. web[born + 1] = "none" /\ ~Running(born + 1)
    BY <2>1 DEF Base, Running
  <2> QED BY <1>3, <2>1, <2>2 DEF Running
<1>6. CASE SupervisorSees
  BY <1>3, <1>6 DEF SupervisorSees, servers, Running
<1>7. ASSUME NEW i \in Pids, Serve(i) \/ Work(i) \/ ApiCrashes(i) \/ WebCrashes(i)
      PROVE  Owned'
  <2>1. /\ pc' = pc
        /\ web[i] = "none" => web'[i] = "none"
        /\ api[i] = "none" => api'[i] = "none"
        /\ \A j \in Pids : j # i => web'[j] = web[j] /\ api'[j] = api[j]
    BY <1>7, ServerSteps DEF launchers
  <2>2. web[i] = "gone" => web'[i] = "gone"
    BY <1>7 DEF Serve, WebListens, ApiListens, ShutdownBegins, CallsDrained, SchedulerClosed,
                ApiExits, Work, RegisterJob, JobStarts, JobEnds, ApiCrashes, WebCrashes
  <2>3. api[i] = "gone" => api'[i] = "gone"
    BY <1>7 DEF Serve, WebListens, ApiListens, ShutdownBegins, CallsDrained, SchedulerClosed,
                ApiExits, ApiEnds, Work, RegisterJob, JobStarts, JobEnds, ApiCrashes, WebCrashes, Running, TypeOK
  <2>4. web[i] \in {"none", "boot", "up", "gone"}
    BY DEF TypeOK
  <2> QED BY <1>3, <2>1, <2>2, <2>3, <2>4 DEF Running
<1>8. ASSUME NEW i \in Pids,
             \/ Look(i) \/ ReadPidfile(i) \/ WaitOver(i) \/ Unlink(i) \/ Claim(i)
             \/ PickPorts(i) \/ StartFails(i) \/ Aborted(i)
      PROVE  Owned'
  <2>1. pc[i] \in Starting /\ web' = web /\ api' = api /\ \A j \in Pids : j # i => pc'[j] = pc[j]
    BY <1>8 DEF Look, ReadPidfile, WaitOver, Unlink, Claim, PickPorts, StartFails, Aborted, Exits,
                To, Starting, servers, TypeOK
  <2>2. web[i] = "none" /\ ~Running(i)
    BY <2>1 DEF Base, Running
  <2> QED BY <1>3, <2>1, <2>2 DEF Running
<1>9. ASSUME NEW i \in Pids, GiveUp(i) PROVE Owned'
  <2>1. web[i] = "none" /\ ~Running(i)
    BY <1>9, Forced DEF Base, Running, Starting
  <2> QED BY <1>3, <1>9, <2>1, Forced DEF Running
<1>10. ASSUME NEW i \in Pids, Sweep(i) PROVE Owned'
  <2>1. web[i] = "none" /\ ~Running(i)
    BY <1>10 DEF Base, Running, Starting, Sweep
  <2>2. /\ api' = api /\ \A j \in Pids : j # i => pc'[j] = pc[j]
        /\ \A j \in Pids : web'[j] \in {"boot", "up"} => web'[j] = web[j]
    BY <1>10 DEF Sweep, To, TypeOK
  <2> QED BY <1>3, <2>1, <2>2 DEF Running
<1>11. ASSUME NEW i \in Pids, Spawn(i) PROVE Owned'
  <2>1. /\ pc'[i] = "serve"
        /\ \A j \in Pids : j # i => pc'[j] = pc[j] /\ web'[j] = web[j] /\ api'[j] = api[j]
    BY <1>11 DEF Spawn, To, TypeOK
  <2> QED BY <1>2, <2>1 DEF Owned, Running
<1>12. ASSUME NEW i \in Pids, Poll(i) \/ CtrlC(i) \/ ChildExit(i) PROVE Owned'
  <2>1. /\ api' = api /\ \A j \in Pids : j # i => pc'[j] = pc[j] /\ web'[j] = web[j]
        /\ \/ pc'[i] = "stop" /\ web'[i] = "gone"
           \/ pc'[i] = pc[i] /\ web'[i] = web[i]
    BY <1>12 DEF Poll, CtrlC, ChildExit, BeginStop, To, servers, TypeOK
  <2> QED BY <1>3, <2>1 DEF Running
<1>13. ASSUME NEW i \in Pids, Stopped(i) \/ StopForced(i) PROVE Owned'
  <2>1. /\ web' = web /\ ~Running(i)' /\ pc[i] = "stop"
        /\ \A j \in Pids : j # i => pc'[j] = pc[j] /\ api'[j] = api[j]
    BY <1>13 DEF Stopped, StopForced, ApiEnds, Running, To, servers, TypeOK
  <2> QED BY <1>2, <1>3, <2>1 DEF Running
<1>14. ASSUME NEW i \in Pids, LauncherDies(i) PROVE FALSE
  BY <1>14 DEF LauncherDies, Happens
<1> QED
  <2>1. ASSUME NEW i \in Pids, Launch(i) PROVE Owned'
    BY <2>1, <1>8, <1>9, <1>10, <1>11, <1>12, <1>13 DEF Launch
  <2>2. ASSUME NEW i \in Pids, Fault(i) PROVE Owned'
    BY <2>2, <1>7, <1>8, <1>14 DEF Fault
  <2> QED BY <2>1, <2>2, <1>4, <1>5, <1>6, <1>7, <1>12 DEF Next

LEMMA InitOwned == Init => Owned
BY DEF Init, Owned, Running

(* A new launcher waits for the old one's whole stack or kills it: unless  *)
(* two start together or one dies under its servers, no two API servers,   *)
(* and so no two schedulers and relay sweeps, are alive at once.           *)
THEOREM StacksAreApart == Spec => []ServersApart
<1>1. TypeOK /\ Order /\ Owned => ServersApart
  <2> SUFFICES ASSUME Order, Owned, past \cap {"overlap", "death"} = {},
                      NEW i \in Pids, NEW j \in Pids, Running(i), Running(j)
               PROVE  i = j
    BY DEF ServersApart
  <2>1. pc[i] \in Holding /\ pc[j] \in Holding
    BY DEF Owned, Holding
  <2> QED BY <2>1 DEF Order, Ordered
<1> QED BY <1>1, InitOrder, OrderStep, InitOwned, OwnedStep, TypeCorrect, PTL DEF Spec

-----------------------------------------------------------------------------
(* The supervisor: without a crash, a forced takeover or a clash of starts *)
(* a launcher that serves has both its servers, and ends with code 0       *)

Upsets == {"death", "crash", "forced", "overlap"}

Steady == past \cap Upsets = {} =>
  \A i \in Pids :
    /\ pc[i] = "serve" => web[i] \in {"boot", "up"} /\ api[i] \in {"boot", "up"} /\ ~asked[i]
    /\ pc[i] \in Starting \cup {"none", "serve"} => code[i] = 0
    /\ code[i] = 1 => web[i] = "none"

Supervised == sup.at = "runs" => sup.pid \in Pids

LEMMA SteadyStep ==
  TypeOK /\ Base /\ Order /\ Owned /\ Steady /\ [Next]_vars => Steady'
<1> SUFFICES ASSUME TypeOK, Base, Order, Owned, Steady, [Next]_vars, past' \cap Upsets = {}
             PROVE  Steady'
  BY DEF Steady
<1>1. past \cap Upsets = {}
  BY Grows
<1>2. /\ Ordered
      /\ \A i \in Pids : web[i] \in {"boot", "up"} => pc[i] = "serve"
      /\ \A i \in Pids : Running(i) => pc[i] \in {"serve", "stop"}
  BY <1>1 DEF Order, Owned, Upsets
<1>3. \A i \in Pids :
        /\ pc[i] = "serve" => web[i] \in {"boot", "up"} /\ api[i] \in {"boot", "up"} /\ ~asked[i]
        /\ pc[i] \in Starting \cup {"none", "serve"} => code[i] = 0
        /\ code[i] = 1 => web[i] = "none"
  BY <1>1 DEF Steady
<1>4. \A i, j \in Pids : pc[i] \in Holding /\ pc[j] \in Holding => i = j
  BY <1>2 DEF Ordered
<1> DEFINE Others(i) == \A j \in Pids : j # i =>
                   /\ pc'[j] = pc[j] /\ code'[j] = code[j] /\ asked'[j] = asked[j]
                   /\ web'[j] = web[j] /\ api'[j] = api[j]
<1>5. CASE UNCHANGED vars \/ SupervisorSees
  <2>1. UNCHANGED <<pc, code, asked, web, api>>
    BY <1>5 DEF vars, launchers, servers, SupervisorSees
  <2> QED BY <1>3, <2>1 DEF Steady
<1>6. CASE UserStarts \/ SupervisorStarts
  <2>1. /\ born + 1 \in Pids /\ UNCHANGED <<code, asked, web, api>> /\ pc[born + 1] = "none"
        /\ pc'[born + 1] = "look" /\ \A j \in Pids : j # born + 1 => pc'[j] = pc[j]
    BY <1>6, CastTypes DEF UserStarts, SupervisorStarts, Start, To, TypeOK, Pids, servers, Base
  <2> QED BY <1>3, <2>1 DEF Steady
<1>7. ASSUME NEW i \in Pids,
             \/ Look(i) \/ ReadPidfile(i) \/ WaitOver(i) \/ Unlink(i) \/ Claim(i)
             \/ PickPorts(i) \/ StartFails(i) \/ Aborted(i)
      PROVE  Steady'
  <2>1. /\ pc[i] \in Starting /\ web' = web /\ api' = api /\ asked' = asked
        /\ \A j \in Pids : j # i => pc'[j] = pc[j] /\ code'[j] = code[j]
        /\ pc'[i] = "gone" \/ (pc'[i] \in Starting /\ code'[i] = code[i])
    BY <1>7 DEF Look, ReadPidfile, WaitOver, Unlink, Claim, PickPorts, StartFails, Aborted, Exits,
                To, Starting, servers, TypeOK
  <2>2. web[i] = "none" /\ pc'[i] # "serve" /\ pc'[i] \notin {"none", "serve"}
    BY <2>1 DEF Base, Starting
  <2> QED BY <1>3, <2>1, <2>2, Places DEF Steady
<1>8. ASSUME NEW i \in Pids, GiveUp(i) PROVE FALSE
  BY <1>8 DEF GiveUp, Upsets
<1>9. ASSUME NEW i \in Pids, Sweep(i) PROVE Steady'
  <2>1. /\ pc[i] = "sweep" /\ pc'[i] = "infra" /\ UNCHANGED <<code, api, asked>>
        /\ \A j \in Pids : j # i => pc'[j] = pc[j]
        /\ \A j \in Pids : web[j] = "none" => web'[j] = "none"
    BY <1>9 DEF Sweep, To, TypeOK
  <2>2. \A j \in Pids : pc'[j] # "serve"
    BY <1>4, <2>1 DEF Holding
  <2> QED BY <1>3, <2>1, <2>2 DEF Steady, Starting
<1>10. ASSUME NEW i \in Pids, Spawn(i) PROVE Steady'
  <2>1. /\ pc[i] = "build" /\ pc'[i] = "serve" /\ web'[i] = "boot" /\ api'[i] = "boot"
        /\ UNCHANGED <<code, asked>>
        /\ \A j \in Pids : j # i => pc'[j] = pc[j] /\ web'[j] = web[j] /\ api'[j] = api[j]
    BY <1>10 DEF Spawn, To, TypeOK
  <2>2. ~asked[i] /\ code[i] = 0
    BY <1>3, <2>1 DEF Base, Starting
  <2> QED BY <1>3, <2>1, <2>2 DEF Steady
<1>11. ASSUME NEW i \in Pids, ChildExit(i) PROVE FALSE
  BY <1>3, <1>11 DEF ChildExit, ChildGone
<1>12. ASSUME NEW i \in Pids, Poll(i) \/ CtrlC(i) PROVE Steady'
  <2>1. /\ api' = api /\ \A j \in Pids : j # i => /\ pc'[j] = pc[j] /\ web'[j] = web[j]
                                                  /\ code'[j] = code[j] /\ asked'[j] = asked[j]
        /\ \/ pc'[i] = "stop" /\ code'[i] = 0
           \/ pc'[i] = pc[i] /\ pc[i] = "stop" /\ web'[i] = web[i] /\ code'[i] = code[i]
    BY <1>12 DEF Poll, CtrlC, BeginStop, To, servers, TypeOK
  <2>2. "stop" \notin Starting \cup {"none", "serve"}
    BY DEF Starting
  <2> QED BY <1>3, <2>1, <2>2 DEF Steady
<1>13. ASSUME NEW i \in Pids, Stopped(i) \/ StopForced(i) PROVE Steady'
  <2>1. /\ UNCHANGED <<web, code, asked>> /\ pc'[i] = "gone"
        /\ \A j \in Pids : j # i => pc'[j] = pc[j] /\ api'[j] = api[j]
    BY <1>13 DEF Stopped, StopForced, ApiEnds, To, servers, TypeOK
  <2> QED BY <1>3, <2>1, Places DEF Steady
<1>14. ASSUME NEW i \in Pids, LauncherDies(i) \/ ApiCrashes(i) \/ WebCrashes(i) PROVE FALSE
  BY <1>14 DEF LauncherDies, ApiCrashes, WebCrashes, Happens, Upsets
<1>15. ASSUME NEW i \in Pids, WebListens(i) PROVE Steady'
  <2>1. ~\E j \in Pids : web[j] = "up"
    BY <1>2, <1>4, <1>15 DEF WebListens, Holding
  <2>2. /\ web[i] = "boot" /\ web'[i] = "up" /\ UNCHANGED <<pc, code, asked, api>>
        /\ \A j \in Pids : j # i => web'[j] = web[j]
    BY <1>15, <2>1 DEF WebListens, launchers, TypeOK
  <2> QED BY <1>3, <2>2 DEF Steady
<1>16. ASSUME NEW i \in Pids, ApiListens(i) PROVE Steady'
  <2>1. /\ UNCHANGED <<pc, code, asked, web>> /\ api[i] = "boot"
        /\ \A j \in Pids : j # i => api'[j] = api[j]
        /\ ~asked[i] /\ Alive(i) /\ port[i] \in FreePorts => api'[i] = "up"
    BY <1>16 DEF ApiListens, launchers, TypeOK
  <2>2. ASSUME pc[i] = "serve" PROVE api'[i] = "up"
    <3>1. \A k \in Pids : ~Listening(k)
      BY <1>2, <1>4, <2>1, <2>2 DEF Listening, Running, Holding
    <3>2. port[i] \in FreePorts
      BY <2>2, <3>1 DEF Base, FreePorts
    <3> QED BY <1>3, <2>1, <2>2, <3>2 DEF Alive
  <2> QED BY <1>3, <2>1, <2>2 DEF Steady
<1>17. ASSUME NEW i \in Pids,
              ShutdownBegins(i) \/ CallsDrained(i) \/ SchedulerClosed(i) \/ ApiExits(i)
       PROVE  Steady'
  <2>1. /\ UNCHANGED <<pc, code, asked, web>>
        /\ \A j \in Pids : j # i => api'[j] = api[j]
        /\ (api[i] = "up" /\ (asked[i] \/ ~Alive(i))) \/ api[i] \in {"calls", "jobs", "last"}
    BY <1>17 DEF ShutdownBegins, CallsDrained, SchedulerClosed, ApiExits, ApiEnds, launchers, TypeOK
  <2>2. pc[i] # "serve"
    BY <1>3, <2>1 DEF Alive
  <2> QED BY <1>3, <2>1, <2>2 DEF Steady
<1>18. ASSUME NEW i \in Pids, Work(i) PROVE Steady'
  <2>1. UNCHANGED <<pc, code, asked, web, api>>
    BY <1>18 DEF Work, RegisterJob, JobStarts, JobEnds, launchers
  <2> QED BY <1>3, <2>1 DEF Steady
<1>19. ASSUME NEW i \in Pids, Launch(i) \/ CtrlC(i) PROVE Steady'
  BY <1>19, <1>7, <1>8, <1>9, <1>10, <1>11, <1>12, <1>13 DEF Launch
<1>20. ASSUME NEW i \in Pids, Serve(i) \/ Fault(i) PROVE Steady'
  BY <1>20, <1>7, <1>14, <1>15, <1>16, <1>17 DEF Serve, Fault
<1> QED BY <1>5, <1>6, <1>18, <1>19, <1>20 DEF Next

LEMMA InitSteady == Init => Steady /\ Supervised
BY DEF Init, Steady, Supervised

\* only the supervisor's own two steps move it
LEMMA SupervisedStep == TypeOK /\ Supervised /\ [Next]_vars => Supervised'
<1> SUFFICES ASSUME TypeOK, Supervised, [Next]_vars PROVE Supervised'
  OBVIOUS
<1>1. CASE SupervisorStarts
  BY <1>1, CastTypes DEF SupervisorStarts, Start, Supervised, Pids, TypeOK
<1>2. CASE SupervisorSees
  BY <1>2 DEF SupervisorSees, Supervised
<1>3. CASE sup' = sup
  BY <1>3 DEF Supervised
<1> QED BY <1>1, <1>2, <1>3, SupMoves

(* "takeover -> the supervisor stands down", and what the sentence leaves  *)
(* out: it starts a launcher again that had its servers only after a crash,*)
(* a forced takeover or a clash of starts.                                 *)
THEOREM SupervisorStandsDown == Spec => StandsDown
<1> DEFINE A == sup.at = "runs" /\ sup'.at = "due" /\ web[sup.pid] # "none" =>
                  past \cap {"death", "crash", "forced", "overlap"} # {}
<1>1. TypeOK /\ Steady /\ Supervised /\ [Next]_vars => A
  <2> SUFFICES ASSUME TypeOK, Steady, Supervised, [Next]_vars,
                      sup.at = "runs", sup'.at = "due", web[sup.pid] # "none"
               PROVE  past \cap Upsets # {}
    BY DEF Upsets
  <2>1. SupervisorSees
    BY SupMoves DEF SupervisorStarts
  <2>2. sup.pid \in Pids /\ code[sup.pid] = 1
    BY <2>1 DEF SupervisorSees, Supervised, TypeOK
  <2> QED BY <2>2 DEF Steady
<1>2. TypeOK /\ Steady /\ Supervised /\ [Next]_vars => [A]_vars
  BY <1>1
<1> HIDE DEF A
<1>3. Spec => [][A]_vars
  BY <1>2, InitOrder, OrderStep, InitOwned, OwnedStep, InitSteady, SteadyStep, SupervisedStep,
     TypeCorrect, PTL DEF Spec
<1> QED BY <1>3 DEF StandsDown, A

-----------------------------------------------------------------------------
(* The stop file is there only while somebody waits for its reader         *)

Awaited == past \cap {"overlap", "abort"} = {} =>
  (stopfile => \E w \in Pids : pc[w] \in {"wait", "unlink"})

LEMMA AwaitedStep == TypeOK /\ Base /\ Order /\ Awaited /\ [Next]_vars => Awaited'
<1> SUFFICES ASSUME TypeOK, Base, Order, Awaited, [Next]_vars,
                    past' \cap {"overlap", "abort"} = {}, stopfile'
             PROVE  \E w \in Pids : pc'[w] \in {"wait", "unlink"}
  BY DEF Awaited
<1>1. Ordered /\ (stopfile => \E w \in Pids : pc[w] \in {"wait", "unlink"})
  BY Grows DEF Order, Awaited
<1>2. CASE ~stopfile
  <2>1. PICK i \in Pids : ReadPidfile(i) /\ pc'[i] = "wait"
    BY <1>2, StopfileMoves
  <2> QED BY <2>1
<1>3. CASE stopfile
  <2>1. PICK w \in Pids : pc[w] \in {"wait", "unlink"}
    BY <1>1, <1>3
  <2>2. \/ pc'[w] = pc[w] \/ pc'[w] = "unlink" \/ Unlink(w) \/ Aborted(w)
        \/ \E i \in Pids : GiveUp(i) /\ w = prev[i]
    BY <2>1, WaitingMoves
  <2>3. ~Unlink(w) /\ ~Aborted(w)
    BY DEF Unlink, Aborted, Happens
  <2>4. ASSUME NEW i \in Pids, GiveUp(i), w = prev[i] PROVE FALSE
    <3>1. pc[i] = "wait" /\ prev[i] # i
      BY <2>4, Forced
    <3> QED BY <1>1, <2>1, <2>4, <3>1 DEF Ordered, Starting
  <2> QED BY <2>1, <2>2, <2>3, <2>4
<1> QED BY <1>2, <1>3

(* A launcher that obeys the stop file is the one that another waits for:  *)
(* without aborted or simultaneous starts none is left for a later one.    *)
THEOREM StopIsMeant == Spec => StopWasMeant
<1> DEFINE A == \A i \in Pids : pc[i] = "serve" /\ pc'[i] = "stop" /\ stopfile /\ ~stopfile' =>
                  (\E w \in Pids : pc[w] = "wait" /\ prev[w] = i) \/ past \cap {"overlap", "abort"} # {}
<1>1. Order /\ Awaited => A
  <2> SUFFICES ASSUME Order, Awaited, NEW i \in Pids, pc[i] = "serve", stopfile,
                      past \cap {"overlap", "abort"} = {}
               PROVE  \E w \in Pids : pc[w] = "wait" /\ prev[w] = i
    OBVIOUS
  <2>1. Ordered
    BY DEF Order
  <2>2. PICK w \in Pids : pc[w] \in {"wait", "unlink"}
    BY DEF Awaited
  <2> QED BY <2>1, <2>2 DEF Ordered, Holding
<1>2. Order /\ Awaited => [A]_vars
  BY <1>1
<1>3. Init => Awaited
  BY DEF Init, Awaited
<1> HIDE DEF A
<1>4. Spec => [][A]_vars
  BY <1>2, <1>3, InitOrder, OrderStep, AwaitedStep, TypeCorrect, PTL DEF Spec
<1> QED BY <1>4 DEF StopWasMeant, A

(* Everything the stacks of servers promise, for the run's property.       *)
THEOREM StackIsKept == Spec => []StackKept
BY TypeCorrect, StacksAreApart, ServingIsFindable, JobsAreDrained, PTL DEF StackKept

(* A launcher stops and is started again for a reason (stop file and exit  *)
(* code).                                                                  *)
THEOREM LaunchersObey == Spec => LauncherObeys
BY StopIsMeant, SupervisorStandsDown DEF LauncherObeys

-----------------------------------------------------------------------------
(* The phone line: types                                                   *)

LineStages ==
  {"idle", "look", "conf", "fill", "buy", "write", "remove", "clear", "place",
   "tunnel", "wait", "health", "list", "each", "done"}
Sids == Line!Ids \cup {Line!NoSid, Line!Mock, Line!Given}

LineReqs ==
  [op : Line!Op \cup {"none"}, p : Props \cup {"none"}, n : Nums \cup {Line!NoNum}, pc : LineStages,
   need : Seq(Line!Field), read : Line!Value \cup {Line!Empty}, got : [Line!Field -> Line!Value],
   sid : Sids, todo : SUBSET Line!Ids, listed : SUBSET Line!Ids, ok : BOOLEAN, calm : BOOLEAN]

\* which stages a request of each kind goes through
Staged(q) ==
  /\ \/ q.pc = "idle"
     \/ /\ q.op = "assign" /\ q.pc \in {"look", "conf", "fill", "buy", "write"}
        /\ q.p \in Props /\ q.n \in Nums /\ q.n # Line!NoNum
     \/ q.op = "release" /\ q.pc \in {"look", "conf", "fill", "remove", "clear"} /\ q.p \in Props
     \/ q.op = "call" /\ q.pc \in {"look", "conf", "fill", "place"} /\ q.p \in Props
     \/ q.op \in {"start", "status"} /\ q.pc \in LineStages \ {"idle", "look", "buy", "write", "remove", "clear", "place"}
  /\ q.pc \in {"conf", "fill"} => q.need # <<>>
  /\ q.pc = "fill" => q.read \in Line!Value

ReqOK(q, B) ==
  /\ q \in LineReqs /\ Staged(q) /\ q.listed \subseteq B
  /\ q.sid \in Line!Ids => q.sid \in B

ReqsTyped == lineReq \in [Reqs -> LineReqs] /\ \A r \in Reqs : ReqOK(lineReq[r], Line!Bought)

StoreTyped ==
  /\ conf \in [Line!Field -> Line!Value] /\ cache \in [Line!Field -> (Line!Value \ {0}) \cup {Line!Empty}]
  /\ row \in [Props -> Line!Row] /\ \A p \in Props : row[p].sid \in Line!Ids => row[p].sid \in Line!Bought
  /\ bought \in Seq(Line!Purchase) /\ Len(bought) <= MaxBought
  /\ agent \in BOOLEAN /\ tunnel \in [Line!Value -> {"none", "right", "wrong"}]
  /\ behind \subseteq Line!Field /\ strays \in Nat /\ saves \in Nat

Saving(f, l, d) == [pc |-> "write", form |-> f, left |-> l, done |-> d]
SaveTyped ==
  \/ save = Line!NoSave
  \/ \E f \in Forms, d \in SUBSET Line!Field : \E l \in SUBSET DOMAIN f : save = Saving(f, l, d)

LineTyped == ReqsTyped /\ StoreTyped /\ SaveTyped

\* what was bought has an identifier
LEMMA Knowns == ASSUME StoreTyped PROVE Line!Bought \subseteq Line!Ids /\ Len(bought) \in Nat
BY LineAssumption DEF Line!Bought, Line!Ids, StoreTyped, Line!PhoneLineAssumption

\* PhoneLine counts as everybody does
LEMMA SameCount == ASSUME NEW S PROVE Line!Cardinality(S) = Cardinality(S)
BY Zenon DEF Cardinality, Line!Cardinality

\* the three marks for 'no real number' are no identifiers
LEMMA NotBought ==
  /\ Line!NoSid \in Sids \ Line!Ids /\ Line!Mock \in Sids \ Line!Ids /\ Line!Given \in Sids \ Line!Ids
BY LineAssumption DEF Sids, Line!NoSid, Line!Mock, Line!Given, Line!Ids, Line!PhoneLineAssumption

\* a request that goes on to a good one leaves the requests good
LEMMA GoTyped ==
  ASSUME ReqsTyped, NEW r \in Reqs, NEW new, ReqOK(new, Line!Bought), Line!Go(r, new), bought' = bought
  PROVE  ReqsTyped'
<1>1. Line!Bought' = Line!Bought
  BY DEF Line!Bought
<1> QED BY <1>1 DEF ReqsTyped, ReqOK, Line!Go

\* losing its calm changes nothing else of a request
LEMMA UneasyTyped ==
  ASSUME NEW q, NEW B, ReqOK(q, B)
  PROVE  ReqOK(Line!Uneasy(q), B)
BY DEF ReqOK, Line!Uneasy, LineReqs, Staged

\* as GoTyped, when the step disturbs the other requests too
LEMMA StirTyped ==
  ASSUME ReqsTyped, NEW r \in Reqs, NEW new, ReqOK(new, Line!Bought'), lineReq' = Line!Stirred(r, new),
         Line!Bought \subseteq Line!Bought'
  PROVE  ReqsTyped'
<1>1. ASSUME NEW q \in Reqs PROVE lineReq'[q] = IF q = r THEN new ELSE Line!Uneasy(lineReq[q])
  BY DEF Line!Stirred
<1>2. ASSUME NEW q \in Reqs PROVE ReqOK(lineReq'[q], Line!Bought')
  <2>1. ReqOK(lineReq[q], Line!Bought')
    BY DEF ReqsTyped, ReqOK
  <2> QED BY <1>1, <2>1, UneasyTyped
<1>3. lineReq' \in [Reqs -> LineReqs]
  <2>1. lineReq' = [q \in Reqs |-> IF q = r THEN new ELSE Line!Uneasy(lineReq[q])]
    BY DEF Line!Stirred
  <2>2. \A q \in Reqs : lineReq'[q] \in LineReqs
    BY <1>2 DEF ReqOK
  <2> HIDE DEF LineReqs
  <2> QED BY <2>1, <2>2
<1> QED BY <1>2, <1>3 DEF ReqsTyped

\* a slot with no request in it is good
LEMMA IdleTyped == ASSUME NEW B PROVE ReqOK(Line!Idle, B)
<1>1. <<>> \in Seq(Line!Field)
  OBVIOUS
<1>2. Line!Unset \in [Line!Field -> Line!Value]
  BY LineAssumption DEF Line!Unset, Line!Value, Line!PhoneLineAssumption
<1> QED BY <1>1, <1>2 DEF Line!Idle, ReqOK, LineReqs, Staged, LineStages, Sids, Line!Ids, Line!NoSid, Line!Empty

\* a request that has read a setting is still good
LEMMA GotTyped == ASSUME NEW q, NEW B, ReqOK(q, B), q.pc \in {"conf", "fill"}, NEW v \in Line!Value
  PROVE  ReqOK(Line!Got(q, v), B)
<1>1. q.need \in Seq(Line!Field) /\ q.need # <<>>
  BY DEF ReqOK, LineReqs, Staged
<1>2. Head(q.need) \in Line!Field /\ Tail(q.need) \in Seq(Line!Field) /\ Len(Tail(q.need)) = Len(q.need) - 1
  BY <1>1, HeadTailProperties
<1>7. Len(q.need) # 1 => Tail(q.need) # <<>>
  <2>1. Len(q.need) # 0 /\ Len(q.need) \in Nat
    BY <1>1, EmptySeq, LenProperties
  <2>2. Len(<<>>) = 0
    OBVIOUS
  <2> SUFFICES ASSUME Tail(q.need) = <<>> PROVE Len(q.need) = 1
    OBVIOUS
  <2>3. Len(Tail(q.need)) = 0
    BY <2>2, Zenon
  <2> QED BY <1>2, <2>1, <2>3
<1>3. Line!Next1(q.op) \in LineStages
  BY DEF Staged, Line!Next1, LineStages, ReqOK
<1>4. Line!Got(q, v) \in LineReqs
  <2>1. [q.got EXCEPT ![Head(q.need)] = v] \in [Line!Field -> Line!Value]
    BY <1>2 DEF LineReqs, ReqOK
  <2>2. Line!Got(q, v) = [q EXCEPT !.got = [q.got EXCEPT ![Head(q.need)] = v], !.need = Tail(q.need),
                                   !.read = Line!Empty,
                                   !.pc = IF Len(q.need) = 1 THEN Line!Next1(q.op) ELSE "conf"]
    BY DEF Line!Got, LineReqs, ReqOK
  <2> QED BY <1>2, <1>3, <2>1, <2>2 DEF LineReqs, LineStages, Line!Empty, ReqOK
<1>5. Staged(Line!Got(q, v))
  BY <1>1, <1>2, <1>7 DEF Line!Got, LineReqs, LineStages, Staged, Line!Next1, ReqOK
<1> QED BY <1>4, <1>5 DEF Line!Got, LineReqs, ReqOK

-----------------------------------------------------------------------------
(* Settings                                                                *)

LEMMA SettingsTyped == ASSUME LineTyped, Line!Settings PROVE LineTyped'
<1> USE DEF LineTyped
<1>1. ReqsTyped'
  <2>1. lineReq' = lineReq /\ bought' = bought
    BY DEF Line!Settings, Line!SaveBegin, Line!SaveField, Line!SaveFails, Line!SaveEnds, Line!Expire, Line!account, Line!budget
  <2> QED BY <2>1 DEF ReqsTyped, Line!Bought
<1>2. bought' = bought /\ row' = row /\ agent' = agent /\ tunnel' = tunnel
  BY DEF Line!Settings, Line!SaveBegin, Line!SaveField, Line!SaveFails, Line!SaveEnds, Line!Expire, Line!account,
         Line!network, Line!budget
<1>3. Line!Bought' = Line!Bought
  BY <1>2 DEF Line!Bought
<1> SUFFICES /\ SaveTyped' /\ conf' \in [Line!Field -> Line!Value]
             /\ cache' \in [Line!Field -> (Line!Value \ {0}) \cup {Line!Empty}]
             /\ behind' \subseteq Line!Field /\ strays' \in Nat /\ saves' \in Nat
  BY <1>1, <1>2, <1>3 DEF StoreTyped
<1>4. CASE Line!SaveBegin
  <2>1. PICK f \in Forms : save' = Saving(f, DOMAIN f, {})
    BY <1>4 DEF Line!SaveBegin, Saving
  <2> QED BY <1>4, <2>1 DEF Line!SaveBegin, StoreTyped, SaveTyped, Line!budget
<1>5. CASE Line!SaveField
  <2>1. save # Line!NoSave
    BY <1>5 DEF Line!SaveField, Line!NoSave
  <2>2. PICK f \in Forms, d \in SUBSET Line!Field : \E l \in SUBSET DOMAIN f : save = Saving(f, l, d)
    BY <2>1 DEF SaveTyped
  <2>3. PICK l \in SUBSET DOMAIN f : save = Saving(f, l, d)
    BY <2>2
  <2>4. PICK k \in save.left :
          /\ conf' = [conf EXCEPT ![k] = save.form[k]]
          /\ save' = [save EXCEPT !.left = @ \ {k}, !.done = @ \cup {k}]
          /\ behind' = behind \cup ({k} \cap Line!Pending)
    BY <1>5 DEF Line!SaveField
  <2>5. k \in DOMAIN f /\ k \in Line!Field /\ f[k] \in Line!Value
    BY <2>3, <2>4, LineAssumption DEF Line!PhoneLineAssumption, Saving
  <2>6. save' = Saving(f, l \ {k}, d \cup {k}) /\ save.form[k] = f[k]
    BY <2>3, <2>4 DEF Saving
  <2>7. SaveTyped'
    BY <2>5, <2>6 DEF SaveTyped
  <2>8. conf' \in [Line!Field -> Line!Value]
    BY <2>4, <2>5, <2>6 DEF StoreTyped
  <2> QED BY <1>5, <2>4, <2>5, <2>7, <2>8 DEF Line!SaveField, StoreTyped, Line!budget
<1>6. CASE Line!SaveFails
  <2>1. save.done \subseteq Line!Field
    BY DEF SaveTyped, Saving, Line!NoSave
  <2> QED BY <1>6, <2>1 DEF Line!SaveFails, StoreTyped, SaveTyped
<1>7. CASE Line!SaveEnds
  BY <1>7 DEF Line!SaveEnds, StoreTyped, SaveTyped, Line!budget
<1>8. CASE \E f \in Line!Field : Line!Expire(f)
  BY <1>8 DEF Line!Expire, StoreTyped, SaveTyped, Line!budget
<1> QED BY <1>4, <1>5, <1>6, <1>7, <1>8 DEF Line!Settings
-----------------------------------------------------------------------------
(* Requests                                                                *)

LEMMA ResolveTyped == ASSUME LineTyped, NEW r \in Reqs, Line!Resolve(r) PROVE LineTyped'
<1> USE DEF LineTyped
<1> DEFINE q == lineReq[r]
           f == Head(q.need)
<1>1. ReqOK(q, Line!Bought) /\ q.pc \in {"conf", "fill"}
  BY DEF ReqsTyped, Line!Resolve, Line!ResolveCached, Line!ResolveRead, Line!ResolveFill
<1>2. f \in Line!Field
  BY <1>1 DEF LineReqs, Staged, ReqOK
<1>3. bought' = bought /\ UNCHANGED <<conf, save, row, agent, tunnel, behind, strays, saves>>
  BY DEF Line!Resolve, Line!ResolveCached, Line!ResolveRead, Line!ResolveFill, Line!account, Line!network, Line!budget
<1>4. Line!Bought' = Line!Bought /\ SaveTyped'
  BY <1>3 DEF Line!Bought, SaveTyped
<1>5. CASE Line!ResolveCached(r)
  <2>1. cache[f] \in Line!Value
    BY <1>2, <1>5 DEF StoreTyped, Line!Empty, Line!ResolveCached
  <2>2. ReqOK(Line!Got(q, cache[f]), Line!Bought)
    BY <1>1, <2>1, GotTyped
  <2>3. ReqsTyped'
    BY <1>3, <1>5, <2>2, GoTyped DEF Line!ResolveCached
  <2> QED BY <1>3, <1>4, <1>5, <2>3 DEF StoreTyped, Line!ResolveCached
<1>6. CASE Line!ResolveRead(r)
  <2>1. Line!Effective(f) \in Line!Value
    BY <1>2, LineAssumption DEF StoreTyped, Line!Effective, Line!PhoneLineAssumption
  <2>2. ReqOK([q EXCEPT !.pc = "fill", !.read = Line!Effective(f)], Line!Bought)
    BY <1>1, <2>1 DEF ReqOK, LineReqs, LineStages, Staged
  <2>3. ReqsTyped'
    BY <1>3, <1>6, <2>2, GoTyped DEF Line!ResolveRead
  <2> QED BY <1>3, <1>4, <1>6, <2>3 DEF StoreTyped, Line!ResolveRead
<1>7. CASE Line!ResolveFill(r)
  <2>1. q.read \in Line!Value
    BY <1>1, <1>7 DEF ReqOK, Staged, Line!ResolveFill
  <2>2. ReqOK(Line!Got(q, q.read), Line!Bought)
    BY <1>1, <2>1, GotTyped
  <2>3. ReqsTyped'
    BY <1>3, <1>7, <2>2, GoTyped DEF Line!ResolveFill
  <2>4. cache' \in [Line!Field -> (Line!Value \ {0}) \cup {Line!Empty}]
    BY <1>7, <1>2, <2>1 DEF StoreTyped, Line!ResolveFill
  <2> QED BY <1>3, <1>4, <2>3, <2>4 DEF StoreTyped
<1> QED BY <1>5, <1>6, <1>7 DEF Line!Resolve

\* the steps that change the database's rows or the account's numbers
LineMoves(r) == Line!Buy(r) \/ Line!Write(r) \/ Line!Remove(r) \/ Line!Clear(r)
LineBegins(r) == Line!Begin(r) \/ Line!Refused(r) \/ Line!Look(r) \/ Line!LookGiven(r) \/ Line!Place(r)

\* types: a request begins
LEMMA BeginsTyped == ASSUME LineTyped, NEW r \in Reqs, LineBegins(r) PROVE LineTyped'
<1> USE DEF LineTyped
<1> DEFINE q == lineReq[r]
<1>1. ReqOK(q, Line!Bought)
  BY DEF ReqsTyped
<1>2. /\ bought' = bought
      /\ UNCHANGED <<conf, cache, save, row, agent, tunnel, behind, saves>>
      /\ strays' \in {strays, strays + 1}
  BY DEF LineBegins, Line!Begin, Line!Refused, Line!Look, Line!LookGiven, Line!Passed, Line!Place,
         Line!account, Line!network, Line!budget
<1>3. Line!Bought' = Line!Bought /\ SaveTyped'
  BY <1>2 DEF Line!Bought, SaveTyped
<1>4. StoreTyped'
  BY <1>2, <1>3 DEF StoreTyped
<1>5. CASE Line!Begin(r)
  <2>1. <<"sid", "token", "url">> \in Seq(Line!Field)
    BY DEF Line!Field
  <2>2. <<"sid", "token", "url">> # <<>>
    OBVIOUS
  <2>3. PICK op \in lineCast.ops :
          \/ /\ op \in {"start", "status"}
             /\ Line!Go(r, [Line!Idle EXCEPT !.op = op, !.pc = "conf", !.need = <<"sid", "token", "url">>])
          \/ /\ op \in {"assign", "release", "call"}
             /\ \E p \in Props, n \in Nums \cup {Line!NoNum} :
                  /\ (n # Line!NoNum) = (op = "assign")
                  /\ Line!Go(r, [Line!Idle EXCEPT !.op = op, !.pc = "look", !.p = p, !.n = n])
    BY <1>5 DEF Line!Begin
  <2>4. ReqOK(Line!Idle, Line!Bought)
    BY IdleTyped
  <2>5. ASSUME op \in {"start", "status"}
        PROVE  ReqOK([Line!Idle EXCEPT !.op = op, !.pc = "conf", !.need = <<"sid", "token", "url">>], Line!Bought)
    BY <2>1, <2>2, <2>4, <2>5 DEF ReqOK, LineReqs, LineStages, Staged, Line!Op, Line!Idle
  <2>6. ASSUME op \in {"assign", "release", "call"}, NEW p \in Props, NEW n \in Nums \cup {Line!NoNum},
               (n # Line!NoNum) = (op = "assign")
        PROVE  ReqOK([Line!Idle EXCEPT !.op = op, !.pc = "look", !.p = p, !.n = n], Line!Bought)
    BY <2>4, <2>6 DEF ReqOK, LineReqs, LineStages, Staged, Line!Op, Line!Idle
  <2> QED BY <1>2, <1>3, <1>4, <2>3, <2>5, <2>6, GoTyped
<1>6. CASE Line!Refused(r) \/ Line!Place(r)
  BY <1>2, <1>3, <1>4, <1>6, IdleTyped, GoTyped DEF Line!Refused, Line!Place
<1>7. ASSUME Line!Passed(r)
      PROVE  /\ q.pc = "look" /\ q.op \in {"assign", "release", "call"} /\ q.p \in Props
             /\ q.op = "assign" => q.n \in Nums /\ q.n # Line!NoNum
             /\ row[q.p].sid \in Sids
             /\ row[q.p].sid \in Line!Ids => row[q.p].sid \in Line!Bought
  <2>1. q.pc = "look" /\ q.op \in {"assign", "release", "call"} /\ q.p \in Props /\ (q.op = "assign" => q.n \in Nums /\ q.n # Line!NoNum)
    BY <1>1, <1>7 DEF Line!Passed, ReqOK, Staged
  <2> QED BY <2>1 DEF StoreTyped, Line!Row, Sids
<1>8. CASE Line!Look(r)
  <2>1. Line!Passed(r)
    BY <1>8 DEF Line!Look
  <2>2. CASE q.op = "release" /\ row[q.p].sid = Line!Mock
    <3>1. ReqOK([q EXCEPT !.pc = "clear"], Line!Bought)
      BY <1>1, <1>7, <2>1, <2>2 DEF ReqOK, LineReqs, LineStages, Staged
    <3> QED BY <1>2, <1>3, <1>4, <1>8, <2>2, <3>1, GoTyped DEF Line!Look
  <2>3. CASE ~(q.op = "release" /\ row[q.p].sid = Line!Mock)
    <3>1. Line!Needs(q.op) \in Seq(Line!Field) /\ Line!Needs(q.op) # <<>>
      BY DEF Line!Needs, Line!Field
    <3>2. ReqOK([q EXCEPT !.pc = "conf", !.need = Line!Needs(q.op), !.sid = row[q.p].sid], Line!Bought)
      BY <1>1, <1>7, <2>1, <3>1 DEF ReqOK, LineReqs, LineStages, Staged
    <3> QED BY <1>2, <1>3, <1>4, <1>8, <2>3, <3>2, GoTyped DEF Line!Look
  <2> QED BY <2>2, <2>3
<1>9. CASE Line!LookGiven(r)
  <2>1. Line!Passed(r) /\ q.op = "assign"
    BY <1>9 DEF Line!LookGiven
  <2>2. ReqOK([q EXCEPT !.pc = "write", !.sid = Line!Given], Line!Bought)
    BY <1>1, <1>7, <2>1, NotBought DEF ReqOK, LineReqs, LineStages, Staged
  <2> QED BY <1>2, <1>3, <1>4, <1>9, <2>2, GoTyped DEF Line!LookGiven
<1> QED BY <1>5, <1>6, <1>8, <1>9 DEF LineBegins

\* types: a request takes its next step
LEMMA MovesTyped == ASSUME LineTyped, NEW r \in Reqs, LineMoves(r) PROVE LineTyped'
<1> USE DEF LineTyped
<1> DEFINE q == lineReq[r]
<1>1. ReqOK(q, Line!Bought) /\ Line!Bought \subseteq Line!Ids /\ Len(bought) \in Nat
  BY Knowns DEF ReqsTyped
<1>2. UNCHANGED <<conf, cache, save, agent, tunnel, behind, saves>>
  BY DEF LineMoves, Line!Buy, Line!Write, Line!Remove, Line!Clear, Line!network, Line!budget
<1>3. SaveTyped'
  BY <1>2 DEF SaveTyped
<1>4. CASE Line!Buy(r)
  <2>1. q.pc = "buy" /\ q.op = "assign" /\ row' = row /\ strays' = strays
    BY <1>1, <1>4 DEF Line!Buy, ReqOK, Staged
  <2>2. CASE Line!Go(r, [q EXCEPT !.pc = "write", !.sid = Line!Mock]) /\ bought' = bought
    <3>1. ReqOK([q EXCEPT !.pc = "write", !.sid = Line!Mock], Line!Bought)
      BY <1>1, <2>1, NotBought DEF ReqOK, LineReqs, LineStages, Staged
    <3> QED BY <1>2, <1>3, <2>1, <2>2, <3>1, GoTyped DEF StoreTyped, Line!Bought
  <2>3. CASE /\ Line!Signed(q.got) /\ Len(bought) < MaxBought
             /\ bought' = Append(bought, [num |-> q.n, acct |-> q.got["sid"], hook |-> q.got["url"], kept |-> TRUE])
             /\ lineReq' = Line!Stirred(r, [q EXCEPT !.pc = "write", !.sid = Len(bought) + 1])
    <3>1. [num |-> q.n, acct |-> q.got["sid"], hook |-> q.got["url"], kept |-> TRUE] \in Line!Purchase
      BY <1>1, <2>1, <2>3 DEF ReqOK, LineReqs, Staged, Line!Purchase, Line!Signed, Line!Field
    <3>2. bought' \in Seq(Line!Purchase) /\ Len(bought') = Len(bought) + 1
      BY <2>3, <3>1, AppendProperties DEF StoreTyped
    <3>3. Line!Bought \subseteq Line!Bought' /\ Len(bought) + 1 \in Line!Bought' /\ Len(bought') <= MaxBought
      BY <1>1, <2>3, <3>2, LineAssumption DEF Line!Bought, Line!PhoneLineAssumption
    <3>4. Len(bought) + 1 \in Line!Ids
      BY <1>1, <2>3, LineAssumption DEF Line!Ids, Line!PhoneLineAssumption
    <3>5. ReqOK([q EXCEPT !.pc = "write", !.sid = Len(bought) + 1], Line!Bought')
      BY <1>1, <2>1, <3>3, <3>4 DEF ReqOK, LineReqs, LineStages, Staged, Sids
    <3>6. ReqsTyped'
      BY <2>3, <3>3, <3>5, StirTyped
    <3> QED BY <1>2, <1>3, <2>1, <3>2, <3>3, <3>6 DEF StoreTyped
  <2>4. CASE Line!Go(r, Line!Idle) /\ bought' = bought
    BY <1>2, <1>3, <2>1, <2>4, GoTyped, IdleTyped DEF StoreTyped, Line!Bought
  <2> QED BY <1>4, <2>2, <2>3, <2>4 DEF Line!Buy
<1>5. CASE Line!Write(r)
  <2>1. bought' = bought /\ Line!Bought' = Line!Bought /\ lineReq' = Line!Stirred(r, Line!Idle)
    BY <1>5 DEF Line!Write, Line!Bought
  <2>2. ReqsTyped'
    BY <2>1, IdleTyped, StirTyped
  <2>3. q.p \in Props /\ q.n \in Nums
    BY <1>1, <1>5 DEF Line!Write, ReqOK, Staged
  <2>4. row' = row \/ row' = [row EXCEPT ![q.p] = [phone |-> q.n, sid |-> q.sid]]
    BY <1>5 DEF Line!Write
  <2>5. [phone |-> q.n, sid |-> q.sid] \in Line!Row
    BY <1>1, <2>3 DEF ReqOK, LineReqs, Line!Row, Sids
  <2>6. row' \in [Props -> Line!Row] /\ \A p \in Props : row'[p].sid \in Line!Ids => row'[p].sid \in Line!Bought
    BY <1>1, <2>3, <2>4, <2>5 DEF StoreTyped, ReqOK
  <2>7. strays' \in Nat
    BY <1>5 DEF Line!Write, StoreTyped
  <2> QED BY <1>2, <1>3, <2>1, <2>2, <2>6, <2>7 DEF StoreTyped
<1>6. CASE Line!Remove(r)
  <2>1. bought' \in Seq(Line!Purchase) /\ Len(bought') = Len(bought)
    <3>1. CASE bought' = bought
      BY <3>1 DEF StoreTyped
    <3>2. CASE Line!Owns(q.got, q.sid) /\ bought' = [bought EXCEPT ![q.sid] = [@ EXCEPT !.kept = FALSE]]
      <4>1. q.sid \in 1..Len(bought)
        BY <3>2 DEF Line!Owns, Line!Live, Line!Bought
      <4>2. [bought[q.sid] EXCEPT !.kept = FALSE] \in Line!Purchase
        <5>1. bought[q.sid] \in Line!Purchase
          BY <4>1, ElementOfSeq DEF StoreTyped
        <5> QED BY <5>1 DEF Line!Purchase
      <4> QED BY <3>2, <4>1, <4>2, ExceptSeq DEF StoreTyped
    <3> QED BY <1>6, <3>1, <3>2 DEF Line!Remove
  <2>2. Line!Bought' = Line!Bought
    BY <2>1 DEF Line!Bought
  <2>3. ReqOK([q EXCEPT !.pc = "clear"], Line!Bought)
    BY <1>1, <1>6 DEF ReqOK, LineReqs, LineStages, Staged, Line!Remove
  <2>4. ReqsTyped'
    BY <1>6, <2>2, <2>3, StirTyped DEF Line!Remove
  <2>5. row' = row /\ strays' \in Nat
    BY <1>6 DEF Line!Remove, StoreTyped
  <2> QED BY <1>2, <1>3, <2>1, <2>2, <2>4, <2>5 DEF StoreTyped
<1>7. CASE Line!Clear(r)
  <2>1. bought' = bought /\ Line!Bought' = Line!Bought /\ lineReq' = Line!Stirred(r, Line!Idle) /\ strays' = strays
    BY <1>7 DEF Line!Clear, Line!Bought, Line!budget
  <2>2. ReqsTyped'
    BY <2>1, IdleTyped, StirTyped
  <2>3. row' = row \/ row' = [row EXCEPT ![q.p] = [phone |-> Line!NoNum, sid |-> Line!NoSid]]
    BY <1>7 DEF Line!Clear
  <2>4. row' \in [Props -> Line!Row] /\ \A p \in Props : row'[p].sid \in Line!Ids => row'[p].sid \in Line!Bought
    <3>1. [phone |-> Line!NoNum, sid |-> Line!NoSid] \in Line!Row
      BY NotBought DEF Line!Row, Sids
    <3> QED BY <2>3, <3>1, NotBought DEF StoreTyped
  <2> QED BY <1>2, <1>3, <2>1, <2>2, <2>4 DEF StoreTyped
<1> QED BY <1>4, <1>5, <1>6, <1>7 DEF LineMoves
\* types: a start or a check of the phone system takes a step
LEMMA SystemTyped == ASSUME LineTyped, NEW r \in Reqs, Line!SystemStep(r) PROVE LineTyped'
<1> USE DEF LineTyped
<1> DEFINE q == lineReq[r]
           Same == UNCHANGED <<bought, agent, tunnel>>
<1>1. ReqOK(q, Line!Bought)
  BY DEF ReqsTyped
<1>2. UNCHANGED <<conf, cache, save, row, behind, strays, saves>>
  BY DEF Line!SystemStep, Line!EnsureTunnel, Line!WaitTunnel, Line!ReadTunnel, Line!Health, Line!ListNumbers,
         Line!EachNumber, Line!EachDone, Line!Answer, Line!account, Line!budget
<1>3. SaveTyped'
  BY <1>2 DEF SaveTyped
<1>4. ASSUME Same, ReqsTyped' PROVE LineTyped'
  BY <1>2, <1>3, <1>4 DEF StoreTyped, Line!Bought
<1>5. ReqOK([q EXCEPT !.pc = "done", !.ok = FALSE], Line!Bought) \/ q.op \notin {"start", "status"}
  BY <1>1 DEF ReqOK, LineReqs, LineStages, Staged
<1>6. CASE Line!EnsureTunnel(r)
  <2>1. q.op = "start" /\ q.pc = "tunnel" /\ bought' = bought /\ Line!Bought' = Line!Bought
    BY <1>6 DEF Line!EnsureTunnel, Line!account, Line!Bought
  <2>2. /\ ReqOK([q EXCEPT !.pc = "done", !.ok = FALSE], Line!Bought)
        /\ ReqOK([q EXCEPT !.pc = "health"], Line!Bought)
        /\ ReqOK([q EXCEPT !.pc = "wait"], Line!Bought)
    BY <1>1, <2>1 DEF ReqOK, LineReqs, LineStages, Staged
  <2>3. PICK new \in {[q EXCEPT !.pc = "done", !.ok = FALSE], [q EXCEPT !.pc = "health"], [q EXCEPT !.pc = "wait"]} :
          Line!Go(r, new) \/ lineReq' = Line!Stirred(r, new)
    BY <1>6 DEF Line!EnsureTunnel, Line!Fail
  <2>4. ReqsTyped'
    BY <2>1, <2>2, <2>3, GoTyped, StirTyped
  <2>5. Line!Url(r) \in Line!Value
    BY <1>1 DEF Line!Url, ReqOK, LineReqs, Line!Field
  <2>6. Line!Found(r) \in {"none", "right", "wrong"}
    BY <2>5 DEF Line!Found, StoreTyped
  <2>7. agent' \in BOOLEAN
    BY <1>6 DEF Line!EnsureTunnel, StoreTyped, Line!network
  <2>8. tunnel' \in [Line!Value -> {"none", "right", "wrong"}]
    BY <1>6, <2>5, <2>6 DEF Line!EnsureTunnel, StoreTyped, Line!network
  <2> QED BY <1>2, <1>3, <2>1, <2>4, <2>7, <2>8 DEF StoreTyped
<1>7. CASE Line!WaitTunnel(r)
  <2>1. ReqOK([q EXCEPT !.pc = "health"], Line!Bought) /\ ReqOK([q EXCEPT !.pc = "done", !.ok = FALSE], Line!Bought) /\ Same
    BY <1>1, <1>7 DEF ReqOK, LineReqs, LineStages, Staged, Line!WaitTunnel, Line!account, Line!network
  <2> QED BY <1>4, <1>7, <2>1, GoTyped DEF Line!WaitTunnel, Line!Fail
<1>8. CASE Line!ReadTunnel(r)
  <2> DEFINE ok == Line!Signed(q.got) /\ Line!Url(r) # 0 /\ Line!PortMatches(Line!Found(r))
             to == IF Line!Url(r) # 0 /\ Line!Found(r) # "none" THEN "health" ELSE "list"
  <2>1. lineReq' = [lineReq EXCEPT ![r] = [q EXCEPT !.pc = to, !.ok = ok]] /\ Same
    BY <1>8 DEF Line!ReadTunnel, Line!account, Line!network, Line!Go
  <2>2. ok \in BOOLEAN /\ to \in {"health", "list"}
    BY DEF Line!Signed, Line!PortMatches
  <2> HIDE DEF ok, to
  <2>3. ReqOK([q EXCEPT !.pc = to, !.ok = ok], Line!Bought)
    BY <1>1, <1>8, <2>2 DEF ReqOK, LineReqs, LineStages, Staged, Line!ReadTunnel
  <2> QED BY <1>4, <2>1, <2>3, GoTyped DEF Line!Go
<1>9. CASE Line!Health(r)
  <2>1. q \in LineReqs /\ q.pc = "health" /\ q.op \in {"start", "status"} /\ Same
    BY <1>1, <1>9 DEF ReqOK, LineReqs, Staged, Line!Health, Line!account, Line!network
  <2>2. PICK ok \in BOOLEAN :
          \/ q.op = "status" /\ Line!Go(r, [q EXCEPT !.pc = "list", !.ok = ok])
          \/ q.op = "start" /\ Line!Fail(r)
          \/ q.op = "start" /\ Line!Go(r, [q EXCEPT !.pc = "list"])
    <3>1. \A up \in BOOLEAN : (q.ok /\ up) \in BOOLEAN
      OBVIOUS
    <3> QED BY <1>9, <2>1, <3>1 DEF Line!Health
  <2>3. ReqOK([q EXCEPT !.pc = "list", !.ok = ok], Line!Bought)
    BY <1>1, <2>1 DEF ReqOK, LineReqs, LineStages, Staged
  <2>4. ReqOK([q EXCEPT !.pc = "list"], Line!Bought)
    BY <1>1, <2>1 DEF ReqOK, LineReqs, LineStages, Staged
  <2>5. ReqOK([q EXCEPT !.pc = "done", !.ok = FALSE], Line!Bought)
    BY <1>5, <2>1
  <2>6. ReqsTyped'
    BY <2>1, <2>2, <2>3, <2>4, <2>5, GoTyped DEF Line!Fail
  <2> QED BY <1>4, <2>1, <2>6
<1>10. CASE Line!ListNumbers(r)
  <2>1. Line!Real \subseteq Line!Ids /\ Line!Real \subseteq Line!Bought
    BY DEF Line!Real, StoreTyped
  <2>2. PICK new \in {[q EXCEPT !.pc = "each", !.todo = Line!Real, !.listed = Line!Real,
                                !.ok = q.ok /\ (q.op = "start" \/ Line!Real # {})],
                      [q EXCEPT !.pc = "done", !.ok = FALSE]} : Line!Go(r, new)
    BY <1>1, <1>10 DEF Line!ListNumbers, Line!Fail, ReqOK, LineReqs
  <2>3. q.pc = "list" /\ Same
    BY <1>10 DEF Line!ListNumbers, Line!account, Line!network
  <2>4. /\ ReqOK([q EXCEPT !.pc = "each", !.todo = Line!Real, !.listed = Line!Real,
                           !.ok = q.ok /\ (q.op = "start" \/ Line!Real # {})], Line!Bought)
        /\ ReqOK([q EXCEPT !.pc = "done", !.ok = FALSE], Line!Bought)
    BY <1>1, <2>1, <2>3 DEF ReqOK, LineReqs, LineStages, Staged
  <2> QED BY <1>4, <2>2, <2>3, <2>4, GoTyped
<1>11. CASE Line!EachNumber(r)
  <2>1. q.pc = "each" /\ agent' = agent /\ tunnel' = tunnel
    BY <1>11 DEF Line!EachNumber, Line!network
  <2>2. PICK s \in q.todo :
       \/ /\ q.op = "start" /\ Line!Owns(q.got, s)
          /\ bought' = [bought EXCEPT ![s] = [@ EXCEPT !.hook = Line!Url(r)]]
          /\ lineReq' = Line!Stirred(r, [q EXCEPT !.todo = q.todo \ {s}])
       \/ /\ Line!Go(r, [q EXCEPT !.todo = q.todo \ {s}, !.ok = q.ok /\ bought[s].hook = Line!Url(r)])
          /\ UNCHANGED bought
       \/ /\ Line!Go(r, [q EXCEPT !.todo = q.todo \ {s}, !.ok = FALSE])
          /\ UNCHANGED bought
    BY <1>1, <1>11 DEF Line!EachNumber, ReqOK, LineReqs
  <2>3. /\ ReqOK([q EXCEPT !.todo = q.todo \ {s}, !.ok = q.ok /\ bought[s].hook = Line!Url(r)], Line!Bought)
        /\ ReqOK([q EXCEPT !.todo = q.todo \ {s}, !.ok = FALSE], Line!Bought)
        /\ ReqOK([q EXCEPT !.todo = q.todo \ {s}], Line!Bought)
    BY <1>1, <2>1 DEF ReqOK, LineReqs, LineStages, Staged
  <2>4. CASE UNCHANGED bought
    BY <1>4, <2>1, <2>2, <2>3, <2>4, GoTyped, StirTyped DEF Line!Bought
  <2>5. CASE /\ Line!Owns(q.got, s)
             /\ bought' = [bought EXCEPT ![s] = [@ EXCEPT !.hook = Line!Url(r)]]
             /\ lineReq' = Line!Stirred(r, [q EXCEPT !.todo = q.todo \ {s}])
    <3>1. s \in 1..Len(bought) /\ Line!Url(r) \in Line!Value
      BY <1>1, <2>5 DEF Line!Owns, Line!Live, Line!Bought, Line!Url, ReqOK, LineReqs, Line!Field
    <3>2. [bought[s] EXCEPT !.hook = Line!Url(r)] \in Line!Purchase
      <4>1. bought[s] \in Line!Purchase
        BY <3>1, ElementOfSeq DEF StoreTyped
      <4> QED BY <3>1, <4>1 DEF Line!Purchase
    <3>3. bought' \in Seq(Line!Purchase) /\ Len(bought') = Len(bought)
      BY <2>5, <3>1, <3>2, ExceptSeq DEF StoreTyped
    <3>4. Line!Bought' = Line!Bought
      BY <3>3 DEF Line!Bought
    <3>5. ReqsTyped'
      BY <2>3, <2>5, <3>4, StirTyped
    <3> QED BY <1>2, <1>3, <2>1, <3>3, <3>4, <3>5 DEF StoreTyped
  <2> QED BY <2>2, <2>4, <2>5
<1>12. CASE Line!EachDone(r) \/ Line!Answer(r)
  <2>1. ReqOK([q EXCEPT !.pc = "done"], Line!Bought) \/ q.pc = "done"
    BY <1>1, <1>12 DEF ReqOK, LineReqs, LineStages, Staged, Line!EachDone, Line!Answer
  <2> QED BY <1>4, <1>12, <2>1, GoTyped, IdleTyped DEF Line!EachDone, Line!Answer, Line!account, Line!network
<1> QED BY <1>6, <1>7, <1>8, <1>9, <1>10, <1>11, <1>12 DEF Line!SystemStep

\* the steps of no request in particular
LineEvents == Line!Restart \/ Line!Network \/ (\E p \in Props : Line!Gone(p)) \/ UNCHANGED lineOnly

\* types: the network, the processes, a restart
LEMMA EventsTyped == ASSUME LineTyped, LineEvents PROVE LineTyped'
<1> USE DEF LineTyped
<1>1. UNCHANGED <<conf, row, bought, saves>>
  BY DEF LineEvents, Line!Restart, Line!Network, Line!Gone, Line!account, Line!budget, lineOnly
<1>2. Line!Bought' = Line!Bought
  BY <1>1 DEF Line!Bought
<1>3. SaveTyped'
  BY DEF LineEvents, Line!Restart, Line!Network, Line!Gone, lineOnly, SaveTyped
<1>4. ReqsTyped'
  <2>1. CASE lineReq' = lineReq
    BY <1>2, <2>1 DEF ReqsTyped
  <2>2. CASE lineReq' = [r \in Reqs |-> Line!Idle]
    <3>1. ReqOK(Line!Idle, Line!Bought)
      BY IdleTyped
    <3> QED BY <1>2, <2>2, <3>1 DEF ReqsTyped, ReqOK
  <2>3. CASE lineReq' = [r \in Reqs |-> Line!Uneasy(lineReq[r])]
    <3>1. \A r \in Reqs : ReqOK(lineReq'[r], Line!Bought)
      BY <2>3, UneasyTyped DEF ReqsTyped
    <3>2. lineReq' \in [Reqs -> LineReqs]
      <4>1. \A r \in Reqs : lineReq'[r] \in LineReqs
        BY <3>1 DEF ReqOK
      <4> HIDE DEF LineReqs
      <4> QED BY <2>3, <4>1
    <3> QED BY <1>2, <3>1, <3>2 DEF ReqsTyped
  <2> QED BY <2>1, <2>2, <2>3 DEF LineEvents, Line!Restart, Line!Network, Line!Gone, lineOnly
<1>5. behind' \subseteq Line!Field /\ cache' \in [Line!Field -> (Line!Value \ {0}) \cup {Line!Empty}] /\ agent' \in BOOLEAN
  BY DEF LineEvents, Line!Restart, Line!Network, Line!Gone, lineOnly, StoreTyped, Line!network
<1>6. tunnel' \in [Line!Value -> {"none", "right", "wrong"}]
  BY DEF LineEvents, Line!Restart, Line!Network, Line!Gone, lineOnly, StoreTyped, Line!network
<1>7. strays' \in Nat
  <2>1. CASE Line!Restart
    <3> DEFINE Stuck == {r \in Reqs : lineReq[r].pc \in {"write", "clear"} /\ lineReq[r].sid \in Line!Ids}
    <3>1. Stuck \in SUBSET Reqs /\ IsFiniteSet(Reqs)
      BY ListingAssumption
    <3>2. IsFiniteSet(Stuck)
      BY <3>1, FS_Subset
    <3>3. Cardinality(Stuck) \in Nat
      BY <3>2, FS_CardinalityType
    <3>4. strays' = strays + Cardinality(Stuck)
      BY <2>1, SameCount DEF Line!Restart
    <3> QED BY <3>3, <3>4 DEF StoreTyped
  <2>2. CASE Line!Network
    BY <2>2 DEF Line!Network, StoreTyped
  <2>3. CASE \E p \in Props : Line!Gone(p)
    BY <2>3 DEF Line!Gone, StoreTyped
  <2>4. CASE UNCHANGED lineOnly
    BY <2>4 DEF lineOnly, StoreTyped
  <2> QED BY <2>1, <2>2, <2>3, <2>4 DEF LineEvents
<1> QED BY <1>1, <1>2, <1>3, <1>4, <1>5, <1>6, <1>7 DEF StoreTyped
\* types of the phone line, at every step of the desk
LEMMA LineTypedStep == ASSUME LineTyped, DeskNext \/ UNCHANGED <<listVars, lineOnly>> PROVE LineTyped'
<1>1. CASE ListStep \/ UNCHANGED <<listVars, lineOnly>>
  <2>1. LineEvents
    BY <1>1 DEF ListStep, LineEvents
  <2> QED BY <2>1, EventsTyped
<1>2. CASE LineStep
  <2>1. CASE Line!Settings
    BY <2>1, SettingsTyped
  <2>2. CASE \E r \in Reqs : Line!Resolve(r) \/ Line!NumberStep(r) \/ Line!SystemStep(r)
    BY <2>2, ResolveTyped, BeginsTyped, MovesTyped, SystemTyped DEF Line!NumberStep, LineBegins, LineMoves
  <2>3. CASE Line!Restart \/ Line!Network
    BY <2>3, EventsTyped DEF LineEvents
  <2> QED BY <1>2, <2>1, <2>2, <2>3 DEF LineStep, Line!Next
<1> QED BY <1>1, <1>2 DEF DeskNext

\* types of the phone line, at the start
LEMMA LineTypedInit == ASSUME Line!Init PROVE LineTyped
<1>1. StoreTyped
  <2>1. <<>> \in Seq(Line!Purchase) /\ Len(<<>>) = 0
    OBVIOUS
  <2>2. [phone |-> Line!NoNum, sid |-> Line!NoSid] \in Line!Row
    BY NotBought DEF Line!Row, Sids
  <2>3. conf \in [Line!Field -> Line!Value]
    BY LineAssumption DEF Line!PhoneLineAssumption, Line!Init
  <2>4. cache \in [Line!Field -> (Line!Value \ {0}) \cup {Line!Empty}]
    BY DEF Line!Init
  <2>5. row \in [Props -> Line!Row] /\ \A p \in Props : row[p].sid \notin Line!Ids
    BY <2>2, NotBought DEF Line!Init
  <2>6. bought \in Seq(Line!Purchase) /\ Len(bought) <= MaxBought
    BY <2>1, LineAssumption DEF Line!PhoneLineAssumption, Line!Init
  <2>7. agent \in BOOLEAN /\ tunnel \in [Line!Value -> {"none", "right", "wrong"}]
    BY DEF Line!Init
  <2> QED BY <2>3, <2>4, <2>5, <2>6, <2>7 DEF Line!Init, StoreTyped
<1>2. ReqsTyped
  <2>1. ReqOK(Line!Idle, Line!Bought)
    BY IdleTyped
  <2> QED BY <2>1 DEF Line!Init, ReqsTyped, ReqOK
<1> QED BY <1>1, <1>2 DEF LineTyped, SaveTyped, Line!Init

-----------------------------------------------------------------------------
(* The cache of the settings                                               *)

Behind(q) == q.pc = "fill" /\ q.read # Line!Effective(Head(q.need)) => Head(q.need) \in behind
CacheBehind == Line!StaleOnlyByRace /\ \A r \in Reqs : Behind(lineReq[r])

\* settings saved one field at a time leave only the raced fields behind
LEMMA CacheSettings == ASSUME LineTyped, CacheBehind, Line!Settings PROVE CacheBehind'
<1>1. lineReq' = lineReq
  BY DEF Line!Settings, Line!SaveBegin, Line!SaveField, Line!SaveFails, Line!SaveEnds, Line!Expire
<1>2. \A r \in Reqs : lineReq[r].pc = "fill" => Head(lineReq[r].need) \in Line!Pending \cap Line!Field
  <2> SUFFICES ASSUME NEW r \in Reqs, lineReq[r].pc = "fill" PROVE Head(lineReq[r].need) \in Line!Pending \cap Line!Field
    OBVIOUS
  <2>1. Head(lineReq[r].need) \in Line!Pending
    BY DEF Line!Pending
  <2>2. lineReq[r].need \in Seq(Line!Field) /\ lineReq[r].need # <<>>
    BY DEF LineTyped, ReqsTyped, ReqOK, Staged, LineReqs
  <2> QED BY <2>1, <2>2
<1>3. CASE Line!SaveBegin
  BY <1>1, <1>3 DEF Line!SaveBegin, CacheBehind, Behind, Line!StaleOnlyByRace, Line!Effective, Line!NoSave, SaveTyped, LineTyped, Saving
<1>4. CASE Line!SaveField
  <2>1. PICK k \in save.left :
          /\ conf' = [conf EXCEPT ![k] = save.form[k]]
          /\ save' = [save EXCEPT !.left = @ \ {k}, !.done = @ \cup {k}]
          /\ behind' = behind \cup ({k} \cap Line!Pending)
    BY <1>4 DEF Line!SaveField
  <2>2. save'.done = save.done \cup {k}
    <3>1. save # Line!NoSave
      BY <1>4 DEF Line!SaveField, Line!NoSave
    <3> QED BY <2>1, <3>1 DEF LineTyped, SaveTyped, Saving
  <2>3. \A f \in Line!Field \ {k} : Line!Effective(f)' = Line!Effective(f)
    BY <2>1 DEF Line!Effective, LineTyped, StoreTyped
  <2>4. Line!StaleOnlyByRace'
    BY <1>4, <2>1, <2>2, <2>3 DEF Line!SaveField, CacheBehind, Line!StaleOnlyByRace
  <2>5. ASSUME NEW r \in Reqs PROVE Behind(lineReq[r])'
    <3> DEFINE h == Head(lineReq[r].need)
    <3> SUFFICES ASSUME lineReq[r].pc = "fill", lineReq[r].read # Line!Effective(h)' PROVE h \in behind'
      BY <1>1 DEF Behind
    <3>1. CASE h = k
      BY <1>2, <2>1, <3>1
    <3>2. CASE h # k
      <4>1. Line!Effective(h)' = Line!Effective(h)
        BY <1>1, <1>2, <2>1, <3>2 DEF Line!Effective, LineTyped, StoreTyped
      <4> QED BY <2>1, <4>1 DEF CacheBehind, Behind
    <3> QED BY <3>1, <3>2
  <2> QED BY <2>4, <2>5 DEF CacheBehind
<1>5. CASE Line!SaveFails
  <2>1. \A f : Line!Effective(f)' = Line!Effective(f)
    BY <1>5 DEF Line!SaveFails, Line!Effective
  <2> QED BY <1>1, <1>5, <2>1 DEF Line!SaveFails, CacheBehind, Behind, Line!StaleOnlyByRace, Line!Effective
<1>6. CASE Line!SaveEnds
  BY <1>1, <1>2, <1>6 DEF Line!SaveEnds, CacheBehind, Behind, Line!StaleOnlyByRace, Line!Effective
<1>7. CASE \E f \in Line!Field : Line!Expire(f)
  <2>1. PICK f \in Line!Field : Line!Expire(f)
    BY <1>7
  <2>2. \A k \in Line!Field \ {f} : cache'[k] = cache[k]
    BY <2>1 DEF Line!Expire, LineTyped, StoreTyped
  <2>3. cache'[f] = Line!Empty
    BY <2>1 DEF Line!Expire, LineTyped, StoreTyped
  <2> QED BY <1>1, <1>2, <2>1, <2>2, <2>3 DEF Line!Expire, CacheBehind, Behind, Line!StaleOnlyByRace, Line!Effective
<1> QED BY <1>3, <1>4, <1>5, <1>6, <1>7 DEF Line!Settings

\* a read that fills the cache late is recorded as a race
LEMMA CacheResolve == ASSUME LineTyped, CacheBehind, NEW r \in Reqs, Line!Resolve(r) PROVE CacheBehind'
<1> DEFINE q == lineReq[r]
           f == Head(q.need)
<1>1. UNCHANGED <<conf, save, behind>>
  BY DEF Line!Resolve, Line!ResolveCached, Line!ResolveRead, Line!ResolveFill
<1>2. q \in LineReqs /\ q.need \in Seq(Line!Field) /\ q.need # <<>> /\ f \in Line!Field
  <2>1. q \in LineReqs /\ q.need \in Seq(Line!Field) /\ q.need # <<>>
    BY DEF LineTyped, ReqsTyped, ReqOK, Staged, LineReqs, Line!Resolve, Line!ResolveCached, Line!ResolveRead, Line!ResolveFill
  <2> QED BY <2>1
<1>4. PICK new : lineReq' = [lineReq EXCEPT ![r] = new] /\ (new.pc # "fill" \/ (new.need = q.need /\ new.read = Line!Effective(f)))
  <2>1. ASSUME NEW v PROVE Line!Got(q, v).pc # "fill"
    BY <1>2 DEF LineReqs, Line!Got, Line!Next1, ReqsTyped, LineTyped, ReqOK, Staged,
       Line!Resolve, Line!ResolveCached, Line!ResolveRead, Line!ResolveFill
  <2>2. CASE Line!ResolveCached(r) \/ Line!ResolveFill(r)
    BY <2>1, <2>2 DEF Line!ResolveCached, Line!ResolveFill, Line!Go
  <2>3. CASE Line!ResolveRead(r)
    <3> DEFINE new == [q EXCEPT !.pc = "fill", !.read = Line!Effective(f)]
    <3>1. new.need = q.need /\ new.read = Line!Effective(f)
      BY <1>2 DEF LineReqs
    <3>2. lineReq' = [lineReq EXCEPT ![r] = new]
      BY <2>3 DEF Line!ResolveRead, Line!Go
    <3> HIDE DEF new
    <3> QED BY <3>1, <3>2
  <2> QED BY <2>2, <2>3 DEF Line!Resolve
<1>5. \A x \in Reqs : Behind(lineReq[x])'
  BY <1>1, <1>4 DEF CacheBehind, Behind, LineTyped, ReqsTyped, Line!Effective
<1>6. Line!StaleOnlyByRace'
  <2>1. CASE cache' = cache
    BY <1>1, <2>1 DEF CacheBehind, Line!StaleOnlyByRace, Line!Effective
  <2>2. CASE q.pc = "fill" /\ cache' = [cache EXCEPT ![f] = q.read]
    <3>1. q.read # Line!Effective(f) => f \in behind
      BY <2>2 DEF CacheBehind, Behind
    <3> QED BY <1>1, <1>2, <2>2, <3>1 DEF CacheBehind, Line!StaleOnlyByRace, Line!Effective, LineTyped, StoreTyped
  <2> QED BY <2>1, <2>2 DEF Line!Resolve, Line!ResolveCached, Line!ResolveRead, Line!ResolveFill
<1> QED BY <1>5, <1>6 DEF CacheBehind
\* but for being calm, a request is what it was
Alike(q, new) == /\ new.op = q.op /\ new.p = q.p /\ new.n = q.n /\ new.pc = q.pc /\ new.need = q.need
                 /\ new.read = q.read /\ new.got = q.got /\ new.sid = q.sid /\ new.todo = q.todo
                 /\ new.listed = q.listed /\ new.ok = q.ok /\ (new.calm => q.calm)

\* a request's step leaves the other requests as they are
LEMMA GoLeaves == ASSUME ReqsTyped, NEW r \in Reqs, NEW new, Line!Go(r, new)
  PROVE  lineReq'[r] = new /\ \A x \in Reqs \ {r} : lineReq'[x] = lineReq[x] /\ Alike(lineReq[x], lineReq'[x])
BY DEF Line!Go, ReqsTyped, Alike

\* a request disturbed has what it had read
LEMMA UneasyAlike == ASSUME NEW q \in LineReqs
  PROVE  Alike(q, Line!Uneasy(q)) /\ (q.op \in {"start", "status"} => ~Line!Uneasy(q).calm)
BY DEF Line!Uneasy, LineReqs, Alike

\* as GoLeaves, when the step disturbs the others
LEMMA StirLeaves == ASSUME ReqsTyped, NEW r \in Reqs, NEW new, lineReq' = Line!Stirred(r, new)
  PROVE  /\ lineReq'[r] = new
         /\ \A x \in Reqs \ {r} : /\ Alike(lineReq[x], lineReq'[x])
                                  /\ lineReq[x].op \in {"start", "status"} => ~lineReq'[x].calm
BY UneasyAlike DEF Line!Stirred, ReqsTyped

\* a step that leaves the settings alone leaves the cache as current as it was
LEMMA CacheKept ==
  ASSUME CacheBehind, UNCHANGED <<conf, cache, save, behind>>,
         \A x \in Reqs : lineReq'[x].pc = "fill" => Alike(lineReq[x], lineReq'[x])
  PROVE  CacheBehind'
BY DEF CacheBehind, Line!StaleOnlyByRace, Line!Effective, Behind, Alike

\* the cache, at a request's step
LEMMA CacheReqs == ASSUME LineTyped, CacheBehind, NEW r \in Reqs, LineBegins(r) \/ LineMoves(r) \/ Line!SystemStep(r)
  PROVE  CacheBehind'
<1> USE DEF LineTyped
<1> DEFINE q == lineReq[r]
<1>1. q \in LineReqs
  BY DEF ReqsTyped, ReqOK
<1>2. UNCHANGED <<conf, cache, save, behind>>
  BY DEF LineBegins, LineMoves, Line!SystemStep, Line!Begin, Line!Refused, Line!Look, Line!LookGiven, Line!Passed, Line!Place,
     Line!Buy, Line!Write, Line!Remove, Line!Clear, Line!EnsureTunnel, Line!WaitTunnel, Line!ReadTunnel, Line!Health,
     Line!ListNumbers, Line!EachNumber, Line!EachDone, Line!Answer
<1>3. PICK new : new.pc # "fill" /\ (Line!Go(r, new) \/ lineReq' = Line!Stirred(r, new))
  <2>1. Line!Idle.pc # "fill"
    BY DEF Line!Idle
  <2>2. CASE Line!Begin(r)
    BY <2>2 DEF Line!Begin, Line!Idle
  <2>3. CASE Line!Refused(r) \/ Line!Look(r) \/ Line!LookGiven(r) \/ Line!Place(r)
    BY <1>1, <2>1, <2>3 DEF Line!Refused, Line!Look, Line!LookGiven, Line!Place, LineReqs
  <2>4. CASE Line!Buy(r)
    BY <1>1, <2>1, <2>4 DEF Line!Buy, LineReqs
  <2>5. CASE Line!Write(r) \/ Line!Clear(r)
    BY <2>1, <2>5 DEF Line!Write, Line!Clear
  <2>6. CASE Line!Remove(r)
    BY <1>1, <2>6 DEF Line!Remove, LineReqs
  <2>7. CASE Line!EnsureTunnel(r)
    BY <1>1, <2>7 DEF Line!EnsureTunnel, LineReqs, Line!Fail
  <2>8. CASE Line!WaitTunnel(r) \/ Line!ReadTunnel(r)
    BY <1>1, <2>8 DEF Line!WaitTunnel, Line!ReadTunnel, LineReqs, Line!Fail
  <2>9. CASE Line!Health(r)
    BY <1>1, <2>9 DEF Line!Health, LineReqs, Line!Fail
  <2>10. CASE Line!ListNumbers(r)
    BY <1>1, <2>10 DEF Line!ListNumbers, LineReqs, Line!Fail
  <2>11. CASE Line!EachNumber(r)
    BY <1>1, <2>11 DEF Line!EachNumber, LineReqs
  <2>12. CASE Line!EachDone(r) \/ Line!Answer(r)
    BY <1>1, <2>1, <2>12 DEF Line!EachDone, Line!Answer, LineReqs
  <2> QED BY <2>2, <2>3, <2>4, <2>5, <2>6, <2>7, <2>8, <2>9, <2>10, <2>11, <2>12 DEF LineBegins, LineMoves, Line!SystemStep
<1>4. lineReq'[r] = new /\ \A x \in Reqs \ {r} : Alike(lineReq[x], lineReq'[x])
  BY <1>3, GoLeaves, StirLeaves
<1> QED BY <1>2, <1>3, <1>4, CacheKept

\* the cache, at an event from outside
LEMMA CacheEvents == ASSUME LineTyped, CacheBehind, LineEvents PROVE CacheBehind'
<1>1. CASE Line!Restart
  BY <1>1 DEF Line!Restart, CacheBehind, Line!StaleOnlyByRace, Behind, Line!Idle
<1>2. CASE ~Line!Restart
  <2>1. UNCHANGED <<conf, cache, save, behind>>
    BY <1>2 DEF LineEvents, Line!Network, Line!Gone, lineOnly
  <2>2. \A x \in Reqs : lineReq'[x] = lineReq[x] \/ lineReq'[x] = Line!Uneasy(lineReq[x])
    BY <1>2 DEF LineEvents, Line!Network, Line!Gone, lineOnly
  <2>3. \A x \in Reqs : Alike(lineReq[x], lineReq'[x])
    BY <2>2, UneasyAlike DEF LineTyped, ReqsTyped, Alike
  <2> QED BY <2>1, <2>3, CacheKept
<1> QED BY <1>1, <1>2

\* the cache, at every step of the desk
LEMMA CacheStep == ASSUME LineTyped, CacheBehind, DeskNext \/ UNCHANGED <<listVars, lineOnly>> PROVE CacheBehind'
<1>1. CASE ListStep \/ UNCHANGED <<listVars, lineOnly>>
  <2>1. LineEvents
    BY <1>1 DEF ListStep, LineEvents
  <2> QED BY <2>1, CacheEvents
<1>2. CASE LineStep
  <2>1. CASE Line!Settings
    BY <2>1, CacheSettings
  <2>2. CASE \E r \in Reqs : Line!Resolve(r) \/ Line!NumberStep(r) \/ Line!SystemStep(r)
    BY <2>2, CacheResolve, CacheReqs DEF Line!NumberStep, LineBegins, LineMoves
  <2>3. CASE Line!Restart \/ Line!Network
    BY <2>3, CacheEvents DEF LineEvents
  <2> QED BY <1>2, <2>1, <2>2, <2>3 DEF LineStep, Line!Next
<1> QED BY <1>1, <1>2 DEF DeskNext

\* The cache of the dashboard's process differs from the settings only while a save is under way, after
\* one that failed half-way, or for a value that was being read while it was overwritten
\* (resolveConfig and its cache, config-resolver.ts).
THEOREM CacheIsBehindOnlyByRace == DeskSpec => []StaleOnlyByRace
<1>1. DeskInit => LineTyped /\ CacheBehind
  <2> SUFFICES ASSUME Line!Init PROVE LineTyped /\ CacheBehind
    BY DEF DeskInit
  <2>1. \A r \in Reqs : lineReq[r].pc # "fill"
    BY DEF Line!Init, Line!Idle
  <2>2. \A f \in Line!Field : cache[f] = Line!Empty
    BY DEF Line!Init
  <2> QED BY <2>1, <2>2, LineTypedInit DEF CacheBehind, Line!StaleOnlyByRace, Behind
<1>2. LineTyped /\ CacheBehind /\ [DeskNext]_<<listVars, lineOnly>> => (LineTyped /\ CacheBehind)'
  BY LineTypedStep, CacheStep
<1>3. LineTyped /\ CacheBehind => StaleOnlyByRace
  BY DEF CacheBehind, StaleOnlyByRace
<1> QED BY <1>1, <1>2, <1>3, PTL DEF DeskSpec

-----------------------------------------------------------------------------
(* The pages and requests of a property: types                             *)

Question == [order : Nat, std : BOOLEAN]
Property == [st : {"none", "live", "gone"}, photos : Nat, made : 0..MaxQuest, draft : BOOLEAN, tied : BOOLEAN]
Pages == [at : Page, p : Props \cup {None}, qs : Seq(1..MaxQuest), active : BOOLEAN]
ListReqs ==
  [op : Op \cup {"none"}, p : Props \cup {None}, t : Tabs \cup {None},
   pc : {"idle", "look", "insert", "answer", "commit", "questions", "photos", "row"},
   n : Nat, q : 0..MaxQuest, std : BOOLEAN, left : Nat, list : Seq(1..MaxQuest)]

\* which steps a request of each kind goes through
Steps(q) ==
  \/ q.op = "none" /\ q.pc = "idle" /\ q.t = None
  \/ q.op = "create" /\ q.pc \in {"look", "insert"} /\ q.p = None
  \/ q.op = "photo" /\ q.pc \in {"look", "insert"} /\ q.p \in Props
  \/ q.op = "add" /\ q.pc \in {"look", "insert", "answer"} /\ q.p \in Props
  \/ q.op = "reorder" /\ q.pc \in {"look", "commit"} /\ q.p \in Props
  \/ q.op = "drop" /\ q.pc \in {"look", "answer"} /\ q.p \in Props
  \/ q.op = "delete" /\ q.pc \in {"look", "questions", "photos", "row"} /\ q.p \in Props

OfProperty == {"detail", "editor", "phone", "questions"}
RowOK(p) ==
  /\ DOMAIN quest[p] \subseteq 1..prop[p].made /\ quest[p] \in [DOMAIN quest[p] -> Question]
  /\ prop[p].st = "none" => prop[p].made = 0

PropsTyped == prop \in [Props -> Property] /\ quest = [p \in Props |-> quest[p]] /\ \A p \in Props : RowOK(p)
TabsTyped == tab \in [Tabs -> Pages] /\ \A t \in Tabs : tab[t].at \in OfProperty => tab[t].p \in Props
ListReqsTyped ==
  /\ req \in [Reqs -> ListReqs]
  /\ \A r \in Reqs : Steps(req[r]) /\ (req[r].pc = "answer" => req[r].q \in 1..MaxQuest)
RestTyped == active \in [Props -> BOOLEAN] /\ crowd \in [Props \cup {None} -> Nat] /\ listCast \in ListCasts
ListTyped == PropsTyped /\ TabsTyped /\ ListReqsTyped /\ RestTyped

\* the caps, with the requests that will use them up
CapsInv ==
  /\ Cardinality(Live) + Cardinality(Past("create", None, "insert")) <= listCast.limit + crowd[None]
  /\ \A p \in Props : prop[p].photos + Cardinality(Past("photo", p, "insert")) <= MaxPhotos + crowd[p]

\* a sure draft is one, and nothing that got past its check deletes its property
DraftInv ==
  \A p \in sure : /\ p \in Props /\ p \in Live /\ Whole(p) /\ prop[p].draft
                  /\ \A r \in Reqs : req[r].op = "delete" /\ req[r].p = p => req[r].pc = "look"

NoRepeat(s) == \A i, j \in 1..Len(s) : s[i] = s[j] => i = j

\* a page shows questions there were, each once, and answers to it add others
SheetOK(t) ==
  /\ NoRepeat(tab[t].qs)
  /\ tab[t].p \in Props => prop[tab[t].p].st # "none"
  /\ tab[t].p \in Live => Listed(tab[t].qs) \subseteq 1..prop[tab[t].p].made
Adds(q) == q.t # None /\ q.op = "add"
AddsOK(r) == Adds(req[r]) =>
  /\ tab[req[r].t].at \in {"editor", "questions"} /\ tab[req[r].t].p = req[r].p
  /\ req[r].pc = "answer" => req[r].q \notin Listed(tab[req[r].t].qs)
  /\ \A x \in Reqs \ {r} : Adds(req[x]) => req[x].t # req[r].t
Creates(q) == q.t # None /\ q.op = "create"
CreatesOK(r) == Creates(req[r]) =>
  /\ tab[req[r].t].at \in {"list", "first"}
  /\ \A x \in Reqs \ {r} : Creates(req[x]) => req[x].t # req[r].t
AskedOK(r) ==
  /\ req[r].p \in Props => prop[req[r].p].st # "none"
  /\ req[r].op = "reorder" => NoRepeat(req[r].list)
  /\ req[r].op = "add" /\ req[r].pc = "answer" /\ req[r].p \in Live => req[r].q <= prop[req[r].p].made
PageInv ==
  /\ \A t \in Tabs : SheetOK(t)
  /\ \A r \in Reqs : AddsOK(r) /\ CreatesOK(r) /\ AskedOK(r)

\* orders are below the number of questions ever made; unless the property is mixed, they differ
\* and the one question about to be added comes after them
Adding(q) == q.op = "add" /\ q.pc = "insert"
RowsOrdered(p) == prop[p].st # "gone" => \A q \in Rows(p) : quest[p][q].order < prop[p].made
Apart(p) == p \notin mixed => \A a, b \in Rows(p) : a # b => quest[p][a].order # quest[p][b].order
AddingOK(r) == Adding(req[r]) =>
  /\ prop[req[r].p].st = "live" => req[r].n <= prop[req[r].p].made
  /\ req[r].p \notin mixed =>
       /\ \A q \in Rows(req[r].p) : quest[req[r].p][q].order < req[r].n
       /\ \A x \in Reqs \ {r} : Adding(req[x]) => req[x].p # req[r].p
OrderInv ==
  /\ \A p \in Props : RowsOrdered(p) /\ Apart(p)
  /\ \A r \in Reqs : AddingOK(r)

-----------------------------------------------------------------------------
(* Lists of questions                                                      *)

LEMMA CutFacts ==
  ASSUME NEW S, NEW s \in Seq(S), NEW i \in 1..Len(s)
  PROVE  /\ Cut(s, i) \in Seq(S) /\ Len(Cut(s, i)) = Len(s) - 1
         /\ \A k \in 1..(Len(s) - 1) : Cut(s, i)[k] = IF k < i THEN s[k] ELSE s[k + 1]
<1> DEFINE a == SubSeq(s, 1, i - 1)
           b == SubSeq(s, i + 1, Len(s))
<1>1. Len(s) \in Nat /\ \A k \in 1..Len(s) : s[k] \in S
  BY ElementOfSeq, LenProperties
<1>2. a \in Seq(S) /\ Len(a) = i - 1 /\ \A k \in 1..(i - 1) : a[k] = s[k]
  <2>1. \A k \in 1..(i - 1) : s[k] \in S
    BY <1>1
  <2> QED BY <1>1, <2>1, SubSeqProperties
<1>3. b \in Seq(S) /\ Len(b) = Len(s) - i /\ \A k \in 1..(Len(s) - i) : b[k] = s[i + k]
  <2>1. \A k \in (i + 1)..Len(s) : s[k] \in S
    BY <1>1
  <2>2. /\ b \in Seq(S)
        /\ Len(b) = IF i + 1 <= Len(s) THEN Len(s) - (i + 1) + 1 ELSE 0
        /\ \A k \in 1..(Len(s) - (i + 1) + 1) : b[k] = s[(i + 1) + k - 1]
    BY <1>1, <2>1, SubSeqProperties
  <2> QED BY <1>1, <2>2
<1> HIDE DEF a, b
<1>4. /\ a \o b \in Seq(S) /\ Len(a \o b) = Len(a) + Len(b)
      /\ \A k \in 1..(Len(a) + Len(b)) : (a \o b)[k] = IF k <= Len(a) THEN a[k] ELSE b[k - Len(a)]
  BY <1>2, <1>3, ConcatProperties
<1>5. Cut(s, i) = a \o b
  BY DEF Cut, a, b
<1>6. ASSUME NEW k \in 1..(Len(s) - 1) PROVE (a \o b)[k] = IF k < i THEN s[k] ELSE s[k + 1]
  <2>1. CASE k < i
    BY <1>1, <1>2, <1>3, <1>4, <2>1
  <2>2. CASE ~(k < i)
    <3>1. k - (i - 1) \in 1..(Len(s) - i) /\ i + (k - (i - 1)) = k + 1
      BY <1>1, <2>2
    <3>2. b[k - (i - 1)] = s[k + 1]
      BY <1>3, <3>1
    <3>3. (a \o b)[k] = b[k - (i - 1)]
      BY <1>1, <1>2, <1>3, <1>4, <2>2
    <3> QED BY <2>2, <3>2, <3>3
  <2> QED BY <2>1, <2>2
<1> QED BY <1>1, <1>2, <1>3, <1>4, <1>5, <1>6

\* a list without one of its places keeps the rest, without repeats
LEMMA CutKeeps ==
  ASSUME NEW S, NEW s \in Seq(S), NEW i \in 1..Len(s), NoRepeat(s)
  PROVE  /\ NoRepeat(Cut(s, i)) /\ Listed(Cut(s, i)) \subseteq Listed(s) \ {s[i]}
<1> DEFINE at(k) == IF k < i THEN k ELSE k + 1
<1>1. Len(s) \in Nat
  BY LenProperties
<1>2. \A k \in 1..(Len(s) - 1) : at(k) \in 1..Len(s) /\ at(k) # i /\ Cut(s, i)[k] = s[at(k)]
  BY <1>1, CutFacts
<1>3. \A k, l \in 1..(Len(s) - 1) : at(k) = at(l) => k = l
  BY <1>1
<1>4. Len(Cut(s, i)) = Len(s) - 1
  BY CutFacts
<1> HIDE DEF at
<1> QED BY <1>1, <1>2, <1>3, <1>4 DEF NoRepeat, Listed

\* a question dragged to another place: the list has the same questions, each once
LEMMA MovedKeeps ==
  ASSUME NEW S, NEW s \in Seq(S), NEW i \in 1..Len(s), NEW j \in 1..Len(s), NoRepeat(s)
  PROVE  /\ Moved(s, i, j) \in Seq(S) /\ NoRepeat(Moved(s, i, j)) /\ Listed(Moved(s, i, j)) \subseteq Listed(s)
<1> DEFINE rest == Cut(s, i)
           a == SubSeq(rest, 1, j - 1)
           x == <<s[i]>>
           b == SubSeq(rest, j, Len(rest))
<1>1. /\ Len(s) \in Nat /\ rest \in Seq(S) /\ Len(rest) = Len(s) - 1 /\ s[i] \in S
      /\ \A k \in 1..(Len(s) - 1) : rest[k] \in S
  <2>1. rest \in Seq(S) /\ Len(rest) = Len(s) - 1
    BY CutFacts
  <2> QED BY <2>1, ElementOfSeq, LenProperties
<1>2. NoRepeat(rest) /\ Listed(rest) \subseteq Listed(s) \ {s[i]}
  BY CutKeeps
<1> HIDE DEF rest
<1>3. a \in Seq(S) /\ Len(a) = j - 1 /\ \A k \in 1..(j - 1) : a[k] = rest[k]
  <2>1. \A k \in 1..(j - 1) : rest[k] \in S
    BY <1>1
  <2> QED BY <1>1, <2>1, SubSeqProperties
<1>4. b \in Seq(S) /\ Len(b) = Len(s) - j /\ \A k \in 1..(Len(s) - j) : b[k] = rest[j + k - 1]
  <2>1. \A k \in j..Len(rest) : rest[k] \in S
    BY <1>1
  <2>2. /\ b \in Seq(S)
        /\ Len(b) = IF j <= Len(rest) THEN Len(rest) - j + 1 ELSE 0
        /\ \A k \in 1..(Len(rest) - j + 1) : b[k] = rest[j + k - 1]
    BY <1>1, <2>1, SubSeqProperties
  <2> QED BY <1>1, <2>2
<1>5. x \in Seq(S) /\ Len(x) = 1 /\ x[1] = s[i]
  BY <1>1
<1> HIDE DEF a, b, x
<1>6. /\ a \o x \in Seq(S) /\ Len(a \o x) = j
      /\ \A k \in 1..j : (a \o x)[k] = IF k < j THEN rest[k] ELSE s[i]
  <2>1. /\ a \o x \in Seq(S) /\ Len(a \o x) = Len(a) + Len(x)
        /\ \A k \in 1..(Len(a) + Len(x)) : (a \o x)[k] = IF k <= Len(a) THEN a[k] ELSE x[k - Len(a)]
    BY <1>3, <1>5, ConcatProperties
  <2>2. ASSUME NEW k \in 1..j PROVE (a \o x)[k] = IF k < j THEN rest[k] ELSE s[i]
    <3>1. CASE k < j
      BY <1>1, <1>3, <1>5, <2>1, <3>1
    <3>2. CASE k = j
      <4>1. k - Len(a) = 1 /\ ~(k <= Len(a)) /\ k \in 1..(Len(a) + Len(x))
        BY <1>3, <1>5, <3>2
      <4>2. (a \o x)[k] = x[k - Len(a)]
        BY <2>1, <4>1
      <4>3. x[k - Len(a)] = s[i]
        BY <1>5, <4>1
      <4> QED BY <1>1, <3>2, <4>2, <4>3
    <3>3. k < j \/ k = j
      BY <1>1
    <3> QED BY <3>1, <3>2, <3>3, Zenon
  <2> QED BY <1>3, <1>5, <2>1, <2>2
<1> DEFINE y == a \o x
           m == y \o b
<1>7. m = Moved(s, i, j)
  BY DEF Moved, rest, a, b, x
<1> HIDE DEF y
<1>8. /\ m \in Seq(S) /\ Len(m) = Len(s)
      /\ \A k \in 1..Len(s) : m[k] = IF k < j THEN rest[k] ELSE IF k = j THEN s[i] ELSE rest[k - 1]
  <2>0. y \in Seq(S)
    BY <1>6 DEF y
  <2>1. /\ m \in Seq(S) /\ Len(m) = Len(y) + Len(b)
        /\ \A k \in 1..(Len(y) + Len(b)) : m[k] = IF k <= Len(y) THEN y[k] ELSE b[k - Len(y)]
    BY <1>4, <2>0, ConcatProperties
  <2>2. Len(y) = j /\ \A k \in 1..j : y[k] = IF k < j THEN rest[k] ELSE s[i]
    BY <1>6 DEF y
  <2> HIDE DEF m
  <2>3. ASSUME NEW k \in 1..Len(s) PROVE m[k] = IF k < j THEN rest[k] ELSE IF k = j THEN s[i] ELSE rest[k - 1]
    <3>1. CASE k <= j
      BY <1>1, <1>4, <2>1, <2>2, <3>1
    <3>2. CASE ~(k <= j)
      <4>1. k - j \in 1..(Len(s) - j) /\ j + (k - j) - 1 = k - 1
        BY <1>1, <3>2
      <4> QED BY <1>1, <1>4, <2>1, <2>2, <3>2, <4>1
    <3> QED BY <3>1, <3>2
  <2> QED BY <1>1, <1>4, <2>1, <2>2, <2>3
<1> HIDE DEF m
<1>9. \A k \in 1..(Len(s) - 1) : rest[k] # s[i] /\ rest[k] \in Listed(s)
  BY <1>1, <1>2 DEF Listed
<1>10. NoRepeat(m)
  <2> DEFINE at(k) == IF k < j THEN k ELSE k - 1
  <2>1. ASSUME NEW k \in 1..Len(s), k # j PROVE at(k) \in 1..(Len(s) - 1) /\ m[k] = rest[at(k)]
    <3>1. CASE k < j
      BY <1>1, <1>8, <3>1
    <3>2. CASE k > j
      BY <1>1, <1>8, <3>2
    <3> QED BY <1>1, <2>1, <3>1, <3>2
  <2>2. \A k, l \in 1..Len(s) : k # j /\ l # j /\ at(k) = at(l) => k = l
    BY <1>1
  <2>3. m[j] = s[i]
    BY <1>1, <1>8
  <2> HIDE DEF at
  <2>4. \A k \in 1..Len(s) : k # j => m[k] # s[i]
    BY <1>9, <2>1
  <2>5. \A k, l \in 1..Len(s) : k # j /\ l # j /\ m[k] = m[l] => at(k) = at(l)
    BY <1>1, <1>2, <2>1 DEF NoRepeat
  <2>6. \A k, l \in 1..Len(s) : m[k] = m[l] => k = l
    BY <2>2, <2>3, <2>4, <2>5
  <2> QED BY <1>8, <2>6 DEF NoRepeat
<1>11. Listed(m) \subseteq Listed(s)
  <2> SUFFICES ASSUME NEW k \in 1..Len(s) PROVE m[k] \in Listed(s)
    BY <1>8 DEF Listed
  <2>1. s[i] \in Listed(s)
    BY DEF Listed
  <2>2. k < j => k \in 1..(Len(s) - 1)
    BY <1>1
  <2>3. k > j => k - 1 \in 1..(Len(s) - 1)
    BY <1>1
  <2>4. CASE k < j
    BY <1>8, <1>9, <2>2, <2>4
  <2>5. CASE k = j
    BY <1>1, <1>8, <2>1, <2>5
  <2>6. CASE k > j
    <3>1. m[k] = rest[k - 1]
      BY <1>1, <1>8, <2>6
    <3> QED BY <1>9, <2>3, <2>6, <3>1
  <2> QED BY <1>1, <2>4, <2>5, <2>6
<1> QED BY <1>7, <1>8, <1>10, <1>11

\* a list without a deleted question
LEMMA WithoutKeeps ==
  ASSUME NEW S, NEW s \in Seq(S), NoRepeat(s), NEW q
  PROVE  Without(s, q) \in Seq(S) /\ NoRepeat(Without(s, q)) /\ Listed(Without(s, q)) \subseteq Listed(s)
<1>1. CASE q \in Listed(s)
  <2> DEFINE i == CHOOSE i \in 1..Len(s) : s[i] = q
  <2>1. i \in 1..Len(s) /\ Without(s, q) = Cut(s, i)
    BY <1>1 DEF Without, Listed
  <2> HIDE DEF i
  <2> QED BY <2>1, CutFacts, CutKeeps
<1>2. CASE q \notin Listed(s)
  BY <1>2 DEF Without
<1> QED BY <1>1, <1>2

\* a list with a new question at its end
LEMMA AppendKeeps ==
  ASSUME NEW S, NEW s \in Seq(S), NEW q \in S
  PROVE  /\ Append(s, q) \in Seq(S) /\ Listed(Append(s, q)) = Listed(s) \cup {q}
         /\ NoRepeat(s) /\ q \notin Listed(s) => NoRepeat(Append(s, q))
<1>1. Len(s) \in Nat
  BY LenProperties
<1>2. /\ Append(s, q) \in Seq(S) /\ Len(Append(s, q)) = Len(s) + 1
      /\ \A k \in 1..Len(s) : Append(s, q)[k] = s[k]
      /\ Append(s, q)[Len(s) + 1] = q
  BY AppendProperties
<1>3. \A k \in 1..(Len(s) + 1) : k \in 1..Len(s) \/ k = Len(s) + 1
  BY <1>1
<1> QED BY <1>1, <1>2, <1>3 DEF Listed, NoRepeat

\* a sorted list of a property's questions lists each of them once
LEMMA SortedFacts ==
  ASSUME PropsTyped, NEW p \in Props, NEW s \in Sorted(p)
  PROVE  s \in Seq(1..MaxQuest) /\ Listed(s) = Rows(p) /\ NoRepeat(s)
<1> DEFINE n == Cardinality(Rows(p))
<1>1. Rows(p) \subseteq 1..prop[p].made /\ prop[p].made \in 0..MaxQuest /\ MaxQuest \in Nat
  BY ListingAssumption DEF PropsTyped, RowOK, Rows, Property
<1>2. IsFiniteSet(Rows(p)) /\ n \in Nat
  <2>0. prop[p].made \in Int /\ 1 \in Int
    BY <1>1
  <2>1. IsFiniteSet(1..prop[p].made)
    BY <2>0, FS_Interval
  <2>2. IsFiniteSet(Rows(p))
    BY <1>1, <2>1, FS_Subset
  <2> QED BY <2>2, FS_CardinalityType
<1>3. s \in [1..n -> Rows(p)] /\ Listed(s) = Rows(p)
  BY DEF Sorted
<1> HIDE DEF n
<1>4. s \in Seq(1..MaxQuest) /\ Len(s) = n
  <2>1. s \in [1..n -> 1..MaxQuest]
    BY <1>1, <1>3
  <2>2. s \in Seq(1..MaxQuest)
    BY <1>2, <2>1, SeqDef
  <2>3. Len(s) \in Nat /\ 1..Len(s) = 1..n
    BY <1>3, <2>2, LenProperties
  <2>4. Len(s) = n
    BY <1>2, <2>3
  <2> QED BY <2>2, <2>4
<1>5. s \in Surjection(1..n, Rows(p))
  BY <1>3, <1>4 DEF Surjection, Listed
<1>6. IsFiniteSet(1..n) /\ Cardinality(1..n) = n
  BY <1>2, FS_Interval
<1>7. s \in Injection(1..n, Rows(p))
  BY <1>5, <1>6, FS_SurjSameCardinalityImpliesInj DEF n
<1>8. NoRepeat(s)
  BY <1>4, <1>7 DEF Injection, IsInjective, NoRepeat
<1> QED BY <1>3, <1>4, <1>8

ReqGood(q) == q \in ListReqs /\ Steps(q) /\ (q.pc = "answer" => q.q \in 1..MaxQuest)
PageGood(g) == g \in Pages /\ (g.at \in OfProperty => g.p \in Props)

\* a slot with no request in it is good
LEMMA IdleGood == ReqGood(Idle)
<1>1. <<>> \in Seq(1..MaxQuest)
  OBVIOUS
<1> QED BY <1>1, ListingAssumption DEF Idle, ReqGood, ListReqs, Steps, None

\* a tab that shows no property is good
LEMMA AwayGood == PageGood(Away)
<1>1. <<>> \in Seq(1..MaxQuest)
  OBVIOUS
<1> QED BY <1>1 DEF Away, PageGood, Pages, Page, OfProperty, None

\* a request that goes on to a good one leaves the requests good
LEMMA GoGood ==
  ASSUME ListReqsTyped, NEW r \in Reqs, NEW new, ReqGood(new), Go(r, new)
  PROVE  ListReqsTyped'
BY DEF ListReqsTyped, ReqGood, Go

\* a request whose page has gone is still good
LEMMA UnheardGood ==
  ASSUME ListReqsTyped, NEW t \in Tabs, req' = Unheard(t)
  PROVE  ListReqsTyped'
<1>1. ASSUME NEW r \in Reqs PROVE ReqGood(req'[r])
  BY DEF ListReqsTyped, Unheard, ReqGood, ListReqs, Steps
<1>2. req' \in [Reqs -> ListReqs]
  <2>1. \A r \in Reqs : req'[r] \in ListReqs
    BY <1>1 DEF ReqGood
  <2> HIDE DEF ListReqs
  <2> QED BY <2>1 DEF Unheard
<1> QED BY <1>1, <1>2 DEF ListReqsTyped, ReqGood

\* one tab changed, the tabs are good
LEMMA PageSet ==
  ASSUME TabsTyped, NEW t \in Tabs, NEW new, PageGood(new), tab' = [tab EXCEPT ![t] = new]
  PROVE  TabsTyped'
BY DEF TabsTyped, PageGood

\* one property changed, the properties are good
LEMMA PropSet ==
  ASSUME PropsTyped, NEW p \in Props, NEW new, new \in Property, prop' = [prop EXCEPT ![p] = new],
         new.made = prop[p].made, new.st = prop[p].st, quest' = quest
  PROVE  PropsTyped'
BY DEF PropsTyped, RowOK

\* types: what the landlord does on a page alone
LEMMA PagesTyped ==
  ASSUME ListTyped, NEW t \in Tabs,
         Open(t) \/ WizardQuestions(t) \/ WizardEnd(t) \/ Toggle(t)
  PROVE  ListTyped'
<1> USE DEF ListTyped
<1>1. UNCHANGED <<prop, quest, crowd, listCast>>
  BY DEF Open, WizardQuestions, WizardEnd, Toggle, store
<1>2. PropsTyped'
  BY <1>1 DEF PropsTyped, RowOK
<1>3. active' \in [Props -> BOOLEAN]
  <2>1. CASE Toggle(t)
    BY <2>1 DEF Toggle, RestTyped, TabsTyped, Pages
  <2>2. CASE ~Toggle(t)
    BY <2>2 DEF Open, WizardQuestions, WizardEnd, store, RestTyped
  <2> QED BY <2>1, <2>2
<1>4. ListReqsTyped'
  <2>1. req' = req \/ req' = Unheard(t)
    BY DEF Open, WizardQuestions, WizardEnd, Toggle
  <2>2. CASE req' = req
    BY <2>2 DEF ListReqsTyped
  <2> QED BY <2>1, <2>2, UnheardGood
<1>5. TabsTyped'
  <2>1. CASE Open(t)
    <3>1. PICK to \in [at : {"first"} \cup IF onboarded THEN {"list"} ELSE {}, p : {None}, qs : {<<>>}, active : {FALSE}]
                       \cup IF onboarded THEN UNION {Details(p) \cup Editors(p) : p \in Live} ELSE {} :
                 tab' = [tab EXCEPT ![t] = to]
      BY <2>1 DEF Open
    <3>2. <<>> \in Seq(1..MaxQuest)
      OBVIOUS
    <3>3. CASE to \in [at : {"first"} \cup IF onboarded THEN {"list"} ELSE {}, p : {None}, qs : {<<>>}, active : {FALSE}]
      <4>1. PageGood(to)
        BY <3>2, <3>3 DEF PageGood, Pages, Page, OfProperty
      <4> QED BY <3>1, <4>1, PageSet
    <3>4. CASE \E p \in Live : to \in Details(p) \cup Editors(p)
      <4>1. PICK p \in Live : to \in Details(p) \cup Editors(p)
        BY <3>4
      <4>2. p \in Props /\ active[p] \in BOOLEAN
        BY DEF Live, RestTyped
      <4>3. \A s \in Sorted(p) : s \in Seq(1..MaxQuest)
        BY <4>2, SortedFacts
      <4>4. PageGood(to)
        BY <3>2, <4>1, <4>2, <4>3 DEF PageGood, Pages, Page, OfProperty, Details, Editors
      <4> QED BY <3>1, <4>4, PageSet
    <3> QED BY <3>1, <3>3, <3>4
  <2>2. CASE WizardQuestions(t)
    <3>1. tab[t].at = "phone" /\ tab[t].p \in Props /\ tab[t] \in Pages
      BY <2>2 DEF WizardQuestions, TabsTyped, OfProperty
    <3>2. PICK s \in Sorted(tab[t].p) : tab' = [tab EXCEPT ![t] = [tab[t] EXCEPT !.at = "questions", !.qs = s]]
      BY <2>2 DEF WizardQuestions
    <3>3. s \in Seq(1..MaxQuest)
      BY <3>1, SortedFacts
    <3>4. PageGood([tab[t] EXCEPT !.at = "questions", !.qs = s])
      BY <3>1, <3>3 DEF PageGood, Pages, Page
    <3> QED BY <3>2, <3>4, PageSet
  <2>3. CASE WizardEnd(t)
    <3>1. PageGood([Away EXCEPT !.at = "list"])
      BY AwayGood DEF PageGood, Pages, Page, OfProperty, Away
    <3> QED BY <2>3, <3>1, PageSet DEF WizardEnd
  <2>4. CASE Toggle(t)
    BY <2>4 DEF Toggle, TabsTyped
  <2> QED BY <2>1, <2>2, <2>3, <2>4
<1> QED BY <1>1, <1>2, <1>3, <1>4, <1>5 DEF RestTyped

Asks(t, r) ==
  \/ WizardSeed(t, r) \/ AskCreate(t, r) \/ AskPhoto(t, r) \/ AskAdd(t, r)
  \/ AskReorder(t, r) \/ AskDrop(t, r) \/ AskDelete(t, r)

\* what a request is asked for, and what its page then shows
LEMMA AskForms ==
  ASSUME ListTyped, PageInv, NEW t \in Tabs, NEW r \in Reqs, Asks(t, r)
  PROVE  /\ req[r].pc = "idle"
         /\ UNCHANGED <<listCast, prop, quest, active, onboarded, haps, mixed, crowd, sure>>
         /\ \E q, g :
              /\ req' = [req EXCEPT ![r] = q] /\ tab' = [tab EXCEPT ![t] = g] /\ ReqGood(q) /\ PageGood(g)
              /\ q.op # "none" /\ q.pc = "look"
              /\ g.p = tab[t].p /\ NoRepeat(g.qs) /\ Listed(g.qs) \subseteq Listed(tab[t].qs)
              /\ g.at = tab[t].at \/ (tab[t].at = "phone" /\ g.at = "questions")
              /\ q.t \in {None, t} /\ (q.op = "reorder" => NoRepeat(q.list))
              /\ q.p \in {None, tab[t].p}
              /\ q.op = "create" => g.at \in {"list", "first"} /\ \A x \in Reqs : req[x].t # t
              /\ q.op = "add" => /\ g.at \in {"editor", "questions"} /\ q.p = tab[t].p /\ q.t = t
                                 /\ tab[t].at = "phone" \/ (\A x \in Reqs : req[x].t = t => req[x].op # "add")
<1> USE DEF ListTyped
<1> DEFINE Result(q, g) ==
              /\ req' = [req EXCEPT ![r] = q] /\ tab' = [tab EXCEPT ![t] = g] /\ ReqGood(q) /\ PageGood(g)
              /\ q.op # "none" /\ q.pc = "look"
              /\ g.p = tab[t].p /\ NoRepeat(g.qs) /\ Listed(g.qs) \subseteq Listed(tab[t].qs)
              /\ g.at = tab[t].at \/ (tab[t].at = "phone" /\ g.at = "questions")
              /\ q.t \in {None, t} /\ (q.op = "reorder" => NoRepeat(q.list))
              /\ q.p \in {None, tab[t].p}
              /\ q.op = "create" => g.at \in {"list", "first"} /\ \A x \in Reqs : req[x].t # t
              /\ q.op = "add" => /\ g.at \in {"editor", "questions"} /\ q.p = tab[t].p /\ q.t = t
                                 /\ tab[t].at = "phone" \/ (\A x \in Reqs : req[x].t = t => req[x].op # "add")
<1>1. req[r].pc = "idle" /\ UNCHANGED <<listCast, prop, quest, active, onboarded, haps, mixed, crowd, sure>>
  BY DEF Asks, WizardSeed, AskCreate, AskPhoto, AskAdd, AskReorder, AskDrop, AskDelete, Starts, store
<1>2. /\ tab[t] \in Pages /\ PageGood(tab[t]) /\ NoRepeat(tab[t].qs) /\ tab = [tab EXCEPT ![t] = tab[t]]
      /\ ReqGood(Idle) /\ Std \in Nat \ {0}
  BY IdleGood, ListingAssumption DEF TabsTyped, PageGood, PageInv, SheetOK
<1>3. CASE WizardSeed(t, r)
  <2> DEFINE q == [Idle EXCEPT !.p = tab[t].p, !.t = t, !.pc = "look", !.std = TRUE, !.left = Std - 1, !.op = "add"]
             g == [tab[t] EXCEPT !.at = "questions"]
  <2>1. req' = [req EXCEPT ![r] = q] /\ tab' = [tab EXCEPT ![t] = g] /\ tab[t].at = "phone"
    BY <1>3 DEF WizardSeed, Starts, Go
  <2>2. tab[t].p \in Props
    BY <2>1 DEF TabsTyped, OfProperty
  <2>7. Std - 1 \in Nat
    BY <1>2
  <2>3. ReqGood(q)
    BY <1>2, <2>2, <2>7 DEF ReqGood, ListReqs, Steps, Idle, Op
  <2>4. PageGood(g)
    BY <1>2, <2>2 DEF PageGood, Pages, Page
  <2>5. q.op = "add" /\ q.pc = "look" /\ q.p = tab[t].p /\ q.t = t /\ g.at = "questions" /\ g.p = tab[t].p /\ g.qs = tab[t].qs
    BY <1>2 DEF Pages, Idle
  <2>6. Result(q, g)
    <3> HIDE DEF q, g
    <3> QED BY <1>2, <2>1, <2>3, <2>4, <2>5
  <2> QED BY <1>1, <2>6
<1>4. CASE AskCreate(t, r) \/ AskPhoto(t, r) \/ AskAdd(t, r) \/ AskDrop(t, r) \/ AskDelete(t, r)
  <2>1. tab' = [tab EXCEPT ![t] = tab[t]]
    BY <1>2, <1>4 DEF AskCreate, AskPhoto, AskAdd, AskDrop, AskDelete
  <2>2. CASE AskCreate(t, r)
    <3> DEFINE q == [Idle EXCEPT !.t = t, !.pc = "look", !.op = "create"]
    <3>1. req' = [req EXCEPT ![r] = q] /\ tab[t].at \in {"list", "first"} /\ \A x \in Reqs : req[x].t # t
      BY <2>2 DEF AskCreate, Starts, Go
    <3>2. ReqGood(q)
      BY <1>2 DEF ReqGood, ListReqs, Steps, Idle, Op
    <3>3. q.op = "create" /\ q.pc = "look" /\ q.t = t /\ q.p = None
      BY DEF Idle
    <3>4. Result(q, tab[t])
      <4> HIDE DEF q
      <4> QED BY <1>2, <2>1, <3>1, <3>2, <3>3
    <3> QED BY <1>1, <3>4
  <2>3. CASE AskPhoto(t, r) \/ AskDelete(t, r)
    <3>1. PICK op \in {"photo", "delete"} : req' = [req EXCEPT ![r] = [Idle EXCEPT !.p = tab[t].p, !.pc = "look", !.op = op]]
      BY <2>3 DEF AskPhoto, AskDelete, Starts, Go
    <3> DEFINE q == [Idle EXCEPT !.p = tab[t].p, !.pc = "look", !.op = op]
    <3>2. tab[t].p \in Props
      BY <2>3 DEF AskPhoto, AskDelete, TabsTyped, OfProperty
    <3>3. ReqGood(q)
      BY <1>2, <3>2 DEF ReqGood, ListReqs, Steps, Idle, Op
    <3>4. q.op = op /\ q.pc = "look" /\ q.t = None /\ q.p = tab[t].p
      BY DEF Idle
    <3>5. Result(q, tab[t])
      <4>1. req' = [req EXCEPT ![r] = q]
        BY <3>1
      <4> HIDE DEF q
      <4> QED BY <1>2, <2>1, <3>3, <3>4, <4>1
    <3> QED BY <1>1, <3>5
  <2>4. CASE AskAdd(t, r)
    <3> DEFINE q == [Idle EXCEPT !.p = tab[t].p, !.t = t, !.pc = "look", !.op = "add"]
    <3>1. /\ req' = [req EXCEPT ![r] = q] /\ tab[t].at \in {"editor", "questions"}
          /\ \A x \in Reqs : req[x].t = t => req[x].op # "add"
      BY <2>4 DEF AskAdd, Starts, Go
    <3>2. tab[t].p \in Props
      BY <3>1 DEF TabsTyped, OfProperty
    <3>3. ReqGood(q)
      BY <1>2, <3>2 DEF ReqGood, ListReqs, Steps, Idle, Op
    <3>4. q.op = "add" /\ q.pc = "look" /\ q.t = t /\ q.p = tab[t].p
      BY DEF Idle
    <3>5. Result(q, tab[t])
      <4> HIDE DEF q
      <4> QED BY <1>2, <2>1, <3>1, <3>3, <3>4
    <3> QED BY <1>1, <3>5
  <2>5. CASE AskDrop(t, r)
    <3>1. PICK x \in Listed(tab[t].qs) : req' = [req EXCEPT ![r] = [Idle EXCEPT !.p = tab[t].p, !.t = t, !.pc = "look", !.q = x, !.op = "drop"]]
      BY <2>5 DEF AskDrop, Starts, Go
    <3> DEFINE q == [Idle EXCEPT !.p = tab[t].p, !.t = t, !.pc = "look", !.q = x, !.op = "drop"]
    <3>2. tab[t].p \in Props
      BY <2>5 DEF AskDrop, TabsTyped, OfProperty
    <3>3. x \in 0..MaxQuest
      <4>1. tab[t].qs \in Seq(1..MaxQuest) /\ MaxQuest \in Nat
        BY <1>2, ListingAssumption DEF Pages
      <4> QED BY <4>1 DEF Listed
    <3>4. ReqGood(q)
      BY <1>2, <3>2, <3>3 DEF ReqGood, ListReqs, Steps, Idle, Op
    <3>5. q.op = "drop" /\ q.pc = "look" /\ q.t = t /\ q.p = tab[t].p
      BY DEF Idle
    <3>6. Result(q, tab[t])
      <4>1. req' = [req EXCEPT ![r] = q]
        BY <3>1
      <4> HIDE DEF q
      <4> QED BY <1>2, <2>1, <3>4, <3>5, <4>1
    <3> QED BY <1>1, <3>6
  <2> QED BY <1>4, <2>2, <2>3, <2>4, <2>5
<1>5. CASE AskReorder(t, r)
  <2>1. PICK i \in 1..Len(tab[t].qs), j \in 1..Len(tab[t].qs) :
          LET s == Moved(tab[t].qs, i, j) IN
            /\ tab' = [tab EXCEPT ![t] = [tab[t] EXCEPT !.qs = s]]
            /\ req' = [req EXCEPT ![r] = [Idle EXCEPT !.p = tab[t].p, !.pc = "look", !.list = s, !.op = "reorder"]]
    BY <1>5 DEF AskReorder, Starts, Go
  <2> DEFINE s == Moved(tab[t].qs, i, j)
             q == [Idle EXCEPT !.p = tab[t].p, !.pc = "look", !.list = s, !.op = "reorder"]
             g == [tab[t] EXCEPT !.qs = s]
  <2>2. s \in Seq(1..MaxQuest) /\ NoRepeat(s) /\ Listed(s) \subseteq Listed(tab[t].qs)
    <3>1. tab[t].qs \in Seq(1..MaxQuest)
      BY <1>2 DEF Pages
    <3> QED BY <1>2, <3>1, MovedKeeps
  <2>3. tab' = [tab EXCEPT ![t] = g] /\ req' = [req EXCEPT ![r] = q]
    BY <2>1
  <2> HIDE DEF s
  <2>4. tab[t].p \in Props
    BY <1>5 DEF AskReorder, TabsTyped, OfProperty
  <2>5. ReqGood(q)
    BY <1>2, <2>2, <2>4 DEF ReqGood, ListReqs, Steps, Idle, Op
  <2>6. PageGood(g)
    BY <1>2, <2>2 DEF PageGood, Pages
  <2>7. q.op = "reorder" /\ q.pc = "look" /\ q.t = None /\ q.p = tab[t].p /\ q.list = s /\ g.qs = s /\ g.at = tab[t].at /\ g.p = tab[t].p
    BY <1>2 DEF Pages, Idle
  <2>8. Result(q, g)
    <3> HIDE DEF q, g
    <3> QED BY <2>2, <2>3, <2>5, <2>6, <2>7
  <2> QED BY <1>1, <2>8
<1> QED BY <1>3, <1>4, <1>5 DEF Asks

\* types: a page sends a request
LEMMA AsksTyped ==
  ASSUME ListTyped, PageInv, NEW t \in Tabs, NEW r \in Reqs, Asks(t, r)
  PROVE  ListTyped'
<1> USE DEF ListTyped
<1>1. UNCHANGED <<listCast, prop, quest, active, crowd>>
  BY AskForms
<1>2. PICK q, g : /\ req' = [req EXCEPT ![r] = q] /\ tab' = [tab EXCEPT ![t] = g] /\ ReqGood(q) /\ PageGood(g)
  BY AskForms
<1>3. ListReqsTyped' /\ TabsTyped'
  BY <1>2, GoGood, PageSet DEF Go
<1> QED BY <1>1, <1>3 DEF PropsTyped, RowOK, RestTyped

\* a property's questions are finitely many, numbered as they were made
LEMMA RowsFinite == ASSUME PropsTyped, NEW p \in Props
  PROVE  /\ IsFiniteSet(Rows(p)) /\ Rows(p) \subseteq 1..prop[p].made /\ prop[p].made \in 0..MaxQuest /\ MaxQuest \in Nat
         /\ prop[p] \in Property
<1>1. Rows(p) \subseteq 1..prop[p].made /\ prop[p].made \in 0..MaxQuest /\ MaxQuest \in Nat /\ prop[p] \in Property
  BY ListingAssumption DEF PropsTyped, RowOK, Rows, Property
<1>2. prop[p].made \in Int /\ 1 \in Int
  BY <1>1
<1>3. IsFiniteSet(1..prop[p].made)
  BY <1>2, FS_Interval
<1> QED BY <1>1, <1>3, FS_Subset

\* the next order is a number above the orders there are
LEMMA NextOrderFacts ==
  ASSUME PropsTyped, NEW p \in Props, \A q \in Rows(p) : quest[p][q].order < prop[p].made
  PROVE  /\ NextOrder(p) \in 0..prop[p].made
         /\ \A q \in Rows(p) : quest[p][q].order < NextOrder(p)
<1>1. Rows(p) \subseteq 1..prop[p].made /\ prop[p].made \in Nat /\ \A q \in Rows(p) : quest[p][q].order \in Nat
  BY RowsFinite DEF PropsTyped, RowOK, Rows, Question
<1>2. CASE Rows(p) = {}
  BY <1>1, <1>2 DEF NextOrder
<1>3. CASE Rows(p) # {}
  <2> DEFINE S == {prop[p].made - o : o \in Orders(p)}
  <2>1. \A o \in Orders(p) : o \in Nat /\ prop[p].made - o \in Nat /\ o < prop[p].made
    BY <1>1 DEF Orders
  <2>2. Orders(p) # {}
    BY <1>3 DEF Orders
  <2>3. S \subseteq Nat /\ S # {}
    BY <2>1, <2>2
  <2>4. IsWellFoundedOn(OpToRel(<, Nat), Nat)
    BY NatLessThanWellFounded
  <2> HIDE DEF S
  <2>5. PICK x \in S : \A y \in S : ~(<<y, x>> \in OpToRel(<, Nat))
    BY <2>3, <2>4, WFMin
  <2>6. x \in Nat /\ \A y \in S : y \in Nat /\ ~(y < x)
    BY <2>3, <2>5 DEF OpToRel
  <2>7. PICK m \in Orders(p) : x = prop[p].made - m
    BY <2>5 DEF S
  <2>8. \A o \in Orders(p) : o <= m
    <3> SUFFICES ASSUME NEW o \in Orders(p) PROVE o <= m
      OBVIOUS
    <3>1. prop[p].made - o \in S
      BY DEF S
    <3>2. ~(prop[p].made - o < prop[p].made - m)
      BY <2>6, <2>7, <3>1
    <3> QED BY <1>1, <2>1, <3>2
  <2> DEFINE best == CHOOSE k \in Orders(p) : \A o \in Orders(p) : o <= k
  <2>9. best \in Orders(p) /\ \A o \in Orders(p) : o <= best
    BY <2>8
  <2>10. NextOrder(p) = 1 + best
    BY <1>3 DEF NextOrder
  <2> HIDE DEF best
  <2>11. \A q \in Rows(p) : quest[p][q].order \in Orders(p)
    BY DEF Orders
  <2> QED BY <1>1, <2>1, <2>9, <2>10, <2>11
<1> QED BY <1>2, <1>3

\* a request that has looked goes on or ends
Looks(r) == CreateLook(r) \/ PhotoLook(r) \/ AddLook(r) \/ ReorderLook(r) \/ DeleteLook(r)

\* types: a handler's first query
LEMMA LooksTyped == ASSUME ListTyped, OrderInv, NEW r \in Reqs, Looks(r) PROVE ListTyped'
<1> USE DEF ListTyped
<1> DEFINE q == req[r]
<1>1. UNCHANGED <<listCast, prop, quest, active, tab, sure>> /\ q \in ListReqs /\ Steps(q) /\ q.pc = "look"
  BY DEF Looks, CreateLook, PhotoLook, AddLook, ReorderLook, DeleteLook, store, ListReqsTyped
<1>2. PropsTyped' /\ TabsTyped'
  BY <1>1 DEF PropsTyped, RowOK, TabsTyped
<1>3. crowd' \in [Props \cup {None} -> Nat]
  BY DEF Looks, CreateLook, PhotoLook, AddLook, ReorderLook, DeleteLook, RestTyped
<1>4. ListReqsTyped'
  <2>1. CASE Done(r)
    BY <2>1, IdleGood, GoGood DEF Done
  <2>2. CASE q.op \in {"create", "photo"} /\ Go(r, [q EXCEPT !.pc = "insert"])
    <3>1. ReqGood([q EXCEPT !.pc = "insert"])
      BY <1>1, <2>2 DEF ReqGood, ListReqs, Steps
    <3> QED BY <2>2, <3>1, GoGood
  <2>3. CASE q.op = "reorder" /\ Go(r, [q EXCEPT !.pc = "commit"])
    <3>1. ReqGood([q EXCEPT !.pc = "commit"])
      BY <1>1, <2>3 DEF ReqGood, ListReqs, Steps
    <3> QED BY <2>3, <3>1, GoGood
  <2>4. CASE q.op = "delete" /\ Go(r, [q EXCEPT !.pc = "questions"])
    <3>1. ReqGood([q EXCEPT !.pc = "questions"])
      BY <1>1, <2>4 DEF ReqGood, ListReqs, Steps
    <3> QED BY <2>4, <3>1, GoGood
  <2>5. CASE q.op = "add" /\ q.p \in Live /\ Go(r, [q EXCEPT !.pc = "insert", !.n = NextOrder(q.p)])
    <3>1. q.p \in Props /\ prop[q.p].st # "gone" /\ prop[q.p].made \in Nat
      BY <2>5 DEF Live, PropsTyped, Property
    <3>2. NextOrder(q.p) \in Nat
      BY <3>1, NextOrderFacts DEF OrderInv, RowsOrdered
    <3>3. ReqGood([q EXCEPT !.pc = "insert", !.n = NextOrder(q.p)])
      BY <1>1, <2>5, <3>2 DEF ReqGood, ListReqs, Steps
    <3> QED BY <2>5, <3>3, GoGood
  <2> QED BY <2>1, <2>2, <2>3, <2>4, <2>5 DEF Looks, CreateLook, PhotoLook, AddLook, ReorderLook, DeleteLook
<1> QED BY <1>1, <1>2, <1>3, <1>4 DEF RestTyped

\* a new property is a good row
LEMMA NewRowFacts == /\ NewRow \in Property /\ NewRow.made = Std /\ NewRow.st = "live" /\ NewRow.photos = 0
                     /\ NoRow \in Property /\ NoRow.made = 0 /\ NoRow.st = "none"
                     /\ [NoRow EXCEPT !.st = "gone"] \in Property /\ [NoRow EXCEPT !.st = "gone"].made = 0
                     /\ [NoRow EXCEPT !.st = "gone"].st = "gone"
                     /\ Fresh \in [1..Std -> Question] /\ Std \in 1..MaxQuest
<1>1. Std \in 1..MaxQuest /\ Std \in 0..MaxQuest /\ 0 \in 0..MaxQuest
  BY ListingAssumption
<1>2. Fresh \in [1..Std -> Question]
  BY <1>1 DEF Fresh, Question
<1> QED BY <1>1, <1>2 DEF NewRow, NoRow, Property

Inserts(r) == CreateInsert(r) \/ PhotoInsert(r) \/ AddInsert(r)

\* types: a handler's insert
LEMMA InsertsTyped == ASSUME ListTyped, NEW r \in Reqs, Inserts(r) PROVE ListTyped'
<1> USE DEF ListTyped
<1> DEFINE q == req[r]
<1>1. UNCHANGED <<listCast, active, crowd>> /\ q \in ListReqs /\ Steps(q) /\ q.pc = "insert"
  BY DEF Inserts, CreateInsert, PhotoInsert, AddInsert, ListReqsTyped
<1>2. CASE CreateInsert(r)
  <2>1. ListReqsTyped'
    BY <1>2, IdleGood, GoGood DEF CreateInsert, Done
  <2>2. PICK p \in Props :
       /\ prop' = [prop EXCEPT ![p] = NewRow] /\ quest' = [quest EXCEPT ![p] = Fresh]
       /\ tab' = [t \in Tabs |->
                    IF t # q.t THEN tab[t]
                    ELSE [Away EXCEPT !.p = p, !.at = IF tab[t].at = "first" THEN "phone" ELSE "detail"]]
    BY <1>2 DEF CreateInsert
  <2>3. PropsTyped'
    BY <2>2, NewRowFacts DEF PropsTyped, RowOK
  <2>4. TabsTyped'
    <3>1. ASSUME NEW t \in Tabs PROVE PageGood(tab'[t])
      <4>1. PageGood([Away EXCEPT !.p = p, !.at = IF tab[t].at = "first" THEN "phone" ELSE "detail"])
        BY AwayGood DEF PageGood, Pages, Page, Away
      <4>2. PageGood(tab[t])
        BY DEF TabsTyped, PageGood
      <4> QED BY <2>2, <4>1, <4>2
    <3>2. tab' \in [Tabs -> Pages]
      <4>1. \A t \in Tabs : tab'[t] \in Pages
        BY <3>1 DEF PageGood
      <4> QED BY <2>2, <4>1
    <3> QED BY <3>1, <3>2 DEF TabsTyped, PageGood
  <2> QED BY <1>1, <2>1, <2>3, <2>4 DEF RestTyped
<1>3. CASE PhotoInsert(r)
  <2>1. ListReqsTyped'
    BY <1>3, IdleGood, GoGood DEF PhotoInsert, Done
  <2>2. PropsTyped'
    <3>1. CASE prop' = prop
      BY <1>3, <3>1 DEF PhotoInsert, PropsTyped, RowOK
    <3>2. CASE q.p \in Live /\ prop' = [prop EXCEPT ![q.p] = [prop[q.p] EXCEPT !.photos = prop[q.p].photos + 1]]
      <4>1. q.p \in Props /\ prop[q.p] \in Property
        BY <3>2 DEF Live, PropsTyped
      <4>2. [prop[q.p] EXCEPT !.photos = prop[q.p].photos + 1] \in Property
        BY <4>1 DEF Property
      <4>3. [prop[q.p] EXCEPT !.photos = prop[q.p].photos + 1].made = prop[q.p].made /\ [prop[q.p] EXCEPT !.photos = prop[q.p].photos + 1].st = prop[q.p].st
        BY <4>1 DEF Property
      <4>4. quest' = quest
        BY <1>3 DEF PhotoInsert
      <4> QED BY <3>2, <4>1, <4>2, <4>3, <4>4, PropSet
    <3>3. CASE q.p \in Live
      <4>1. PICK p : p = q.p
        OBVIOUS
      <4>2. prop' = [prop EXCEPT ![p].photos = @ + 1]
        BY <1>3, <3>3, <4>1 DEF PhotoInsert
      <4>3. p \in Props /\ prop[p] \in Property
        BY <3>3, <4>1 DEF Live, PropsTyped
      <4>4. prop' = [prop EXCEPT ![p] = [prop[p] EXCEPT !.photos = prop[p].photos + 1]]
        BY <4>2, <4>3 DEF Property, PropsTyped
      <4> QED BY <3>2, <3>3, <4>1, <4>4
    <3>4. CASE q.p \notin Live
      BY <1>3, <3>1, <3>4 DEF PhotoInsert
    <3> QED BY <3>3, <3>4
  <2> QED BY <1>1, <1>3, <2>1, <2>2 DEF PhotoInsert, TabsTyped, RestTyped
<1>4. CASE AddInsert(r)
  <2>0. PICK p : p = q.p
    OBVIOUS
  <2>9. PICK n : n = prop[p].made + 1
    OBVIOUS
  <2>1. TabsTyped'
    BY <1>4 DEF AddInsert, TabsTyped
  <2>2. CASE p \notin Live
    <3>1. ListReqsTyped'
      BY <1>4, <2>0, <2>2, IdleGood, GoGood DEF AddInsert, Done
    <3> QED BY <1>1, <1>4, <2>0, <2>1, <2>2, <3>1 DEF AddInsert, PropsTyped, RowOK, RestTyped
  <2>3. CASE p \in Live
    <3>1. /\ p \in Props /\ n <= MaxQuest
          /\ prop' = [prop EXCEPT ![p] = [prop[p] EXCEPT !.made = n]]
          /\ quest' = [quest EXCEPT ![p] =
               [x \in Rows(p) \cup {n} |-> IF x = n THEN [order |-> q.n, std |-> q.std] ELSE quest[p][x]]]
          /\ Go(r, [q EXCEPT !.pc = "answer", !.q = n])
      BY <1>4, <2>0, <2>3, <2>9 DEF AddInsert, Live, PropsTyped
    <3>2. Rows(p) \subseteq 1..prop[p].made /\ prop[p].made \in 0..MaxQuest /\ MaxQuest \in Nat /\ prop[p] \in Property
      BY <3>1, RowsFinite
    <3>3. n \in 1..MaxQuest
      BY <2>9, <3>1, <3>2
    <3>4. ReqGood([q EXCEPT !.pc = "answer", !.q = n])
      <4>1. q.op = "add"
        BY <1>4 DEF AddInsert
      <4>2. n \in 0..MaxQuest
        BY <3>2, <3>3
      <4>3. [q EXCEPT !.pc = "answer", !.q = n] \in ListReqs
        BY <1>1, <4>2 DEF ListReqs
      <4> QED BY <1>1, <3>3, <4>1, <4>3 DEF ReqGood, ListReqs, Steps
    <3>5. ListReqsTyped'
      BY <3>1, <3>4, GoGood
    <3>6. PropsTyped'
      <4>1. [prop[p] EXCEPT !.made = n] \in Property
        BY <3>2, <3>3 DEF Property
      <4>2. \A x \in Rows(p) \cup {n} : x \in 1..n
        BY <2>9, <3>2
      <4> DEFINE m == [x \in Rows(p) \cup {n} |-> IF x = n THEN [order |-> q.n, std |-> q.std] ELSE quest[p][x]]
      <4>3. m \in [Rows(p) \cup {n} -> Question]
        <5>1. [order |-> q.n, std |-> q.std] \in Question
          BY <1>1 DEF ListReqs, Question
        <5>2. \A x \in Rows(p) : quest[p][x] \in Question
          BY <3>1 DEF PropsTyped, RowOK, Rows
        <5> QED BY <5>1, <5>2
      <4>4. DOMAIN m = Rows(p) \cup {n}
        OBVIOUS
      <4>5. quest' = [quest EXCEPT ![p] = m]
        BY <3>1
      <4>6. prop[p].st = "live" /\ [prop[p] EXCEPT !.made = n].st = "live" /\ [prop[p] EXCEPT !.made = n].made = n
        BY <2>3, <3>2 DEF Live, Property
      <4> HIDE DEF m
      <4>7. RowOK(p)'
        BY <3>1, <4>2, <4>3, <4>4, <4>5, <4>6 DEF RowOK, PropsTyped
      <4>8. \A x \in Props \ {p} : RowOK(x)'
        BY <3>1, <4>5 DEF RowOK, PropsTyped
      <4>9. prop' \in [Props -> Property] /\ quest' = [x \in Props |-> quest'[x]]
        BY <3>1, <4>1, <4>5 DEF PropsTyped
      <4> QED BY <4>7, <4>8, <4>9 DEF PropsTyped
    <3> QED BY <1>1, <2>1, <3>5, <3>6 DEF RestTyped
  <2> QED BY <2>2, <2>3
<1> QED BY <1>2, <1>3, <1>4 DEF Inserts

\* types: an answer reaches its page
LEMMA AnswerTyped == ASSUME ListTyped, PageInv, NEW r \in Reqs, Answer(r) PROVE ListTyped'
<1> USE DEF ListTyped
<1> DEFINE q == req[r]
<1>1. UNCHANGED <<listCast, prop, quest, active, crowd>> /\ q \in ListReqs /\ Steps(q) /\ q.pc = "answer" /\ q.q \in 1..MaxQuest
  BY DEF Answer, ListReqsTyped, store
<1>2. ListReqsTyped'
  <2>1. ReqGood([q EXCEPT !.pc = "look", !.left = @ - 1]) \/ ~(q.left > 0)
    <3> SUFFICES ASSUME q.left > 0 PROVE ReqGood([q EXCEPT !.pc = "look", !.left = @ - 1])
      OBVIOUS
    <3>1. q.left - 1 \in Nat
      BY <1>1 DEF ListReqs
    <3> QED BY <1>1, <3>1 DEF ReqGood, ListReqs, Steps
  <2> QED BY <2>1, IdleGood, GoGood DEF Answer, Done
<1>3. TabsTyped'
  <2>1. CASE tab' = tab
    BY <2>1 DEF TabsTyped
  <2>2. CASE q.t # None /\ tab' = [tab EXCEPT ![q.t] = [tab[q.t] EXCEPT !.qs = IF q.op = "add" THEN Append(tab[q.t].qs, q.q)
                                                                                 ELSE Without(tab[q.t].qs, q.q)]]
    <3> DEFINE s == IF q.op = "add" THEN Append(tab[q.t].qs, q.q) ELSE Without(tab[q.t].qs, q.q)
    <3>1. q.t \in Tabs
      BY <1>1, <2>2 DEF ListReqs
    <3>2. tab[q.t].qs \in Seq(1..MaxQuest) /\ NoRepeat(tab[q.t].qs) /\ PageGood(tab[q.t])
      BY <3>1 DEF TabsTyped, Pages, PageInv, SheetOK, PageGood
    <3>3. s \in Seq(1..MaxQuest)
      BY <1>1, <3>2, AppendKeeps, WithoutKeeps
    <3>4. tab' = [tab EXCEPT ![q.t] = [tab[q.t] EXCEPT !.qs = s]]
      BY <2>2, <3>1 DEF TabsTyped
    <3> HIDE DEF s
    <3>5. PageGood([tab[q.t] EXCEPT !.qs = s])
      BY <3>2, <3>3 DEF PageGood, Pages
    <3> QED BY <3>1, <3>4, <3>5, PageSet
  <2>3. CASE q.t # None /\ q.p = tab[q.t].p
    <3>1. PICK t : t = q.t
      OBVIOUS
    <3>2. t \in Tabs /\ tab[t] \in Pages
      BY <1>1, <2>3, <3>1 DEF ListReqs, TabsTyped
    <3>3. tab' = [tab EXCEPT ![t].qs = IF q.op = "add" THEN Append(@, q.q) ELSE Without(@, q.q)]
      BY <2>3, <3>1 DEF Answer
    <3>4. tab' = [tab EXCEPT ![t] = [tab[t] EXCEPT !.qs = IF q.op = "add" THEN Append(tab[t].qs, q.q)
                                                                         ELSE Without(tab[t].qs, q.q)]]
      BY <3>2, <3>3 DEF TabsTyped, Pages
    <3> QED BY <2>2, <2>3, <3>1, <3>4
  <2>4. CASE ~(q.t # None /\ q.p = tab[q.t].p)
    BY <2>1, <2>4 DEF Answer
  <2> QED BY <2>3, <2>4
<1> QED BY <1>1, <1>2, <1>3 DEF PropsTyped, RowOK, RestTyped

Writes(r) == ReorderCommit(r) \/ Drop(r) \/ DeleteQuestions(r) \/ DeletePhotos(r) \/ DeleteRow(r)

\* types: the other writes
LEMMA WritesTyped == ASSUME ListTyped, NEW r \in Reqs, Writes(r) PROVE ListTyped'
<1> USE DEF ListTyped
<1> DEFINE q == req[r]
<1>0. PICK p : p = q.p
  OBVIOUS
<1>1. UNCHANGED <<listCast, tab, crowd>> /\ q \in ListReqs /\ Steps(q) /\ p \in Props /\ TabsTyped'
  BY <1>0 DEF Writes, ReorderCommit, Drop, DeleteQuestions, DeletePhotos, DeleteRow, ListReqsTyped, Steps, TabsTyped
<1>2. /\ Rows(p) \subseteq 1..prop[p].made /\ prop[p] \in Property /\ quest[p] \in [Rows(p) -> Question]
      /\ prop[p].st = "none" => prop[p].made = 0
  BY <1>1, RowsFinite DEF PropsTyped, RowOK, Rows
<1>3. ListReqsTyped'
  <2>1. CASE Done(r)
    BY <2>1, IdleGood, GoGood DEF Done
  <2>2. CASE DeleteQuestions(r) \/ DeletePhotos(r)
    <3>1. ReqGood([q EXCEPT !.pc = "photos"]) /\ ReqGood([q EXCEPT !.pc = "row"])
      BY <1>1, <2>2 DEF ReqGood, ListReqs, Steps, DeleteQuestions, DeletePhotos
    <3> QED BY <2>2, <3>1, GoGood DEF DeleteQuestions, DeletePhotos
  <2>3. CASE Drop(r) /\ Go(r, [q EXCEPT !.pc = "answer"]) /\ q.q \in Rows(p)
    <3>1. q.q \in 1..MaxQuest
      BY <1>1, <1>2, <2>3, RowsFinite
    <3>2. ReqGood([q EXCEPT !.pc = "answer"])
      BY <1>1, <2>3, <3>1 DEF ReqGood, ListReqs, Steps, Drop
    <3> QED BY <2>3, <3>2, GoGood
  <2> QED BY <1>0, <2>1, <2>2, <2>3 DEF Writes, ReorderCommit, Drop, DeleteRow
<1>4. ASSUME prop' = prop, NEW m, quest' = [quest EXCEPT ![p] = m], DOMAIN m \subseteq Rows(p), m \in [DOMAIN m -> Question]
      PROVE  PropsTyped'
  <2>1. RowOK(p)'
    BY <1>1, <1>2, <1>4 DEF RowOK, PropsTyped
  <2>2. \A x \in Props \ {p} : RowOK(x)'
    BY <1>1, <1>4 DEF RowOK, PropsTyped
  <2> QED BY <1>4, <2>1, <2>2 DEF PropsTyped
<1>5. PropsTyped' /\ active' \in [Props -> BOOLEAN]
  <2>1. CASE UNCHANGED <<prop, quest, active>>
    BY <2>1 DEF PropsTyped, RowOK, RestTyped
  <2>2. CASE ReorderCommit(r) /\ quest' # quest
    <3> DEFINE s == q.list
               m == [x \in Rows(p) |-> IF x \in Listed(s)
                                      THEN [quest[p][x] EXCEPT !.order = (CHOOSE i \in 1..Len(s) : s[i] = x) - 1] ELSE quest[p][x]]
    <3>1. quest' = [quest EXCEPT ![p] = m] /\ prop' = prop /\ active' = active
      BY <1>0, <2>2 DEF ReorderCommit
    <3>2. ASSUME NEW x \in Rows(p) PROVE m[x] \in Question
      <4>1. quest[p][x] \in Question
        BY <1>2
      <4>2. x \in Listed(s) => (CHOOSE i \in 1..Len(s) : s[i] = x) - 1 \in Nat
        <5>1. s \in Seq(1..MaxQuest)
          BY <1>1 DEF ListReqs
        <5>2. Len(s) \in Nat
          BY <5>1
        <5>3. x \in Listed(s) => (CHOOSE i \in 1..Len(s) : s[i] = x) \in 1..Len(s)
          BY DEF Listed
        <5> QED BY <5>2, <5>3
      <4> QED BY <4>1, <4>2 DEF Question
    <3>3. DOMAIN m = Rows(p) /\ m \in [Rows(p) -> Question]
      BY <3>2
    <3> HIDE DEF m
    <3> QED BY <1>4, <3>1, <3>3 DEF RestTyped
  <2>3. CASE Drop(r) /\ quest' # quest
    <3> DEFINE m == [x \in Rows(p) \ {q.q} |-> quest[p][x]]
    <3>1. quest' = [quest EXCEPT ![p] = m] /\ prop' = prop /\ active' = active
      BY <1>0, <2>3 DEF Drop
    <3>2. DOMAIN m \subseteq Rows(p) /\ m \in [DOMAIN m -> Question]
      BY <1>2
    <3> HIDE DEF m
    <3> QED BY <1>4, <3>1, <3>2 DEF RestTyped
  <2>4. CASE DeleteQuestions(r)
    <3>1. DOMAIN <<>> = {} /\ <<>> \in [{} -> Question]
      OBVIOUS
    <3>2. quest' = [quest EXCEPT ![p] = <<>>] /\ prop' = prop /\ active' = active
      BY <1>0, <2>4 DEF DeleteQuestions
    <3>3. DOMAIN <<>> \subseteq Rows(p) /\ <<>> \in [DOMAIN <<>> -> Question]
      BY <3>1
    <3> QED BY <1>4, <3>2, <3>3 DEF RestTyped
  <2>5. CASE DeletePhotos(r)
    <3>1. [prop[p] EXCEPT !.photos = 0] \in Property
      BY <1>2 DEF Property
    <3> QED BY <1>0, <1>1, <1>2, <2>5, <3>1, PropSet DEF DeletePhotos, RestTyped, Property
  <2>6. CASE DeleteRow(r) /\ prop' # prop
    <3>1. prop' = [prop EXCEPT ![p] = [NoRow EXCEPT !.st = "gone"]] /\ quest' = [quest EXCEPT ![p] = <<>>] /\ active' = [active EXCEPT ![p] = FALSE]
      BY <1>0, <2>6 DEF DeleteRow, store
    <3>2. DOMAIN <<>> = {} /\ <<>> \in [{} -> Question]
      OBVIOUS
    <3>3. RowOK(p)'
      BY <1>1, <3>1, <3>2, NewRowFacts DEF RowOK, PropsTyped
    <3>4. \A x \in Props \ {p} : RowOK(x)'
      BY <1>1, <3>1 DEF RowOK, PropsTyped
    <3> QED BY <1>1, <3>1, <3>3, <3>4, NewRowFacts DEF PropsTyped, RestTyped
  <2>7. DeleteRow(r) => (UNCHANGED <<prop, quest, active>> \/ prop' # prop)
    <3>1. p \in Live => prop[p] # [NoRow EXCEPT !.st = "gone"]
      BY NewRowFacts DEF Live
    <3> SUFFICES ASSUME DeleteRow(r), ~UNCHANGED <<prop, quest, active>> PROVE prop' # prop
      OBVIOUS
    <3>2. p \in Live /\ prop' = [prop EXCEPT ![p] = [NoRow EXCEPT !.st = "gone"]]
      BY <1>0 DEF DeleteRow, store
    <3>3. prop'[p] = [NoRow EXCEPT !.st = "gone"]
      BY <1>1, <3>2 DEF PropsTyped
    <3> QED BY <3>1, <3>2, <3>3
  <2>8. ReorderCommit(r) \/ Drop(r) => quest' # quest \/ UNCHANGED <<prop, quest, active>>
    BY DEF ReorderCommit, Drop
  <2> QED BY <2>1, <2>2, <2>3, <2>4, <2>5, <2>6, <2>7, <2>8, Zenon DEF Writes
<1> QED BY <1>1, <1>3, <1>5 DEF RestTyped

\* types: photographs deleted, drafts begun and ended, calls
LEMMA PropStepTyped == ASSUME ListTyped, NEW p \in Props, PropStep(p) PROVE ListTyped'
<1> USE DEF ListTyped
<1>1. /\ UNCHANGED <<listCast, quest, active, tab, req, crowd>> /\ prop[p] \in Property
      /\ ListReqsTyped' /\ TabsTyped' /\ RestTyped'
  BY DEF PropStep, PhotoDelete, DraftBegin, DraftEnd, Call, PropsTyped, ListReqsTyped, TabsTyped, RestTyped
<1>2. CASE PhotoDelete(p)
  <2>1. prop' = [prop EXCEPT ![p] = [prop[p] EXCEPT !.photos = prop[p].photos - 1]] /\ prop[p].photos > 0
    BY <1>1, <1>2 DEF PhotoDelete, PropsTyped, Property
  <2>2. prop[p].photos - 1 \in Nat
    BY <1>1, <2>1 DEF Property
  <2>3. [prop[p] EXCEPT !.photos = prop[p].photos - 1] \in Property
    BY <1>1, <2>2 DEF Property
  <2> QED BY <1>1, <2>1, <2>3, PropSet DEF Property
<1>3. CASE DraftBegin(p) \/ DraftEnd(p) \/ Call(p)
  <2>1. PICK new \in {[prop[p] EXCEPT !.draft = TRUE], [prop[p] EXCEPT !.draft = FALSE, !.tied = TRUE], [prop[p] EXCEPT !.tied = TRUE]} :
          prop' = [prop EXCEPT ![p] = new]
    BY <1>3 DEF DraftBegin, DraftEnd, Call
  <2>2. new \in Property /\ new.made = prop[p].made /\ new.st = prop[p].st
    BY <1>1, <2>1 DEF Property
  <2> QED BY <1>1, <2>1, <2>2, PropSet
<1> QED BY <1>2, <1>3 DEF PropStep

\* types: the process stops
LEMMA StopTyped == ASSUME ListTyped, Stop PROVE ListTyped'
<1> USE DEF ListTyped
<1>1. UNCHANGED <<listCast, prop, quest, active, crowd>> /\ req' = [r \in Reqs |-> Idle]
  BY DEF Stop, store
<1>2. ListReqsTyped'
  BY <1>1, IdleGood DEF ListReqsTyped, ReqGood
<1>3. TabsTyped'
  <2>1. \A t \in Tabs : tab'[t] \in {Away, tab[t]}
    BY DEF Stop
  <2>2. \A t \in Tabs : PageGood(tab'[t])
    BY <2>1, AwayGood DEF TabsTyped, PageGood
  <2>3. tab' \in [Tabs -> Pages]
    <3> HIDE DEF Pages
    <3> QED BY <2>2 DEF PageGood, Stop
  <2> QED BY <2>2, <2>3 DEF TabsTyped, PageGood
<1> QED BY <1>1, <1>2, <1>3 DEF PropsTyped, RowOK, RestTyped

\* what a step of the phone line does to Listing's state
LEMMA LineLeaves == ASSUME LineStep
  PROVE  /\ UNCHANGED <<listCast, prop, quest, tab, req, mixed, crowd, sure>>
         /\ active' = active \/ (\E p \in Props \cup {"none"}, b \in BOOLEAN : active' = [active EXCEPT ![p] = b])
                             \/ (\E r \in Reqs, b \in BOOLEAN : active' = [active EXCEPT ![lineReq[r].p] = b])
<1>1. UNCHANGED listOnly /\ Line!Next
  BY DEF LineStep
<1>2. CASE Line!Settings
  BY <1>1, <1>2 DEF listOnly, Line!Settings, Line!SaveBegin, Line!SaveField, Line!SaveFails, Line!SaveEnds, Line!Expire, Line!account
<1>3. ASSUME NEW r \in Reqs, Line!Resolve(r) PROVE active' = active
  BY <1>3 DEF Line!Resolve, Line!ResolveCached, Line!ResolveRead, Line!ResolveFill, Line!account
<1>4. ASSUME NEW r \in Reqs, Line!NumberStep(r)
      PROVE active' = active \/ (\E b \in BOOLEAN : active' = [active EXCEPT ![lineReq[r].p] = b])
  BY <1>4 DEF Line!NumberStep, Line!Begin, Line!Refused, Line!Look, Line!LookGiven, Line!Passed, Line!Buy, Line!Write,
              Line!Remove, Line!Clear, Line!Place, Line!account
<1>5. ASSUME NEW r \in Reqs, Line!SystemStep(r) PROVE active' = active
  BY <1>5 DEF Line!SystemStep, Line!EnsureTunnel, Line!WaitTunnel, Line!ReadTunnel, Line!Health, Line!ListNumbers,
              Line!EachNumber, Line!EachDone, Line!Answer, Line!account
<1>6. CASE Line!Restart \/ Line!Network
  BY <1>1, <1>6 DEF listOnly, Line!Restart, Line!Network, Line!account
<1> QED BY <1>1, <1>2, <1>3, <1>4, <1>5, <1>6 DEF Line!Next, listOnly

\* types of the pages, at every step of the desk
LEMMA ListTypedStep ==
  ASSUME ListTyped, PageInv, OrderInv, DeskNext \/ UNCHANGED <<listVars, lineOnly>>
  PROVE  ListTyped'
<1>1. CASE ListNext
  <2>1. ASSUME NEW t \in Tabs, PageStep(t) PROVE ListTyped'
    BY <2>1, PagesTyped, AsksTyped DEF PageStep, Asks
  <2>2. ASSUME NEW r \in Reqs, ReqStep(r) PROVE ListTyped'
    BY <2>2, LooksTyped, InsertsTyped, AnswerTyped, WritesTyped DEF ReqStep, Looks, Inserts, Writes
  <2> QED BY <1>1, <2>1, <2>2, PropStepTyped, StopTyped DEF ListNext
<1>2. CASE LineStep \/ UNCHANGED <<listVars, lineOnly>>
  <2>1. UNCHANGED <<listCast, prop, quest, tab, req, crowd>>
    BY <1>2, LineLeaves DEF listVars, store
  <2>2. active' \in [Props -> BOOLEAN]
    BY <1>2, LineLeaves DEF listVars, store, ListTyped, RestTyped
  <2> QED BY <2>1, <2>2 DEF ListTyped, PropsTyped, RowOK, TabsTyped, ListReqsTyped, RestTyped
<1> QED BY <1>1, <1>2 DEF DeskNext, ListStep

\* types of the pages, at the start
LEMMA ListTypedInit == ASSUME ListInit PROVE ListTyped
<1>1. DOMAIN <<>> = {} /\ <<>> \in [{} -> Question] /\ 0 \in Nat
  OBVIOUS
<1>2. PropsTyped
  <2>1. prop \in [Props -> Property] /\ quest = [p \in Props |-> quest[p]]
    BY NewRowFacts DEF ListInit
  <2>2. ASSUME NEW p \in Props PROVE RowOK(p)
    BY <1>1, NewRowFacts DEF ListInit, RowOK
  <2> QED BY <2>1, <2>2 DEF PropsTyped
<1>3. TabsTyped
  BY AwayGood DEF ListInit, TabsTyped, PageGood
<1>4. ListReqsTyped
  BY IdleGood DEF ListInit, ListReqsTyped, ReqGood
<1>5. RestTyped
  BY <1>1 DEF ListInit, RestTyped
<1> QED BY <1>2, <1>3, <1>4, <1>5 DEF ListTyped

-----------------------------------------------------------------------------
(* The caps                                                                *)

LEMMA Finites == IsFiniteSet(Live) /\ Cardinality(Live) \in Nat
                 /\ \A op, p, at : IsFiniteSet(Past(op, p, at)) /\ Cardinality(Past(op, p, at)) \in Nat
<1>1. IsFiniteSet(Live)
  BY ListingAssumption, FS_Subset DEF Live
<1>2. \A op, p, at : IsFiniteSet(Past(op, p, at))
  BY ListingAssumption, FS_Subset DEF Past
<1> QED BY <1>1, <1>2, FS_CardinalityType

\* a request that leaves the ones past their check makes them one fewer
LEMMA PastLeft == ASSUME NEW op, NEW p, NEW at, NEW r \in Past(op, p, at), Past(op, p, at)' \subseteq Past(op, p, at) \ {r}
  PROVE  Cardinality(Past(op, p, at)') + 1 <= Cardinality(Past(op, p, at))
<1> DEFINE S == Past(op, p, at)
           T == S \ {r}
<1>1. IsFiniteSet(S) /\ IsFiniteSet(T) /\ Cardinality(T) = Cardinality(S) - 1 /\ Cardinality(S) \in Nat
  BY Finites, FS_RemoveElement
<1>2. Cardinality(Past(op, p, at)') <= Cardinality(T) /\ Cardinality(Past(op, p, at)') \in Nat
  BY <1>1, FS_Subset, FS_CardinalityType
<1> QED BY <1>1, <1>2

\* a request that joins the ones past their check makes them at most one more
LEMMA PastGrown == ASSUME NEW op, NEW p, NEW at, NEW r, Past(op, p, at)' \subseteq Past(op, p, at) \cup {r}
  PROVE  /\ Cardinality(Past(op, p, at)') <= Cardinality(Past(op, p, at)) + 1
         /\ Past(op, p, at) = {} => Cardinality(Past(op, p, at)') <= 1
<1> DEFINE S == Past(op, p, at)
           T == S \cup {r}
<1>1. IsFiniteSet(S) /\ IsFiniteSet(T) /\ Cardinality(T) <= Cardinality(S) + 1 /\ Cardinality(S) \in Nat
  <2>1. IsFiniteSet(S) /\ Cardinality(S) \in Nat
    BY Finites
  <2> HIDE DEF S
  <2>2. IsFiniteSet(T) /\ Cardinality(T) = IF r \in S THEN Cardinality(S) ELSE Cardinality(S) + 1
    BY <2>1, FS_AddElement
  <2> QED BY <2>1, <2>2
<1>2. Cardinality(Past(op, p, at)') <= Cardinality(T) /\ Cardinality(Past(op, p, at)') \in Nat
  BY <1>1, FS_Subset, FS_CardinalityType
<1>3. S = {} => Cardinality(S) = 0
  BY FS_EmptySet
<1>4. Cardinality(T) \in Nat
  BY <1>1, FS_CardinalityType
<1> QED BY <1>1, <1>2, <1>3, <1>4

\* no request joins the ones past their check: no more of them
LEMMA PastSame == ASSUME NEW op, NEW p, NEW at, Past(op, p, at)' \subseteq Past(op, p, at)
  PROVE  Cardinality(Past(op, p, at)') <= Cardinality(Past(op, p, at)) /\ Cardinality(Past(op, p, at)') \in Nat
BY Finites, FS_Subset, FS_CardinalityType

\* requests that do not come past a count
Counted(q) == q.op \in {"create", "photo"} /\ q.pc = "insert"
\* which requests are past their check depends on three of their fields
LEMMA PastKept ==
  ASSUME NEW op \in {"create", "photo"}, NEW p,
         \A x \in Reqs : Counted(req'[x]) => Counted(req[x]) /\ req'[x].op = req[x].op /\ req'[x].p = req[x].p
  PROVE  Past(op, p, "insert")' \subseteq Past(op, p, "insert")
BY DEF Past, Counted

\* a step that adds no property, photograph or request past its check
LEMMA CapsSame ==
  ASSUME ListTyped, ListTyped', CapsInv, UNCHANGED <<listCast, crowd>>, Live' \subseteq Live,
         \A p \in Props : prop'[p].photos <= prop[p].photos,
         \A x \in Reqs : Counted(req'[x]) => Counted(req[x]) /\ req'[x].op = req[x].op /\ req'[x].p = req[x].p
  PROVE  CapsInv'
<1>1. Cardinality(Live') <= Cardinality(Live) /\ Cardinality(Live') \in Nat /\ Cardinality(Live) \in Nat
  BY Finites, FS_Subset, FS_CardinalityType
<1>2. \A op \in {"create", "photo"} : \A p :
                                         /\ Cardinality(Past(op, p, "insert")') <= Cardinality(Past(op, p, "insert"))
                                         /\ Cardinality(Past(op, p, "insert")') \in Nat
                                         /\ Cardinality(Past(op, p, "insert")) \in Nat
  BY PastKept, PastSame, Finites
<1>3. /\ crowd[None] \in Nat /\ listCast.limit \in Nat /\ MaxPhotos \in Nat
      /\ \A p \in Props : crowd[p] \in Nat /\ prop[p].photos \in Nat /\ prop'[p].photos \in Nat
  BY ListingAssumption DEF ListTyped, RestTyped, PropsTyped, Property
<1> QED BY <1>1, <1>2, <1>3 DEF CapsInv

\* a request that counted is about to insert
LEMMA CapsLook ==
  ASSUME ListTyped, ListTyped', CapsInv, NEW r \in Reqs, NEW op \in {"create", "photo"}, NEW p \in Props \cup {None},
         UNCHANGED <<listCast, prop>>, (op = "create") = (p = None), Steps(req[r]), req[r].op = op, req[r].p = p,
         req[r].pc = "look",
         op = "create" => Cardinality(Live) < listCast.limit,
         op = "photo" => prop[p].photos < MaxPhotos,
         req' = [req EXCEPT ![r] = [req[r] EXCEPT !.pc = "insert"]],
         crowd' = [crowd EXCEPT ![p] = IF Past(op, p, "insert") # {} THEN crowd[p] + 1 ELSE crowd[p]]
  PROVE  CapsInv'
<1>1. Live' = Live
  BY DEF Live
<1>2. Past(op, p, "insert")' \subseteq Past(op, p, "insert") \cup {r}
  BY DEF ListTyped, ListReqsTyped, ListReqs, Past
<1>3. ASSUME NEW o \in {"create", "photo"}, NEW x \in Props \cup {None}, o # op \/ x # p
      PROVE  Past(o, x, "insert")' \subseteq Past(o, x, "insert")
  BY <1>3 DEF ListTyped, ListReqsTyped, ListReqs, Past
<1>4. ASSUME NEW o \in {"create", "photo"}, NEW x \in Props \cup {None}, o # op \/ x # p
      PROVE  /\ Cardinality(Past(o, x, "insert")') <= Cardinality(Past(o, x, "insert"))
             /\ Cardinality(Past(o, x, "insert")') \in Nat /\ Cardinality(Past(o, x, "insert")) \in Nat
  BY <1>3, <1>4, PastSame, Finites
<1>5. /\ Cardinality(Past(op, p, "insert")') <= Cardinality(Past(op, p, "insert")) + 1
      /\ Past(op, p, "insert") = {} => Cardinality(Past(op, p, "insert")') <= 1
  BY <1>2, PastGrown
<1>6. /\ crowd[None] \in Nat /\ listCast.limit \in Nat /\ MaxPhotos \in Nat /\ Cardinality(Live) \in Nat
      /\ \A x \in Props : crowd[x] \in Nat /\ prop[x].photos \in Nat
      /\ Cardinality(Past(op, p, "insert")') \in Nat /\ Cardinality(Past(op, p, "insert")) \in Nat
      /\ crowd \in [Props \cup {None} -> Nat]
  <2>1. IsFiniteSet(Past(op, p, "insert") \cup {r})
    BY Finites, FS_AddElement
  <2>2. IsFiniteSet(Past(op, p, "insert")')
    BY <1>2, <2>1, FS_Subset
  <2> QED BY <2>2, Finites, ListingAssumption, FS_CardinalityType DEF ListTyped, RestTyped, PropsTyped, Property
<1>7. CASE op = "create"
  <2>1. Cardinality(Live) + Cardinality(Past("create", None, "insert")') <= listCast.limit + crowd'[None]
    <3>1. CASE Past(op, p, "insert") = {}
      BY <1>5, <1>6, <1>7, <3>1
    <3>2. CASE Past(op, p, "insert") # {}
      <4>1. crowd'[None] = crowd[None] + 1
        BY <1>6, <1>7, <3>2
      <4> QED BY <1>5, <1>6, <1>7, <4>1 DEF CapsInv
    <3> QED BY <3>1, <3>2
  <2>2. ASSUME NEW x \in Props PROVE prop[x].photos + Cardinality(Past("photo", x, "insert")') <= MaxPhotos + crowd'[x]
    <3>1. crowd'[x] = crowd[x]
      BY <1>6, <1>7, ListingAssumption DEF None
    <3>2. Cardinality(Past("photo", x, "insert")') <= Cardinality(Past("photo", x, "insert"))
          /\ Cardinality(Past("photo", x, "insert")') \in Nat /\ Cardinality(Past("photo", x, "insert")) \in Nat
      BY <1>4, <1>7
    <3> QED BY <1>6, <3>1, <3>2 DEF CapsInv
  <2> QED BY <1>1, <2>1, <2>2 DEF CapsInv
<1>8. CASE op = "photo"
  <2>0. p \in Props /\ p # None
    BY <1>8
  <2>1. Cardinality(Live) + Cardinality(Past("create", None, "insert")') <= listCast.limit + crowd'[None]
    <3>1. crowd'[None] = crowd[None]
      BY <1>6, <2>0
    <3>2. Cardinality(Past("create", None, "insert")') <= Cardinality(Past("create", None, "insert"))
          /\ Cardinality(Past("create", None, "insert")') \in Nat /\ Cardinality(Past("create", None, "insert")) \in Nat
      BY <1>4, <1>8
    <3> QED BY <1>6, <3>1, <3>2 DEF CapsInv
  <2>2. ASSUME NEW x \in Props \ {p} PROVE prop[x].photos + Cardinality(Past("photo", x, "insert")') <= MaxPhotos + crowd'[x]
    <3>1. crowd'[x] = crowd[x]
      BY <1>6
    <3>2. Cardinality(Past("photo", x, "insert")') <= Cardinality(Past("photo", x, "insert"))
          /\ Cardinality(Past("photo", x, "insert")') \in Nat /\ Cardinality(Past("photo", x, "insert")) \in Nat
      BY <1>4
    <3> QED BY <1>6, <3>1, <3>2 DEF CapsInv
  <2>3. prop[p].photos + Cardinality(Past("photo", p, "insert")') <= MaxPhotos + crowd'[p]
    <3>1. CASE Past(op, p, "insert") = {}
      <4>1. crowd'[p] = crowd[p]
        BY <1>6, <3>1
      <4> QED BY <1>5, <1>6, <1>8, <2>0, <3>1, <4>1
    <3>2. CASE Past(op, p, "insert") # {}
      <4>1. crowd'[p] = crowd[p] + 1
        BY <1>6, <3>2
      <4> QED BY <1>5, <1>6, <1>8, <2>0, <4>1 DEF CapsInv
    <3> QED BY <3>1, <3>2
  <2> QED BY <1>1, <2>1, <2>2, <2>3 DEF CapsInv
<1> QED BY <1>7, <1>8

\* an insert takes the place its request was counted in
LEMMA CapsInsert == ASSUME ListTyped, ListTyped', CapsInv, NEW r \in Reqs, CreateInsert(r) \/ PhotoInsert(r) PROVE CapsInv'
<1> DEFINE q == req[r]
<1>1. q \in ListReqs /\ Steps(q) /\ q.pc = "insert" /\ UNCHANGED <<listCast, crowd>> /\ req' = [req EXCEPT ![r] = Idle]
  BY DEF CreateInsert, PhotoInsert, ListTyped, ListReqsTyped, Done, Go
<1>2. req'[r] = Idle /\ \A x \in Reqs \ {r} : req'[x] = req[x]
  BY <1>1 DEF ListTyped, ListReqsTyped
<1>3. \A op, p : Past(op, p, "insert")' \subseteq Past(op, p, "insert")
  BY <1>2 DEF Past, Idle
<1>4. \A op, p : /\ Cardinality(Past(op, p, "insert")') <= Cardinality(Past(op, p, "insert"))
                 /\ Cardinality(Past(op, p, "insert")') \in Nat /\ Cardinality(Past(op, p, "insert")) \in Nat
  BY <1>3, PastSame, Finites
<1>5. /\ crowd[None] \in Nat /\ listCast.limit \in Nat /\ MaxPhotos \in Nat /\ Cardinality(Live) \in Nat
      /\ \A x \in Props : crowd[x] \in Nat /\ prop[x].photos \in Nat
  BY Finites, ListingAssumption DEF ListTyped, RestTyped, PropsTyped, Property
<1>6. CASE CreateInsert(r)
  <2>1. PICK p \in Props : prop[p].st = "none" /\ prop' = [prop EXCEPT ![p] = NewRow]
    BY <1>6 DEF CreateInsert
  <2>2. r \in Past("create", None, "insert") /\ r \notin Past("create", None, "insert")'
    <3>1. q.op = "create" /\ q.p = None
      BY <1>1, <1>6 DEF CreateInsert, Steps
    <3>2. req'[r].pc = "idle"
      BY <1>2 DEF Idle
    <3> QED BY <1>1, <3>1, <3>2 DEF Past
  <2>3. Cardinality(Past("create", None, "insert")') + 1 <= Cardinality(Past("create", None, "insert"))
    BY <1>3, <2>2, PastLeft
  <2>4. Live' = Live \cup {p} /\ p \notin Live
    BY <2>1, NewRowFacts DEF Live, ListTyped, PropsTyped
  <2>5. Cardinality(Live') = Cardinality(Live) + 1
    BY <2>4, Finites, FS_AddElement
  <2>6. Cardinality(Live') + Cardinality(Past("create", None, "insert")') <= listCast.limit + crowd[None]
    BY <1>4, <1>5, <2>3, <2>5 DEF CapsInv
  <2>7. ASSUME NEW x \in Props PROVE prop'[x].photos + Cardinality(Past("photo", x, "insert")') <= MaxPhotos + crowd[x]
    <3>1. prop'[x].photos <= prop[x].photos /\ prop'[x].photos \in Nat
      BY <1>5, <2>1, NewRowFacts DEF ListTyped, PropsTyped
    <3>2. prop[x].photos + Cardinality(Past("photo", x, "insert")) <= MaxPhotos + crowd[x]
      BY DEF CapsInv
    <3>3. Cardinality(Past("photo", x, "insert")') <= Cardinality(Past("photo", x, "insert"))
          /\ Cardinality(Past("photo", x, "insert")') \in Nat /\ Cardinality(Past("photo", x, "insert")) \in Nat
      BY <1>4
    <3>4. crowd[x] \in Nat /\ prop[x].photos \in Nat /\ MaxPhotos \in Nat
      BY <1>5
    <3> QED BY <3>1, <3>2, <3>3, <3>4
  <2> QED BY <1>1, <2>6, <2>7 DEF CapsInv
<1>7. CASE PhotoInsert(r)
  <2>0. PICK p : p = q.p
    OBVIOUS
  <2>1. p \in Props /\ r \in Past("photo", p, "insert") /\ r \notin Past("photo", p, "insert")' /\ prop[p] \in Property
    BY <1>1, <1>2, <1>7, <2>0 DEF PhotoInsert, Past, Steps, Idle, ListTyped, PropsTyped
  <2>2. Cardinality(Past("photo", p, "insert")') + 1 <= Cardinality(Past("photo", p, "insert"))
    BY <1>3, <2>1, PastLeft
  <2>3. prop' = prop \/ prop' = [prop EXCEPT ![p] = [prop[p] EXCEPT !.photos = prop[p].photos + 1]]
    <3>1. prop' = prop \/ prop' = [prop EXCEPT ![p].photos = @ + 1]
      BY <1>7, <2>0 DEF PhotoInsert
    <3> QED BY <2>1, <3>1 DEF ListTyped, PropsTyped, Property
  <2>4. prop'[p].photos <= prop[p].photos + 1 /\ prop'[p].photos \in Nat
    BY <1>5, <2>1, <2>3 DEF ListTyped, PropsTyped, Property
  <2>5. Live' = Live /\ \A x \in Props \ {p} : prop'[x] = prop[x]
    BY <2>1, <2>3 DEF Live, ListTyped, PropsTyped, Property
  <2>6. Cardinality(Live') + Cardinality(Past("create", None, "insert")') <= listCast.limit + crowd[None]
    BY <1>4, <1>5, <2>5 DEF CapsInv
  <2>7. ASSUME NEW x \in Props PROVE prop'[x].photos + Cardinality(Past("photo", x, "insert")') <= MaxPhotos + crowd[x]
    <3>1. prop[x].photos + Cardinality(Past("photo", x, "insert")) <= MaxPhotos + crowd[x]
      BY DEF CapsInv
    <3>2. /\ Cardinality(Past("photo", x, "insert")') <= Cardinality(Past("photo", x, "insert"))
          /\ Cardinality(Past("photo", x, "insert")') \in Nat /\ Cardinality(Past("photo", x, "insert")) \in Nat
      BY <1>4
    <3>3. crowd[x] \in Nat /\ prop[x].photos \in Nat /\ MaxPhotos \in Nat
      BY <1>5
    <3>4. CASE x = p
      BY <2>2, <2>4, <3>1, <3>2, <3>3, <3>4
    <3>5. CASE x # p
      BY <2>5, <3>1, <3>2, <3>3, <3>5
    <3> QED BY <3>4, <3>5
  <2> QED BY <1>1, <2>6, <2>7 DEF CapsInv
<1> QED BY <1>6, <1>7

\* the caps, at every step
LEMMA CapsStep == ASSUME ListTyped, ListTyped', CapsInv, PageInv, DeskNext \/ UNCHANGED <<listVars, lineOnly>> PROVE CapsInv'
<1> DEFINE Fewer == \A x \in Reqs : Counted(req'[x]) => Counted(req[x]) /\ req'[x].op = req[x].op /\ req'[x].p = req[x].p
<1>0. \A p \in Props : prop[p].photos \in Nat /\ prop[p] \in Property
  BY DEF ListTyped, PropsTyped, Property
<1>1. CASE UNCHANGED <<prop, listCast, crowd>> /\ Fewer
  <2>1. Live' \subseteq Live /\ \A p \in Props : prop'[p].photos <= prop[p].photos
    BY <1>0, <1>1 DEF Live
  <2> QED BY <1>1, <2>1, CapsSame
<1>2. CASE LineStep \/ UNCHANGED <<listVars, lineOnly>>
  BY <1>1, <1>2, LineLeaves DEF listVars, store
<1>3. ASSUME NEW t \in Tabs, PageStep(t) PROVE CapsInv'
  <2>1. CASE Open(t) \/ WizardQuestions(t) \/ WizardEnd(t) \/ Toggle(t)
    <3>1. UNCHANGED <<prop, listCast, crowd>> /\ (req' = req \/ req' = Unheard(t))
      BY <2>1 DEF Open, WizardQuestions, WizardEnd, Toggle, store
    <3>2. \A x \in Reqs : req'[x] = req[x] \/ req'[x] = [req[x] EXCEPT !.t = None]
      BY <3>1 DEF Unheard
    <3>3. \A x \in Reqs : req'[x].op = req[x].op /\ req'[x].p = req[x].p /\ req'[x].pc = req[x].pc
      <4>1. ASSUME NEW x \in Reqs PROVE req'[x].op = req[x].op /\ req'[x].p = req[x].p /\ req'[x].pc = req[x].pc
        <5>1. req[x] \in ListReqs /\ (req'[x] = req[x] \/ req'[x] = [req[x] EXCEPT !.t = None])
          BY <3>2 DEF ListTyped, ListReqsTyped
        <5> QED BY <5>1 DEF ListReqs
      <4> QED BY <4>1
    <3>4. Fewer
      BY <3>3 DEF Counted
    <3> QED BY <1>1, <3>1, <3>4
  <2>2. ASSUME NEW r \in Reqs, Asks(t, r) PROVE CapsInv'
    <3>1. UNCHANGED <<prop, listCast, crowd>>
      BY <2>2, AskForms
    <3>2. PICK q : req' = [req EXCEPT ![r] = q] /\ q.pc = "look"
      BY <2>2, AskForms
    <3>3. Fewer
      BY <3>2 DEF Counted, ListTyped, ListReqsTyped
    <3> QED BY <1>1, <3>1, <3>3
  <2> QED BY <1>3, <2>1, <2>2 DEF PageStep, Asks
<1>4. ASSUME NEW r \in Reqs, ReqStep(r) PROVE CapsInv'
  <2> DEFINE q == req[r]
  <2>0. q \in ListReqs /\ Steps(q) /\ Idle.pc = "idle"
    BY DEF ListTyped, ListReqsTyped, Idle
  <2>1. ASSUME NEW new, Go(r, new), ~Counted(new) PROVE Fewer
    BY <2>1 DEF Go, Counted, ListTyped, ListReqsTyped
  <2>2. CASE CreateLook(r) \/ PhotoLook(r)
    <3>0. UNCHANGED <<prop, listCast>> /\ q.pc = "look"
      BY <2>2 DEF CreateLook, PhotoLook, store
    <3>1. CASE Done(r) /\ crowd' = crowd
      <4>1. Fewer
        BY <2>0, <2>1, <3>1 DEF Done, Counted
      <4> QED BY <1>1, <3>0, <3>1, <4>1
    <3>2. CASE CreateLook(r) /\ ~(Done(r) /\ crowd' = crowd)
      <4>1. /\ q.op = "create" /\ Cardinality(Live) < listCast.limit
            /\ req' = [req EXCEPT ![r] = [req[r] EXCEPT !.pc = "insert"]]
            /\ crowd' = [crowd EXCEPT ![None] = IF Past("create", None, "insert") # {} THEN crowd[None] + 1 ELSE crowd[None]]
        BY <3>2 DEF CreateLook, Below, Go
      <4>2. q.p = None
        BY <2>0, <4>1 DEF Steps
      <4> QED BY <2>0, <3>0, <4>1, <4>2, CapsLook
    <3>3. CASE PhotoLook(r) /\ ~(Done(r) /\ crowd' = crowd)
      <4>0. PICK p : p = q.p
        OBVIOUS
      <4>1. /\ q.op = "photo" /\ prop[p].photos < MaxPhotos
            /\ req' = [req EXCEPT ![r] = [req[r] EXCEPT !.pc = "insert"]]
            /\ crowd' = [crowd EXCEPT ![p] = IF Past("photo", p, "insert") # {} THEN crowd[p] + 1 ELSE crowd[p]]
        BY <3>3, <4>0 DEF PhotoLook, Below, Go
      <4>2. p \in Props /\ p # None
        BY <2>0, <4>0, <4>1, ListingAssumption DEF Steps, None
      <4> QED BY <2>0, <3>0, <4>0, <4>1, <4>2, CapsLook
    <3> QED BY <2>2, <3>1, <3>2, <3>3
  <2>3. CASE CreateInsert(r) \/ PhotoInsert(r)
    BY <2>3, CapsInsert
  <2>4. CASE AddLook(r) \/ ReorderLook(r) \/ DeleteLook(r) \/ Answer(r) \/ ReorderCommit(r) \/ Drop(r) \/ DeleteQuestions(r)
    <3>1. UNCHANGED <<prop, listCast, crowd>>
      BY <2>4 DEF AddLook, ReorderLook, DeleteLook, Answer, ReorderCommit, Drop, DeleteQuestions, store
    <3>2. PICK new \in {Idle, [q EXCEPT !.pc = "insert", !.n = NextOrder(q.p)], [q EXCEPT !.pc = "commit"],
                      [q EXCEPT !.pc = "questions"], [q EXCEPT !.pc = "look", !.left = @ - 1], [q EXCEPT !.pc = "answer"],
                      [q EXCEPT !.pc = "photos"]} :
            Go(r, new) /\ (AddLook(r) \/ new # [q EXCEPT !.pc = "insert", !.n = NextOrder(q.p)])
      <4>1. CASE AddLook(r)
        BY <4>1 DEF AddLook, Done
      <4>2. CASE ReorderLook(r) \/ DeleteLook(r) \/ ReorderCommit(r) \/ Drop(r) \/ DeleteQuestions(r)
        <5>1. \A x : x.pc # "insert" => x # [q EXCEPT !.pc = "insert", !.n = NextOrder(q.p)]
          BY <2>0 DEF ListReqs
        <5>2. /\ Idle.pc # "insert" /\ [q EXCEPT !.pc = "commit"].pc # "insert" /\ [q EXCEPT !.pc = "questions"].pc # "insert"
              /\ [q EXCEPT !.pc = "answer"].pc # "insert" /\ [q EXCEPT !.pc = "photos"].pc # "insert"
          BY <2>0 DEF ListReqs
        <5> QED BY <4>2, <5>1, <5>2 DEF ReorderLook, DeleteLook, ReorderCommit, Drop, DeleteQuestions, Done
      <4>3. CASE Answer(r)
        <5>1. Idle.pc # "insert" /\ [q EXCEPT !.pc = "look", !.left = @ - 1].pc # "insert"
              /\ [q EXCEPT !.pc = "insert", !.n = NextOrder(q.p)].pc = "insert"
          BY <2>0 DEF ListReqs
        <5> QED BY <4>3, <5>1 DEF Answer, Done
      <4> QED BY <2>4, <4>1, <4>2, <4>3
    <3>3. ~Counted(new)
      BY <2>0, <3>2 DEF AddLook, Counted, ListReqs
    <3> QED BY <1>1, <2>1, <3>1, <3>2, <3>3
  <2>5. CASE AddInsert(r) \/ DeletePhotos(r) \/ DeleteRow(r)
    <3>1. UNCHANGED <<listCast, crowd>>
      BY <2>5 DEF AddInsert, DeletePhotos, DeleteRow
    <3>2. PICK new \in {Idle, [q EXCEPT !.pc = "answer", !.q = prop[q.p].made + 1], [q EXCEPT !.pc = "row"]} : Go(r, new)
      BY <2>5 DEF AddInsert, DeletePhotos, DeleteRow, Done
    <3>6. ~Counted(new)
      BY <2>0, <3>2 DEF Counted, ListReqs
    <3>3. PICK p : p = q.p
      OBVIOUS
    <3>4. \/ prop' = prop \/ prop' = [prop EXCEPT ![p] = [prop[p] EXCEPT !.photos = 0]]
          \/ prop' = [prop EXCEPT ![p] = [NoRow EXCEPT !.st = "gone"]]
          \/ prop' = [prop EXCEPT ![p] = [prop[p] EXCEPT !.made = prop[p].made + 1]]
      BY <2>5, <3>3 DEF AddInsert, DeletePhotos, DeleteRow, store
    <3>5. Live' \subseteq Live /\ \A x \in Props : prop'[x].photos <= prop[x].photos
      <4>1. ASSUME NEW x \in Props
            PROVE  /\ prop'[x].photos = prop[x].photos \/ prop'[x].photos = 0
                   /\ prop'[x].st = prop[x].st \/ prop'[x].st = "gone"
        <5>1. CASE x # p \/ prop' = prop
          BY <3>4, <5>1 DEF ListTyped, PropsTyped
        <5>2. CASE x = p /\ prop' # prop
          <6>1. /\ prop[x] \in Property
                /\ \/ prop'[x] = [prop[x] EXCEPT !.photos = 0] \/ prop'[x] = [NoRow EXCEPT !.st = "gone"]
                   \/ prop'[x] = [prop[x] EXCEPT !.made = prop[x].made + 1]
            BY <3>4, <5>2 DEF ListTyped, PropsTyped
          <6> QED BY <6>1 DEF NoRow, Property
        <5> QED BY <5>1, <5>2
      <4> QED BY <1>0, <4>1 DEF Live
    <3> QED BY <2>1, <3>1, <3>2, <3>5, <3>6, CapsSame
  <2> QED BY <1>4, <2>2, <2>3, <2>4, <2>5 DEF ReqStep
<1>5. ASSUME NEW p \in Props, PropStep(p) PROVE CapsInv'
  <2>1. UNCHANGED <<listCast, crowd, req>>
    BY <1>5 DEF PropStep, PhotoDelete, DraftBegin, DraftEnd, Call
  <2>2. \/ prop[p].photos > 0 /\ prop' = [prop EXCEPT ![p] = [prop[p] EXCEPT !.photos = prop[p].photos - 1]]
        \/ prop' = [prop EXCEPT ![p] = [prop[p] EXCEPT !.draft = TRUE]]
        \/ prop' = [prop EXCEPT ![p] = [prop[p] EXCEPT !.draft = FALSE, !.tied = TRUE]]
        \/ prop' = [prop EXCEPT ![p] = [prop[p] EXCEPT !.tied = TRUE]]
    <3>1. PhotoDelete(p) => prop[p].photos > 0 /\ prop' = [prop EXCEPT ![p].photos = @ - 1]
      BY DEF PhotoDelete
    <3>2. PhotoDelete(p) => prop' = [prop EXCEPT ![p] = [prop[p] EXCEPT !.photos = prop[p].photos - 1]]
      BY <1>0, <3>1 DEF ListTyped, PropsTyped, Property
    <3> QED BY <1>5, <3>1, <3>2 DEF PropStep, DraftBegin, DraftEnd, Call
  <2>3. Live' \subseteq Live /\ \A x \in Props : prop'[x].photos <= prop[x].photos
    <3>1. \A x \in Props \ {p} : prop'[x] = prop[x]
      BY <2>2 DEF ListTyped, PropsTyped
    <3>2. prop'[p].st = prop[p].st /\ prop'[p].photos <= prop[p].photos
      <4>1. PICK n \in Nat : n = prop[p].photos
        BY <1>0
      <4>2. n > 0 => n - 1 <= n
        OBVIOUS
      <4>3. n <= n /\ prop'[p].st = prop[p].st /\ (prop'[p].photos = n \/ (n > 0 /\ prop'[p].photos = n - 1))
        <5>1. /\ prop[p] \in Property
              /\ \/ prop[p].photos > 0 /\ prop'[p] = [prop[p] EXCEPT !.photos = prop[p].photos - 1]
                 \/ prop'[p] = [prop[p] EXCEPT !.draft = TRUE]
                 \/ prop'[p] = [prop[p] EXCEPT !.draft = FALSE, !.tied = TRUE]
                 \/ prop'[p] = [prop[p] EXCEPT !.tied = TRUE]
          BY <1>0, <2>2 DEF ListTyped, PropsTyped
        <5>2. CASE prop[p].photos > 0 /\ prop'[p] = [prop[p] EXCEPT !.photos = prop[p].photos - 1]
          <6>1. prop'[p].photos = prop[p].photos - 1 /\ prop'[p].st = prop[p].st
            BY <5>1, <5>2 DEF Property
          <6> QED BY <4>1, <5>2, <6>1
        <5>3. CASE \/ prop'[p] = [prop[p] EXCEPT !.draft = TRUE]
                   \/ prop'[p] = [prop[p] EXCEPT !.draft = FALSE, !.tied = TRUE]
                   \/ prop'[p] = [prop[p] EXCEPT !.tied = TRUE]
          <6>1. prop'[p].photos = prop[p].photos /\ prop'[p].st = prop[p].st
            BY <5>1, <5>3 DEF Property
          <6> QED BY <4>1, <6>1
        <5> QED BY <5>1, <5>2, <5>3
      <4> QED BY <4>1, <4>2, <4>3
    <3> QED BY <1>0, <3>1, <3>2 DEF Live
  <2>4. Fewer
    BY <2>1
  <2> QED BY <2>1, <2>3, <2>4, CapsSame
<1>6. CASE Stop
  <2>1. UNCHANGED <<prop, listCast, crowd>> /\ Fewer
    BY <1>6 DEF Stop, store, Counted, Idle
  <2> QED BY <1>1, <2>1
<1> QED BY <1>2, <1>3, <1>4, <1>5, <1>6 DEF DeskNext, ListStep, ListNext

\* the caps, at the start
LEMMA CapsInit == ASSUME ListInit, ListTyped PROVE CapsInv
<1>1. Live = listCast.live /\ Cardinality(listCast.live) <= listCast.limit /\ listCast.limit \in Nat
  BY NewRowFacts, ListingAssumption DEF ListInit, Live
<1>2. \A op, p : Past(op, p, "insert") = {}
  BY DEF ListInit, Past, Idle
<1>3. crowd[None] = 0 /\ (\A p \in Props : crowd[p] = 0 /\ prop[p].photos = 0) /\ MaxPhotos \in Nat
  BY NewRowFacts, ListingAssumption DEF ListInit, NoRow
<1>4. Cardinality(Live) \in Nat /\ Cardinality({}) = 0
  BY Finites, FS_EmptySet
<1>5. Past("create", None, "insert") = {} /\ \A p \in Props : Past("photo", p, "insert") = {}
  BY <1>2
<1>6. Cardinality(Live) + Cardinality(Past("create", None, "insert")) <= listCast.limit + crowd[None]
  BY <1>1, <1>3, <1>4, <1>5
<1>7. \A p \in Props : prop[p].photos + Cardinality(Past("photo", p, "insert")) <= MaxPhotos + crowd[p]
  BY <1>3, <1>4, <1>5
<1> QED BY <1>6, <1>7 DEF CapsInv

\* the inductive form of the caps gives the property
LEMMA CapsHeld == ASSUME ListTyped, CapsInv PROVE CapsBounded
<1>1. /\ crowd[None] \in Nat /\ listCast.limit \in Nat /\ MaxPhotos \in Nat /\ Cardinality(Live) \in Nat
      /\ \A x \in Props : crowd[x] \in Nat /\ prop[x].photos \in Nat
      /\ \A op, p, at : Cardinality(Past(op, p, at)) \in Nat
  BY Finites, ListingAssumption DEF ListTyped, RestTyped, PropsTyped, Property
<1>2. Cardinality(Live) <= listCast.limit + crowd[None]
  BY <1>1 DEF CapsInv
<1>3. ASSUME NEW p \in Props PROVE prop[p].photos <= MaxPhotos + crowd[p]
  BY <1>1 DEF CapsInv
<1> QED BY <1>2, <1>3 DEF CapsBounded

-----------------------------------------------------------------------------
(* Drafts                                                                  *)

StdRows(p) == {q \in Rows(p) : quest[p][q].std}

\* a draft keeps its standard questions while none of them goes
LEMMA WholeKept == ASSUME ListTyped, ListTyped', NEW p \in Props, Whole(p), StdRows(p) \subseteq StdRows(p)'
  PROVE  Whole(p)'
<1>1. PropsTyped' /\ PropsTyped
  BY DEF ListTyped
<1>2. IsFiniteSet(Rows(p)) /\ IsFiniteSet(Rows(p)')
  <2>1. IsFiniteSet(Rows(p))
    BY <1>1, RowsFinite
  <2>2. Rows(p)' \subseteq 1..prop'[p].made /\ prop'[p].made \in Nat
    BY <1>1 DEF PropsTyped, RowOK, Rows, Property
  <2>3. IsFiniteSet(1..prop'[p].made)
    <3>1. prop'[p].made \in Int /\ 1 \in Int
      BY <2>2
    <3> QED BY <3>1, FS_Interval
  <2> QED BY <2>1, <2>2, <2>3, FS_Subset
<1>3. IsFiniteSet(StdRows(p)) /\ IsFiniteSet(StdRows(p)')
  BY <1>2, FS_Subset DEF StdRows
<1>4. Cardinality(StdRows(p)) <= Cardinality(StdRows(p)') /\ Cardinality(StdRows(p)) \in Nat /\ Cardinality(StdRows(p)') \in Nat
  BY <1>3, FS_Subset, FS_CardinalityType
<1> QED BY <1>4, ListingAssumption DEF Whole, StdRows

\* deletions past their check
Deleting(q) == q.op = "delete" /\ q.pc # "look"

\* a step that leaves a property's questions alone
LEMMA DraftSame ==
  ASSUME ListTyped, ListTyped', DraftInv, sure' \subseteq sure,
         \A p \in sure' : p \in Live' /\ prop'[p].draft /\ StdRows(p) \subseteq StdRows(p)',
         \A x \in Reqs : Deleting(req'[x]) /\ req'[x].p \in sure' => Deleting(req[x]) /\ req'[x].p = req[x].p
  PROVE  DraftInv'
<1>1. ASSUME NEW p \in sure' PROVE p \in Props /\ Whole(p)'
  BY <1>1, WholeKept DEF DraftInv
<1> QED BY <1>1 DEF DraftInv, Deleting

\* drafts, at every step
LEMMA DraftStep == ASSUME ListTyped, ListTyped', DraftInv, PageInv, DeskNext \/ UNCHANGED <<listVars, lineOnly>> PROVE DraftInv'
<1> DEFINE Fewer == \A x \in Reqs : Deleting(req'[x]) /\ req'[x].p \in sure' => Deleting(req[x]) /\ req'[x].p = req[x].p
<1>0. \A p \in sure : p \in Props /\ p \in Live /\ prop[p] \in Property /\ prop[p].draft
  BY DEF ListTyped, PropsTyped, DraftInv
<1>1. CASE UNCHANGED <<prop, quest, sure>> /\ Fewer
  BY <1>0, <1>1, DraftSame DEF Live, StdRows, Rows
<1>2. CASE LineStep \/ UNCHANGED <<listVars, lineOnly>>
  BY <1>1, <1>2, LineLeaves DEF listVars, store
<1>3. ASSUME NEW t \in Tabs, PageStep(t) PROVE DraftInv'
  <2>1. CASE Open(t) \/ WizardQuestions(t) \/ WizardEnd(t) \/ Toggle(t)
    <3>1. UNCHANGED <<prop, quest, sure>> /\ (req' = req \/ req' = Unheard(t))
      BY <2>1 DEF Open, WizardQuestions, WizardEnd, Toggle, store
    <3>2. ASSUME NEW x \in Reqs PROVE req'[x].op = req[x].op /\ req'[x].p = req[x].p /\ req'[x].pc = req[x].pc
      <4>1. req[x] \in ListReqs /\ (req'[x] = req[x] \/ req'[x] = [req[x] EXCEPT !.t = None])
        BY <3>1 DEF Unheard, ListTyped, ListReqsTyped
      <4> QED BY <4>1 DEF ListReqs
    <3>3. Fewer
      BY <3>2 DEF Deleting
    <3> QED BY <1>1, <3>1, <3>3
  <2>2. ASSUME NEW r \in Reqs, Asks(t, r) PROVE DraftInv'
    <3>1. UNCHANGED <<prop, quest, sure>>
      BY <2>2, AskForms
    <3>2. PICK q : req' = [req EXCEPT ![r] = q] /\ q.pc = "look"
      BY <2>2, AskForms
    <3>3. Fewer
      BY <3>2 DEF Deleting, ListTyped, ListReqsTyped
    <3> QED BY <1>1, <3>1, <3>3
  <2> QED BY <1>3, <2>1, <2>2 DEF PageStep, Asks
<1>4. ASSUME NEW r \in Reqs, ReqStep(r) PROVE DraftInv'
  <2> DEFINE q == req[r]
  <2>0. q \in ListReqs /\ Steps(q) /\ ~Deleting(Idle) /\ sure' = sure
    BY <1>4 DEF ListTyped, ListReqsTyped, Idle, Deleting, ReqStep, CreateLook, CreateInsert, PhotoLook, PhotoInsert, AddLook, AddInsert, Answer, ReorderLook,
                ReorderCommit, Drop, DeleteLook, DeleteQuestions, DeletePhotos, DeleteRow
  <2>1. ASSUME NEW new, Go(r, new), Deleting(new) => (Deleting(q) /\ new.p = q.p) \/ new.p \notin sure PROVE Fewer
    BY <2>0, <2>1 DEF Go, ListTyped, ListReqsTyped
  <2>2. PICK p : p = q.p
    OBVIOUS
  <2>3. CASE CreateLook(r) \/ PhotoLook(r) \/ AddLook(r) \/ ReorderLook(r) \/ Answer(r)
    <3>1. UNCHANGED <<prop, quest, sure>> /\ q.op # "delete"
      BY <2>0, <2>3 DEF CreateLook, PhotoLook, AddLook, ReorderLook, Answer, store, Steps
    <3>2. PICK new \in {Idle, [q EXCEPT !.pc = "insert"], [q EXCEPT !.pc = "insert", !.n = NextOrder(q.p)], [q EXCEPT !.pc = "commit"],
                      [q EXCEPT !.pc = "look", !.left = @ - 1]} : Go(r, new)
      BY <2>3 DEF CreateLook, PhotoLook, AddLook, ReorderLook, Answer, Done
    <3>4. new = Idle \/ new.op = q.op
      BY <2>0, <3>2 DEF ListReqs
    <3>3. ~Deleting(new)
      BY <2>0, <3>1, <3>4 DEF Deleting
    <3> QED BY <1>1, <2>1, <3>1, <3>2, <3>3
  <2>4. CASE DeleteLook(r)
    <3>1. UNCHANGED <<prop, quest, sure>>
      BY <2>4 DEF DeleteLook, store
    <3>2. CASE Done(r)
      BY <1>1, <2>0, <2>1, <3>1, <3>2 DEF Done
    <3>3. CASE Go(r, [q EXCEPT !.pc = "questions"]) /\ MayDelete(q.p)
      <4>1. q.p \notin sure /\ [q EXCEPT !.pc = "questions"].p = q.p
        BY <1>0, <2>0, <3>3 DEF MayDelete, ListReqs
      <4> QED BY <1>1, <2>1, <3>1, <3>3, <4>1
    <3> QED BY <2>4, <3>2, <3>3 DEF DeleteLook
  <2>5. CASE CreateInsert(r)
    <3>1. PICK x \in Props : prop[x].st = "none" /\ prop' = [prop EXCEPT ![x] = NewRow] /\ quest' = [quest EXCEPT ![x] = Fresh]
      BY <2>5 DEF CreateInsert
    <3>2. x \notin sure
      BY <1>0, <3>1 DEF Live
    <3>3. \A y \in sure : prop'[y] = prop[y] /\ quest'[y] = quest[y]
      BY <1>0, <3>1, <3>2 DEF ListTyped, PropsTyped
    <3>4. Fewer
      BY <2>0, <2>1, <2>5 DEF CreateInsert, Done
    <3> QED BY <1>0, <2>0, <3>3, <3>4, DraftSame DEF Live, StdRows, Rows
  <2>6. CASE PhotoInsert(r) \/ DeletePhotos(r)
    <3>1. /\ quest' = quest /\ Fewer
      <4>1. quest' = quest
        BY <2>6 DEF PhotoInsert, DeletePhotos
      <4>2. CASE PhotoInsert(r)
        BY <2>0, <2>1, <4>2 DEF PhotoInsert, Done
      <4>3. CASE DeletePhotos(r)
        <5>0. PICK new : new = [q EXCEPT !.pc = "row"]
          OBVIOUS
        <5>1. Go(r, new) /\ Deleting(q) /\ new.p = q.p
          BY <2>0, <4>3, <5>0 DEF DeletePhotos, Deleting, ListReqs
        <5>2. Deleting(new) => (Deleting(q) /\ new.p = q.p) \/ new.p \notin sure
          BY <5>1
        <5> QED BY <2>1, <4>1, <5>1, <5>2
      <4> QED BY <2>6, <4>1, <4>2, <4>3
    <3>2. ASSUME NEW y \in sure PROVE prop'[y].st = prop[y].st /\ prop'[y].draft = prop[y].draft
      <4>1. PhotoInsert(r) => prop' = prop \/ prop' = [prop EXCEPT ![p].photos = @ + 1]
        BY <2>2 DEF PhotoInsert
      <4>2. DeletePhotos(r) => prop' = [prop EXCEPT ![p] = [prop[p] EXCEPT !.photos = 0]]
        BY <2>2 DEF DeletePhotos
      <4>3. CASE y # p \/ prop' = prop
        BY <1>0, <2>6, <4>1, <4>2, <4>3 DEF ListTyped, PropsTyped
      <4>4. CASE y = p /\ prop' # prop
        <5>1. prop[p] \in Property /\ p \in Props /\ prop \in [Props -> Property]
          BY <1>0, <4>4 DEF ListTyped, PropsTyped
        <5>2. prop'[p] = [prop[p] EXCEPT !.photos = 0] \/ prop'[p] = [prop[p] EXCEPT !.photos = prop[p].photos + 1]
          BY <2>6, <4>1, <4>2, <4>4, <5>1 DEF Property
        <5> QED BY <4>4, <5>1, <5>2 DEF Property
      <4> QED BY <4>3, <4>4
    <3> QED BY <1>0, <2>0, <3>1, <3>2, DraftSame DEF Live, StdRows, Rows
  <2>7. CASE AddInsert(r)
    <3>1. Fewer
      <4>1. PICK new \in {Idle, [q EXCEPT !.pc = "answer", !.q = prop[q.p].made + 1]} : Go(r, new)
        BY <2>7 DEF AddInsert, Done
      <4>2. ~Deleting(new)
        BY <2>0, <2>7, <4>1 DEF AddInsert, Deleting, ListReqs
      <4> QED BY <2>1, <4>1, <4>2
    <3>2. CASE p \notin Live
      BY <1>1, <2>0, <2>2, <2>7, <3>1, <3>2 DEF AddInsert
    <3>3. CASE p \in Live
      <4>1. PICK n : n = prop[p].made + 1
        OBVIOUS
      <4>2. /\ prop' = [prop EXCEPT ![p] = [prop[p] EXCEPT !.made = n]]
            /\ quest' = [quest EXCEPT ![p] = [x \in Rows(p) \cup {n} |-> IF x = n THEN [order |-> q.n, std |-> q.std] ELSE quest[p][x]]]
        BY <2>2, <2>7, <3>3, <4>1 DEF AddInsert
      <4>3. p \in Props /\ Rows(p) \subseteq 1..prop[p].made /\ prop[p] \in Property /\ prop[p].made \in Nat
        BY <3>3, RowsFinite DEF Live, ListTyped
      <4>4. n \notin Rows(p)
        BY <4>1, <4>3
      <4>5. prop'[p].st = prop[p].st /\ prop'[p].draft = prop[p].draft /\ \A y \in Props \ {p} : prop'[y] = prop[y] /\ quest'[y] = quest[y]
        BY <4>2, <4>3 DEF ListTyped, PropsTyped, Property
      <4>6. quest'[p] = [x \in Rows(p) \cup {n} |-> IF x = n THEN [order |-> q.n, std |-> q.std] ELSE quest[p][x]]
        BY <4>2, <4>3 DEF ListTyped, PropsTyped
      <4>7. StdRows(p) \subseteq StdRows(p)'
        BY <4>4, <4>6 DEF StdRows, Rows
      <4>8. ASSUME NEW y \in sure PROVE y \in Live' /\ prop'[y].draft /\ StdRows(y) \subseteq StdRows(y)'
        BY <1>0, <4>5, <4>7 DEF Live, StdRows, Rows
      <4> QED BY <2>0, <3>1, <4>8, DraftSame
    <3> QED BY <3>2, <3>3
  <2>8. CASE ReorderCommit(r) \/ Drop(r)
    <3>1. prop' = prop
      BY <2>8 DEF ReorderCommit, Drop
    <3>2. Fewer
      <4>1. PICK new \in {Idle, [q EXCEPT !.pc = "answer"]} : Go(r, new)
        BY <2>8 DEF ReorderCommit, Drop, Done
      <4>2. ~Deleting(new)
        BY <2>0, <2>8, <4>1 DEF ReorderCommit, Drop, Deleting, ListReqs
      <4> QED BY <2>1, <4>1, <4>2
    <3>3. ASSUME NEW y \in sure PROVE StdRows(y) \subseteq StdRows(y)'
      <4>1. quest[y] \in [Rows(y) -> Question]
        BY <1>0 DEF ListTyped, PropsTyped, RowOK, Rows
      <4>2. CASE quest' = quest \/ y # p
        BY <1>0, <2>2, <2>8, <4>2 DEF ReorderCommit, Drop, ListTyped, PropsTyped, StdRows, Rows
      <4>3. CASE ReorderCommit(r) /\ y = p /\ quest' # quest
        <5>1. quest' = [quest EXCEPT ![p] =
                 [x \in Rows(p) |-> IF x \in Listed(q.list)
                                      THEN [quest[p][x] EXCEPT !.order = (CHOOSE i \in 1..Len(q.list) : q.list[i] = x) - 1] ELSE quest[p][x]]]
          BY <2>2, <4>3 DEF ReorderCommit
        <5>2. quest'[p] = [x \in Rows(p) |-> IF x \in Listed(q.list)
                                      THEN [quest[p][x] EXCEPT !.order = (CHOOSE i \in 1..Len(q.list) : q.list[i] = x) - 1] ELSE quest[p][x]]
          BY <1>0, <4>3, <5>1 DEF ListTyped, PropsTyped
        <5>3. \A x \in Rows(p) : quest'[p][x].std = quest[p][x].std
          BY <4>1, <4>3, <5>2 DEF Question
        <5>4. Rows(p)' = Rows(p)
          BY <5>2 DEF Rows
        <5> QED BY <4>3, <5>3, <5>4 DEF StdRows
      <4>4. CASE Drop(r) /\ y = p /\ quest' # quest
        <5>1. quest' = [quest EXCEPT ![p] = [x \in Rows(p) \ {q.q} |-> quest[p][x]]] /\ ~quest[p][q.q].std
          BY <2>2, <4>4 DEF Drop
        <5>2. quest'[p] = [x \in Rows(p) \ {q.q} |-> quest[p][x]]
          BY <1>0, <4>4, <5>1 DEF ListTyped, PropsTyped
        <5> QED BY <4>4, <5>1, <5>2 DEF StdRows, Rows
      <4> QED BY <2>8, <4>2, <4>3, <4>4
    <3> QED BY <1>0, <2>0, <3>1, <3>2, <3>3, DraftSame DEF Live
  <2>9. CASE DeleteQuestions(r) \/ DeleteRow(r)
    <3>1. Deleting(q) /\ p \notin sure /\ p \in Props
      BY <2>0, <2>2, <2>9 DEF DeleteQuestions, DeleteRow, Deleting, DraftInv, Steps
    <3>2. \A y \in sure : prop'[y] = prop[y] /\ quest'[y] = quest[y]
      BY <1>0, <2>2, <2>9, <3>1 DEF DeleteQuestions, DeleteRow, store, ListTyped, PropsTyped
    <3>3. Fewer
      <4>1. PICK new \in {Idle, [q EXCEPT !.pc = "photos"]} : Go(r, new)
        BY <2>9 DEF DeleteQuestions, DeleteRow, Done
      <4>2. Deleting(new) => new.p = q.p
        BY <2>0, <4>1 DEF ListReqs
      <4> QED BY <2>1, <3>1, <4>1, <4>2
    <3> QED BY <1>0, <2>0, <3>2, <3>3, DraftSame DEF Live, StdRows, Rows
  <2> QED BY <1>4, <2>3, <2>4, <2>5, <2>6, <2>7, <2>8, <2>9 DEF ReqStep
<1>5. ASSUME NEW p \in Props, PropStep(p) PROVE DraftInv'
  <2>1. UNCHANGED <<quest, req>> /\ prop[p] \in Property
    BY <1>5 DEF PropStep, PhotoDelete, DraftBegin, DraftEnd, Call, ListTyped, PropsTyped
  <2>2. \A y \in Props \ {p} : prop'[y] = prop[y]
    BY <1>5 DEF PropStep, PhotoDelete, DraftBegin, DraftEnd, Call, ListTyped, PropsTyped
  <2>3. CASE PhotoDelete(p) \/ Call(p)
    <3>1. prop'[p].st = prop[p].st /\ prop'[p].draft = prop[p].draft /\ sure' = sure
      <4>1. PhotoDelete(p) => prop' = [prop EXCEPT ![p].photos = @ - 1]
        BY DEF PhotoDelete
      <4>2. prop'[p] = [prop[p] EXCEPT !.photos = prop[p].photos - 1] \/ prop'[p] = [prop[p] EXCEPT !.tied = TRUE]
        BY <2>1, <2>3, <4>1 DEF Call, ListTyped, PropsTyped, Property
      <4> QED BY <2>1, <2>3, <4>2 DEF Property, PhotoDelete, Call
    <3>2. \A y \in sure : prop'[y].st = prop[y].st /\ prop'[y].draft = prop[y].draft
      BY <1>0, <2>2, <3>1
    <3> QED BY <1>0, <2>1, <3>1, <3>2, DraftSame DEF Live, StdRows, Rows
  <2>4. CASE DraftBegin(p)
    <3>1. prop'[p] = [prop[p] EXCEPT !.draft = TRUE] /\ p \in Live
      BY <2>4 DEF DraftBegin, ListTyped, PropsTyped
    <3>2. prop'[p].st = prop[p].st /\ prop'[p].draft = TRUE
      BY <2>1, <3>1 DEF Property
    <3>3. ASSUME NEW y \in sure' PROVE y \in Props /\ y \in Live' /\ prop'[y].draft /\ StdRows(y)' = StdRows(y)
                                       /\ Whole(y) /\ \A x \in Reqs : req[x].op = "delete" /\ req[x].p = y => req[x].pc = "look"
      <4>1. CASE y \in sure
        BY <1>0, <2>1, <2>2, <3>2, <4>1 DEF Live, StdRows, Rows, DraftInv
      <4>2. CASE y \notin sure
        <5>1. y = p /\ Whole(p) /\ ~\E x \in Reqs : req[x].op = "delete" /\ req[x].p = p /\ req[x].pc # "look"
          BY <2>4, <4>2 DEF DraftBegin
        <5> QED BY <2>1, <3>1, <3>2, <5>1 DEF Live, StdRows, Rows
      <4> QED BY <4>1, <4>2
    <3>4. \A y \in sure' : Whole(y)'
      BY <3>3, WholeKept
    <3> QED BY <2>1, <3>3, <3>4 DEF DraftInv
  <2>5. CASE DraftEnd(p)
    <3>1. sure' = sure \ {p}
      BY <2>5 DEF DraftEnd
    <3> QED BY <1>0, <2>1, <2>2, <3>1, DraftSame DEF Live, StdRows, Rows
  <2> QED BY <1>5, <2>3, <2>4, <2>5 DEF PropStep
<1>6. CASE Stop
  <2>1. UNCHANGED <<prop, quest, sure>> /\ Fewer
    BY <1>6 DEF Stop, store, Deleting, Idle
  <2> QED BY <1>1, <2>1
<1> QED BY <1>2, <1>3, <1>4, <1>5, <1>6 DEF DeskNext, ListStep, ListNext

\* drafts, at the start
LEMMA DraftInit == ASSUME ListInit PROVE DraftInv
BY DEF ListInit, DraftInv

-----------------------------------------------------------------------------
(* Pages and what they show                                                *)

PropsGrow ==
  \A p \in Props : prop[p].st # "none" =>
    /\ prop'[p].st # "none"
    /\ prop'[p].st = "live" => prop[p].st = "live" /\ prop'[p].made >= prop[p].made

\* a request goes on with what it is about, or ends
Leads(q, new) ==
  \/ new = Idle
  \/ /\ new.op = q.op /\ new.p = q.p /\ new.list = q.list /\ new.t \in {q.t, None}
     /\ q.op = "add" /\ new.pc = "answer" => q.pc = "answer" /\ new.q = q.q

\* a page a step leaves alone still shows questions of its property
LEMMA SheetKept == ASSUME ListTyped, ListTyped', PageInv, PropsGrow, NEW t \in Tabs, tab'[t] = tab[t] PROVE SheetOK(t)'
<1>1. SheetOK(t)
  BY DEF PageInv
<1>2. CASE tab[t].p \in Live'
  <2> DEFINE p == tab[t].p
  <2>1. p \in Props /\ prop[p].st = "live" /\ prop'[p].made >= prop[p].made
    BY <1>1, <1>2 DEF SheetOK, PropsGrow, Live
  <2>2. prop'[p].made \in Nat /\ prop[p].made \in Nat
    BY <2>1 DEF ListTyped, PropsTyped, Property
  <2>3. Listed(tab[t].qs) \subseteq 1..prop'[p].made
    BY <1>1, <2>1, <2>2 DEF SheetOK, Live
  <2> QED BY <1>1, <2>1, <2>3 DEF SheetOK, PropsGrow
<1>3. CASE tab[t].p \notin Live'
  BY <1>1, <1>3 DEF SheetOK, PropsGrow
<1> QED BY <1>2, <1>3

\* a request that goes on still asks about questions of its property
LEMMA AskedKept == ASSUME ListTyped, ListTyped', PageInv, PropsGrow, NEW x \in Reqs, Leads(req[x], req'[x]) PROVE AskedOK(x)'
<1>1. AskedOK(x)
  BY DEF PageInv
<1>2. CASE req'[x] = Idle
  BY <1>2, ListingAssumption DEF AskedOK, Idle, None
<1>3. CASE req'[x] # Idle
  <2>1. /\ req'[x].op = req[x].op /\ req'[x].p = req[x].p /\ req'[x].list = req[x].list
        /\ req[x].op = "add" /\ req'[x].pc = "answer" => req[x].pc = "answer" /\ req'[x].q = req[x].q
    BY <1>3 DEF Leads
  <2>2. ASSUME req[x].op = "add", req'[x].pc = "answer", req[x].p \in Live' PROVE req'[x].q <= prop'[req[x].p].made
    <3>1. req[x].q \in 1..MaxQuest /\ MaxQuest \in Nat
      BY <2>1, <2>2, ListingAssumption DEF ListTyped, ListReqsTyped
    <3>2. req[x].p \in Props /\ prop[req[x].p].st # "none"
      BY <1>1, <2>2 DEF AskedOK, Live
    <3>3. req[x].p \in Live /\ prop'[req[x].p].made >= prop[req[x].p].made
      BY <2>2, <3>2 DEF PropsGrow, Live
    <3>4. prop'[req[x].p].made \in Nat /\ prop[req[x].p].made \in Nat
      BY <3>2 DEF ListTyped, PropsTyped, Property
    <3> QED BY <1>1, <2>1, <2>2, <3>1, <3>3, <3>4 DEF AskedOK
  <2> QED BY <1>1, <2>1, <2>2 DEF AskedOK, PropsGrow
<1> QED BY <1>2, <1>3

\* pages stay or are new, and nothing under way answers to a new one
LEMMA PageFrame ==
  ASSUME ListTyped, ListTyped', PageInv, PropsGrow,
         \A t \in Tabs : tab'[t] = tab[t] \/ (SheetOK(t)' /\ \A x \in Reqs : Adds(req'[x]) \/ Creates(req'[x]) => req'[x].t # t),
         \A x \in Reqs : Leads(req[x], req'[x])
  PROVE  PageInv'
<1>1. \A t \in Tabs : SheetOK(t)'
  BY SheetKept
<1>2. ASSUME NEW x \in Reqs PROVE AskedOK(x)'
  BY AskedKept
<1>3. ASSUME NEW x \in Reqs, Adds(req'[x]) \/ Creates(req'[x])
      PROVE  /\ req'[x].op = req[x].op /\ req'[x].p = req[x].p /\ req'[x].t = req[x].t /\ tab'[req[x].t] = tab[req[x].t]
             /\ (req[x].op = "add" /\ req'[x].pc = "answer" => req[x].pc = "answer" /\ req'[x].q = req[x].q)
             /\ (Adds(req'[x]) => Adds(req[x])) /\ (Creates(req'[x]) => Creates(req[x]))
  <2>1. req'[x] # Idle
    BY <1>3 DEF Adds, Creates, Idle
  <2>2. /\ req'[x].op = req[x].op /\ req'[x].p = req[x].p /\ req'[x].t \in {req[x].t, None}
        /\ (req[x].op = "add" /\ req'[x].pc = "answer" => req[x].pc = "answer" /\ req'[x].q = req[x].q)
    BY <2>1 DEF Leads
  <2>3. req'[x].t = req[x].t
    BY <1>3, <2>2 DEF Adds, Creates
  <2>4. req'[x].t \in Tabs
    BY <1>3 DEF Adds, Creates, ListTyped, ListReqsTyped, ListReqs
  <2> QED BY <1>3, <2>2, <2>3, <2>4 DEF Adds, Creates
<1>4. ASSUME NEW r \in Reqs PROVE AddsOK(r)'
  <2> SUFFICES ASSUME Adds(req'[r]) PROVE AddsOK(r)'
    BY DEF AddsOK
  <2>1. AddsOK(r) /\ Adds(req[r])
    BY <1>3 DEF PageInv
  <2>2. ASSUME NEW x \in Reqs \ {r}, Adds(req'[x]) PROVE req'[x].t # req'[r].t
    BY <1>3, <2>1, <2>2 DEF AddsOK
  <2>3. req[r].op = "add"
    BY <2>1 DEF Adds
  <2> QED BY <1>3, <2>1, <2>2, <2>3 DEF AddsOK
<1>5. ASSUME NEW r \in Reqs PROVE CreatesOK(r)'
  <2> SUFFICES ASSUME Creates(req'[r]) PROVE CreatesOK(r)'
    BY DEF CreatesOK
  <2>1. CreatesOK(r) /\ Creates(req[r])
    BY <1>3 DEF PageInv
  <2>2. ASSUME NEW x \in Reqs \ {r}, Creates(req'[x]) PROVE req'[x].t # req'[r].t
    BY <1>3, <2>1, <2>2 DEF CreatesOK
  <2> QED BY <1>3, <2>1, <2>2 DEF CreatesOK
<1> QED BY <1>1, <1>2, <1>4, <1>5 DEF PageInv

\* the ways a request goes on
LEMMA LeadsHere == ASSUME NEW q \in ListReqs
  PROVE  /\ Leads(q, q) /\ Leads(q, Idle) /\ Leads(q, [q EXCEPT !.t = None])
         /\ \A at : at # "answer" \/ q.op # "add" => Leads(q, [q EXCEPT !.pc = at])
         /\ \A n : Leads(q, [q EXCEPT !.pc = "insert", !.n = n])
<1>1. Leads(q, q) /\ Leads(q, Idle)
  BY DEF Leads
<1>2. Leads(q, [q EXCEPT !.t = None])
  BY DEF Leads, ListReqs
<1>3. ASSUME NEW at, at # "answer" \/ q.op # "add" PROVE Leads(q, [q EXCEPT !.pc = at])
  BY <1>3 DEF Leads, ListReqs
<1>4. ASSUME NEW n PROVE Leads(q, [q EXCEPT !.pc = "insert", !.n = n])
  BY DEF Leads, ListReqs
<1> QED BY <1>1, <1>2, <1>3, <1>4

\* an empty list
LEMMA NoQuestions == NoRepeat(<<>>) /\ Listed(<<>>) = {}
BY DEF NoRepeat, Listed

\* pages: what the landlord does on a page alone
LEMMA PagesKeep ==
  ASSUME ListTyped, ListTyped', PageInv, NEW t \in Tabs,
         Open(t) \/ WizardQuestions(t) \/ WizardEnd(t) \/ Toggle(t)
  PROVE  PageInv'
<1>1. UNCHANGED <<prop, quest>> /\ (req' = req \/ req' = Unheard(t))
  BY DEF Open, WizardQuestions, WizardEnd, Toggle, store
<1>2. PropsGrow
  BY <1>1 DEF PropsGrow, ListTyped, PropsTyped, Property
<1>3. ASSUME NEW x \in Reqs PROVE Leads(req[x], req'[x])
  <2>1. req[x] \in ListReqs /\ (req'[x] = req[x] \/ req'[x] = [req[x] EXCEPT !.t = None])
    BY <1>1 DEF Unheard, ListTyped, ListReqsTyped
  <2> QED BY <2>1, LeadsHere
<1>4. CASE Toggle(t)
  BY <1>2, <1>3, <1>4, PageFrame DEF Toggle
<1>5. CASE ~Toggle(t)
  <2>1. \A o \in Tabs \ {t} : tab'[o] = tab[o]
    BY <1>5 DEF Open, WizardQuestions, WizardEnd, ListTyped, TabsTyped
  <2>2. ASSUME NEW x \in Reqs, Adds(req'[x]) \/ Creates(req'[x]) PROVE req'[x].t # t
    <3>1. CASE Open(t) \/ WizardEnd(t)
      <4>1. req' = Unheard(t) /\ req[x] \in ListReqs /\ t # None
        BY <3>1, ListingAssumption DEF Open, WizardEnd, ListTyped, ListReqsTyped, None
      <4> QED BY <4>1 DEF Unheard, ListReqs
    <3>2. CASE WizardQuestions(t)
      <4>1. tab[t].at = "phone" /\ req' = req
        BY <3>2 DEF WizardQuestions
      <4> QED BY <2>2, <4>1 DEF PageInv, AddsOK, CreatesOK
    <3> QED BY <1>5, <3>1, <3>2
  <2>3. SheetOK(t)'
    <3>0. ASSUME NEW p \in Live, tab'[t].p = p, tab'[t].qs = <<>> \/ tab'[t].qs \in Sorted(p) PROVE SheetOK(t)'
      <4>1. p \in Props /\ p \in Live' /\ prop' = prop /\ PropsTyped /\ prop[p].st = "live"
        BY <1>1 DEF Live, ListTyped
      <4>2. NoRepeat(tab'[t].qs) /\ Listed(tab'[t].qs) \subseteq 1..prop[p].made
        BY <3>0, <4>1, SortedFacts, NoQuestions, RowsFinite
      <4> QED BY <3>0, <4>1, <4>2 DEF SheetOK
    <3>9. ASSUME tab'[t].p \notin Props, tab'[t].qs = <<>> PROVE SheetOK(t)'
      BY <3>9, NoQuestions DEF SheetOK, Live
    <3>1. CASE Open(t)
      <4>1. PICK to \in [at : {"first"} \cup IF onboarded THEN {"list"} ELSE {}, p : {None}, qs : {<<>>}, active : {FALSE}]
                         \cup IF onboarded THEN UNION {Details(p) \cup Editors(p) : p \in Live} ELSE {} :
                   tab' = [tab EXCEPT ![t] = to]
        BY <3>1 DEF Open
      <4>2. tab'[t] = to
        BY <4>1 DEF ListTyped, TabsTyped
      <4>3. CASE to \in [at : {"first"} \cup IF onboarded THEN {"list"} ELSE {}, p : {None}, qs : {<<>>}, active : {FALSE}]
        <5>1. tab'[t].p = None /\ tab'[t].qs = <<>>
          BY <4>2, <4>3
        <5> QED BY <3>9, <5>1, ListingAssumption DEF None
      <4>4. CASE \E p \in Live : to \in Details(p) \cup Editors(p)
        <5>1. PICK p \in Live : to \in Details(p) \cup Editors(p)
          BY <4>4
        <5>2. to.p = p /\ (to.qs = <<>> \/ to.qs \in Sorted(p))
          BY <5>1 DEF Details, Editors
        <5> QED BY <3>0, <4>2, <5>2
      <4> QED BY <4>1, <4>3, <4>4
    <3>2. CASE WizardQuestions(t)
      <4>1. tab[t].p \in Live /\ tab[t] \in Pages
        BY <3>2 DEF WizardQuestions, ListTyped, TabsTyped
      <4>2. PICK s \in Sorted(tab[t].p) : tab' = [tab EXCEPT ![t] = [tab[t] EXCEPT !.at = "questions", !.qs = s]]
        BY <3>2 DEF WizardQuestions
      <4>3. tab'[t] = [tab[t] EXCEPT !.at = "questions", !.qs = s]
        BY <4>2 DEF ListTyped, TabsTyped
      <4>4. tab'[t].p = tab[t].p /\ tab'[t].qs = s
        BY <4>1, <4>3 DEF Pages
      <4> QED BY <3>0, <4>1, <4>4
    <3>3. CASE WizardEnd(t)
      <4>1. tab'[t] = [Away EXCEPT !.at = "list"]
        BY <3>3 DEF WizardEnd, ListTyped, TabsTyped
      <4>2. tab'[t].p = None /\ tab'[t].qs = <<>>
        BY <4>1 DEF Away
      <4> QED BY <3>9, <4>2, ListingAssumption DEF None
    <3> QED BY <1>5, <3>1, <3>2, <3>3
  <2> QED BY <1>2, <1>3, <2>1, <2>2, <2>3, PageFrame
<1> QED BY <1>4, <1>5

\* pages: a page sends a request
LEMMA AsksKeep == ASSUME ListTyped, ListTyped', PageInv, NEW t \in Tabs, NEW r \in Reqs, Asks(t, r) PROVE PageInv'
<1>1. PICK q, g :
         /\ req' = [req EXCEPT ![r] = q] /\ tab' = [tab EXCEPT ![t] = g] /\ ReqGood(q) /\ PageGood(g)
         /\ q.op # "none" /\ q.pc = "look"
         /\ g.p = tab[t].p /\ NoRepeat(g.qs) /\ Listed(g.qs) \subseteq Listed(tab[t].qs)
         /\ g.at = tab[t].at \/ (tab[t].at = "phone" /\ g.at = "questions")
         /\ q.t \in {None, t} /\ (q.op = "reorder" => NoRepeat(q.list))
         /\ q.p \in {None, tab[t].p}
         /\ q.op = "create" => g.at \in {"list", "first"} /\ \A x \in Reqs : req[x].t # t
         /\ q.op = "add" => /\ g.at \in {"editor", "questions"} /\ q.p = tab[t].p /\ q.t = t
                            /\ tab[t].at = "phone" \/ (\A x \in Reqs : req[x].t = t => req[x].op # "add")
  BY AskForms
<1>2. /\ req'[r] = q /\ (\A x \in Reqs \ {r} : req'[x] = req[x]) /\ tab'[t] = g /\ (\A o \in Tabs \ {t} : tab'[o] = tab[o])
      /\ prop' = prop /\ Live' = Live
  BY <1>1, AskForms DEF ListTyped, ListReqsTyped, TabsTyped, Live
<1>3. \A o \in Tabs : SheetOK(o)'
  BY <1>1, <1>2 DEF PageInv, SheetOK
<1>4. ASSUME NEW x \in Reqs PROVE AskedOK(x)'
  <2>1. CASE x # r
    BY <1>2, <2>1 DEF PageInv, AskedOK
  <2>2. CASE x = r
    BY <1>1, <1>2, <2>2, ListingAssumption DEF PageInv, AskedOK, SheetOK, None
  <2> QED BY <2>1, <2>2
<1>5. ASSUME NEW x \in Reqs \ {r}, Adds(req[x])
      PROVE  req[x].t \in Tabs /\ tab'[req[x].t].at \in {"editor", "questions"} /\ tab'[req[x].t].p = tab[req[x].t].p
             /\ Listed(tab'[req[x].t].qs) \subseteq Listed(tab[req[x].t].qs) /\ (Adds(q) => req[x].t # q.t)
  <2>1. req[x].t \in Tabs
    BY <1>5 DEF Adds, ListTyped, ListReqsTyped, ListReqs
  <2>2. tab[req[x].t].at \in {"editor", "questions"}
    BY <1>5 DEF PageInv, AddsOK
  <2>3. Adds(q) => req[x].t # q.t
    BY <1>1, <1>5, <2>2 DEF Adds
  <2> QED BY <1>1, <1>2, <2>1, <2>2, <2>3
<1>6. ASSUME NEW x \in Reqs PROVE AddsOK(x)'
  <2>1. CASE x # r
    <3> SUFFICES ASSUME Adds(req[x]) PROVE AddsOK(x)'
      BY <1>2, <2>1 DEF AddsOK
    <3>1. AddsOK(x)
      BY DEF PageInv
    <3>2. ASSUME NEW y \in Reqs \ {x}, Adds(req'[y]) PROVE req'[y].t # req[x].t
      BY <1>2, <1>5, <2>1, <3>1, <3>2 DEF AddsOK
    <3> QED BY <1>2, <1>5, <2>1, <3>1, <3>2 DEF AddsOK
  <2>2. CASE x = r
    <3> SUFFICES ASSUME Adds(q) PROVE AddsOK(x)'
      BY <1>2, <2>2 DEF AddsOK
    <3>1. ASSUME NEW y \in Reqs \ {x}, Adds(req'[y]) PROVE req'[y].t # q.t
      BY <1>2, <1>5, <2>2, <3>1
    <3>2. q.op = "add"
      BY DEF Adds
    <3> QED BY <1>1, <1>2, <2>2, <3>1, <3>2 DEF AddsOK
  <2> QED BY <2>1, <2>2
<1>7. ASSUME NEW x \in Reqs \ {r}, Creates(req[x])
      PROVE  tab'[req[x].t].at \in {"list", "first"} /\ (Creates(q) => req[x].t # q.t)
  <2>1. req[x].t \in Tabs
    BY <1>7 DEF Creates, ListTyped, ListReqsTyped, ListReqs
  <2>2. tab[req[x].t].at \in {"list", "first"}
    BY <1>7 DEF PageInv, CreatesOK
  <2>3. Creates(q) => req[x].t # q.t
    BY <1>1, <1>7 DEF Creates
  <2> QED BY <1>1, <1>2, <2>1, <2>2, <2>3
<1>8. ASSUME NEW x \in Reqs PROVE CreatesOK(x)'
  <2>1. CASE x # r
    <3> SUFFICES ASSUME Creates(req[x]) PROVE CreatesOK(x)'
      BY <1>2, <2>1 DEF CreatesOK
    <3>1. CreatesOK(x)
      BY DEF PageInv
    <3>2. ASSUME NEW y \in Reqs \ {x}, Creates(req'[y]) PROVE req'[y].t # req[x].t
      BY <1>2, <1>7, <2>1, <3>1, <3>2 DEF CreatesOK
    <3> QED BY <1>2, <1>7, <2>1, <3>1, <3>2 DEF CreatesOK
  <2>2. CASE x = r
    <3> SUFFICES ASSUME Creates(q) PROVE CreatesOK(x)'
      BY <1>2, <2>2 DEF CreatesOK
    <3>1. ASSUME NEW y \in Reqs \ {x}, Creates(req'[y]) PROVE req'[y].t # q.t
      BY <1>2, <1>7, <2>2, <3>1
    <3>2. q.op = "create" /\ q.t = t
      BY <1>1 DEF Creates
    <3> QED BY <1>1, <1>2, <2>2, <3>1, <3>2 DEF CreatesOK
  <2> QED BY <2>1, <2>2
<1> QED BY <1>3, <1>4, <1>6, <1>8 DEF PageInv

\* pages: a property is inserted
LEMMA CreateKeeps == ASSUME ListTyped, ListTyped', PageInv, NEW r \in Reqs, CreateInsert(r) PROVE PageInv'
<1> DEFINE q == req[r]
<1>1. q \in ListReqs /\ Steps(q) /\ q.op = "create" /\ req' = [req EXCEPT ![r] = Idle]
  BY DEF CreateInsert, ListTyped, ListReqsTyped, Done, Go
<1>2. PICK p \in Props :
         /\ prop[p].st = "none" /\ prop' = [prop EXCEPT ![p] = NewRow]
         /\ tab' = [t \in Tabs |->
                      IF t # q.t THEN tab[t]
                      ELSE [Away EXCEPT !.p = p, !.at = IF tab[t].at = "first" THEN "phone" ELSE "detail"]]
  BY DEF CreateInsert
<1>3. PropsGrow
  <2>0. prop[p].st = "none" /\ prop' = [prop EXCEPT ![p] = NewRow]
    BY <1>2
  <2>1. \A o \in Props \ {p} : prop'[o] = prop[o] /\ prop[o].made \in Nat
    BY <2>0 DEF ListTyped, PropsTyped, Property
  <2> QED BY <2>0, <2>1 DEF PropsGrow
<1>4. \A x \in Reqs : Leads(req[x], req'[x])
  BY <1>1, LeadsHere DEF ListTyped, ListReqsTyped
<1>5. ASSUME NEW t \in Tabs, tab'[t] # tab[t]
      PROVE  SheetOK(t)' /\ \A x \in Reqs : Adds(req'[x]) \/ Creates(req'[x]) => req'[x].t # t
  <2>1. t = q.t /\ t # None
    BY <1>2, <1>5, ListingAssumption DEF None
  <2>2. tab'[t].p = p /\ tab'[t].qs = <<>> /\ prop'[p].st = "live"
    BY <1>2, <2>1, NewRowFacts DEF Away, ListTyped, PropsTyped
  <2>3. SheetOK(t)'
    BY <2>2, NoQuestions DEF SheetOK
  <2>4. Creates(q) /\ tab[t].at \in {"list", "first"}
    BY <1>1, <2>1 DEF Creates, PageInv, CreatesOK
  <2>5. ASSUME NEW x \in Reqs, Adds(req'[x]) \/ Creates(req'[x]) PROVE req'[x].t # t
    <3>1. x # r /\ req'[x] = req[x]
      BY <1>1, <2>5 DEF Adds, Creates, Idle, ListTyped, ListReqsTyped
    <3>2. CASE Adds(req[x])
      BY <2>4, <3>1, <3>2 DEF PageInv, AddsOK
    <3>3. CASE Creates(req[x])
      BY <2>1, <2>4, <3>1, <3>3 DEF PageInv, CreatesOK
    <3> QED BY <2>5, <3>1, <3>2, <3>3
  <2> QED BY <2>3, <2>5
<1> QED BY <1>3, <1>4, <1>5, PageFrame

\* pages: a question is inserted
LEMMA AddKeeps == ASSUME ListTyped, ListTyped', PageInv, NEW r \in Reqs, AddInsert(r) PROVE PageInv'
<1> DEFINE q == req[r]
<1>1. q \in ListReqs /\ Steps(q) /\ q.op = "add" /\ q.pc = "insert" /\ tab' = tab
  BY DEF AddInsert, ListTyped, ListReqsTyped
<1>2. PICK p : p = q.p
  OBVIOUS
<1>3. PICK n : n = prop[p].made + 1
  OBVIOUS
<1>4. CASE p \notin Live
  <2>1. req' = [req EXCEPT ![r] = Idle] /\ prop' = prop
    BY <1>2, <1>4 DEF AddInsert, Done, Go
  <2>2. PropsGrow
    BY <2>1 DEF PropsGrow, ListTyped, PropsTyped, Property
  <2>3. \A x \in Reqs : Leads(req[x], req'[x])
    BY <2>1, LeadsHere DEF ListTyped, ListReqsTyped
  <2> QED BY <1>1, <2>2, <2>3, PageFrame
<1>5. CASE p \in Live
  <2>1. /\ prop' = [prop EXCEPT ![p] = [prop[p] EXCEPT !.made = n]]
        /\ req' = [req EXCEPT ![r] = [q EXCEPT !.pc = "answer", !.q = n]]
    BY <1>2, <1>3, <1>5 DEF AddInsert, Go
  <2>2. p \in Props /\ prop[p] \in Property /\ prop[p].made \in Nat /\ prop[p].st = "live" /\ n \in Nat /\ n > prop[p].made
    BY <1>3, <1>5 DEF Live, ListTyped, PropsTyped, Property
  <2>3. prop'[p].st = "live" /\ prop'[p].made = n /\ \A o \in Props \ {p} : prop'[o] = prop[o]
    BY <2>1, <2>2 DEF ListTyped, PropsTyped, Property
  <2>4. PropsGrow
    BY <2>2, <2>3 DEF PropsGrow, ListTyped, PropsTyped, Property
  <2>5. \A x \in Reqs \ {r} : req'[x] = req[x]
    BY <2>1 DEF ListTyped, ListReqsTyped
  <2>6. req'[r] = [q EXCEPT !.pc = "answer", !.q = n]
    BY <2>1 DEF ListTyped, ListReqsTyped
  <2>7. req'[r].op = "add" /\ req'[r].p = p /\ req'[r].t = q.t /\ req'[r].pc = "answer" /\ req'[r].q = n
    BY <1>1, <1>2, <2>6 DEF ListReqs
  <2>8. \A t \in Tabs : SheetOK(t)'
    BY <1>1, <2>4, SheetKept
  <2>9. \A x \in Reqs : Adds(req'[x]) = Adds(req[x]) /\ Creates(req'[x]) = Creates(req[x]) /\ req'[x].t = req[x].t
    BY <1>1, <2>5, <2>7 DEF Adds, Creates
  <2>10. ASSUME NEW x \in Reqs PROVE AskedOK(x)'
    <3>1. CASE x # r
      BY <2>4, <2>5, <3>1, AskedKept, LeadsHere DEF ListTyped, ListReqsTyped
    <3>2. CASE x = r
      BY <2>2, <2>3, <2>7, <3>2 DEF AskedOK
    <3> QED BY <3>1, <3>2
  <2>11. ASSUME NEW x \in Reqs PROVE CreatesOK(x)'
    BY <1>1, <2>9 DEF PageInv, CreatesOK
  <2>12. ASSUME NEW x \in Reqs PROVE AddsOK(x)'
    <3> SUFFICES ASSUME Adds(req'[x]) PROVE AddsOK(x)'
      BY DEF AddsOK
    <3>1. AddsOK(x) /\ Adds(req[x])
      BY <2>9 DEF PageInv
    <3>2. \A y \in Reqs \ {x} : Adds(req'[y]) => req'[y].t # req'[x].t
      BY <2>9, <3>1 DEF AddsOK
    <3>3. CASE x # r
      BY <1>1, <2>5, <3>1, <3>2, <3>3 DEF AddsOK
    <3>4. CASE x = r
      <4>1. q.t \in Tabs
        BY <1>1, <3>1, <3>4 DEF Adds, ListReqs
      <4>2. tab[q.t].p = p /\ Listed(tab[q.t].qs) \subseteq 1..prop[p].made
        BY <1>2, <1>5, <3>1, <3>4, <4>1 DEF AddsOK, PageInv, SheetOK
      <4>3. n \notin Listed(tab[q.t].qs)
        BY <2>2, <4>2
      <4> QED BY <1>1, <2>7, <3>1, <3>2, <3>4, <4>2, <4>3 DEF AddsOK
    <3> QED BY <3>3, <3>4
  <2> QED BY <2>8, <2>10, <2>11, <2>12 DEF PageInv
<1> QED BY <1>4, <1>5

\* pages: an answer reaches its page
LEMMA AnswerKeeps == ASSUME ListTyped, ListTyped', PageInv, NEW r \in Reqs, Answer(r) PROVE PageInv'
<1> DEFINE q == req[r]
<1>1. q \in ListReqs /\ Steps(q) /\ q.pc = "answer" /\ q.q \in 1..MaxQuest /\ prop' = prop /\ PropsGrow /\ q.p \in Props
  BY DEF Answer, ListTyped, ListReqsTyped, Steps, store, PropsGrow, PropsTyped, Property
<1>2. /\ \A x \in Reqs \ {r} : req'[x] = req[x]
      /\ req'[r].pc # "answer" /\ (req'[r] = Idle \/ (req'[r].op = q.op /\ req'[r].p = q.p /\ req'[r].t = q.t /\ req'[r].list = q.list))
  <2>1. req' = [req EXCEPT ![r] = Idle] \/ req' = [req EXCEPT ![r] = [q EXCEPT !.pc = "look", !.left = @ - 1]]
    BY DEF Answer, Done, Go
  <2>2. req'[r] = Idle \/ req'[r] = [q EXCEPT !.pc = "look", !.left = @ - 1]
    BY <2>1 DEF ListTyped, ListReqsTyped
  <2>3. \A x \in Reqs \ {r} : req'[x] = req[x]
    BY <2>1 DEF ListTyped, ListReqsTyped
  <2>4. Idle.pc = "idle"
    BY DEF Idle
  <2>5. ASSUME req'[r] # Idle
        PROVE  req'[r].pc # "answer" /\ req'[r].op = q.op /\ req'[r].p = q.p /\ req'[r].t = q.t /\ req'[r].list = q.list
    BY <1>1, <2>2, <2>5 DEF ListReqs
  <2> QED BY <2>3, <2>4, <2>5
<1>3. \A x \in Reqs : Leads(req[x], req'[x])
  BY <1>1, <1>2 DEF Leads
<1>4. CASE tab' = tab
  BY <1>1, <1>3, <1>4, PageFrame
<1>5. CASE tab' # tab
  <2>0. PICK t : t = q.t
    OBVIOUS
  <2>1. t \in Tabs /\ t # None /\ q.p = tab[t].p /\ tab[t] \in Pages /\ tab[t].qs \in Seq(1..MaxQuest)
    BY <1>1, <1>5, <2>0 DEF Answer, ListReqs, ListTyped, TabsTyped, Pages
  <2>2. PICK s : s = IF q.op = "add" THEN Append(tab[t].qs, q.q) ELSE Without(tab[t].qs, q.q)
    OBVIOUS
  <2>3. tab' = [tab EXCEPT ![t] = [tab[t] EXCEPT !.qs = s]]
    <3>1. tab' = [tab EXCEPT ![t].qs = IF q.op = "add" THEN Append(@, q.q) ELSE Without(@, q.q)]
      BY <2>0, <2>1 DEF Answer
    <3> QED BY <2>1, <2>2, <3>1 DEF ListTyped, TabsTyped, Pages
  <2>4. /\ tab'[t].qs = s /\ tab'[t].p = tab[t].p /\ tab'[t].at = tab[t].at
        /\ \A o \in Tabs \ {t} : tab'[o] = tab[o]
    BY <2>1, <2>3 DEF ListTyped, TabsTyped, Pages
  <2>5. SheetOK(t) /\ AskedOK(r) /\ AddsOK(r)
    BY <2>1 DEF PageInv
  <2>6. CASE q.op = "add"
    <3>1. Adds(q) /\ q.q \notin Listed(tab[t].qs)
      BY <1>1, <2>0, <2>1, <2>5, <2>6 DEF Adds, AddsOK
    <3>2. Listed(s) = Listed(tab[t].qs) \cup {q.q} /\ NoRepeat(s)
      <4>1. s = Append(tab[t].qs, q.q) /\ NoRepeat(tab[t].qs)
        BY <2>2, <2>5, <2>6 DEF SheetOK
      <4>2. /\ Listed(Append(tab[t].qs, q.q)) = Listed(tab[t].qs) \cup {q.q}
            /\ NoRepeat(tab[t].qs) /\ q.q \notin Listed(tab[t].qs) => NoRepeat(Append(tab[t].qs, q.q))
        <5>1. PICK l, v : l = tab[t].qs /\ v = q.q
          OBVIOUS
        <5>2. l \in Seq(1..MaxQuest) /\ v \in 1..MaxQuest
          BY <1>1, <2>1, <5>1
        <5>3. /\ Listed(Append(l, v)) = Listed(l) \cup {v}
              /\ NoRepeat(l) /\ v \notin Listed(l) => NoRepeat(Append(l, v))
          <6>1. PICK S : S = 1..MaxQuest
            OBVIOUS
          <6>2. l \in Seq(S) /\ v \in S
            BY <5>2, <6>1
          <6>3. Listed(Append(l, v)) = Listed(l) \cup {v}
            BY <6>2, AppendKeeps
          <6>4. NoRepeat(l) /\ v \notin Listed(l) => NoRepeat(Append(l, v))
            BY <6>2, AppendKeeps
          <6> QED BY <6>3, <6>4
        <5> QED BY <5>1, <5>3
      <4> QED BY <3>1, <4>1, <4>2
    <3>3. SheetOK(t)'
      <4>1. tab[t].p \in Live => q.q \in 1..prop[tab[t].p].made
        BY <1>1, <2>1, <2>5, <2>6 DEF AskedOK, ListTyped, PropsTyped, Property
      <4> QED BY <1>1, <2>4, <2>5, <3>2, <4>1 DEF SheetOK, Live
    <3>4. \A o \in Tabs : SheetOK(o)'
      BY <1>1, <2>4, <3>3, SheetKept
    <3>5. \A x \in Reqs : AskedOK(x)'
      BY <1>1, <1>3, AskedKept
    <3>6. ASSUME NEW x \in Reqs PROVE AddsOK(x)'
      <4> SUFFICES ASSUME Adds(req'[x]) PROVE AddsOK(x)'
        BY DEF AddsOK
      <4>1. Adds(req[x]) /\ req'[x].t = req[x].t /\ req'[x].p = req[x].p /\ AddsOK(x)
        BY <1>2 DEF Adds, Idle, PageInv
      <4>2. ASSUME NEW y \in Reqs \ {x}, Adds(req'[y]) PROVE req'[y].t # req'[x].t
        BY <1>2, <4>1, <4>2 DEF AddsOK, Adds, Idle
      <4>3. req[x].t \in Tabs
        BY <4>1 DEF Adds, ListTyped, ListReqsTyped, ListReqs
      <4>4. CASE x = r
        BY <1>2, <2>0, <2>4, <4>1, <4>2, <4>4 DEF AddsOK
      <4>5. CASE x # r
        <5>1. req[x].t # t
          BY <2>0, <3>1, <4>1, <4>5 DEF AddsOK
        <5> QED BY <1>2, <2>4, <4>1, <4>2, <4>3, <4>5, <5>1 DEF AddsOK
      <4> QED BY <4>4, <4>5
    <3>7. ASSUME NEW x \in Reqs PROVE CreatesOK(x)'
      <4> SUFFICES ASSUME Creates(req'[x]) PROVE CreatesOK(x)'
        BY DEF CreatesOK
      <4>1. Creates(req[x]) /\ req'[x].t = req[x].t /\ CreatesOK(x)
        BY <1>2 DEF Creates, Idle, PageInv
      <4>2. ASSUME NEW y \in Reqs \ {x}, Creates(req'[y]) PROVE req'[y].t # req'[x].t
        BY <1>2, <4>1, <4>2 DEF CreatesOK, Creates, Idle
      <4>3. req[x].t \in Tabs
        BY <4>1 DEF Creates, ListTyped, ListReqsTyped, ListReqs
      <4> QED BY <2>4, <4>1, <4>2, <4>3 DEF CreatesOK
    <3> QED BY <3>4, <3>5, <3>6, <3>7 DEF PageInv
  <2>7. CASE q.op # "add"
    <3>1. Listed(s) \subseteq Listed(tab[t].qs) /\ NoRepeat(s)
      BY <2>1, <2>2, <2>5, <2>7, WithoutKeeps DEF SheetOK
    <3>2. SheetOK(t)'
      BY <1>1, <2>4, <2>5, <3>1 DEF SheetOK, Live
    <3>4. \A o \in Tabs : SheetOK(o)'
      BY <1>1, <2>4, <3>2, SheetKept
    <3>5. \A x \in Reqs : AskedOK(x)'
      BY <1>1, <1>3, AskedKept
    <3>6. ASSUME NEW x \in Reqs PROVE AddsOK(x)'
      <4> SUFFICES ASSUME Adds(req'[x]) PROVE AddsOK(x)'
        BY DEF AddsOK
      <4>1. Adds(req[x]) /\ req'[x].t = req[x].t /\ req'[x].p = req[x].p /\ AddsOK(x) /\ x # r
        BY <1>2, <2>7 DEF Adds, Idle, PageInv
      <4>2. ASSUME NEW y \in Reqs \ {x}, Adds(req'[y]) PROVE req'[y].t # req'[x].t
        BY <1>2, <4>1, <4>2 DEF AddsOK, Adds, Idle
      <4>3. req[x].t \in Tabs
        BY <4>1 DEF Adds, ListTyped, ListReqsTyped, ListReqs
      <4>4. tab'[req[x].t].at = tab[req[x].t].at /\ tab'[req[x].t].p = tab[req[x].t].p
            /\ Listed(tab'[req[x].t].qs) \subseteq Listed(tab[req[x].t].qs)
        BY <2>4, <3>1, <4>3
      <4> QED BY <1>2, <4>1, <4>2, <4>4 DEF AddsOK
    <3>7. ASSUME NEW x \in Reqs PROVE CreatesOK(x)'
      <4> SUFFICES ASSUME Creates(req'[x]) PROVE CreatesOK(x)'
        BY DEF CreatesOK
      <4>1. Creates(req[x]) /\ req'[x].t = req[x].t /\ CreatesOK(x)
        BY <1>2 DEF Creates, Idle, PageInv
      <4>2. ASSUME NEW y \in Reqs \ {x}, Creates(req'[y]) PROVE req'[y].t # req'[x].t
        BY <1>2, <4>1, <4>2 DEF CreatesOK, Creates, Idle
      <4>3. req[x].t \in Tabs
        BY <4>1 DEF Creates, ListTyped, ListReqsTyped, ListReqs
      <4> QED BY <2>4, <4>1, <4>2, <4>3 DEF CreatesOK
    <3> QED BY <3>4, <3>5, <3>6, <3>7 DEF PageInv
  <2> QED BY <2>6, <2>7
<1> QED BY <1>4, <1>5

\* requests that leave the pages alone
LEMMA OthersKeep ==
  ASSUME ListTyped, ListTyped', PageInv, NEW r \in Reqs, Looks(r) \/ PhotoInsert(r) \/ Writes(r)
  PROVE  PageInv'
<1> DEFINE q == req[r]
<1>1. q \in ListReqs /\ Steps(q) /\ tab' = tab
  BY DEF Looks, CreateLook, PhotoLook, AddLook, ReorderLook, DeleteLook, PhotoInsert, Writes, ReorderCommit, Drop,
         DeleteQuestions, DeletePhotos, DeleteRow, ListTyped, ListReqsTyped
<1>2. PICK new \in {Idle, [q EXCEPT !.pc = "insert"], [q EXCEPT !.pc = "insert", !.n = NextOrder(q.p)], [q EXCEPT !.pc = "commit"],
                    [q EXCEPT !.pc = "questions"], [q EXCEPT !.pc = "photos"], [q EXCEPT !.pc = "row"], [q EXCEPT !.pc = "answer"]} :
        Go(r, new) /\ (Drop(r) \/ new # [q EXCEPT !.pc = "answer"])
  <2>1. CASE Drop(r)
    BY <2>1 DEF Drop, Done
  <2>2. CASE ~Drop(r)
    <3>1. /\ Idle.pc # "answer" /\ [q EXCEPT !.pc = "insert"].pc # "answer"
          /\ [q EXCEPT !.pc = "insert", !.n = NextOrder(q.p)].pc # "answer"
          /\ [q EXCEPT !.pc = "commit"].pc # "answer" /\ [q EXCEPT !.pc = "questions"].pc # "answer"
          /\ [q EXCEPT !.pc = "photos"].pc # "answer" /\ [q EXCEPT !.pc = "row"].pc # "answer"
          /\ [q EXCEPT !.pc = "answer"].pc = "answer"
      BY <1>1 DEF ListReqs, Idle
    <3>2. CASE Looks(r)
      BY <3>1, <3>2 DEF Looks, CreateLook, PhotoLook, AddLook, ReorderLook, DeleteLook, Done
    <3>3. CASE PhotoInsert(r) \/ Writes(r)
      BY <2>2, <3>1, <3>3 DEF PhotoInsert, Writes, ReorderCommit, DeleteQuestions, DeletePhotos, DeleteRow, Done
    <3> QED BY <3>2, <3>3
  <2> QED BY <2>1, <2>2
<1>3. Leads(q, new)
  <2>1. Drop(r) => q.op # "add"
    BY DEF Drop
  <2>2. CASE new = Idle
    BY <1>1, <2>2, LeadsHere
  <2>3. CASE new = [q EXCEPT !.pc = "insert", !.n = NextOrder(q.p)]
    BY <1>1, <2>3, LeadsHere
  <2>4. ASSUME NEW at, new = [q EXCEPT !.pc = at], at # "answer" \/ q.op # "add" PROVE Leads(q, new)
    BY <1>1, <2>4, LeadsHere
  <2>5. CASE new = [q EXCEPT !.pc = "answer"]
    <3>1. q.op # "add"
      BY <1>2, <2>1, <2>5
    <3> QED BY <2>4, <2>5, <3>1
  <2> QED BY <1>2, <2>2, <2>3, <2>4, <2>5
<1>4. \A x \in Reqs : Leads(req[x], req'[x])
  BY <1>2, <1>3, LeadsHere DEF Go, ListTyped, ListReqsTyped
<1>5. PropsGrow
  <2>1. PICK p : p = q.p
    OBVIOUS
  <2>2. \/ prop' = prop \/ prop' = [prop EXCEPT ![p] = [prop[p] EXCEPT !.photos = 0]]
        \/ p \in Live /\ prop' = [prop EXCEPT ![p] = [NoRow EXCEPT !.st = "gone"]]
        \/ p \in Live /\ prop' = [prop EXCEPT ![p].photos = @ + 1]
    BY <2>1 DEF Looks, CreateLook, PhotoLook, AddLook, ReorderLook, DeleteLook, PhotoInsert, Writes, ReorderCommit, Drop,
                DeleteQuestions, DeletePhotos, DeleteRow, store
  <2>3. ASSUME NEW x \in Props
        PROVE  (prop'[x].st = prop[x].st /\ prop'[x].made = prop[x].made) \/ prop'[x].st = "gone"
    <3>1. prop[x] \in Property /\ prop \in [Props -> Property]
      BY DEF ListTyped, PropsTyped
    <3>2. \/ prop'[x] = prop[x] \/ prop'[x] = [prop[x] EXCEPT !.photos = 0]
          \/ prop'[x] = [NoRow EXCEPT !.st = "gone"]
          \/ prop'[x] = [prop[x] EXCEPT !.photos = prop[x].photos + 1]
      BY <2>2, <3>1 DEF Property
    <3> QED BY <3>1, <3>2 DEF Property, NoRow
  <2>4. \A x \in Props : prop[x].made \in Nat
    BY DEF ListTyped, PropsTyped, Property
  <2> QED BY <2>3, <2>4 DEF PropsGrow
<1> QED BY <1>1, <1>4, <1>5, PageFrame

\* pages, at every step
LEMMA PageInvStep == ASSUME ListTyped, ListTyped', PageInv, DeskNext \/ UNCHANGED <<listVars, lineOnly>> PROVE PageInv'
<1>0. \A x \in Reqs : Leads(req[x], req[x]) /\ Leads(req[x], Idle)
  BY LeadsHere DEF ListTyped, ListReqsTyped
<1>1. CASE UNCHANGED <<prop, tab, req>>
  <2>1. PropsGrow
    BY <1>1 DEF PropsGrow, ListTyped, PropsTyped, Property
  <2> QED BY <1>0, <1>1, <2>1, PageFrame
<1>2. CASE LineStep \/ UNCHANGED <<listVars, lineOnly>>
  BY <1>1, <1>2, LineLeaves DEF listVars, store
<1>3. ASSUME NEW t \in Tabs, PageStep(t) PROVE PageInv'
  BY <1>3, PagesKeep, AsksKeep DEF PageStep, Asks
<1>4. ASSUME NEW r \in Reqs, ReqStep(r) PROVE PageInv'
  BY <1>4, OthersKeep, CreateKeeps, AddKeeps, AnswerKeeps DEF ReqStep, Looks, Writes
<1>5. ASSUME NEW p \in Props, PropStep(p) PROVE PageInv'
  <2>1. UNCHANGED <<tab, req>>
    BY <1>5 DEF PropStep, PhotoDelete, DraftBegin, DraftEnd, Call
  <2>2. \/ prop' = [prop EXCEPT ![p].photos = @ - 1]
        \/ prop' = [prop EXCEPT ![p] = [prop[p] EXCEPT !.draft = TRUE]]
        \/ prop' = [prop EXCEPT ![p] = [prop[p] EXCEPT !.draft = FALSE, !.tied = TRUE]]
        \/ prop' = [prop EXCEPT ![p] = [prop[p] EXCEPT !.tied = TRUE]]
    BY <1>5 DEF PropStep, PhotoDelete, DraftBegin, DraftEnd, Call
  <2>3. ASSUME NEW x \in Props PROVE prop'[x].st = prop[x].st /\ prop'[x].made = prop[x].made
    <3>1. prop[x] \in Property /\ prop \in [Props -> Property]
      BY DEF ListTyped, PropsTyped
    <3>2. \/ prop'[x] = prop[x] \/ prop'[x] = [prop[x] EXCEPT !.photos = prop[x].photos - 1]
          \/ prop'[x] = [prop[x] EXCEPT !.draft = TRUE]
          \/ prop'[x] = [prop[x] EXCEPT !.draft = FALSE, !.tied = TRUE]
          \/ prop'[x] = [prop[x] EXCEPT !.tied = TRUE]
      BY <2>2, <3>1 DEF Property
    <3> QED BY <3>1, <3>2 DEF Property
  <2>4. \A x \in Props : prop[x].made \in Nat
    BY DEF ListTyped, PropsTyped, Property
  <2>5. PropsGrow
    BY <2>3, <2>4 DEF PropsGrow
  <2> QED BY <1>0, <2>1, <2>5, PageFrame
<1>6. CASE Stop
  <2>1. prop' = prop /\ req' = [x \in Reqs |-> Idle] /\ \A t \in Tabs : tab'[t] \in {Away, tab[t]}
    BY <1>6 DEF Stop, store
  <2>2. PropsGrow
    BY <2>1 DEF PropsGrow, ListTyped, PropsTyped, Property
  <2>3. ASSUME NEW t \in Tabs, tab'[t] = Away PROVE SheetOK(t)'
    <3>1. tab'[t].qs = <<>> /\ tab'[t].p \notin Props
      BY <2>3, ListingAssumption DEF Away, None
    <3> QED BY <3>1, NoQuestions DEF SheetOK, Live
  <2>4. \A x \in Reqs : ~Adds(req'[x]) /\ ~Creates(req'[x])
    BY <2>1 DEF Adds, Creates, Idle
  <2> QED BY <1>0, <2>1, <2>2, <2>3, <2>4, PageFrame
<1> QED BY <1>2, <1>3, <1>4, <1>5, <1>6 DEF DeskNext, ListStep, ListNext

\* pages, at the start
LEMMA PageInit == ASSUME ListInit PROVE PageInv
<1>1. \A t \in Tabs : tab[t] = Away
  BY DEF ListInit
<1>2. \A r \in Reqs : req[r] = Idle
  BY DEF ListInit
<1>3. \A t \in Tabs : SheetOK(t)
  BY <1>1, NoQuestions, ListingAssumption DEF SheetOK, Away, None, Live
<1> QED BY <1>2, <1>3, ListingAssumption DEF PageInv, AddsOK, CreatesOK, AskedOK, Adds, Creates, Idle, None

-----------------------------------------------------------------------------
(* The orders of the questions                                             *)

\* k different numbers below n are no more than n
LEMMA Fits == ASSUME NEW k \in Nat, NEW n \in Nat, NEW f \in [1..k -> 0..(n - 1)], \A i, j \in 1..k : f[i] = f[j] => i = j
  PROVE  k <= n
<1>1. f \in Injection(1..k, 0..(n - 1))
  BY DEF Injection, IsInjective
<1>2. IsFiniteSet(0..(n - 1)) /\ Cardinality(0..(n - 1)) = IF 0 > n - 1 THEN 0 ELSE n
  <2>1. 0 \in Int /\ n - 1 \in Int
    OBVIOUS
  <2>2. IsFiniteSet(0..(n - 1)) /\ Cardinality(0..(n - 1)) = IF 0 > n - 1 THEN 0 ELSE (n - 1) - 0 + 1
    BY <2>1, FS_Interval
  <2> QED BY <2>2
<1>3. Cardinality(1..k) = k
  <2>1. 1 \in Int /\ k \in Int
    OBVIOUS
  <2>2. Cardinality(1..k) = IF 1 > k THEN 0 ELSE k - 1 + 1
    BY <2>1, FS_Interval
  <2> QED BY <2>2
<1>4. Cardinality(1..k) <= Cardinality(0..(n - 1))
  BY <1>1, <1>2, FS_Injection
<1> QED BY <1>2, <1>3, <1>4

\* orders: what a step must keep for them to stay different
LEMMA OrderFrame ==
  ASSUME ListTyped, ListTyped', OrderInv, mixed' = mixed,
         \A p \in Props : /\ DOMAIN quest'[p] \subseteq Rows(p) /\ \A q \in DOMAIN quest'[p] : quest'[p][q].order = quest[p][q].order
                          /\ (prop'[p].st = prop[p].st /\ prop'[p].made = prop[p].made) \/ prop'[p].st = "gone",
         \A x \in Reqs : Adding(req'[x]) => Adding(req[x]) /\ req'[x].p = req[x].p /\ req'[x].n = req[x].n
  PROVE  OrderInv'
<1>1. ASSUME NEW p \in Props PROVE RowsOrdered(p)' /\ Apart(p)'
  BY DEF OrderInv, RowsOrdered, Apart, Rows
<1>2. ASSUME NEW r \in Reqs PROVE AddingOK(r)'
  <2> SUFFICES ASSUME Adding(req'[r]) PROVE AddingOK(r)'
    BY DEF AddingOK
  <2>0. PICK p : p = req[r].p
    OBVIOUS
  <2>1. AddingOK(r) /\ Adding(req[r]) /\ req'[r].p = p /\ req'[r].n = req[r].n
    BY <2>0 DEF OrderInv
  <2>2. p \in Props
    BY <2>0, <2>1 DEF Adding, ListTyped, ListReqsTyped, Steps
  <2>3. ASSUME p \notin mixed
        PROVE  /\ \A q \in DOMAIN quest'[p] : quest'[p][q].order < req[r].n
               /\ \A x \in Reqs \ {r} : Adding(req'[x]) => req'[x].p # p
    BY <2>0, <2>1, <2>2, <2>3 DEF AddingOK, Rows
  <2> QED BY <2>0, <2>1, <2>2, <2>3 DEF AddingOK, Rows
<1> QED BY <1>1, <1>2 DEF OrderInv

\* orders: a step that leaves the questions and the adding requests alone
LEMMA OrderSame ==
  ASSUME ListTyped, ListTyped', OrderInv, UNCHANGED <<mixed, quest>>,
         \A p \in Props : (prop'[p].st = prop[p].st /\ prop'[p].made = prop[p].made) \/ prop'[p].st = "gone",
         \A x \in Reqs : Adding(req'[x]) => Adding(req[x]) /\ req'[x].p = req[x].p /\ req'[x].n = req[x].n
  PROVE  OrderInv'
BY OrderFrame DEF Rows

\* orders: a request to add takes the next order
LEMMA OrderLook == ASSUME ListTyped, ListTyped', OrderInv, PageInv, NEW r \in Reqs, AddLook(r) PROVE OrderInv'
<1> DEFINE q == req[r]
<1>1. q \in ListReqs /\ Steps(q) /\ q.op = "add" /\ q.pc = "look" /\ UNCHANGED <<prop, quest>>
  BY DEF AddLook, ListTyped, ListReqsTyped, store
<1>2. PICK p : p = q.p
  OBVIOUS
<1>3. CASE p \notin Live
  <2>1. req' = [req EXCEPT ![r] = Idle] /\ mixed' = mixed
    BY <1>2, <1>3 DEF AddLook, Done, Go
  <2>2. \A x \in Reqs : Adding(req'[x]) => req'[x] = req[x]
    BY <2>1 DEF Adding, Idle, ListTyped, ListReqsTyped
  <2> QED BY <1>1, <2>1, <2>2, OrderSame
<1>4. CASE p \in Live
  <2>1. PICK n : n = NextOrder(p)
    OBVIOUS
  <2>2. /\ req' = [req EXCEPT ![r] = [q EXCEPT !.pc = "insert", !.n = n]]
        /\ mixed' = IF Past("add", p, "insert") # {} THEN mixed \cup {p} ELSE mixed
    BY <1>2, <1>4, <2>1 DEF AddLook, Go
  <2>3. p \in Props /\ prop[p].st = "live" /\ PropsTyped
    BY <1>4 DEF Live, ListTyped
  <2>4. n \in 0..prop[p].made /\ (\A x \in Rows(p) : quest[p][x].order < n) /\ prop[p].made \in Nat
    BY <2>1, <2>3, NextOrderFacts DEF OrderInv, RowsOrdered, PropsTyped, Property
  <2>5. \A x \in Reqs \ {r} : req'[x] = req[x]
    BY <2>2 DEF ListTyped, ListReqsTyped
  <2>6. req'[r].p = p /\ req'[r].n = n
    <3>1. req'[r] = [q EXCEPT !.pc = "insert", !.n = n]
      BY <2>2 DEF ListTyped, ListReqsTyped
    <3> QED BY <1>1, <1>2, <3>1 DEF ListReqs
  <2>7. ASSUME NEW o \in Props PROVE RowsOrdered(o)' /\ Apart(o)'
    BY <1>1, <2>2 DEF OrderInv, RowsOrdered, Apart, Rows
  <2>8. ASSUME p \notin mixed', NEW x \in Reqs \ {r}, Adding(req[x]) PROVE req[x].p # p
    BY <2>2, <2>8 DEF Past, Adding
  <2>9. ASSUME NEW x \in Reqs PROVE AddingOK(x)'
    <3>1. CASE x = r
      <4>1. \A y \in Rows(p)' : quest'[p][y].order < n
        BY <1>1, <2>4 DEF Rows
      <4>2. prop'[p].st = "live" => n <= prop'[p].made
        BY <1>1, <2>4
      <4>3. p \notin mixed' => \A y \in Reqs \ {x} : Adding(req'[y]) => req'[y].p # p
        BY <2>5, <2>8, <3>1
      <4> QED BY <2>6, <3>1, <4>1, <4>2, <4>3 DEF AddingOK
    <3>2. CASE x # r
      <4> SUFFICES ASSUME Adding(req[x]) PROVE AddingOK(x)'
        BY <2>5, <3>2 DEF AddingOK
      <4>0. PICK o : o = req[x].p
        OBVIOUS
      <4>1. AddingOK(x) /\ req'[x] = req[x]
        BY <2>5, <3>2 DEF OrderInv
      <4>2. ASSUME o \notin mixed' PROVE o \notin mixed /\ o # p
        BY <2>2, <2>8, <3>2, <4>0, <4>2
      <4>3. ASSUME o \notin mixed', NEW y \in Reqs \ {x}, Adding(req'[y]) PROVE req'[y].p # o
        BY <2>5, <2>6, <4>0, <4>1, <4>2, <4>3 DEF AddingOK
      <4> QED BY <1>1, <4>0, <4>1, <4>2, <4>3 DEF AddingOK, Rows
    <3> QED BY <3>1, <3>2
  <2> QED BY <2>7, <2>9 DEF OrderInv
<1> QED BY <1>3, <1>4

\* orders: a property is inserted with its standard questions
LEMMA OrderCreate == ASSUME ListTyped, ListTyped', OrderInv, PageInv, NEW r \in Reqs, CreateInsert(r) PROVE OrderInv'
<1>1. PICK p \in Props : prop[p].st = "none" /\ prop' = [prop EXCEPT ![p] = NewRow] /\ quest' = [quest EXCEPT ![p] = Fresh]
  BY DEF CreateInsert
<1>2. req' = [req EXCEPT ![r] = Idle] /\ mixed' = mixed
  BY DEF CreateInsert, Done, Go
<1>3. \A x \in Reqs : Adding(req'[x]) => req'[x] = req[x]
  BY <1>2 DEF Adding, Idle, ListTyped, ListReqsTyped
<1>4. prop'[p] = NewRow /\ quest'[p] = Fresh /\ \A o \in Props \ {p} : prop'[o] = prop[o] /\ quest'[o] = quest[o]
  BY <1>1 DEF ListTyped, PropsTyped
<1>5. RowsOrdered(p)' /\ Apart(p)'
  <2>1. Std \in Nat /\ prop'[p].made = Std
    BY <1>4, NewRowFacts, ListingAssumption
  <2>2. Rows(p)' = 1..Std /\ \A q \in 1..Std : quest'[p][q].order = q - 1
    BY <1>4 DEF Rows, Fresh
  <2> QED BY <2>1, <2>2 DEF RowsOrdered, Apart
<1>6. ASSUME NEW o \in Props \ {p} PROVE RowsOrdered(o)' /\ Apart(o)'
  BY <1>2, <1>4 DEF OrderInv, RowsOrdered, Apart, Rows
<1>7. ASSUME NEW x \in Reqs PROVE AddingOK(x)'
  <2> SUFFICES ASSUME Adding(req'[x]) PROVE AddingOK(x)'
    BY DEF AddingOK
  <2>0. PICK o : o = req[x].p
    OBVIOUS
  <2>1. AddingOK(x) /\ Adding(req[x]) /\ req'[x] = req[x] /\ \A y \in Reqs : Adding(req'[y]) => Adding(req[y]) /\ req'[y].p = req[y].p
    BY <1>3 DEF OrderInv
  <2>2. o \in Props /\ o # p
    BY <1>1, <2>0, <2>1 DEF Adding, ListTyped, ListReqsTyped, Steps, PageInv, AskedOK
  <2>3. prop'[o] = prop[o] /\ quest'[o] = quest[o]
    BY <1>4, <2>2
  <2>4. o \notin mixed => \A y \in Reqs \ {x} : Adding(req'[y]) => req'[y].p # o
    BY <2>0, <2>1 DEF AddingOK
  <2> QED BY <1>2, <2>0, <2>1, <2>3, <2>4 DEF AddingOK, Rows
<1> QED BY <1>5, <1>6, <1>7 DEF OrderInv

\* orders: a question is inserted
LEMMA OrderAdd == ASSUME ListTyped, ListTyped', OrderInv, PageInv, NEW r \in Reqs, AddInsert(r) PROVE OrderInv'
<1> DEFINE q == req[r]
<1>1. q \in ListReqs /\ Steps(q) /\ q.op = "add" /\ q.pc = "insert" /\ mixed' = mixed
  BY DEF AddInsert, ListTyped, ListReqsTyped
<1>2. PICK p : p = q.p
  OBVIOUS
<1>3. p \in Props
  BY <1>1, <1>2 DEF Steps
<1>4. CASE p \notin Live
  <2>1. req' = [req EXCEPT ![r] = Idle] /\ prop' = prop /\ quest' = quest
    BY <1>2, <1>4 DEF AddInsert, Done, Go
  <2>2. \A x \in Reqs : Adding(req'[x]) => req'[x] = req[x]
    BY <2>1 DEF Adding, Idle, ListTyped, ListReqsTyped
  <2> QED BY <1>1, <2>1, <2>2, OrderSame
<1>5. CASE p \in Live
  <2>1. PICK m : m = prop[p].made
    OBVIOUS
  <2>2. /\ prop' = [prop EXCEPT ![p] = [prop[p] EXCEPT !.made = m + 1]]
        /\ quest' = [quest EXCEPT ![p] = [x \in Rows(p) \cup {m + 1} |->
                       IF x = m + 1 THEN [order |-> q.n, std |-> q.std] ELSE quest[p][x]]]
        /\ req' = [req EXCEPT ![r] = [q EXCEPT !.pc = "answer", !.q = m + 1]]
    BY <1>2, <1>5, <2>1 DEF AddInsert, Go
  <2>3. prop[p] \in Property /\ prop[p].st = "live" /\ m \in Nat /\ q.n \in Nat
    BY <1>1, <1>3, <1>5, <2>1 DEF Live, ListTyped, PropsTyped, Property, ListReqs
  <2>4. Rows(p) \subseteq 1..m /\ \A x \in Rows(p) : quest[p][x].order \in Nat
    BY <1>3, <2>1 DEF ListTyped, PropsTyped, RowOK, Rows, Question
  <2>5. prop'[p].made = m + 1 /\ prop'[p].st = "live" /\ \A o \in Props \ {p} : prop'[o] = prop[o] /\ quest'[o] = quest[o]
    BY <1>3, <2>2, <2>3 DEF ListTyped, PropsTyped, Property
  <2>6. quest'[p] = [x \in Rows(p) \cup {m + 1} |-> IF x = m + 1 THEN [order |-> q.n, std |-> q.std] ELSE quest[p][x]]
    BY <1>3, <2>2 DEF ListTyped, PropsTyped
  <2>7. Rows(p)' = Rows(p) \cup {m + 1} /\ m + 1 \notin Rows(p)
    BY <2>3, <2>4, <2>6 DEF Rows
  <2>8. quest'[p][m + 1].order = q.n /\ \A x \in Rows(p) : quest'[p][x] = quest[p][x]
    BY <2>6, <2>7
  <2>9. Adding(q) /\ AddingOK(r) /\ RowsOrdered(p) /\ Apart(p)
    BY <1>1, <1>3 DEF Adding, OrderInv
  <2>10. q.n <= m /\ (p \notin mixed => (\A x \in Rows(p) : quest[p][x].order < q.n)
                                        /\ \A x \in Reqs \ {r} : Adding(req[x]) => req[x].p # p)
    BY <1>2, <2>1, <2>3, <2>9 DEF AddingOK
  <2>11. RowsOrdered(p)'
    <3>1. \A x \in Rows(p) : quest[p][x].order < m
      BY <2>1, <2>3, <2>9 DEF RowsOrdered
    <3>2. \A x \in Rows(p) : quest[p][x].order < m + 1
      BY <2>3, <2>4, <3>1
    <3> QED BY <2>3, <2>5, <2>7, <2>8, <2>10, <3>2 DEF RowsOrdered
  <2>12. Apart(p)'
    <3> SUFFICES ASSUME p \notin mixed, NEW a \in Rows(p)', NEW b \in Rows(p)', a # b
                 PROVE  quest'[p][a].order # quest'[p][b].order
      BY <1>1 DEF Apart
    <3>1. \A x \in Rows(p) : quest[p][x].order # q.n
      BY <2>3, <2>4, <2>10
    <3> QED BY <2>7, <2>8, <2>9, <3>1 DEF Apart
  <2>13. ASSUME NEW o \in Props \ {p} PROVE RowsOrdered(o)' /\ Apart(o)'
    BY <1>1, <2>5 DEF OrderInv, RowsOrdered, Apart, Rows
  <2>14. ~Adding(req'[r]) /\ \A x \in Reqs \ {r} : req'[x] = req[x]
    BY <1>1, <2>2 DEF Adding, ListTyped, ListReqsTyped, ListReqs
  <2>15. ASSUME NEW x \in Reqs PROVE AddingOK(x)'
    <3> SUFFICES ASSUME Adding(req'[x]) PROVE AddingOK(x)'
      BY DEF AddingOK
    <3>1. x # r /\ req'[x] = req[x] /\ Adding(req[x]) /\ AddingOK(x)
      BY <2>14 DEF OrderInv
    <3>2. PICK o : o = req[x].p
      OBVIOUS
    <3>3. req[x].n \in Nat /\ o \in Props
      BY <3>1, <3>2 DEF ListTyped, ListReqsTyped, ListReqs, Steps, Adding
    <3>4. ASSUME o \notin mixed PROVE o # p /\ \A y \in Reqs \ {x} : Adding(req'[y]) => req'[y].p # o
      BY <2>10, <2>14, <3>1, <3>2, <3>4 DEF AddingOK
    <3>5. CASE o = p
      <4>1. req[x].n <= m
        BY <2>1, <2>3, <3>1, <3>2, <3>5 DEF AddingOK
      <4>2. req[x].n <= m + 1
        BY <2>3, <3>3, <4>1
      <4> QED BY <1>1, <2>5, <3>1, <3>2, <3>4, <3>5, <4>2 DEF AddingOK
    <3>6. CASE o # p
      BY <1>1, <2>5, <3>1, <3>2, <3>3, <3>4, <3>6 DEF AddingOK, Rows
    <3> QED BY <3>5, <3>6
  <2> QED BY <2>11, <2>12, <2>13, <2>15 DEF OrderInv
<1> QED BY <1>4, <1>5

\* orders: a new order is committed
LEMMA OrderReorder == ASSUME ListTyped, ListTyped', OrderInv, PageInv, NEW r \in Reqs, ReorderCommit(r) PROVE OrderInv'
<1> DEFINE q == req[r]
<1>1. q \in ListReqs /\ Steps(q) /\ q.op = "reorder" /\ q.pc = "commit" /\ prop' = prop /\ req' = [req EXCEPT ![r] = Idle]
  BY DEF ReorderCommit, Done, Go, ListTyped, ListReqsTyped
<1>2. PICK p, s : p = q.p /\ s = q.list
  OBVIOUS
<1>3. p \in Props /\ NoRepeat(s) /\ s \in Seq(1..MaxQuest)
  BY <1>1, <1>2 DEF Steps, PageInv, AskedOK, ListReqs
<1>4. \A x \in Reqs : Adding(req'[x]) => x # r /\ req'[x] = req[x]
  BY <1>1 DEF Adding, Idle, ListTyped, ListReqsTyped
<1>5. CASE ~(Listed(s) \subseteq Rows(p))
  <2>1. quest' = quest /\ mixed' = mixed
    BY <1>2, <1>5 DEF ReorderCommit
  <2> QED BY <1>1, <1>4, <2>1, OrderSame
<1>6. CASE Listed(s) \subseteq Rows(p)
  <2> DEFINE idx(x) == CHOOSE i \in 1..Len(s) : s[i] = x
  <2>1. /\ quest' = [quest EXCEPT ![p] =
              [x \in Rows(p) |-> IF x \in Listed(s) THEN [quest[p][x] EXCEPT !.order = idx(x) - 1] ELSE quest[p][x]]]
        /\ mixed' = IF Listed(s) # Rows(p) THEN mixed \cup {p}
                    ELSE IF Past("add", p, "insert") = {} THEN mixed \ {p} ELSE mixed
    <3>1. /\ quest' = [quest EXCEPT ![p] =
                [x \in Rows(p) |-> IF x \in Listed(s) THEN [quest[p][x] EXCEPT !.order = idx(x) - 1] ELSE quest[p][x]]]
          /\ mixed' = CASE Listed(s) # Rows(p) -> mixed \cup {p}
                        [] Listed(s) = Rows(p) /\ Past("add", p, "insert") = {} -> mixed \ {p}
                        [] OTHER -> mixed
      BY <1>2, <1>6 DEF ReorderCommit
    <3> HIDE DEF idx
    <3> QED BY <3>1, Zenon
  <2>2. \A x \in Listed(s) : idx(x) \in 1..Len(s) /\ s[idx(x)] = x
    BY DEF Listed
  <2> HIDE DEF idx
  <2>3. Len(s) \in Nat /\ \A i \in 1..Len(s) : s[i] \in Listed(s)
    BY <1>3, LenProperties DEF Listed
  <2>4. prop[p].made \in Nat /\ Rows(p) \subseteq 1..prop[p].made /\ \A x \in Rows(p) : quest[p][x] \in Question
    BY <1>3 DEF ListTyped, PropsTyped, Property, RowOK, Rows
  <2>5. quest'[p] = [x \in Rows(p) |-> IF x \in Listed(s) THEN [quest[p][x] EXCEPT !.order = idx(x) - 1] ELSE quest[p][x]]
    BY <1>3, <2>1 DEF ListTyped, PropsTyped
  <2>6. Rows(p)' = Rows(p)
    BY <2>5 DEF Rows
  <2>7. \A x \in Rows(p) : quest'[p][x].order = IF x \in Listed(s) THEN idx(x) - 1 ELSE quest[p][x].order
    BY <2>4, <2>5 DEF Question
  <2>8. \A o \in Props \ {p} : quest'[o] = quest[o] /\ (o \in mixed' <=> o \in mixed)
    BY <2>1 DEF ListTyped, PropsTyped
  <2>9. Len(s) <= prop[p].made
    <3> DEFINE f == [i \in 1..Len(s) |-> s[i] - 1]
    <3>1. f \in [1..Len(s) -> 0..(prop[p].made - 1)]
      BY <1>6, <2>3, <2>4
    <3>2. \A i, j \in 1..Len(s) : f[i] = f[j] => i = j
      <4>1. \A i \in 1..Len(s) : s[i] \in Nat
        BY <1>6, <2>3, <2>4
      <4> QED BY <1>3, <4>1 DEF NoRepeat
    <3> HIDE DEF f
    <3> QED BY <2>3, <2>4, <3>1, <3>2, Fits
  <2>10. RowsOrdered(p)'
    <3>1. \A x \in Listed(s) : idx(x) - 1 < prop[p].made
      BY <2>2, <2>3, <2>4, <2>9
    <3> QED BY <1>1, <1>3, <2>6, <2>7, <3>1 DEF OrderInv, RowsOrdered
  <2>11. Apart(p)'
    <3> SUFFICES ASSUME p \notin mixed' PROVE Apart(p)'
      BY DEF Apart
    <3>1. Listed(s) = Rows(p)
      BY <2>1
    <3>2. \A a, b \in Listed(s) : a # b => idx(a) # idx(b)
      BY <2>2
    <3>3. \A a, b \in Listed(s) : a # b => idx(a) - 1 # idx(b) - 1
      BY <2>2, <2>3, <3>2
    <3> QED BY <2>6, <2>7, <3>1, <3>3 DEF Apart
  <2>12. ASSUME NEW o \in Props \ {p} PROVE RowsOrdered(o)' /\ Apart(o)'
    BY <1>1, <2>8 DEF OrderInv, RowsOrdered, Apart, Rows
  <2>13. ASSUME NEW x \in Reqs PROVE AddingOK(x)'
    <3> SUFFICES ASSUME Adding(req'[x]) PROVE AddingOK(x)'
      BY DEF AddingOK
    <3>1. x # r /\ req'[x] = req[x] /\ Adding(req[x]) /\ AddingOK(x)
      BY <1>4 DEF OrderInv
    <3>2. PICK o, n : o = req[x].p /\ n = req[x].n
      OBVIOUS
    <3>3. n \in Nat /\ o \in Props
      BY <3>1, <3>2 DEF ListTyped, ListReqsTyped, ListReqs, Steps, Adding
    <3>4. (prop[o].st = "live" => n <= prop[o].made)
          /\ (o \notin mixed => (\A y \in Rows(o) : quest[o][y].order < n)
                                /\ \A y \in Reqs \ {x} : Adding(req[y]) => req[y].p # o)
      BY <3>1, <3>2 DEF AddingOK
    <3>5. ASSUME o \notin mixed' PROVE o \notin mixed /\ (o = p => Listed(s) = Rows(p))
      <4>1. x \in Past("add", o, "insert")
        BY <3>1, <3>2 DEF Past, Adding
      <4> QED BY <2>1, <2>8, <3>3, <3>5, <4>1
    <3>6. ASSUME o \notin mixed', NEW y \in Reqs \ {x}, Adding(req'[y]) PROVE req'[y].p # o
      BY <1>4, <3>4, <3>5, <3>6
    <3>7. ASSUME o \notin mixed', o = p, NEW y \in Rows(p) PROVE quest'[p][y].order < n
      <4>1. p \notin mixed /\ Listed(s) = Rows(p) /\ Apart(p)
        BY <1>3, <3>5, <3>7 DEF OrderInv
      <4> DEFINE f == [i \in 1..Len(s) |-> quest[p][s[i]].order]
      <4>2. \A i \in 1..Len(s) : s[i] \in Rows(p) /\ quest[p][s[i]].order \in Nat /\ quest[p][s[i]].order < n
        BY <2>3, <2>4, <3>4, <3>7, <4>1 DEF Question
      <4>3. f \in [1..Len(s) -> 0..(n - 1)]
        BY <3>3, <4>2
      <4>4. \A i, j \in 1..Len(s) : f[i] = f[j] => i = j
        BY <1>3, <4>1, <4>2 DEF Apart, NoRepeat
      <4> HIDE DEF f
      <4>5. Len(s) <= n
        BY <2>3, <3>3, <4>3, <4>4, Fits
      <4>6. idx(y) - 1 < n
        BY <2>2, <2>3, <3>3, <4>1, <4>5
      <4> QED BY <2>7, <3>7, <4>1, <4>6
    <3>8. o \notin mixed' => \A y \in Rows(o)' : quest'[o][y].order < n
      <4>1. CASE o = p
        BY <2>6, <3>7, <4>1
      <4>2. CASE o # p
        BY <2>8, <3>3, <3>4, <3>5, <4>2 DEF Rows
      <4> QED BY <4>1, <4>2
    <3> QED BY <1>1, <3>1, <3>2, <3>4, <3>6, <3>8 DEF AddingOK
  <2> QED BY <2>10, <2>11, <2>12, <2>13 DEF OrderInv
<1> QED BY <1>5, <1>6

\* orders: the other steps of a request
LEMMA OrderOthers ==
  ASSUME ListTyped, ListTyped', OrderInv, PageInv, NEW r \in Reqs,
         \/ CreateLook(r) \/ PhotoLook(r) \/ ReorderLook(r) \/ DeleteLook(r) \/ PhotoInsert(r) \/ Answer(r) \/ Drop(r)
         \/ DeleteQuestions(r) \/ DeletePhotos(r) \/ DeleteRow(r)
  PROVE  OrderInv'
<1> DEFINE q == req[r]
<1>1. q \in ListReqs /\ Steps(q) /\ mixed' = mixed
  BY DEF CreateLook, PhotoLook, ReorderLook, DeleteLook, PhotoInsert, Answer, Drop, DeleteQuestions, DeletePhotos, DeleteRow,
         ListTyped, ListReqsTyped
<1>2. \A x \in Reqs : Adding(req'[x]) => req'[x] = req[x]
  <2>1. PICK new \in {Idle, [q EXCEPT !.pc = "insert"], [q EXCEPT !.pc = "commit"],
                      [q EXCEPT !.pc = "questions"], [q EXCEPT !.pc = "photos"], [q EXCEPT !.pc = "row"], [q EXCEPT !.pc = "answer"],
                      [q EXCEPT !.pc = "look", !.left = q.left - 1]} :
          req' = [req EXCEPT ![r] = new] /\ (new # [q EXCEPT !.pc = "insert"] \/ q.op # "add")
    <3>1. CASE CreateLook(r) \/ PhotoLook(r)
      BY <3>1 DEF CreateLook, PhotoLook, Done, Go
    <3>2. CASE ReorderLook(r) \/ DeleteLook(r) \/ PhotoInsert(r)
      <4>1. q.op # "add"
        BY <3>2 DEF ReorderLook, DeleteLook, PhotoInsert
      <4> QED BY <3>2, <4>1 DEF ReorderLook, DeleteLook, PhotoInsert, Done, Go
    <3>3. CASE Drop(r) \/ DeleteQuestions(r) \/ DeletePhotos(r) \/ DeleteRow(r)
      <4>1. q.op # "add"
        BY <3>3 DEF Drop, DeleteQuestions, DeletePhotos, DeleteRow
      <4> QED BY <3>3, <4>1 DEF Drop, DeleteQuestions, DeletePhotos, DeleteRow, Done, Go
    <3>4. CASE Answer(r)
      <4>1. Idle.pc = "idle" /\ [q EXCEPT !.pc = "look", !.left = q.left - 1].pc = "look" /\ [q EXCEPT !.pc = "insert"].pc = "insert"
        BY <1>1 DEF Idle, ListReqs
      <4>2. req' = [req EXCEPT ![r] = Idle] \/ req' = [req EXCEPT ![r] = [q EXCEPT !.pc = "look", !.left = q.left - 1]]
        BY <3>4 DEF Answer, Done, Go
      <4> QED BY <4>1, <4>2
    <3> QED BY <3>1, <3>2, <3>3, <3>4
  <2>2. ~Adding(new)
    <3>1. CASE new = [q EXCEPT !.pc = "insert"]
      BY <1>1, <2>1, <3>1 DEF Adding, ListReqs
    <3>2. CASE new = Idle
      BY <3>2 DEF Adding, Idle
    <3>3. CASE new # Idle /\ new # [q EXCEPT !.pc = "insert"]
      <4>1. new.pc # "insert"
        BY <1>1, <2>1, <3>3 DEF ListReqs
      <4> QED BY <4>1 DEF Adding
    <3> QED BY <3>1, <3>2, <3>3
  <2> QED BY <2>1, <2>2 DEF ListTyped, ListReqsTyped
<1>3. PICK p : p = q.p
  OBVIOUS
<1>4. ASSUME NEW o \in Props PROVE (prop'[o].st = prop[o].st /\ prop'[o].made = prop[o].made) \/ prop'[o].st = "gone"
  <2>1. \/ prop' = prop \/ prop' = [prop EXCEPT ![p] = [prop[p] EXCEPT !.photos = 0]]
        \/ p \in Live /\ prop' = [prop EXCEPT ![p] = [NoRow EXCEPT !.st = "gone"]]
        \/ p \in Live /\ prop' = [prop EXCEPT ![p].photos = @ + 1]
    BY <1>3 DEF CreateLook, PhotoLook, ReorderLook, DeleteLook, PhotoInsert, Answer, Drop, DeleteQuestions, DeletePhotos, DeleteRow, store
  <2>2. prop[o] \in Property /\ prop \in [Props -> Property]
    BY DEF ListTyped, PropsTyped
  <2>3. \/ prop'[o] = prop[o] \/ prop'[o] = [prop[o] EXCEPT !.photos = 0]
        \/ prop'[o] = [NoRow EXCEPT !.st = "gone"]
        \/ prop'[o] = [prop[o] EXCEPT !.photos = prop[o].photos + 1]
    BY <2>1, <2>2 DEF Property
  <2> QED BY <2>2, <2>3 DEF Property, NoRow
<1>5. ASSUME NEW o \in Props
      PROVE  DOMAIN quest'[o] \subseteq Rows(o) /\ \A x \in DOMAIN quest'[o] : quest'[o][x].order = quest[o][x].order
  <2>0. PICK z : z = q.q
    OBVIOUS
  <2>1. \/ quest' = quest \/ quest' = [quest EXCEPT ![p] = <<>>]
        \/ quest' = [quest EXCEPT ![p] = [x \in Rows(p) \ {z} |-> quest[p][x]]]
    BY <1>3, <2>0 DEF CreateLook, PhotoLook, ReorderLook, DeleteLook, PhotoInsert, Answer, Drop, DeleteQuestions, DeletePhotos, DeleteRow, store
  <2>2. DOMAIN <<>> = {}
    OBVIOUS
  <2>3. CASE quest'[o] = quest[o]
    BY <2>3 DEF Rows
  <2>4. CASE quest'[o] = <<>>
    BY <2>2, <2>4
  <2>5. CASE quest'[o] = [x \in Rows(o) \ {z} |-> quest[o][x]]
    BY <2>5
  <2>6. quest'[o] = quest[o] \/ quest'[o] = <<>> \/ quest'[o] = [x \in Rows(o) \ {z} |-> quest[o][x]]
    <3>1. CASE o = p
      BY <2>1, <3>1 DEF ListTyped, PropsTyped
    <3>2. CASE o # p
      BY <2>1, <3>2 DEF ListTyped, PropsTyped
    <3> QED BY <3>1, <3>2
  <2> QED BY <2>3, <2>4, <2>5, <2>6
<1> QED BY <1>1, <1>2, <1>4, <1>5, OrderFrame

\* orders, at every step
LEMMA OrderInvStep == ASSUME ListTyped, ListTyped', PageInv, OrderInv, DeskNext \/ UNCHANGED <<listVars, lineOnly>> PROVE OrderInv'
<1>1. CASE LineStep \/ UNCHANGED <<listVars, lineOnly>>
  <2>1. UNCHANGED <<prop, quest, req, mixed>>
    BY <1>1, LineLeaves DEF listVars, store
  <2> QED BY <2>1, OrderSame
<1>2. ASSUME NEW t \in Tabs, PageStep(t) PROVE OrderInv'
  <2>1. CASE Open(t) \/ WizardQuestions(t) \/ WizardEnd(t) \/ Toggle(t)
    <3>1. UNCHANGED <<prop, quest, mixed>> /\ (req' = req \/ req' = Unheard(t))
      BY <2>1 DEF Open, WizardQuestions, WizardEnd, Toggle, store
    <3>2. \A x \in Reqs : req'[x].op = req[x].op /\ req'[x].pc = req[x].pc /\ req'[x].p = req[x].p /\ req'[x].n = req[x].n
      <4> SUFFICES ASSUME NEW x \in Reqs
                   PROVE  req'[x].op = req[x].op /\ req'[x].pc = req[x].pc /\ req'[x].p = req[x].p /\ req'[x].n = req[x].n
        OBVIOUS
      <4>1. req[x] \in ListReqs /\ (req'[x] = req[x] \/ req'[x] = [req[x] EXCEPT !.t = None])
        BY <3>1 DEF Unheard, ListTyped, ListReqsTyped
      <4> QED BY <4>1 DEF ListReqs
    <3> QED BY <3>1, <3>2, OrderSame DEF Adding
  <2>2. ASSUME NEW r \in Reqs, Asks(t, r) PROVE OrderInv'
    <3>1. UNCHANGED <<prop, quest, mixed>> /\ \E q : req' = [req EXCEPT ![r] = q] /\ q.pc = "look"
      BY <2>2, AskForms
    <3>2. \A x \in Reqs : Adding(req'[x]) => req'[x] = req[x]
      BY <3>1 DEF Adding, ListTyped, ListReqsTyped
    <3> QED BY <3>1, <3>2, OrderSame
  <2> QED BY <1>2, <2>1, <2>2 DEF PageStep, Asks
<1>3. ASSUME NEW r \in Reqs, ReqStep(r) PROVE OrderInv'
  BY <1>3, OrderLook, OrderAdd, OrderCreate, OrderReorder, OrderOthers DEF ReqStep
<1>4. ASSUME NEW p \in Props, PropStep(p) PROVE OrderInv'
  <2>1. UNCHANGED <<quest, req, mixed>>
    BY <1>4 DEF PropStep, PhotoDelete, DraftBegin, DraftEnd, Call
  <2>2. \/ prop' = [prop EXCEPT ![p].photos = @ - 1]
        \/ prop' = [prop EXCEPT ![p] = [prop[p] EXCEPT !.draft = TRUE]]
        \/ prop' = [prop EXCEPT ![p] = [prop[p] EXCEPT !.draft = FALSE, !.tied = TRUE]]
        \/ prop' = [prop EXCEPT ![p] = [prop[p] EXCEPT !.tied = TRUE]]
    BY <1>4 DEF PropStep, PhotoDelete, DraftBegin, DraftEnd, Call
  <2>3. ASSUME NEW x \in Props PROVE prop'[x].st = prop[x].st /\ prop'[x].made = prop[x].made
    <3>1. prop[x] \in Property /\ prop \in [Props -> Property]
      BY DEF ListTyped, PropsTyped
    <3>2. \/ prop'[x] = prop[x] \/ prop'[x] = [prop[x] EXCEPT !.photos = prop[x].photos - 1]
          \/ prop'[x] = [prop[x] EXCEPT !.draft = TRUE]
          \/ prop'[x] = [prop[x] EXCEPT !.draft = FALSE, !.tied = TRUE]
          \/ prop'[x] = [prop[x] EXCEPT !.tied = TRUE]
      BY <2>2, <3>1 DEF Property
    <3> QED BY <3>1, <3>2 DEF Property
  <2> QED BY <2>1, <2>3, OrderSame
<1>5. CASE Stop
  <2>1. UNCHANGED <<prop, quest, mixed>> /\ req' = [x \in Reqs |-> Idle]
    BY <1>5 DEF Stop, store
  <2> QED BY <2>1, OrderSame DEF Adding, Idle
<1> QED BY <1>1, <1>2, <1>3, <1>4, <1>5 DEF DeskNext, ListStep, ListNext

\* orders, at the start
LEMMA OrderInit == ASSUME ListInit PROVE OrderInv
<1>1. ASSUME NEW p \in Props PROVE RowsOrdered(p) /\ Apart(p)
  <2>1. CASE p \in listCast.live
    <3>1. quest[p] = Fresh /\ prop[p].made = Std /\ Std \in Nat
      BY <2>1, NewRowFacts, ListingAssumption DEF ListInit
    <3>2. Rows(p) = 1..Std /\ \A x \in 1..Std : quest[p][x].order = x - 1
      BY <3>1 DEF Rows, Fresh
    <3> QED BY <3>1, <3>2 DEF RowsOrdered, Apart
  <2>2. CASE p \notin listCast.live
    <3>1. DOMAIN <<>> = {}
      OBVIOUS
    <3> QED BY <2>2, <3>1 DEF ListInit, RowsOrdered, Apart, Rows
  <2> QED BY <2>1, <2>2
<1>2. \A r \in Reqs : ~Adding(req[r])
  BY DEF ListInit, Adding, Idle
<1> QED BY <1>1, <1>2 DEF OrderInv, AddingOK

-----------------------------------------------------------------------------
(* What holds of the desk                                                  *)

ListInv == ListTyped /\ PageInv /\ OrderInv /\ CapsInv /\ DraftInv

\* The state of the pages and of the requests is of its types, and what the inductive invariants
\* say of them holds at every step.
THEOREM DeskIsKept == DeskSpec => []ListInv
<1>1. DeskInit => ListInv
  BY ListTypedInit, PageInit, OrderInit, CapsInit, DraftInit DEF DeskInit, ListInv
<1>2. ListInv /\ [DeskNext]_<<listVars, lineOnly>> => ListInv'
  BY ListTypedStep, PageInvStep, OrderInvStep, CapsStep, DraftStep DEF ListInv
<1> QED BY <1>1, <1>2, PTL DEF DeskSpec

\* A property's questions have different places, whatever pages and requests do, unless two were
\* being added at once or a page that did not show them all was reordered.
THEOREM QuestionsKeepTheirOrder == DeskSpec => []OrdersDistinct
<1>1. ListInv => OrdersDistinct
  <2> SUFFICES ASSUME ListInv PROVE OrdersDistinct
    OBVIOUS
  <2>1. ListTyped /\ OrderInv
    BY DEF ListInv
  <2>2. ASSUME NEW p \in Props
        PROVE  /\ prop[p].st \in {"none", "live", "gone"} /\ prop[p].photos \in Nat /\ prop[p].made \in 0..MaxQuest
               /\ Rows(p) \subseteq 1..prop[p].made /\ Orders(p) \subseteq Nat
    <3>1. prop[p] \in Property /\ RowOK(p)
      BY <2>1 DEF ListTyped, PropsTyped
    <3>2. \A q \in Rows(p) : quest[p][q].order \in Nat
      BY <3>1 DEF RowOK, Rows, Question
    <3> QED BY <3>1, <3>2 DEF Property, RowOK, Rows, Orders
  <2>3. ASSUME NEW t \in Tabs PROVE tab[t].at \in Page /\ Listed(tab[t].qs) \subseteq 1..MaxQuest
    <3>1. tab[t].at \in Page /\ tab[t].qs \in Seq(1..MaxQuest)
      BY <2>1 DEF ListTyped, TabsTyped, Pages
    <3> QED BY <3>1, ElementOfSeq DEF Listed
  <2> QED BY <2>1, <2>2, <2>3 DEF ListTyped, RestTyped, ListTypes, OrdersDistinct, OrderInv, Apart
<1> QED BY <1>1, DeskIsKept, PTL

\* The plan's limit on properties and the limit on photos are exceeded by no more than the
\* requests that counted while another was about to insert.
THEOREM CapsHoldButForRaces == DeskSpec => []CapsBounded
<1>1. ListInv => CapsBounded
  BY CapsHeld DEF ListInv
<1> QED BY <1>1, DeskIsKept, PTL

\* An application begun on a complete property with no deletion under way keeps its questions.
THEOREM DraftsKeepTheirQuestions == DeskSpec => []DraftKeepsQuestions
<1>1. ListInv => DraftKeepsQuestions
  BY DEF ListInv, DraftInv, DraftKeepsQuestions
<1> QED BY <1>1, DeskIsKept, PTL

-----------------------------------------------------------------------------
(* The phone system                                                        *)

\* a property that is not there yet has no number
NewRows == \A p \in Props : prop[p].st = "none" => row[p].sid = Line!NoSid

\* what a start or a check has found holds as long as it is calm
Checked(q) ==
  /\ q.pc = "wait" /\ q.calm => ~agent \/ tunnel[q.got["url"]] \in {"none", "right"}
  /\ q.pc \in {"health", "list", "each", "done"} /\ q.calm /\ q.ok => agent /\ tunnel[q.got["url"]] = "right"
  /\ q.pc \in {"each", "done"} /\ q.calm /\ q.ok =>
       /\ q.listed = Line!Real
       /\ \A s \in q.listed \ q.todo : bought[s].kept /\ bought[s].hook = q.got["url"]
  /\ q.pc = "done" /\ q.ok => q.todo = {}

ReadyInv == NewRows /\ \A r \in Reqs : Checked(lineReq[r])

\* a property is created, then deleted
Ages(p) == \/ prop'[p].st = prop[p].st
           \/ prop[p].st = "none" /\ prop'[p].st = "live"
           \/ prop[p].st = "live" /\ prop'[p].st = "gone"

\* a property comes, lives and goes, in that order
LEMMA PropsAge == ASSUME ListTyped, NEW o \in Props, DeskNext \/ UNCHANGED <<listVars, lineOnly>> PROVE Ages(o)
<1>0. prop \in [Props -> Property] /\ prop[o] \in Property
  BY DEF ListTyped, PropsTyped
<1>1. CASE prop' = prop
  BY <1>1 DEF Ages
<1>2. CASE LineStep \/ UNCHANGED <<listVars, lineOnly>>
  BY <1>1, <1>2, LineLeaves DEF listVars, store
<1>3. ASSUME NEW t \in Tabs, PageStep(t) PROVE prop' = prop
  BY <1>3 DEF PageStep, Open, WizardQuestions, WizardEnd, Toggle, WizardSeed, AskCreate, AskPhoto, AskAdd, AskReorder,
              AskDrop, AskDelete, Starts, store
<1>4. ASSUME NEW r \in Reqs, ReqStep(r) PROVE Ages(o)
  <2>1. PICK p : p = req[r].p
    OBVIOUS
  <2>2. CASE CreateInsert(r)
    <3>1. PICK x \in Props : prop[x].st = "none" /\ prop' = [prop EXCEPT ![x] = NewRow]
      BY <2>2 DEF CreateInsert
    <3> QED BY <1>0, <3>1, NewRowFacts DEF Ages
  <2>3. CASE PhotoInsert(r)
    <3>1. prop' = prop \/ prop' = [prop EXCEPT ![p].photos = @ + 1]
      BY <2>1, <2>3 DEF PhotoInsert
    <3>2. prop'[o] = prop[o] \/ prop'[o] = [prop[o] EXCEPT !.photos = prop[o].photos + 1]
      BY <1>0, <3>1 DEF Property
    <3> QED BY <1>0, <3>2 DEF Ages, Property
  <2>4. CASE AddInsert(r) \/ DeletePhotos(r)
    <3>1. \/ prop' = prop \/ prop' = [prop EXCEPT ![p] = [prop[p] EXCEPT !.made = prop[p].made + 1]]
          \/ prop' = [prop EXCEPT ![p] = [prop[p] EXCEPT !.photos = 0]]
      BY <2>1, <2>4 DEF AddInsert, DeletePhotos
    <3>2. \/ prop'[o] = prop[o] \/ prop'[o] = [prop[o] EXCEPT !.made = prop[o].made + 1]
          \/ prop'[o] = [prop[o] EXCEPT !.photos = 0]
      BY <1>0, <3>1
    <3> QED BY <1>0, <3>2 DEF Ages, Property
  <2>5. CASE DeleteRow(r)
    <3>1. prop' = prop \/ (p \in Live /\ prop' = [prop EXCEPT ![p] = [NoRow EXCEPT !.st = "gone"]])
      BY <2>1, <2>5 DEF DeleteRow, store
    <3> QED BY <1>0, <3>1, NewRowFacts DEF Ages, Live
  <2>6. CASE ~(CreateInsert(r) \/ PhotoInsert(r) \/ AddInsert(r) \/ DeletePhotos(r) \/ DeleteRow(r))
    <3>1. prop' = prop
      BY <1>4, <2>6 DEF ReqStep, CreateLook, PhotoLook, AddLook, Answer, ReorderLook, ReorderCommit, Drop, DeleteLook,
                        DeleteQuestions, store
    <3> QED BY <1>1, <3>1
  <2> QED BY <2>2, <2>3, <2>4, <2>5, <2>6
<1>5. ASSUME NEW p \in Props, PropStep(p) PROVE Ages(o)
  <2>1. \/ prop' = [prop EXCEPT ![p].photos = @ - 1]
        \/ prop' = [prop EXCEPT ![p] = [prop[p] EXCEPT !.draft = TRUE]]
        \/ prop' = [prop EXCEPT ![p] = [prop[p] EXCEPT !.draft = FALSE, !.tied = TRUE]]
        \/ prop' = [prop EXCEPT ![p] = [prop[p] EXCEPT !.tied = TRUE]]
    BY <1>5 DEF PropStep, PhotoDelete, DraftBegin, DraftEnd, Call
  <2>2. \/ prop'[o] = prop[o] \/ prop'[o] = [prop[o] EXCEPT !.photos = prop[o].photos - 1]
        \/ prop'[o] = [prop[o] EXCEPT !.draft = TRUE]
        \/ prop'[o] = [prop[o] EXCEPT !.draft = FALSE, !.tied = TRUE]
        \/ prop'[o] = [prop[o] EXCEPT !.tied = TRUE]
    BY <1>0, <2>1 DEF Property
  <2> QED BY <1>0, <2>2 DEF Ages, Property
<1>6. CASE Stop
  BY <1>1, <1>6 DEF Stop, store
<1> QED BY <1>1, <1>2, <1>3, <1>4, <1>5, <1>6 DEF DeskNext, ListStep, ListNext

\* the rows of the properties there are
LEMMA RealForm == Line!Real = {row[p].sid : p \in {x \in Live : row[x].sid \in Line!Ids}}
BY DEF Line!Real, Live

\* the properties with a real number depend on the rows and the properties alone
LEMMA RealKept ==
  ASSUME NewRows, row' = row, \A p \in Props : Ages(p) /\ ~Deleted(p)
  PROVE  Line!Real' = Line!Real /\ NewRows'
<1>1. \A p \in Props : prop'[p].st = prop[p].st \/ (prop[p].st = "none" /\ prop'[p].st = "live")
  BY DEF Ages, Deleted
<1>2. NewRows'
  BY <1>1 DEF NewRows
<1>3. {x \in Live : row[x].sid \in Line!Ids}' = {x \in Live : row[x].sid \in Line!Ids}
  BY <1>1, NotBought DEF NewRows, Live
<1>4. Line!Real' = {row'[p].sid : p \in {x \in Live : row[x].sid \in Line!Ids}'}
  BY DEF Line!Real, Live
<1> QED BY <1>2, <1>3, <1>4, RealForm

\* a disturbed request claims no more than it did
LEMMA CheckedKept ==
  ASSUME NEW q \in LineReqs, NEW new, Staged(q), Checked(q), Alike(q, new),
         \/ agent' = agent /\ tunnel' = tunnel /\ bought' = bought /\ Line!Real' = Line!Real
         \/ q.op \in {"start", "status"} => ~new.calm
  PROVE  Checked(new)'
<1>1. CASE q.op \notin {"start", "status"}
  BY <1>1 DEF Staged, Alike, Checked
<1>2. CASE ~new.calm
  BY <1>2 DEF Alike, Checked
<1>3. CASE agent' = agent /\ tunnel' = tunnel /\ bought' = bought /\ Line!Real' = Line!Real
  BY <1>3 DEF Alike, Checked
<1> QED BY <1>1, <1>2, <1>3

\* a request that has not asked anything claims nothing
LEMMA CheckedEarly == ASSUME NEW new, new.pc \notin {"wait", "health", "list", "each", "done"} PROVE Checked(new)'
BY DEF Checked

\* a request goes on, the others are left alone or know that something changed
LEMMA ReadyGo ==
  ASSUME LineTyped, ReadyInv, NEW r \in Reqs, NEW new, Checked(new)', NewRows',
         \/ Line!Go(r, new) /\ agent' = agent /\ tunnel' = tunnel /\ bought' = bought /\ Line!Real' = Line!Real
         \/ lineReq' = Line!Stirred(r, new)
  PROVE  ReadyInv'
<1>1. lineReq'[r] = new
  BY GoLeaves, StirLeaves DEF LineTyped
<1>3. ASSUME NEW x \in Reqs \ {r} PROVE Checked(lineReq[x])'
  <2>1. PICK q, n : q = lineReq[x] /\ n = lineReq'[x]
    OBVIOUS
  <2>2. q \in LineReqs /\ Staged(q) /\ Checked(q)
    BY <2>1 DEF LineTyped, ReqsTyped, ReqOK, ReadyInv
  <2>3. Alike(q, n) /\ (\/ agent' = agent /\ tunnel' = tunnel /\ bought' = bought /\ Line!Real' = Line!Real
                        \/ q.op \in {"start", "status"} => ~n.calm)
    BY <2>1, GoLeaves, StirLeaves DEF LineTyped
  <2>4. Checked(n)'
    BY <2>2, <2>3, CheckedKept
  <2> QED BY <2>1, <2>4 DEF Checked
<1>4. Checked(lineReq[r])'
  BY <1>1 DEF Checked
<1> QED BY <1>3, <1>4 DEF ReadyInv

Settled == agent' = agent /\ tunnel' = tunnel /\ bought' = bought /\ Line!Real' = Line!Real /\ NewRows'

\* rows and properties unchanged, the new ones still have no number
LEMMA RowsKept == ASSUME NewRows, row' = row, prop' = prop PROVE Line!Real' = Line!Real /\ NewRows'
BY DEF Line!Real, Live, NewRows

\* a step that settles nothing, or disturbs every start and check
LEMMA ReadyFrame ==
  ASSUME LineTyped, ReadyInv, NewRows',
         \A x \in Reqs : Alike(lineReq[x], lineReq'[x]),
         \/ Settled
         \/ \A x \in Reqs : lineReq[x].op \in {"start", "status"} => ~lineReq'[x].calm
  PROVE  ReadyInv'
<1>1. ASSUME NEW x \in Reqs PROVE Checked(lineReq[x])'
  <2>1. PICK q, n : q = lineReq[x] /\ n = lineReq'[x]
    OBVIOUS
  <2>2. q \in LineReqs /\ Staged(q) /\ Checked(q)
    BY <2>1 DEF LineTyped, ReqsTyped, ReqOK, ReadyInv
  <2>3. Alike(q, n) /\ (\/ agent' = agent /\ tunnel' = tunnel /\ bought' = bought /\ Line!Real' = Line!Real
                        \/ q.op \in {"start", "status"} => ~n.calm)
    BY <2>1 DEF Settled
  <2>4. Checked(n)'
    BY <2>2, <2>3, CheckedKept
  <2> QED BY <2>1, <2>4 DEF Checked
<1> QED BY <1>1 DEF ReadyInv

\* readiness, at an event from outside
LEMMA ReadyEvents == ASSUME LineTyped, ListTyped, ReadyInv, LineEvents, DeskNext \/ UNCHANGED <<listVars, lineOnly>>,
                            (\E p \in Props : Deleted(p)) => \E p \in Props : Line!Gone(p)
  PROVE  ReadyInv'
<1>1. row' = row /\ \A p \in Props : Ages(p)
  BY PropsAge DEF LineEvents, Line!Restart, Line!Network, Line!Gone, lineOnly, Line!account
<1>2. NewRows'
  BY <1>1 DEF NewRows, ReadyInv, Ages
<1>3. CASE Line!Restart
  <2>1. \A x \in Reqs : lineReq'[x].pc = "idle"
    BY <1>3 DEF Line!Restart, Line!Idle
  <2>2. \A x \in Reqs : Checked(lineReq[x])'
    BY <2>1 DEF Checked
  <2> QED BY <1>2, <2>2 DEF ReadyInv
<1>4. CASE lineReq' = [x \in Reqs |-> Line!Uneasy(lineReq[x])]
  <2>1. \A x \in Reqs : Alike(lineReq[x], lineReq'[x]) /\ (lineReq[x].op \in {"start", "status"} => ~lineReq'[x].calm)
    BY <1>4, UneasyAlike DEF LineTyped, ReqsTyped
  <2> QED BY <1>2, <2>1, ReadyFrame
<1>5. CASE UNCHANGED lineOnly
  <2>1. CASE \E p \in Props : Line!Gone(p)
    BY <1>4, <2>1 DEF Line!Gone
  <2>2. CASE ~ \E p \in Props : Line!Gone(p)
    <3>1. Line!Real' = Line!Real
      BY <1>1, <2>2, RealKept DEF ReadyInv
    <3>2. Settled /\ \A x \in Reqs : Alike(lineReq[x], lineReq'[x])
      BY <1>2, <1>5, <3>1 DEF Settled, lineOnly, Alike
    <3> QED BY <1>2, <3>2, ReadyFrame
  <2> QED BY <2>1, <2>2
<1> QED BY <1>3, <1>4, <1>5 DEF LineEvents, Line!Network, Line!Gone

\* readiness, when settings are saved
LEMMA ReadySettings == ASSUME LineTyped, ReadyInv, Line!Settings, prop' = prop PROVE ReadyInv'
<1>1. UNCHANGED <<lineReq, bought, row, agent, tunnel>>
  BY DEF Line!Settings, Line!SaveBegin, Line!SaveField, Line!SaveFails, Line!SaveEnds, Line!Expire, Line!account,
         Line!network, Line!budget
<1>2. Settled /\ \A x \in Reqs : Alike(lineReq[x], lineReq'[x])
  BY <1>1, RowsKept DEF Settled, Alike, ReadyInv
<1> QED BY <1>2, ReadyFrame DEF Settled

Early(q) == q.pc \notin {"wait", "health", "list", "each", "done"}

\* readiness, at a step of an assignment, a release or a call
LEMMA ReadyRequests == ASSUME LineTyped, ListTyped, ReadyInv, NEW r \in Reqs, Line!Resolve(r) \/ LineBegins(r) \/ LineMoves(r), prop' = prop
  PROVE  ReadyInv'
<1> DEFINE q == lineReq[r]
<1>1. q \in LineReqs /\ Staged(q)
  BY DEF LineTyped, ReqsTyped, ReqOK
<1>2. CASE Line!Resolve(r)
  <2>1. UNCHANGED <<bought, row, agent, tunnel>> /\ q.pc \in {"conf", "fill"}
    BY <1>2 DEF Line!Resolve, Line!ResolveCached, Line!ResolveRead, Line!ResolveFill, Line!account, Line!network
  <2>2. \A v : Early(Line!Got(q, v))
    BY <1>1, <2>1 DEF Early, Line!Got, Line!Next1, LineReqs, Staged
  <2>3. Early([q EXCEPT !.pc = "fill", !.read = Line!Effective(Head(q.need))])
    BY <1>1 DEF Early, LineReqs
  <2>4. PICK new : Early(new) /\ Line!Go(r, new)
    BY <1>2, <2>2, <2>3 DEF Line!Resolve, Line!ResolveCached, Line!ResolveRead, Line!ResolveFill
  <2> QED BY <2>1, <2>4, RowsKept, ReadyGo, CheckedEarly DEF Early, ReadyInv
<1>3. CASE LineBegins(r)
  <2>1. UNCHANGED <<bought, row, agent, tunnel>>
    BY <1>3 DEF LineBegins, Line!Begin, Line!Refused, Line!Look, Line!LookGiven, Line!Passed, Line!Place, Line!account, Line!network
  <2>2. PICK new : Early(new) /\ Line!Go(r, new)
    <3>1. CASE Line!Begin(r)
      BY <3>1 DEF Line!Begin, Line!Idle, Early
    <3>2. CASE Line!Refused(r) \/ Line!Place(r)
      BY <3>2 DEF Line!Refused, Line!Place, Line!Idle, Early
    <3>3. CASE Line!Look(r) \/ Line!LookGiven(r)
      BY <1>1, <3>3 DEF Line!Look, Line!LookGiven, LineReqs, Early
    <3> QED BY <1>3, <3>1, <3>2, <3>3 DEF LineBegins
  <2> QED BY <2>1, <2>2, RowsKept, ReadyGo, CheckedEarly DEF Early, ReadyInv
<1>4. CASE Line!Buy(r)
  <2>1. UNCHANGED <<row, agent, tunnel>> /\ NewRows' /\ Line!Real' = Line!Real
    BY <1>4, RowsKept DEF Line!Buy, Line!network, ReadyInv
  <2>2. PICK new : Early(new) /\ ((Line!Go(r, new) /\ bought' = bought) \/ lineReq' = Line!Stirred(r, new))
    BY <1>1, <1>4 DEF Line!Buy, Line!Idle, LineReqs, Early
  <2> QED BY <2>1, <2>2, ReadyGo, CheckedEarly DEF Early
<1>5. CASE Line!Remove(r)
  <2>1. row' = row /\ NewRows'
    BY <1>5, RowsKept DEF Line!Remove, ReadyInv
  <2>2. PICK new : Early(new) /\ lineReq' = Line!Stirred(r, new)
    BY <1>1, <1>5 DEF Line!Remove, LineReqs, Early
  <2> QED BY <2>1, <2>2, ReadyGo, CheckedEarly DEF Early
<1>6. CASE Line!Write(r) \/ Line!Clear(r)
  <2>1. row' = row \/ (q.p \in Live /\ \E new : row' = [row EXCEPT ![q.p] = new])
    <3>1. q.p \in Props
      BY <1>1, <1>6 DEF Line!Write, Line!Clear, Staged
    <3> QED BY <1>6, <3>1 DEF Line!Write, Line!Clear
  <2>2. NewRows'
    BY <2>1 DEF NewRows, ReadyInv, Live, LineTyped, StoreTyped
  <2>3. Early(Line!Idle) /\ lineReq' = Line!Stirred(r, Line!Idle)
    BY <1>6 DEF Line!Write, Line!Clear, Line!Idle, Early
  <2>4. PICK new : new = Line!Idle
    OBVIOUS
  <2>5. Early(new) /\ lineReq' = Line!Stirred(r, new)
    BY <2>3, <2>4
  <2> QED BY <2>2, <2>5, ReadyGo, CheckedEarly DEF Early
<1> QED BY <1>2, <1>3, <1>4, <1>5, <1>6 DEF LineMoves

\* readiness, at a step of a start or a check
LEMMA ReadySystem == ASSUME LineTyped, ReadyInv, NEW r \in Reqs, Line!SystemStep(r), prop' = prop PROVE ReadyInv'
<1> DEFINE q == lineReq[r]
           Still == agent' = agent /\ tunnel' = tunnel /\ bought' = bought
<1>1. q \in LineReqs /\ Staged(q) /\ Checked(q)
  BY DEF LineTyped, ReqsTyped, ReqOK, ReadyInv
<1>2. row' = row /\ Line!Real' = Line!Real /\ NewRows'
  BY RowsKept DEF ReadyInv, Line!SystemStep, Line!EnsureTunnel, Line!WaitTunnel, Line!ReadTunnel, Line!Health, Line!ListNumbers,
         Line!EachNumber, Line!EachDone, Line!Answer, Line!account
<1>3. ASSUME NEW new, Checked(new)', (Line!Go(r, new) /\ Still) \/ lineReq' = Line!Stirred(r, new) PROVE ReadyInv'
  BY <1>2, <1>3, ReadyGo
<1>0. PICK fail : fail = [q EXCEPT !.pc = "done", !.ok = FALSE]
  OBVIOUS
<1>4. Checked(fail)' /\ (Line!Fail(r) => Line!Go(r, fail))
  <2>1. fail.pc = "done" /\ fail.ok = FALSE
    BY <1>0, <1>1 DEF LineReqs
  <2> QED BY <1>0, <2>1 DEF Checked, Line!Fail
<1>5. PICK u : u = q.got["url"] /\ u \in Line!Value
  BY <1>1 DEF LineReqs, Line!Field
<1>6. Line!Url(r) = u /\ Line!Found(r) = IF agent THEN tunnel[u] ELSE "none"
  BY <1>5 DEF Line!Url, Line!Found
<1>7. tunnel \in [Line!Value -> {"none", "right", "wrong"}]
  BY DEF LineTyped, StoreTyped
<1>8. ASSUME NEW to \in {"health", "list"}, NEW ok \in BOOLEAN, ok /\ q.calm => agent' /\ tunnel'[u] = "right",
             NEW new, new = [q EXCEPT !.pc = to, !.ok = ok]
      PROVE  Checked(new)'
  <2>1. new.pc = to /\ new.ok = ok /\ new.calm = q.calm /\ new.got["url"] = u
    BY <1>1, <1>5, <1>8 DEF LineReqs
  <2> QED BY <1>8, <2>1 DEF Checked
<1>9. CASE Line!EnsureTunnel(r)
  <2>1. q.pc = "tunnel" /\ bought' = bought
    BY <1>9 DEF Line!EnsureTunnel, Line!account
  <2>2. ASSUME agent' /\ tunnel'[u] = "right", NEW new, new = [q EXCEPT !.pc = "health"] PROVE Checked(new)'
    <3>1. new.pc = "health" /\ new.got["url"] = u
      BY <1>1, <1>5, <2>2 DEF LineReqs
    <3> QED BY <2>2, <3>1 DEF Checked
  <2>3. ASSUME ~agent' \/ tunnel'[u] = "right", NEW new, new = [q EXCEPT !.pc = "wait"] PROVE Checked(new)'
    <3>1. new.pc = "wait" /\ new.got["url"] = u
      BY <1>1, <1>5, <2>3 DEF LineReqs
    <3> QED BY <2>3, <3>1 DEF Checked
  <2>4. CASE Line!Fail(r) /\ UNCHANGED Line!network
    BY <1>3, <1>4, <2>1, <2>4 DEF Line!network
  <2>5. CASE agent /\ Line!PortMatches(Line!Found(r)) /\ Line!Go(r, [q EXCEPT !.pc = "health"]) /\ UNCHANGED Line!network
    <3>1. agent' /\ tunnel'[u] = "right" /\ Still
      BY <1>6, <2>1, <2>5 DEF Line!PortMatches, Line!network
    <3> QED BY <1>3, <2>2, <2>5, <3>1
  <2>6. CASE /\ agent /\ agent' = agent /\ tunnel' = [tunnel EXCEPT ![u] = "right"]
             /\ lineReq' = Line!Stirred(r, [q EXCEPT !.pc = "health"])
    <3>1. agent' /\ tunnel'[u] = "right"
      BY <1>5, <1>7, <2>6
    <3> QED BY <1>3, <2>2, <2>6, <3>1
  <2>7. CASE lineReq' = Line!Stirred(r, fail)
    BY <1>3, <1>4, <2>7
  <2>8. CASE ~agent /\ Line!Go(r, [q EXCEPT !.pc = "wait"]) /\ UNCHANGED Line!network
    BY <1>3, <2>1, <2>3, <2>8 DEF Line!network
  <2>9. CASE /\ tunnel' = [v \in Line!Value |-> IF v = u THEN "right" ELSE "none"]
             /\ lineReq' = Line!Stirred(r, [q EXCEPT !.pc = "wait"])
    BY <1>3, <1>5, <2>3, <2>9
  <2> QED BY <1>0, <1>6, <1>9, <2>4, <2>5, <2>6, <2>7, <2>8, <2>9 DEF Line!EnsureTunnel
<1>10. CASE Line!WaitTunnel(r)
  <2>1. q.pc = "wait" /\ Still /\ (Line!Found(r) # "none" \/ Line!Fail(r))
    BY <1>10 DEF Line!WaitTunnel, Line!account, Line!network
  <2>2. CASE Line!Fail(r)
    BY <1>3, <1>4, <2>1, <2>2
  <2>3. CASE Line!Found(r) # "none"
    <3>1. PICK new : new = [q EXCEPT !.pc = "health"]
      OBVIOUS
    <3>2. Line!Go(r, new)
      BY <1>10, <2>3, <3>1 DEF Line!WaitTunnel
    <3>3. q.calm => agent' /\ tunnel'[u] = "right"
      BY <1>1, <1>5, <1>6, <2>1, <2>3 DEF Checked
    <3>4. new.pc = "health" /\ new.calm = q.calm /\ new.got["url"] = u
      BY <1>1, <1>5, <3>1 DEF LineReqs
    <3>5. Checked(new)'
      BY <3>3, <3>4 DEF Checked
    <3> QED BY <1>3, <2>1, <3>2, <3>5
  <2> QED BY <2>1, <2>2, <2>3
<1>11. CASE Line!ReadTunnel(r)
  <2>1. Still
    BY <1>11 DEF Line!ReadTunnel, Line!account, Line!network
  <2>2. PICK ok, to : /\ ok = (Line!Signed(q.got) /\ Line!Url(r) # 0 /\ Line!PortMatches(Line!Found(r)))
                      /\ to = IF Line!Url(r) # 0 /\ Line!Found(r) # "none" THEN "health" ELSE "list"
    OBVIOUS
  <2>3. PICK new : new = [q EXCEPT !.pc = to, !.ok = ok]
    OBVIOUS
  <2>4. Line!Go(r, new)
    BY <1>11, <2>2, <2>3 DEF Line!ReadTunnel
  <2>5. ok \in BOOLEAN /\ to \in {"health", "list"} /\ (ok => agent' /\ tunnel'[u] = "right")
    BY <1>6, <2>1, <2>2 DEF Line!Signed, Line!PortMatches
  <2> QED BY <1>3, <1>8, <2>1, <2>3, <2>4, <2>5
<1>12. CASE Line!Health(r)
  <2>1. Still /\ q.pc = "health"
    BY <1>12 DEF Line!Health, Line!account, Line!network
  <2>2. PICK up \in BOOLEAN :
          \/ q.op = "status" /\ Line!Go(r, [q EXCEPT !.pc = "list", !.ok = q.ok /\ up])
          \/ q.op = "start" /\ ~up /\ Line!Fail(r)
          \/ q.op = "start" /\ up /\ Line!Go(r, [q EXCEPT !.pc = "list"])
    BY <1>1, <1>12 DEF Line!Health, LineReqs
  <2>3. q.ok \in BOOLEAN /\ (q.calm /\ q.ok => agent' /\ tunnel'[u] = "right")
    BY <1>1, <1>5, <2>1 DEF Checked, LineReqs
  <2>4. [q EXCEPT !.pc = "list"] = [q EXCEPT !.pc = "list", !.ok = q.ok]
    BY <1>1 DEF LineReqs
  <2>5. PICK a, b : a = [q EXCEPT !.pc = "list", !.ok = q.ok /\ up] /\ b = [q EXCEPT !.pc = "list", !.ok = q.ok]
    OBVIOUS
  <2>6. Checked(a)'
    <3>1. (q.ok /\ up) \in BOOLEAN
      OBVIOUS
    <3> QED BY <1>8, <2>3, <2>5, <3>1
  <2>7. Checked(b)'
    BY <1>8, <2>3, <2>5
  <2> QED BY <1>3, <1>4, <2>1, <2>2, <2>4, <2>5, <2>6, <2>7
<1>13. CASE Line!ListNumbers(r)
  <2>1. Still /\ q.pc = "list"
    BY <1>13 DEF Line!ListNumbers, Line!account, Line!network
  <2>2. PICK new : new = [q EXCEPT !.pc = "each", !.todo = Line!Real, !.listed = Line!Real,
                                   !.ok = q.ok /\ (q.op = "start" \/ Line!Real # {})]
    OBVIOUS
  <2>3. Line!Go(r, new) \/ Line!Fail(r)
    BY <1>1, <1>13, <2>2 DEF Line!ListNumbers, LineReqs
  <2>4. new.pc = "each" /\ new.todo = Line!Real /\ new.listed = Line!Real /\ (new.ok => q.ok) /\ new.calm = q.calm /\ new.got = q.got
    BY <1>1, <2>2 DEF LineReqs
  <2>5. Checked(new)'
    <3>1. q.calm /\ q.ok => agent /\ tunnel[q.got["url"]] = "right"
      BY <1>1, <2>1 DEF Checked
    <3>2. new.listed = Line!Real' /\ new.listed \ new.todo = {}
      BY <1>2, <2>4
    <3> QED BY <2>1, <2>4, <3>1, <3>2 DEF Checked
  <2> QED BY <1>3, <1>4, <2>1, <2>3, <2>5
<1>14. CASE Line!EachNumber(r)
  <2>1. q.pc = "each" /\ agent' = agent /\ tunnel' = tunnel
    BY <1>14 DEF Line!EachNumber, Line!network
  <2>2. PICK s \in q.todo :
       \/ /\ q.op = "start" /\ Line!Owns(q.got, s)
          /\ bought' = [bought EXCEPT ![s] = [bought[s] EXCEPT !.hook = Line!Url(r)]]
          /\ lineReq' = Line!Stirred(r, [q EXCEPT !.todo = q.todo \ {s}])
       \/ /\ Line!Owns(q.got, s)
          /\ Line!Go(r, [q EXCEPT !.todo = q.todo \ {s}, !.ok = q.ok /\ bought[s].hook = Line!Url(r)])
          /\ UNCHANGED bought
       \/ /\ Line!Go(r, [q EXCEPT !.todo = q.todo \ {s}, !.ok = FALSE])
          /\ UNCHANGED bought
    BY <1>1, <1>14 DEF Line!EachNumber, LineReqs
  <2>3. q.calm /\ q.ok => /\ agent /\ tunnel[u] = "right" /\ q.listed = Line!Real
                          /\ \A x \in q.listed \ q.todo : bought[x].kept /\ bought[x].hook = u
    BY <1>1, <1>5, <2>1 DEF Checked
  <2>4. CASE /\ Line!Owns(q.got, s) /\ bought' = [bought EXCEPT ![s] = [bought[s] EXCEPT !.hook = Line!Url(r)]]
             /\ lineReq' = Line!Stirred(r, [q EXCEPT !.todo = q.todo \ {s}])
    <3>1. s \in 1..Len(bought) /\ bought[s].kept
      BY <2>4 DEF Line!Owns, Line!Live, Line!Bought
    <3>2. bought[s] \in Line!Purchase /\ bought \in Seq(Line!Purchase)
      BY <3>1, ElementOfSeq DEF LineTyped, StoreTyped
    <3>3. bought'[s] = [bought[s] EXCEPT !.hook = u] /\ \A x : x # s => bought'[x] = bought[x]
      BY <1>6, <2>4, <3>1, <3>2
    <3>4. bought'[s].kept /\ bought'[s].hook = u
      BY <1>5, <3>1, <3>2, <3>3 DEF Line!Purchase
    <3>5. PICK new : new = [q EXCEPT !.todo = q.todo \ {s}]
      OBVIOUS
    <3>6. new.pc = "each" /\ new.todo = q.todo \ {s} /\ new.listed = q.listed /\ new.ok = q.ok /\ new.calm = q.calm /\ new.got["url"] = u
      BY <1>1, <1>5, <2>1, <3>5 DEF LineReqs
    <3>7. Checked(new)'
      <4>1. ASSUME q.calm /\ q.ok, NEW x \in new.listed \ new.todo PROVE bought'[x].kept /\ bought'[x].hook = u
        <5>1. CASE x = s
          BY <3>4, <5>1
        <5>2. CASE x # s
          <6>1. x \in q.listed \ q.todo
            BY <3>6, <5>2
          <6> QED BY <2>3, <3>3, <4>1, <5>2, <6>1
        <5> QED BY <5>1, <5>2
      <4>2. q.calm /\ q.ok => agent' /\ tunnel'[u] = "right" /\ new.listed = Line!Real'
        BY <1>2, <2>1, <2>3, <3>6
      <4> QED BY <3>6, <4>1, <4>2 DEF Checked
    <3> QED BY <1>3, <2>4, <3>5, <3>7
  <2>5. CASE /\ Line!Owns(q.got, s) /\ UNCHANGED bought
             /\ Line!Go(r, [q EXCEPT !.todo = q.todo \ {s}, !.ok = q.ok /\ bought[s].hook = Line!Url(r)])
    <3>1. bought[s].kept
      BY <2>5 DEF Line!Owns, Line!Live
    <3>2. PICK new : new = [q EXCEPT !.todo = q.todo \ {s}, !.ok = q.ok /\ bought[s].hook = u]
      OBVIOUS
    <3>3. /\ new.pc = "each" /\ new.todo = q.todo \ {s} /\ new.listed = q.listed /\ new.calm = q.calm /\ new.got["url"] = u
          /\ new.ok => q.ok /\ bought[s].hook = u
      BY <1>1, <1>5, <2>1, <3>2 DEF LineReqs
    <3>4. Checked(new)'
      BY <1>2, <2>1, <2>3, <2>5, <3>1, <3>3 DEF Checked
    <3> QED BY <1>3, <1>6, <2>1, <2>5, <3>2, <3>4
  <2>6. CASE Line!Go(r, [q EXCEPT !.todo = q.todo \ {s}, !.ok = FALSE]) /\ UNCHANGED bought
    <3>1. PICK new : new = [q EXCEPT !.todo = q.todo \ {s}, !.ok = FALSE]
      OBVIOUS
    <3>2. new.ok = FALSE /\ new.pc = "each"
      BY <1>1, <2>1, <3>1 DEF LineReqs
    <3>3. Checked(new)'
      BY <3>2 DEF Checked
    <3> QED BY <1>3, <2>1, <2>6, <3>1, <3>3
  <2> QED BY <2>2, <2>4, <2>5, <2>6
<1>15. CASE Line!EachDone(r)
  <2>1. Still /\ q.pc = "each" /\ q.todo = {}
    BY <1>15 DEF Line!EachDone, Line!account, Line!network
  <2>2. PICK new : new = [q EXCEPT !.pc = "done"] /\ Line!Go(r, new)
    BY <1>15 DEF Line!EachDone
  <2>3. /\ new.pc = "done" /\ new.todo = q.todo /\ new.listed = q.listed /\ new.ok = q.ok /\ new.calm = q.calm
        /\ new.got["url"] = u
    BY <1>1, <1>5, <2>2 DEF LineReqs
  <2>4. Checked(new)'
    BY <1>1, <1>2, <1>5, <2>1, <2>3 DEF Checked
  <2> QED BY <1>3, <2>1, <2>2, <2>4
<1>16. CASE Line!Answer(r)
  <2>1. Still
    BY <1>16 DEF Line!Answer, Line!account, Line!network
  <2>2. PICK new : new = Line!Idle /\ Line!Go(r, new) /\ new.pc = "idle"
    BY <1>16 DEF Line!Answer, Line!Idle
  <2> QED BY <1>3, <2>1, <2>2, CheckedEarly
<1> QED BY <1>9, <1>10, <1>11, <1>12, <1>13, <1>14, <1>15, <1>16 DEF Line!SystemStep

\* readiness, at every step of the desk
LEMMA ReadyStep == ASSUME LineTyped, ListTyped, ReadyInv, DeskNext \/ UNCHANGED <<listVars, lineOnly>> PROVE ReadyInv'
<1>1. CASE ListStep \/ UNCHANGED <<listVars, lineOnly>>
  <2>1. LineEvents /\ ((\E p \in Props : Deleted(p)) => \E p \in Props : Line!Gone(p))
    BY <1>1 DEF ListStep, LineEvents, listVars, store, Deleted
  <2> QED BY <2>1, ReadyEvents
<1>2. CASE LineStep
  <2>1. prop' = prop
    BY <1>2, LineLeaves
  <2>2. CASE Line!Settings
    BY <2>1, <2>2, ReadySettings
  <2>3. CASE \E r \in Reqs : Line!Resolve(r) \/ Line!NumberStep(r) \/ Line!SystemStep(r)
    BY <2>1, <2>3, ReadyRequests, ReadySystem DEF Line!NumberStep, LineBegins, LineMoves
  <2>4. CASE Line!Restart \/ Line!Network
    <3>1. \A p \in Props : ~Deleted(p)
      BY <2>1 DEF Deleted
    <3> QED BY <2>4, <3>1, ReadyEvents DEF LineEvents
  <2> QED BY <1>2, <2>2, <2>3, <2>4 DEF LineStep, Line!Next
<1> QED BY <1>1, <1>2 DEF DeskNext

\* A phone system called ready is ready: if no number and no tunnel changed while the request
\* looked, the tunnel leads to the server and every number's webhooks to the tunnel.
THEOREM ReadyMeansReachable == DeskSpec => []ReadyReaches
<1>1. DeskInit => LineTyped /\ ReadyInv
  <2>1. ASSUME DeskInit PROVE LineTyped /\ ReadyInv
    <3>1. \A r \in Reqs : lineReq[r].pc = "idle"
      BY <2>1 DEF DeskInit, Line!Init, Line!Idle
    <3>2. NewRows
      BY <2>1 DEF DeskInit, Line!Init, NewRows
    <3> QED BY <2>1, <3>1, <3>2, LineTypedInit DEF DeskInit, ReadyInv, Checked
  <2> QED BY <2>1
<1>2. ListInv /\ LineTyped /\ ReadyInv /\ [DeskNext]_<<listVars, lineOnly>> => (LineTyped /\ ReadyInv)'
  BY LineTypedStep, ReadyStep DEF ListInv
<1>3. LineTyped /\ ReadyInv => ReadyReaches
  BY DEF ReadyInv, Checked, ReadyReaches, Line!ReadyReaches, Line!Url
<1> QED BY <1>1, <1>2, <1>3, DeskIsKept, PTL DEF DeskSpec

-----------------------------------------------------------------------------
(* Who owns a number                                                       *)

\* a purchase that a request is about to write is its own; what a row has is no other row's, and
\* a request that read it is about that row
Writing(q) == q.pc = "write" /\ q.sid \in Line!Ids
OwnRows ==
  /\ \A p \in Props : row[p].phone = Line!NoNum => row[p].sid = Line!NoSid
  /\ \A p, o \in Props : row[p].sid = row[o].sid /\ row[p].sid \in Line!Ids => p = o
OwnReq(r) == lineReq[r].sid \in Line!Ids =>
  /\ lineReq[r].pc # "look" /\ (lineReq[r].op = "assign" => lineReq[r].pc = "write")
  /\ ~Writing(lineReq[r]) => \A p \in Props : row[p].sid = lineReq[r].sid => p = lineReq[r].p
  /\ Writing(lineReq[r]) =>
       /\ bought[lineReq[r].sid].kept
       /\ \A p \in Props : row[p].sid # lineReq[r].sid
       /\ \A x \in Reqs \ {r} : lineReq[x].sid # lineReq[r].sid
OwnInv == OwnRows /\ \A r \in Reqs : OwnReq(r)

\* a request goes on with the purchase it knows, or with none
Carries(q, new) ==
  \/ new.sid \notin Line!Ids
  \/ /\ new.sid = q.sid /\ new.op = q.op /\ new.p = q.p
     /\ (new.pc = "write") = (q.pc = "write") /\ new.pc # "look"
     /\ (q.op = "assign" => q.pc = "write")

\* a row is left alone or has no purchase any more
RowsFade == \A p \in Props : \/ row'[p] = row[p]
                             \/ row'[p].sid \notin Line!Ids /\ (row'[p].phone = Line!NoNum => row'[p].sid = Line!NoSid)

\* who owns a number: what a step must keep
LEMMA OwnFrame ==
  ASSUME OwnInv, RowsFade,
         \A r \in Reqs : Carries(lineReq[r], lineReq'[r]),
         \A r \in Reqs : Writing(lineReq[r]) /\ bought[lineReq[r].sid].kept => bought'[lineReq[r].sid].kept
  PROVE  OwnInv'
<1>1. OwnRows'
  BY DEF OwnInv, OwnRows, RowsFade
<1>2. ASSUME NEW r \in Reqs PROVE OwnReq(r)'
  <2> SUFFICES ASSUME lineReq'[r].sid \in Line!Ids PROVE OwnReq(r)'
    BY DEF OwnReq
  <2>1. PICK s : s = lineReq[r].sid
    OBVIOUS
  <2>2. /\ s \in Line!Ids /\ lineReq'[r].sid = s /\ lineReq'[r].op = lineReq[r].op /\ lineReq'[r].p = lineReq[r].p
        /\ (lineReq'[r].pc = "write") = (lineReq[r].pc = "write") /\ lineReq'[r].pc # "look"
    BY <2>1 DEF Carries
  <2>3. \A p \in Props : row'[p].sid = s => row[p].sid = s
    BY <2>2 DEF RowsFade
  <2>4. \A x \in Reqs : lineReq'[x].sid = s => lineReq[x].sid = s
    BY <2>2 DEF Carries
  <2>5. OwnReq(r)
    BY DEF OwnInv
  <2>6. CASE Writing(lineReq[r])
    <3>1. bought[s].kept /\ (\A p \in Props : row[p].sid # s) /\ \A x \in Reqs \ {r} : lineReq[x].sid # s
      BY <2>1, <2>2, <2>5, <2>6 DEF OwnReq
    <3>2. bought'[s].kept
      BY <2>1, <2>6, <3>1
    <3> QED BY <2>2, <2>3, <2>4, <2>6, <3>1, <3>2 DEF OwnReq, Writing
  <2>7. CASE ~Writing(lineReq[r])
    <3>1. lineReq[r].pc # "write"
      BY <2>1, <2>2, <2>7 DEF Writing
    <3>2. (\A p \in Props : row[p].sid = s => p = lineReq[r].p) /\ lineReq[r].op # "assign"
      BY <2>1, <2>2, <2>5, <2>7, <3>1 DEF OwnReq
    <3> QED BY <2>2, <2>3, <3>1, <3>2 DEF OwnReq, Writing
  <2> QED BY <2>6, <2>7
<1> QED BY <1>1, <1>2 DEF OwnInv

\* a request told of a change carries what it carried
LEMMA CarriesAlike == ASSUME OwnInv, NEW r \in Reqs, NEW new, Alike(lineReq[r], new) PROVE Carries(lineReq[r], new)
BY DEF Alike, Carries, OwnInv, OwnReq

\* every request but r is left alone, or told
LEMMA OthersAlike ==
  ASSUME LineTyped, NEW r \in Reqs, NEW new, Line!Go(r, new) \/ lineReq' = Line!Stirred(r, new)
  PROVE  lineReq'[r] = new /\ \A x \in Reqs \ {r} : Alike(lineReq[x], lineReq'[x])
BY GoLeaves, StirLeaves DEF LineTyped

\* who owns a number: one request goes on, the others are left or told
LEMMA OwnGo ==
  ASSUME LineTyped, OwnInv, RowsFade, NEW r \in Reqs, NEW new, Carries(lineReq[r], new),
         Line!Go(r, new) \/ lineReq' = Line!Stirred(r, new),
         \A x \in Reqs : Writing(lineReq[x]) /\ bought[lineReq[x].sid].kept => bought'[lineReq[x].sid].kept
  PROVE  OwnInv'
BY OthersAlike, CarriesAlike, OwnFrame

\* who owns a number, at an event from outside
LEMMA OwnEvents == ASSUME LineTyped, OwnInv, LineEvents PROVE OwnInv'
<1>1. RowsFade /\ bought' = bought
  BY DEF RowsFade, LineEvents, Line!Restart, Line!Network, Line!Gone, lineOnly, Line!account
<1>2. \A x \in Reqs : lineReq'[x] = lineReq[x] \/ lineReq'[x] = Line!Uneasy(lineReq[x]) \/ lineReq'[x] = Line!Idle
  BY DEF LineEvents, Line!Restart, Line!Network, Line!Gone, lineOnly
<1>3. ASSUME NEW x \in Reqs PROVE Carries(lineReq[x], lineReq'[x])
  <2>1. CASE lineReq'[x] = Line!Idle
    BY <2>1, NotBought DEF Carries, Line!Idle
  <2>2. CASE lineReq'[x] # Line!Idle
    <3>1. Alike(lineReq[x], lineReq'[x])
      BY <1>2, <2>2, UneasyAlike DEF LineTyped, ReqsTyped, Alike
    <3> QED BY <3>1, CarriesAlike
  <2> QED BY <2>1, <2>2
<1> QED BY <1>1, <1>3, OwnFrame

\* who owns a number, when settings are saved
LEMMA OwnSettings == ASSUME LineTyped, OwnInv, Line!Settings PROVE OwnInv'
<1>1. UNCHANGED <<lineReq, bought, row>>
  BY DEF Line!Settings, Line!SaveBegin, Line!SaveField, Line!SaveFails, Line!SaveEnds, Line!Expire, Line!account, Line!budget
<1>2. RowsFade /\ \A x \in Reqs : Carries(lineReq[x], lineReq'[x])
  BY <1>1, CarriesAlike DEF RowsFade, Alike
<1> QED BY <1>1, <1>2, OwnFrame

\* who owns a number, when a setting is read
LEMMA OwnResolve == ASSUME LineTyped, OwnInv, NEW r \in Reqs, Line!Resolve(r) PROVE OwnInv'
<1> DEFINE q == lineReq[r]
<1>1. q \in LineReqs /\ Staged(q) /\ OwnReq(r)
  BY DEF LineTyped, ReqsTyped, ReqOK, OwnInv
<1>2. UNCHANGED <<bought, row>> /\ q.pc \in {"conf", "fill"}
  BY DEF Line!Resolve, Line!ResolveCached, Line!ResolveRead, Line!ResolveFill, Line!account
<1>3. ASSUME NEW v PROVE Carries(q, Line!Got(q, v))
  BY <1>1, <1>2 DEF Carries, Line!Got, Line!Next1, LineReqs, Staged, OwnReq
<1>4. Carries(q, [q EXCEPT !.pc = "fill", !.read = Line!Effective(Head(q.need))])
  BY <1>1, <1>2 DEF Carries, LineReqs, OwnReq
<1>5. PICK new : Carries(q, new) /\ Line!Go(r, new)
  BY <1>3, <1>4 DEF Line!Resolve, Line!ResolveCached, Line!ResolveRead, Line!ResolveFill
<1> QED BY <1>2, <1>5, OwnGo DEF RowsFade

\* a start or a check goes on, in its later stages, or ends
Stays(q, new) ==
  \/ new = Line!Idle
  \/ /\ new.op = q.op /\ new.sid = q.sid /\ new.p = q.p
     /\ new.pc \in {"wait", "health", "list", "each", "done"}

\* a step of a start or a check changes neither its kind nor what it carries
LEMMA SystemStays ==
  ASSUME LineTyped, NEW r \in Reqs, Line!SystemStep(r)
  PROVE  \E new : Stays(lineReq[r], new) /\ (Line!Go(r, new) \/ lineReq' = Line!Stirred(r, new))
<1> DEFINE q == lineReq[r]
<1>1. q \in LineReqs
  BY DEF LineTyped, ReqsTyped, ReqOK
<1>2. ASSUME NEW at \in {"wait", "health", "list", "each", "done"}, NEW new, new = [q EXCEPT !.pc = at] PROVE Stays(q, new)
  BY <1>1, <1>2 DEF Stays, LineReqs
<1>3. ASSUME NEW at \in {"wait", "health", "list", "each", "done"}, NEW ok, NEW new, new = [q EXCEPT !.pc = at, !.ok = ok]
      PROVE  Stays(q, new)
  BY <1>1, <1>3 DEF Stays, LineReqs
<1>4. PICK f, h, w, l, d : /\ f = [q EXCEPT !.pc = "done", !.ok = FALSE] /\ h = [q EXCEPT !.pc = "health"]
                           /\ w = [q EXCEPT !.pc = "wait"] /\ l = [q EXCEPT !.pc = "list"] /\ d = [q EXCEPT !.pc = "done"]
  OBVIOUS
<1>5. Stays(q, f) /\ Stays(q, h) /\ Stays(q, w) /\ Stays(q, l) /\ Stays(q, d)
  BY <1>2, <1>3, <1>4
<1>6. CASE Line!EnsureTunnel(r)
  <2>1. \E new \in {f, h, w} : Line!Go(r, new) \/ lineReq' = Line!Stirred(r, new)
    BY <1>4, <1>6 DEF Line!EnsureTunnel, Line!Fail
  <2> QED BY <1>5, <2>1
<1>7. CASE Line!WaitTunnel(r)
  <2>1. \E new \in {f, h} : Line!Go(r, new)
    BY <1>4, <1>7 DEF Line!WaitTunnel, Line!Fail
  <2> QED BY <1>5, <2>1
<1>8. CASE Line!ReadTunnel(r)
  <2>1. PICK ok, to : /\ ok = (Line!Signed(q.got) /\ Line!Url(r) # 0 /\ Line!PortMatches(Line!Found(r)))
                      /\ to = IF Line!Url(r) # 0 /\ Line!Found(r) # "none" THEN "health" ELSE "list"
    OBVIOUS
  <2>2. PICK new : new = [q EXCEPT !.pc = to, !.ok = ok]
    OBVIOUS
  <2>3. Line!Go(r, new)
    BY <1>8, <2>1, <2>2 DEF Line!ReadTunnel
  <2>4. to \in {"health", "list"}
    BY <2>1
  <2> QED BY <1>3, <2>2, <2>3, <2>4
<1>9. CASE Line!Health(r)
  <2>1. PICK up \in BOOLEAN : \/ Line!Go(r, [q EXCEPT !.pc = "list", !.ok = q.ok /\ up])
                             \/ Line!Fail(r) \/ Line!Go(r, [q EXCEPT !.pc = "list"])
    BY <1>1, <1>9 DEF Line!Health, LineReqs
  <2>2. PICK new : new = [q EXCEPT !.pc = "list", !.ok = q.ok /\ up]
    OBVIOUS
  <2>3. Stays(q, new)
    BY <1>3, <2>2
  <2>4. Line!Go(r, new) \/ Line!Go(r, f) \/ Line!Go(r, l)
    BY <1>4, <2>1, <2>2 DEF Line!Fail
  <2> QED BY <1>5, <2>3, <2>4
<1>10. CASE Line!ListNumbers(r)
  <2>1. PICK new : new = [q EXCEPT !.pc = "each", !.todo = Line!Real, !.listed = Line!Real,
                                   !.ok = q.ok /\ (q.op = "start" \/ Line!Real # {})]
    OBVIOUS
  <2>2. Line!Go(r, new) \/ Line!Go(r, f)
    BY <1>1, <1>4, <1>10, <2>1 DEF Line!ListNumbers, LineReqs, Line!Fail
  <2>3. Stays(q, new)
    BY <1>1, <2>1 DEF LineReqs, Stays
  <2> QED BY <1>5, <2>2, <2>3
<1>11. CASE Line!EachNumber(r)
  <2>1. PICK s : /\ q.pc = "each"
                 /\ \/ lineReq' = Line!Stirred(r, [q EXCEPT !.todo = q.todo \ {s}])
                    \/ Line!Go(r, [q EXCEPT !.todo = q.todo \ {s}, !.ok = q.ok /\ bought[s].hook = Line!Url(r)])
                    \/ Line!Go(r, [q EXCEPT !.todo = q.todo \ {s}, !.ok = FALSE])
    BY <1>1, <1>11 DEF Line!EachNumber, LineReqs
  <2>2. PICK a, b, c : /\ a = [q EXCEPT !.todo = q.todo \ {s}]
                       /\ b = [q EXCEPT !.todo = q.todo \ {s}, !.ok = q.ok /\ bought[s].hook = Line!Url(r)]
                       /\ c = [q EXCEPT !.todo = q.todo \ {s}, !.ok = FALSE]
    OBVIOUS
  <2>3. Stays(q, a)
    BY <1>1, <2>1, <2>2 DEF LineReqs, Stays
  <2>4. Stays(q, b)
    BY <1>1, <2>1, <2>2 DEF LineReqs, Stays
  <2>5. Stays(q, c)
    BY <1>1, <2>1, <2>2 DEF LineReqs, Stays
  <2>6. lineReq' = Line!Stirred(r, a) \/ Line!Go(r, b) \/ Line!Go(r, c)
    BY <2>1, <2>2
  <2> QED BY <2>3, <2>4, <2>5, <2>6
<1>12. CASE Line!EachDone(r) \/ Line!Answer(r)
  <2>1. Line!Go(r, d) \/ Line!Go(r, Line!Idle)
    BY <1>4, <1>12 DEF Line!EachDone, Line!Answer
  <2> QED BY <1>5, <2>1 DEF Stays
<1> QED BY <1>6, <1>7, <1>8, <1>9, <1>10, <1>11, <1>12 DEF Line!SystemStep

\* who owns a number, at a step of a start or a check
LEMMA OwnSystem == ASSUME LineTyped, OwnInv, NEW r \in Reqs, Line!SystemStep(r) PROVE OwnInv'
<1> DEFINE q == lineReq[r]
<1>1. q \in LineReqs /\ Staged(q) /\ OwnReq(r) /\ row' = row /\ q.pc \in {"tunnel", "wait", "health", "list", "each", "done"}
  BY DEF LineTyped, ReqsTyped, ReqOK, OwnInv, Line!SystemStep, Line!EnsureTunnel, Line!WaitTunnel, Line!ReadTunnel,
         Line!Health, Line!ListNumbers, Line!EachNumber, Line!EachDone, Line!Answer, Line!account
<1>2. PICK new : Stays(q, new) /\ (Line!Go(r, new) \/ lineReq' = Line!Stirred(r, new))
  BY SystemStays
<1>3. Carries(q, new)
  BY <1>1, <1>2, NotBought DEF Carries, Line!Idle, Staged, Stays
<1>4. \A s : bought[s].kept => bought'[s].kept
  <2>1. CASE bought' = bought
    BY <2>1
  <2>2. CASE bought' # bought
    <3>1. PICK s : Line!Owns(q.got, s) /\ bought' = [bought EXCEPT ![s] = [bought[s] EXCEPT !.hook = Line!Url(r)]]
      BY <2>2 DEF Line!SystemStep, Line!EnsureTunnel, Line!WaitTunnel, Line!ReadTunnel, Line!Health, Line!ListNumbers,
                  Line!EachNumber, Line!EachDone, Line!Answer, Line!account
    <3>2. s \in 1..Len(bought) /\ bought \in Seq(Line!Purchase)
      BY <3>1 DEF Line!Owns, Line!Live, Line!Bought, LineTyped, StoreTyped
    <3>3. bought[s] \in Line!Purchase
      BY <3>2, ElementOfSeq
    <3>4. bought'[s] = [bought[s] EXCEPT !.hook = Line!Url(r)] /\ \A x : x # s => bought'[x] = bought[x]
      BY <3>1, <3>2
    <3>5. bought'[s].kept = bought[s].kept
      BY <3>3, <3>4 DEF Line!Purchase
    <3> QED BY <3>4, <3>5
  <2> QED BY <2>1, <2>2
<1> QED BY <1>1, <1>2, <1>3, <1>4, OwnGo DEF RowsFade

\* a request begins without a number, before its look
LEMMA BeginsNew ==
  ASSUME NEW r \in Reqs, Line!Begin(r)
  PROVE  \E new : Line!Go(r, new) /\ new.sid \notin Line!Ids /\ (new.op \notin {"assign", "release"} \/ new.pc = "look")
<1>1. PICK op :
        \/ op \in {"start", "status"} /\ Line!Go(r, [Line!Idle EXCEPT !.op = op, !.pc = "conf", !.need = <<"sid", "token", "url">>])
        \/ \E p \in Props, n \in Nums \cup {Line!NoNum} : Line!Go(r, [Line!Idle EXCEPT !.op = op, !.pc = "look", !.p = p, !.n = n])
  BY DEF Line!Begin
<1>2. CASE op \in {"start", "status"} /\ Line!Go(r, [Line!Idle EXCEPT !.op = op, !.pc = "conf", !.need = <<"sid", "token", "url">>])
  <2>1. PICK new : new = [Line!Idle EXCEPT !.op = op, !.pc = "conf", !.need = <<"sid", "token", "url">>]
    OBVIOUS
  <2>2. new.op = op /\ new.sid = Line!NoSid
    BY <2>1 DEF Line!Idle
  <2> QED BY <1>2, <2>1, <2>2, NotBought
<1>3. CASE \E p \in Props, n \in Nums \cup {Line!NoNum} : Line!Go(r, [Line!Idle EXCEPT !.op = op, !.pc = "look", !.p = p, !.n = n])
  <2>1. PICK p \in Props, n \in Nums \cup {Line!NoNum} : Line!Go(r, [Line!Idle EXCEPT !.op = op, !.pc = "look", !.p = p, !.n = n])
    BY <1>3
  <2>2. PICK new : new = [Line!Idle EXCEPT !.op = op, !.pc = "look", !.p = p, !.n = n]
    OBVIOUS
  <2>3. new.pc = "look" /\ new.sid = Line!NoSid
    BY <2>2 DEF Line!Idle
  <2> QED BY <2>1, <2>2, <2>3, NotBought
<1> QED BY <1>1, <1>2, <1>3

\* who owns a number: a request begins, looks, or is over
LEMMA OwnBegins == ASSUME LineTyped, OwnInv, NEW r \in Reqs, LineBegins(r) PROVE OwnInv'
<1> DEFINE q == lineReq[r]
<1>1. q \in LineReqs /\ Staged(q) /\ OwnReq(r) /\ OwnRows
  BY DEF LineTyped, ReqsTyped, ReqOK, OwnInv
<1>2. UNCHANGED <<bought, row>>
  BY DEF LineBegins, Line!Begin, Line!Refused, Line!Look, Line!LookGiven, Line!Passed, Line!Place, Line!account
<1>3. CASE Line!Begin(r) \/ Line!Refused(r) \/ Line!Place(r) \/ Line!LookGiven(r)
  <2>1. PICK new : Line!Go(r, new) /\ new.sid \notin Line!Ids
    <3>1. CASE Line!Begin(r)
      BY <3>1, BeginsNew
    <3>2. CASE Line!Refused(r) \/ Line!Place(r)
      BY <3>2, NotBought DEF Line!Refused, Line!Place, Line!Idle
    <3>3. CASE Line!LookGiven(r)
      <4>1. PICK new : new = [q EXCEPT !.pc = "write", !.sid = Line!Given]
        OBVIOUS
      <4>2. Line!Go(r, new)
        BY <3>3, <4>1 DEF Line!LookGiven
      <4>3. new.sid = Line!Given
        BY <1>1, <4>1 DEF LineReqs
      <4> QED BY <4>2, <4>3, NotBought
    <3> QED BY <1>3, <3>1, <3>2, <3>3
  <2> QED BY <1>2, <2>1, OwnGo DEF RowsFade, Carries
<1>4. CASE Line!Look(r)
  <2>1. q.pc = "look" /\ Line!MayPass(q) /\ q.p \in Props
    BY <1>1, <1>4 DEF Line!Look, Line!Passed, Staged
  <2>2. q.sid \notin Line!Ids
    BY <1>1, <2>1 DEF OwnReq
  <2>3. CASE q.op = "release" /\ row[q.p].sid = Line!Mock
    <3>1. PICK new : new = [q EXCEPT !.pc = "clear"]
      OBVIOUS
    <3>2. Line!Go(r, new) /\ new.sid \notin Line!Ids
      BY <1>1, <1>4, <2>2, <2>3, <3>1 DEF Line!Look, LineReqs
    <3> QED BY <1>2, <3>2, OwnGo DEF RowsFade, Carries
  <2>4. CASE ~(q.op = "release" /\ row[q.p].sid = Line!Mock)
    <3>1. PICK new : new = [q EXCEPT !.pc = "conf", !.need = Line!Needs(q.op), !.sid = row[q.p].sid]
      OBVIOUS
    <3>2. Line!Go(r, new) /\ new.sid = row[q.p].sid /\ new.p = q.p /\ new.op = q.op /\ new.pc = "conf"
      BY <1>1, <1>4, <2>4, <3>1 DEF Line!Look, LineReqs
    <3>3. CASE new.sid \notin Line!Ids
      BY <1>2, <3>2, <3>3, OwnGo DEF RowsFade, Carries
    <3>4. CASE new.sid \in Line!Ids
      <4>1. q.op # "assign"
        BY <1>1, <2>1, <3>2, <3>4, NotBought DEF Line!MayPass, OwnRows
      <4>2. lineReq'[r] = new /\ \A x \in Reqs \ {r} : Alike(lineReq[x], lineReq'[x])
        BY <3>2, OthersAlike
      <4>3. OwnReq(r)'
        BY <1>1, <1>2, <2>1, <3>2, <3>4, <4>1, <4>2 DEF OwnReq, OwnRows, Writing
      <4>4. ASSUME NEW x \in Reqs \ {r} PROVE OwnReq(x)'
        <5>1. OwnReq(x) /\ Alike(lineReq[x], lineReq'[x])
          BY <4>2 DEF OwnInv
        <5>2. ASSUME Writing(lineReq[x]), NEW y \in Reqs \ {x} PROVE lineReq'[y].sid # lineReq[x].sid
          <6>1. lineReq[x].sid # row[q.p].sid /\ lineReq[y].sid # lineReq[x].sid
            BY <2>1, <5>1, <5>2 DEF OwnReq, Writing
          <6> QED BY <3>2, <4>2, <6>1 DEF Alike
        <5> QED BY <1>2, <5>1, <5>2 DEF OwnReq, Writing, Alike
      <4> QED BY <1>1, <1>2, <4>3, <4>4 DEF OwnInv, OwnRows
    <3> QED BY <3>3, <3>4
  <2> QED BY <2>3, <2>4
<1> QED BY <1>3, <1>4 DEF LineBegins

\* who owns a number: one is bought
LEMMA OwnBuy == ASSUME LineTyped, OwnInv, NEW r \in Reqs, Line!Buy(r) PROVE OwnInv'
<1> DEFINE q == lineReq[r]
<1>1. q \in LineReqs /\ row' = row /\ OwnRows /\ q.pc = "buy"
  BY DEF LineTyped, ReqsTyped, ReqOK, OwnInv, Line!Buy
<1>2. CASE bought' = bought
  <2>1. PICK new : new = [q EXCEPT !.pc = "write", !.sid = Line!Mock]
    OBVIOUS
  <2>2. new.sid = Line!Mock
    BY <1>1, <2>1 DEF LineReqs
  <2>3. Line!Idle.sid = Line!NoSid
    BY DEF Line!Idle
  <2>4. Line!Go(r, new) \/ Line!Go(r, Line!Idle)
    <3>1. StoreTyped /\ bought \in Seq(Line!Purchase)
      BY DEF LineTyped, StoreTyped
    <3>2. Append(bought, [num |-> q.n, acct |-> q.got["sid"], hook |-> q.got["url"], kept |-> TRUE]) # bought
      <4>1. PICK e : e = [num |-> q.n, acct |-> q.got["sid"], hook |-> q.got["url"], kept |-> TRUE]
        OBVIOUS
      <4>2. Len(Append(bought, e)) = Len(bought) + 1 /\ Len(bought) \in Nat
        BY <3>1, Knowns
      <4> QED BY <4>1, <4>2
    <3> QED BY <1>2, <2>1, <3>2 DEF Line!Buy
  <2> QED BY <1>1, <1>2, <2>2, <2>3, <2>4, NotBought, OwnGo DEF RowsFade, Carries
<1>3. CASE bought' # bought
  <2>1. PICK s, e, new : /\ s = Len(bought) + 1 /\ e = [num |-> q.n, acct |-> q.got["sid"], hook |-> q.got["url"], kept |-> TRUE]
                         /\ new = [q EXCEPT !.pc = "write", !.sid = s]
    OBVIOUS
  <2>2. bought' = Append(bought, e) /\ lineReq' = Line!Stirred(r, new) /\ Len(bought) < MaxBought
    BY <1>3, <2>1 DEF Line!Buy
  <2>3. Len(bought) \in Nat /\ bought \in Seq(Line!Purchase) /\ MaxBought \in Nat
    BY LineAssumption DEF LineTyped, StoreTyped, Line!PhoneLineAssumption
  <2>4. s \in Line!Ids /\ s \notin Line!Bought
    BY <2>1, <2>2, <2>3 DEF Line!Ids, Line!Bought
  <2>5. bought'[s] = e /\ e.kept /\ \A x \in Line!Bought : bought'[x] = bought[x]
    BY <2>1, <2>2, <2>3 DEF Line!Bought
  <2>6. new.sid = s /\ new.pc = "write" /\ new.op = q.op
    BY <1>1, <2>1 DEF LineReqs
  <2>7. lineReq'[r] = new /\ \A x \in Reqs \ {r} : Alike(lineReq[x], lineReq'[x])
    BY <2>2, OthersAlike
  <2>8. (\A x \in Reqs : lineReq[x].sid # s) /\ \A p \in Props : row[p].sid # s
    BY <2>4 DEF LineTyped, ReqsTyped, ReqOK, StoreTyped
  <2>9. OwnReq(r)'
    BY <1>1, <2>5, <2>6, <2>7, <2>8 DEF OwnReq, Writing, Alike
  <2>10. ASSUME NEW x \in Reqs \ {r} PROVE OwnReq(x)'
    <3>1. OwnReq(x) /\ Alike(lineReq[x], lineReq'[x]) /\ ReqOK(lineReq[x], Line!Bought)
      BY <2>7 DEF OwnInv, LineTyped, ReqsTyped
    <3>2. lineReq[x].sid \in Line!Ids => bought'[lineReq[x].sid] = bought[lineReq[x].sid]
      BY <2>5, <3>1 DEF ReqOK
    <3>3. \A y \in Reqs \ {x} : lineReq[y].sid # lineReq[x].sid => lineReq'[y].sid # lineReq[x].sid
      BY <2>6, <2>7, <2>8 DEF Alike
    <3> QED BY <1>1, <3>1, <3>2, <3>3 DEF OwnReq, Writing, Alike
  <2>11. OwnRows'
    BY <1>1 DEF OwnRows
  <2> QED BY <2>9, <2>10, <2>11 DEF OwnInv
<1> QED BY <1>2, <1>3

\* who owns a number: a property's row is given one
LEMMA OwnWrite == ASSUME LineTyped, OwnInv, NEW r \in Reqs, Line!Write(r) PROVE OwnInv'
<1> DEFINE q == lineReq[r]
<1>1. /\ q \in LineReqs /\ OwnRows /\ OwnReq(r) /\ bought' = bought /\ q.pc = "write" /\ q.op = "assign" /\ q.n # Line!NoNum
      /\ q.p \in Props /\ lineReq' = Line!Stirred(r, Line!Idle)
  BY DEF LineTyped, ReqsTyped, ReqOK, Staged, OwnInv, Line!Write
<1>2. Line!Idle.sid \notin Line!Ids
  BY NotBought DEF Line!Idle
<1>3. CASE row' = row
  BY <1>1, <1>2, <1>3, OwnGo DEF RowsFade, Carries
<1>4. CASE row' # row
  <2>1. row' = [row EXCEPT ![q.p] = [phone |-> q.n, sid |-> q.sid]] /\ row \in [Props -> Line!Row]
    BY <1>4 DEF Line!Write, LineTyped, StoreTyped
  <2>2. row'[q.p].phone = q.n /\ row'[q.p].sid = q.sid /\ \A p \in Props \ {q.p} : row'[p] = row[p]
    BY <1>1, <2>1
  <2>3. CASE q.sid \notin Line!Ids
    BY <1>1, <1>2, <2>2, <2>3, OwnGo DEF RowsFade, Carries
  <2>4. CASE q.sid \in Line!Ids
    <3>1. (\A p \in Props : row[p].sid # q.sid) /\ \A x \in Reqs \ {r} : lineReq[x].sid # q.sid
      BY <1>1, <2>4 DEF OwnReq, Writing
    <3>2. OwnRows'
      <4>1. \A p \in Props : row'[p].phone = Line!NoNum => row'[p].sid = Line!NoSid
        BY <1>1, <2>2 DEF OwnRows
      <4>2. \A p, o \in Props : row'[p].sid = row'[o].sid /\ row'[p].sid \in Line!Ids => p = o
        BY <1>1, <2>2, <3>1 DEF OwnRows
      <4> QED BY <4>1, <4>2 DEF OwnRows
    <3>3. lineReq'[r] = Line!Idle /\ \A x \in Reqs \ {r} : Alike(lineReq[x], lineReq'[x])
      BY <1>1, OthersAlike
    <3>4. OwnReq(r)'
      BY <1>2, <3>3 DEF OwnReq
    <3>5. ASSUME NEW x \in Reqs \ {r} PROVE OwnReq(x)'
      <4>1. OwnReq(x) /\ Alike(lineReq[x], lineReq'[x]) /\ lineReq[x].sid # q.sid
        BY <3>1, <3>3 DEF OwnInv
      <4>2. \A p \in Props : row'[p].sid = lineReq[x].sid => row[p].sid = lineReq[x].sid
        BY <2>2, <4>1
      <4>3. \A y \in Reqs \ {x} : lineReq[x].sid \in Line!Ids /\ lineReq[y].sid # lineReq[x].sid => lineReq'[y].sid # lineReq[x].sid
        BY <1>2, <3>3 DEF Alike
      <4> QED BY <1>1, <4>1, <4>2, <4>3 DEF OwnReq, Writing, Alike
    <3> QED BY <3>2, <3>4, <3>5 DEF OwnInv
  <2> QED BY <2>3, <2>4
<1> QED BY <1>3, <1>4

\* who owns a number: Twilio is asked to take one back
LEMMA OwnRemove == ASSUME LineTyped, OwnInv, NEW r \in Reqs, Line!Remove(r) PROVE OwnInv'
<1> DEFINE q == lineReq[r]
<1>1. q \in LineReqs /\ q.pc = "remove" /\ q.op = "release" /\ row' = row
  BY DEF LineTyped, ReqsTyped, ReqOK, Staged, Line!Remove
<1>2. PICK new : new = [q EXCEPT !.pc = "clear"]
  OBVIOUS
<1>3. lineReq' = Line!Stirred(r, new)
  BY <1>2 DEF Line!Remove
<1>4. Carries(q, new)
  BY <1>1, <1>2 DEF Carries, LineReqs
<1>5. ASSUME NEW x \in Reqs, Writing(lineReq[x]), bought[lineReq[x].sid].kept PROVE bought'[lineReq[x].sid].kept
  <2>1. x # r
    BY <1>1, <1>5 DEF Writing
  <2>2. q.sid # lineReq[x].sid
    BY <1>5, <2>1 DEF OwnInv, OwnReq, Writing
  <2>3. bought' = bought \/ bought' = [bought EXCEPT ![q.sid] = [bought[q.sid] EXCEPT !.kept = FALSE]]
    BY DEF Line!Remove
  <2>4. bought \in Seq(Line!Purchase) /\ lineReq[x].sid \in 1..Len(bought)
    BY <1>5 DEF LineTyped, ReqsTyped, ReqOK, StoreTyped, Writing, Line!Bought
  <2>5. bought'[lineReq[x].sid] = bought[lineReq[x].sid]
    BY <2>2, <2>3, <2>4
  <2> QED BY <1>5, <2>5
<1> QED BY <1>1, <1>3, <1>4, <1>5, OwnGo DEF RowsFade

\* who owns a number: a property's row is cleared
LEMMA OwnClear == ASSUME LineTyped, OwnInv, NEW r \in Reqs, Line!Clear(r) PROVE OwnInv'
<1>1. /\ row' = row \/ row' = [row EXCEPT ![lineReq[r].p] = [phone |-> Line!NoNum, sid |-> Line!NoSid]]
      /\ bought' = bought /\ lineReq' = Line!Stirred(r, Line!Idle) /\ row \in [Props -> Line!Row]
  BY DEF Line!Clear, LineTyped, StoreTyped
<1>2. RowsFade
  BY <1>1, NotBought DEF RowsFade
<1>3. Carries(lineReq[r], Line!Idle)
  BY NotBought DEF Carries, Line!Idle
<1> QED BY <1>1, <1>2, <1>3, OwnGo

\* who owns a number, at every step of the desk
LEMMA OwnStep == ASSUME LineTyped, OwnInv, DeskNext \/ UNCHANGED <<listVars, lineOnly>> PROVE OwnInv'
<1>1. CASE ListStep \/ UNCHANGED <<listVars, lineOnly>>
  <2>1. LineEvents
    BY <1>1 DEF ListStep, LineEvents
  <2> QED BY <2>1, OwnEvents
<1>2. CASE LineStep
  <2>1. CASE Line!Settings
    BY <2>1, OwnSettings
  <2>2. CASE \E r \in Reqs : Line!Resolve(r) \/ Line!NumberStep(r) \/ Line!SystemStep(r)
    BY <2>2, OwnResolve, OwnBegins, OwnBuy, OwnWrite, OwnRemove, OwnClear, OwnSystem DEF Line!NumberStep, LineBegins
  <2>3. CASE Line!Restart \/ Line!Network
    BY <2>3, OwnEvents DEF LineEvents
  <2> QED BY <1>2, <2>1, <2>2, <2>3 DEF LineStep, Line!Next
<1> QED BY <1>1, <1>2 DEF DeskNext

\* who owns a number, at the start
LEMMA OwnInit == ASSUME Line!Init PROVE OwnInv
BY NotBought DEF Line!Init, OwnInv, OwnRows, OwnReq, Line!Idle

-----------------------------------------------------------------------------
(* Purchases lost, and requests that may lose one                          *)

\* the requests that are past their look at a property, and the properties whose row is what
\* they all found there
PastLook(q) == q.op \in {"assign", "release"} /\ q.pc \notin {"idle", "look"}
PastAll == {r \in Reqs : PastLook(lineReq[r])}
Tied(p) == p \in Live /\ row[p].sid \in Line!Ids
Expects(q, p) == Tied(p) => q.op = "release" /\ q.sid = row[p].sid
Clean == {p \in Props : /\ \E r \in PastAll : lineReq[r].p = p
                        /\ \A r \in PastAll : lineReq[r].p = p => Expects(lineReq[r], p)}

\* purchases that nothing will refer to, and those a row refers to though they are gone
Clearing(s) == \E r \in Reqs : lineReq[r].pc = "clear" /\ lineReq[r].sid = s
Unwritten(s) == \E r \in Reqs : lineReq[r].pc = "write" /\ lineReq[r].sid = s
Lost == {s \in Line!Bought :
           IF bought[s].kept THEN Clearing(s) \/ (s \notin Line!Real /\ ~Unwritten(s))
           ELSE s \in Line!Real /\ ~Clearing(s)}

LostInv == Cardinality(Lost) + Cardinality(PastAll) <= strays + Cardinality(Clean)

\* the purchases rows refer to are those of the tied properties
LEMMA TiedReal == \A s : s \in Line!Real <=> \E p \in Props : Tied(p) /\ row[p].sid = s
BY DEF Tied, Line!Real, Live

\* a set within another and one more element
LEMMA OneMore == ASSUME NEW S, NEW T, NEW x, IsFiniteSet(T), S \subseteq T \cup {x}
  PROVE  Cardinality(S) <= Cardinality(T) + 1
<1>1. IsFiniteSet(T \cup {x}) /\ Cardinality(T \cup {x}) <= Cardinality(T) + 1 /\ Cardinality(T) \in Nat
  BY FS_AddElement, FS_CardinalityType
<1>2. IsFiniteSet(S) /\ Cardinality(S) <= Cardinality(T \cup {x})
  BY <1>1, FS_Subset
<1>3. Cardinality(S) \in Nat /\ Cardinality(T \cup {x}) \in Nat
  BY <1>1, <1>2, FS_CardinalityType
<1> QED BY <1>1, <1>2, <1>3

\* a set within another without one of its elements
LEMMA OneLess == ASSUME NEW S, NEW T, NEW x \in T, IsFiniteSet(T), S \subseteq T \ {x}
  PROVE  Cardinality(S) <= Cardinality(T) - 1
<1>1. IsFiniteSet(T \ {x}) /\ Cardinality(T \ {x}) = Cardinality(T) - 1 /\ Cardinality(T) \in Nat
  BY FS_RemoveElement, FS_CardinalityType
<1>2. IsFiniteSet(S) /\ Cardinality(S) <= Cardinality(T \ {x})
  BY <1>1, FS_Subset
<1>3. Cardinality(S) \in Nat
  BY <1>2, FS_CardinalityType
<1> QED BY <1>1, <1>2, <1>3

\* what is counted is finite, before a step and after it
Countable(S, T) == IsFiniteSet(S) /\ IsFiniteSet(T) /\ Cardinality(S) \in Nat /\ Cardinality(T) \in Nat
Balanced == Countable(Lost, Lost') /\ Countable(PastAll, PastAll') /\ Countable(Clean, Clean') /\ strays \in Nat /\ strays' \in Nat

\* what is counted is finite
LEMMA AllFinite == ASSUME LineTyped, LineTyped' PROVE Balanced
<1>1. IsFiniteSet(Props) /\ IsFiniteSet(Reqs)
  BY ListingAssumption
<1>2. Len(bought) \in Nat /\ Len(bought') \in Nat /\ strays \in Nat /\ strays' \in Nat
  BY Knowns DEF LineTyped, StoreTyped
<1>3. \A n \in Nat : IsFiniteSet(1..n)
  <2> SUFFICES ASSUME NEW n \in Nat PROVE IsFiniteSet(1..n)
    OBVIOUS
  <2>1. n \in Int /\ 1 \in Int
    OBVIOUS
  <2> QED BY <2>1, FS_Interval
<1>4. IsFiniteSet(Line!Bought) /\ IsFiniteSet(Line!Bought')
  BY <1>2, <1>3 DEF Line!Bought
<1>5. /\ Lost \subseteq Line!Bought /\ Lost' \subseteq Line!Bought' /\ PastAll \subseteq Reqs /\ PastAll' \subseteq Reqs
      /\ Clean \subseteq Props /\ Clean' \subseteq Props
  BY DEF Lost, PastAll, Clean
<1>6. IsFiniteSet(Lost) /\ IsFiniteSet(Lost') /\ IsFiniteSet(PastAll) /\ IsFiniteSet(PastAll') /\ IsFiniteSet(Clean) /\ IsFiniteSet(Clean')
  BY <1>1, <1>4, <1>5, FS_Subset
<1> QED BY <1>2, <1>6, FS_CardinalityType DEF Balanced, Countable

\* a smaller set has no more elements
LEMMA NoMore == ASSUME NEW S, NEW T, Countable(S, T), T \subseteq S PROVE Cardinality(T) <= Cardinality(S)
BY FS_Subset DEF Countable

\* the four ways a step keeps the balance
LEMMA LostSame ==
  ASSUME Balanced, LostInv, Lost' \subseteq Lost, PastAll' \subseteq PastAll, Clean \subseteq Clean', strays' >= strays
  PROVE  LostInv'
<1>1. Cardinality(Lost') <= Cardinality(Lost) /\ Cardinality(PastAll') <= Cardinality(PastAll)
  BY NoMore DEF Balanced
<1>2. Cardinality(Clean) <= Cardinality(Clean')
  BY FS_Subset DEF Balanced, Countable
<1>3. Cardinality(Lost)' = Cardinality(Lost') /\ Cardinality(PastAll)' = Cardinality(PastAll') /\ Cardinality(Clean)' = Cardinality(Clean')
  OBVIOUS
<1> QED BY <1>1, <1>2, <1>3 DEF LostInv, Balanced, Countable

\* ... it loses a purchase and says so
LEMMA LostStray ==
  ASSUME Balanced, LostInv, NEW o, Lost' \subseteq Lost \cup {o}, PastAll' \subseteq PastAll, Clean \subseteq Clean', strays' >= strays + 1
  PROVE  LostInv'
<1>1. Cardinality(Lost') <= Cardinality(Lost) + 1
  BY OneMore DEF Balanced, Countable
<1>2. Cardinality(PastAll') <= Cardinality(PastAll)
  BY NoMore DEF Balanced
<1>3. Cardinality(Clean) <= Cardinality(Clean')
  BY FS_Subset DEF Balanced, Countable
<1> QED BY <1>1, <1>2, <1>3 DEF LostInv, Balanced, Countable

\* ... a request that knew what it may lose is over
LEMMA LostLeave ==
  ASSUME Balanced, LostInv, NEW r \in PastAll, PastAll' \subseteq PastAll \ {r}, NEW p, Clean \ {p} \subseteq Clean',
         NEW o, Lost' \subseteq Lost \cup {o}, strays' >= strays, p \notin Clean \/ Lost' \subseteq Lost \/ strays' >= strays + 1
  PROVE  LostInv'
<1>1. Cardinality(Lost') <= Cardinality(Lost) + 1
  BY OneMore DEF Balanced, Countable
<1>2. Cardinality(PastAll') <= Cardinality(PastAll) - 1
  BY OneLess DEF Balanced, Countable
<1>3. Cardinality(Clean) <= Cardinality(Clean') + 1
  <2>1. Clean \subseteq Clean' \cup {p}
    OBVIOUS
  <2> QED BY <2>1, OneMore DEF Balanced, Countable
<1>4. p \notin Clean => Cardinality(Clean) <= Cardinality(Clean')
  BY FS_Subset DEF Balanced, Countable
<1>5. Lost' \subseteq Lost => Cardinality(Lost') <= Cardinality(Lost)
  BY NoMore DEF Balanced
<1> QED BY <1>1, <1>2, <1>3, <1>4, <1>5 DEF LostInv, Balanced, Countable

\* ... a request passes its look
LEMMA LostJoin ==
  ASSUME Balanced, LostInv, NEW r, PastAll' \subseteq PastAll \cup {r}, NEW p, Clean \subseteq Clean', Lost' \subseteq Lost,
         strays' >= strays, strays' >= strays + 1 \/ (p \notin Clean /\ p \in Clean')
  PROVE  LostInv'
<1>1. Cardinality(Lost') <= Cardinality(Lost)
  BY NoMore DEF Balanced
<1>2. Cardinality(PastAll') <= Cardinality(PastAll) + 1
  BY OneMore DEF Balanced, Countable
<1>3. Cardinality(Clean) <= Cardinality(Clean')
  BY FS_Subset DEF Balanced, Countable
<1>4. p \notin Clean /\ p \in Clean' => Cardinality(Clean) <= Cardinality(Clean') - 1
  BY OneLess DEF Balanced, Countable
<1> QED BY <1>1, <1>2, <1>3, <1>4 DEF LostInv, Balanced, Countable

\* a request stays as far as it was with its property, and holds the purchases it held
Stands(q, new) ==
  /\ PastLook(new) <=> PastLook(q)
  /\ PastLook(q) => new.op = q.op /\ new.p = q.p /\ (q.op = "release" => new.sid = q.sid)
Marks(q, new) ==
  \A s \in Line!Ids : /\ (new.pc = "clear" /\ new.sid = s) <=> (q.pc = "clear" /\ q.sid = s)
                      /\ (new.pc = "write" /\ new.sid = s) <=> (q.pc = "write" /\ q.sid = s)
RowsStill == row' = row /\ \A p \in Props : Tied(p)' <=> Tied(p)
BoughtSame == Line!Bought' = Line!Bought /\ \A s \in Line!Bought : bought'[s].kept <=> bought[s].kept

\* properties all of whose requests know what the row has, outside X
LEMMA CleanKept ==
  ASSUME NEW X,
         \A p \in Props \ X : Tied(p)' => Tied(p) /\ row'[p].sid = row[p].sid,
         \A x \in Reqs : \/ Stands(lineReq[x], lineReq'[x])
                         \/ /\ PastLook(lineReq[x]) => lineReq[x].p \in X
                            /\ PastLook(lineReq'[x]) => lineReq'[x].p \in X
  PROVE  Clean \ X \subseteq Clean'
<1> SUFFICES ASSUME NEW p \in Clean, p \notin X PROVE p \in Clean'
  OBVIOUS
<1>1. p \in Props
  BY DEF Clean
<1>2. \E x \in Reqs : PastLook(lineReq'[x]) /\ lineReq'[x].p = p
  <2>1. PICK x \in Reqs : PastLook(lineReq[x]) /\ lineReq[x].p = p
    BY DEF Clean, PastAll
  <2> QED BY <2>1 DEF Stands
<1>3. ASSUME NEW x \in Reqs, PastLook(lineReq'[x]), lineReq'[x].p = p, Tied(p)'
      PROVE  lineReq'[x].op = "release" /\ lineReq'[x].sid = row'[p].sid
  <2>1. Stands(lineReq[x], lineReq'[x])
    BY <1>3
  <2>2. PastLook(lineReq[x]) /\ lineReq[x].p = p
    BY <1>3, <2>1 DEF Stands
  <2>3. Expects(lineReq[x], p)
    BY <2>2 DEF Clean, PastAll
  <2>4. Tied(p) /\ row'[p].sid = row[p].sid
    BY <1>1, <1>3
  <2> QED BY <2>1, <2>2, <2>3, <2>4 DEF Stands, Expects
<1>4. \A x \in Reqs : PastLook(lineReq'[x]) /\ lineReq'[x].p = p => Expects(lineReq[x], p)'
  BY <1>3 DEF Expects
<1>5. \A x \in Reqs : x \in PastAll' <=> PastLook(lineReq'[x])
  BY DEF PastAll, PastLook
<1>6. /\ \E x \in PastAll' : lineReq'[x].p = p
      /\ \A x \in PastAll' : lineReq'[x].p = p => Expects(lineReq[x], p)'
  <2>1. PastAll' \subseteq Reqs
    BY DEF PastAll
  <2> QED BY <1>2, <1>4, <1>5, <2>1
<1> QED BY <1>1, <1>6 DEF Clean

\* requests past their look, outside R
LEMMA PastKeeps == ASSUME NEW R, \A x \in Reqs \ R : Stands(lineReq[x], lineReq'[x]) PROVE PastAll' \ R = PastAll \ R
BY DEF PastAll, Stands, PastLook

\* what is being written or cleared, but for the numbers of the request that moved
LEMMA MarksLeave ==
  ASSUME NEW r \in Reqs, \A x \in Reqs \ {r} : Marks(lineReq[x], lineReq'[x]),
         NEW s \in Line!Ids, s # lineReq[r].sid, s # lineReq'[r].sid
  PROVE  (Clearing(s)' <=> Clearing(s)) /\ (Unwritten(s)' <=> Unwritten(s))
BY DEF Marks, Clearing, Unwritten

\* what is being written or cleared, if no request changes its marks
LEMMA MarksKeep ==
  ASSUME \A x \in Reqs : Marks(lineReq[x], lineReq'[x]), NEW s \in Line!Ids
  PROVE  (Clearing(s)' <=> Clearing(s)) /\ (Unwritten(s)' <=> Unwritten(s))
BY DEF Marks, Clearing, Unwritten

\* rows unchanged: the same purchases are referred to
LEMMA RealSame == ASSUME RowsStill PROVE Line!Real' = Line!Real
<1>1. \A s : s \in Line!Real' <=> \E p \in Props : Tied(p)' /\ row'[p].sid = s
  BY DEF Tied, Line!Real, Live
<1>2. \A s : s \in Line!Real' <=> s \in Line!Real
  BY <1>1, TiedReal DEF RowsStill
<1> QED BY <1>2

\* purchases lost, outside X
LEMMA LostOutside ==
  ASSUME NEW X,
         \A s \in Line!Bought' \ X :
           /\ s \in Line!Bought /\ (bought'[s].kept <=> bought[s].kept) /\ (s \in Line!Real' <=> s \in Line!Real)
           /\ (Clearing(s)' <=> Clearing(s)) /\ (Unwritten(s)' <=> Unwritten(s))
  PROVE  Lost' \subseteq Lost \cup X
<1> SUFFICES ASSUME NEW s \in Lost', s \notin X PROVE s \in Lost
  OBVIOUS
<1>1. s \in Line!Bought' /\ IF bought'[s].kept THEN Clearing(s)' \/ (s \notin Line!Real' /\ ~Unwritten(s)')
                                              ELSE s \in Line!Real' /\ ~Clearing(s)'
  BY DEF Lost
<1> QED BY <1>1 DEF Lost

\* a step that leaves rows, purchases and requests as far as they are
LEMMA LostStill ==
  ASSUME LineTyped, LineTyped', LostInv, RowsStill, BoughtSame, strays' >= strays,
         \A x \in Reqs : Stands(lineReq[x], lineReq'[x]) /\ Marks(lineReq[x], lineReq'[x])
  PROVE  LostInv'
<1>1. Line!Bought \subseteq Line!Ids /\ Line!Bought' = Line!Bought
  BY Knowns DEF LineTyped, BoughtSame
<1>2. PICK X : X = {}
  OBVIOUS
<1>3. Lost' \subseteq Lost \cup X
  BY <1>1, RealSame, MarksKeep, LostOutside DEF BoughtSame
<1>4. Clean \ X \subseteq Clean'
  BY CleanKept DEF RowsStill
<1>5. PastAll' \ X = PastAll \ X
  BY PastKeeps
<1> QED BY <1>2, <1>3, <1>4, <1>5, AllFinite, LostSame

\* a request told of a change stands where it stood
LEMMA AlikeStands == ASSUME NEW q, NEW new, Alike(q, new) PROVE Stands(q, new) /\ Marks(q, new)
BY DEF Alike, Stands, Marks, PastLook

\* one request goes on, the others stay
LEMMA LostGo ==
  ASSUME LineTyped, LineTyped', LostInv, RowsStill, BoughtSame, strays' >= strays, NEW r \in Reqs, NEW new,
         Stands(lineReq[r], new), Marks(lineReq[r], new), Line!Go(r, new) \/ lineReq' = Line!Stirred(r, new)
  PROVE  LostInv'
<1>1. lineReq'[r] = new /\ \A x \in Reqs \ {r} : Alike(lineReq[x], lineReq'[x])
  BY OthersAlike
<1> QED BY <1>1, AlikeStands, LostStill

-----------------------------------------------------------------------------
(* Purchases lost, step by step                                            *)

\* rows and properties unchanged
LEMMA RowsStay == ASSUME row' = row, prop' = prop PROVE RowsStill
BY DEF RowsStill, Tied, Live

\* purchases unchanged
LEMMA BoughtStays == ASSUME bought' = bought PROVE BoughtSame
BY DEF BoughtSame, Line!Bought

\* a request that holds no purchase, and holds none afterwards
LEMMA HoldsNone ==
  ASSUME NEW q, NEW new, q.pc \notin {"write", "clear"} \/ q.sid \notin Line!Ids,
         new.pc \notin {"write", "clear"} \/ new.sid \notin Line!Ids
  PROVE  Marks(q, new)
BY DEF Marks

\* a slot with no request in it holds no purchase
LEMMA IdleHolds == Line!Idle.pc \notin {"write", "clear", "look"} /\ ~PastLook(Line!Idle) /\ Line!Idle.sid \notin Line!Ids
BY NotBought DEF Line!Idle, PastLook

\* purchases lost: settings are saved
LEMMA LostSettings == ASSUME LineTyped, LineTyped', LostInv, Line!Settings, prop' = prop PROVE LostInv'
<1>1. UNCHANGED <<lineReq, bought, row, strays>>
  BY DEF Line!Settings, Line!SaveBegin, Line!SaveField, Line!SaveFails, Line!SaveEnds, Line!Expire, Line!account, Line!budget
<1>2. \A x \in Reqs : Stands(lineReq[x], lineReq'[x]) /\ Marks(lineReq[x], lineReq'[x])
  BY <1>1 DEF Stands, Marks
<1>3. strays' >= strays
  BY <1>1 DEF LineTyped, StoreTyped
<1> QED BY <1>1, <1>2, <1>3, RowsStay, BoughtStays, LostStill

\* purchases lost: a setting is read
LEMMA LostResolve == ASSUME LineTyped, LineTyped', LostInv, NEW r \in Reqs, Line!Resolve(r), prop' = prop PROVE LostInv'
<1> DEFINE q == lineReq[r]
           Goes(new) == new.op = q.op /\ new.p = q.p /\ new.sid = q.sid /\ new.pc \in {"conf", "fill", "buy", "remove", "place", "tunnel"}
<1>1. q \in LineReqs /\ Staged(q)
  BY DEF LineTyped, ReqsTyped, ReqOK
<1>2. UNCHANGED <<bought, row, strays>> /\ q.pc \in {"conf", "fill"} /\ strays' >= strays
  BY DEF Line!Resolve, Line!ResolveCached, Line!ResolveRead, Line!ResolveFill, Line!account, LineTyped, StoreTyped
<1>3. ASSUME NEW v PROVE Goes(Line!Got(q, v))
  BY <1>1, <1>2 DEF Line!Got, Line!Next1, LineReqs, Staged
<1>4. Goes([q EXCEPT !.pc = "fill", !.read = Line!Effective(Head(q.need))])
  BY <1>1 DEF LineReqs
<1>5. PICK new : Goes(new) /\ Line!Go(r, new)
  BY <1>3, <1>4 DEF Line!Resolve, Line!ResolveCached, Line!ResolveRead, Line!ResolveFill
<1>6. Stands(q, new)
  BY <1>2, <1>5 DEF Stands, PastLook
<1>7. Marks(q, new)
  BY <1>2, <1>5, HoldsNone
<1> QED BY <1>2, <1>5, <1>6, <1>7, RowsStay, BoughtStays, LostGo

\* a start changes webhooks and no purchase's being kept
LEMMA HooksOnly == ASSUME LineTyped, NEW r \in Reqs, Line!SystemStep(r) PROVE BoughtSame
<1>1. CASE bought' = bought
  BY <1>1, BoughtStays
<1>2. CASE bought' # bought
  <2>1. PICK s : Line!Owns(lineReq[r].got, s) /\ bought' = [bought EXCEPT ![s] = [bought[s] EXCEPT !.hook = Line!Url(r)]]
    BY <1>2 DEF Line!SystemStep, Line!EnsureTunnel, Line!WaitTunnel, Line!ReadTunnel, Line!Health, Line!ListNumbers,
                Line!EachNumber, Line!EachDone, Line!Answer, Line!account
  <2>2. s \in 1..Len(bought) /\ bought \in Seq(Line!Purchase)
    BY <2>1 DEF Line!Owns, Line!Live, Line!Bought, LineTyped, StoreTyped
  <2>3. bought[s] \in Line!Purchase
    BY <2>2, ElementOfSeq
  <2>4. bought'[s] = [bought[s] EXCEPT !.hook = Line!Url(r)] /\ \A x : x # s => bought'[x] = bought[x]
    BY <2>1, <2>2
  <2>5. bought'[s].kept = bought[s].kept
    BY <2>3, <2>4 DEF Line!Purchase
  <2>6. DOMAIN bought' = DOMAIN bought
    BY <2>1
  <2>7. Line!Bought' = Line!Bought
    <3>1. bought' \in Seq(Line!Purchase)
      <4>1. LineTyped'
        BY SystemTyped
      <4> QED BY <4>1 DEF LineTyped, StoreTyped
    <3>2. Len(bought') = Len(bought)
      BY <2>2, <2>6, <3>1
    <3> QED BY <3>2 DEF Line!Bought
  <2> QED BY <2>4, <2>5, <2>7 DEF BoughtSame
<1> QED BY <1>1, <1>2

\* purchases lost: a step of a start or a check
LEMMA LostSystem == ASSUME LineTyped, LineTyped', LostInv, NEW r \in Reqs, Line!SystemStep(r), prop' = prop PROVE LostInv'
<1> DEFINE q == lineReq[r]
<1>1. Staged(q) /\ row' = row /\ strays' = strays /\ strays \in Nat /\ q.pc \in {"tunnel", "wait", "health", "list", "each", "done"}
  BY DEF LineTyped, ReqsTyped, ReqOK, StoreTyped, Line!SystemStep, Line!EnsureTunnel, Line!WaitTunnel, Line!ReadTunnel,
         Line!Health, Line!ListNumbers, Line!EachNumber, Line!EachDone, Line!Answer, Line!account
<1>2. PICK new : Stays(q, new) /\ (Line!Go(r, new) \/ lineReq' = Line!Stirred(r, new))
  BY SystemStays
<1>3. q.op \in {"start", "status"}
  BY <1>1 DEF Staged
<1>4. ~PastLook(new) /\ ~PastLook(q) /\ new.pc \notin {"write", "clear"}
  BY <1>2, <1>3, IdleHolds DEF Stays, PastLook
<1>5. Stands(q, new) /\ Marks(q, new)
  BY <1>1, <1>4, HoldsNone DEF Stands
<1>6. strays' >= strays
  BY <1>1
<1> QED BY <1>1, <1>2, <1>5, <1>6, RowsStay, HooksOnly, LostGo

\* purchases lost: a request begins, is refused, or places its call
LEMMA LostBegins ==
  ASSUME LineTyped, LineTyped', LostInv, NEW r \in Reqs, Line!Begin(r) \/ Line!Refused(r) \/ Line!Place(r), prop' = prop
  PROVE  LostInv'
<1> DEFINE q == lineReq[r]
<1>0. UNCHANGED <<row, bought, strays>>
  BY DEF Line!Begin, Line!Refused, Line!Place, Line!account
<1>1. Staged(q) /\ UNCHANGED <<row, bought, strays>> /\ strays' >= strays
  BY <1>0 DEF LineTyped, ReqsTyped, ReqOK, StoreTyped
<1>2. ~PastLook(q) /\ q.pc \notin {"write", "clear"}
  BY <1>1 DEF Staged, PastLook, Line!Begin, Line!Refused, Line!Place
<1>3. PICK new : Line!Go(r, new) /\ ~PastLook(new) /\ new.sid \notin Line!Ids
  <2>1. CASE Line!Begin(r)
    BY <2>1, BeginsNew DEF PastLook
  <2>2. CASE Line!Refused(r) \/ Line!Place(r)
    BY <2>2, IdleHolds DEF Line!Refused, Line!Place
  <2> QED BY <2>1, <2>2
<1>4. Stands(q, new) /\ Marks(q, new)
  BY <1>2, <1>3, HoldsNone DEF Stands
<1> QED BY <1>1, <1>3, <1>4, RowsStay, BoughtStays, LostGo

\* a request passes its look: it may lose a purchase, unless all that are past their look at the
\* property know what the row has
LEMMA LostLook ==
  ASSUME LineTyped, LineTyped', LostInv, OwnInv, NEW r \in Reqs, Line!Look(r) \/ Line!LookGiven(r), prop' = prop
  PROVE  LostInv'
<1> DEFINE q == lineReq[r]
<1>1. /\ q \in LineReqs /\ Staged(q) /\ OwnReq(r) /\ OwnRows /\ q.pc = "look" /\ Line!MayPass(q)
      /\ strays' = IF Line!Overlapping(r) # {} /\ q.op # "call" THEN strays + 1 ELSE strays
  BY DEF LineTyped, ReqsTyped, ReqOK, OwnInv, Line!Look, Line!LookGiven, Line!Passed
<1>2. UNCHANGED <<row, bought>> /\ strays \in Nat
  BY DEF Line!Look, Line!LookGiven, Line!Passed, Line!account, LineTyped, StoreTyped
<1>3. q.p \in Props /\ q.sid \notin Line!Ids /\ q.op \in {"assign", "release", "call"} /\ ~PastLook(q) /\ strays' >= strays
  BY <1>1, <1>2 DEF Staged, OwnReq, PastLook
<1>4. PICK new : /\ Line!Go(r, new) /\ new.op = q.op /\ new.p = q.p /\ new.pc \in {"conf", "write", "clear"}
                 /\ new.pc = "conf" \/ new.sid \notin Line!Ids
                 /\ q.op = "release" => new.sid = row[q.p].sid \/ row[q.p].sid = Line!Mock
  <2>1. CASE Line!LookGiven(r)
    <3>1. PICK new : new = [q EXCEPT !.pc = "write", !.sid = Line!Given]
      OBVIOUS
    <3>2. new.op = q.op /\ new.p = q.p /\ new.pc = "write" /\ new.sid = Line!Given
      BY <1>1, <3>1 DEF LineReqs
    <3>3. Line!Go(r, new) /\ q.op = "assign"
      BY <2>1, <3>1 DEF Line!LookGiven
    <3> QED BY <3>2, <3>3, NotBought
  <2>2. CASE Line!Look(r) /\ q.op = "release" /\ row[q.p].sid = Line!Mock
    <3>1. PICK new : new = [q EXCEPT !.pc = "clear"]
      OBVIOUS
    <3>2. new.op = q.op /\ new.p = q.p /\ new.pc = "clear" /\ new.sid = q.sid
      BY <1>1, <3>1 DEF LineReqs
    <3>3. Line!Go(r, new)
      BY <2>2, <3>1 DEF Line!Look
    <3> QED BY <1>3, <2>2, <3>2, <3>3
  <2>3. CASE Line!Look(r) /\ ~(q.op = "release" /\ row[q.p].sid = Line!Mock)
    <3>1. PICK new : new = [q EXCEPT !.pc = "conf", !.need = Line!Needs(q.op), !.sid = row[q.p].sid]
      OBVIOUS
    <3>2. new.op = q.op /\ new.p = q.p /\ new.pc = "conf" /\ new.sid = row[q.p].sid
      BY <1>1, <3>1 DEF LineReqs
    <3>3. Line!Go(r, new)
      BY <2>3, <3>1 DEF Line!Look
    <3> QED BY <3>2, <3>3
  <2> QED BY <2>1, <2>2, <2>3
<1>5. Marks(q, new)
  BY <1>1, <1>4, HoldsNone
<1>6. CASE q.op = "call"
  <2>1. Stands(q, new)
    BY <1>3, <1>4, <1>6 DEF Stands, PastLook
  <2> QED BY <1>2, <1>3, <1>4, <1>5, <2>1, RowsStay, BoughtStays, LostGo
<1>7. CASE q.op # "call"
  <2>1. lineReq'[r] = new /\ \A x \in Reqs \ {r} : Alike(lineReq[x], lineReq'[x])
    BY <1>4, OthersAlike
  <2>2. \A x \in Reqs \ {r} : Stands(lineReq[x], lineReq'[x]) /\ Marks(lineReq[x], lineReq'[x])
    BY <2>1, AlikeStands
  <2>3. PICK p : p = q.p
    OBVIOUS
  <2>4. RowsStill /\ BoughtSame
    BY <1>2, RowsStay, BoughtStays
  <2>5. PICK X, R : X = {p} /\ R = {r}
    OBVIOUS
  <2>6. PastAll' \subseteq PastAll \cup {r}
    <3>1. PastAll' \ R = PastAll \ R
      BY <2>2, <2>5, PastKeeps
    <3> QED BY <2>5, <3>1
  <2>7. Clean \ X \subseteq Clean'
    BY <1>3, <1>4, <2>1, <2>2, <2>3, <2>4, <2>5, CleanKept DEF RowsStill
  <2>8. Lost' \subseteq Lost
    <3>1. PICK Y : Y = {}
      OBVIOUS
    <3>2. \A x \in Reqs : Marks(lineReq[x], lineReq'[x])
      BY <1>5, <2>1, <2>2
    <3>3. Line!Bought \subseteq Line!Ids
      BY Knowns DEF LineTyped
    <3>4. Lost' \subseteq Lost \cup Y
      BY <2>4, <3>2, <3>3, RealSame, MarksKeep, LostOutside DEF BoughtSame
    <3> QED BY <3>1, <3>4
  <2>9. Tied(p) => q.op = "release" /\ new.sid = row[p].sid
    BY <1>1, <1>3, <1>4, <1>7, <2>3, NotBought DEF Tied, Line!MayPass, OwnRows
  <2>10. Tied(p)' => q.op = "release" /\ new.sid = row'[p].sid
    BY <1>2, <1>3, <2>3, <2>4, <2>9 DEF RowsStill
  <2>11. PastLook(new) /\ new.p = p
    BY <1>3, <1>4, <1>7, <2>3 DEF PastLook
  <2>12. ASSUME \A x \in Reqs \ {r} : PastLook(lineReq[x]) /\ lineReq[x].p = p => Expects(lineReq[x], p) PROVE p \in Clean'
    <3>1. ASSUME NEW x \in Reqs, PastLook(lineReq'[x]), lineReq'[x].p = p PROVE Expects(lineReq[x], p)'
      <4>1. CASE x = r
        BY <1>4, <2>1, <2>10, <4>1 DEF Expects
      <4>2. CASE x # r
        <5>1. Stands(lineReq[x], lineReq'[x])
          BY <2>2, <4>2
        <5>2. Expects(lineReq[x], p) /\ PastLook(lineReq[x])
          BY <2>12, <3>1, <4>2, <5>1 DEF Stands
        <5>3. Tied(p)' => Tied(p) /\ row'[p].sid = row[p].sid
          BY <1>2, <1>3, <2>3, <2>4 DEF RowsStill
        <5> QED BY <5>1, <5>2, <5>3 DEF Expects, Stands
      <4> QED BY <4>1, <4>2
    <3>2. PastAll' = {x \in Reqs : PastLook(lineReq'[x])}
      BY DEF PastAll, PastLook
    <3>3. r \in PastAll' /\ lineReq'[r].p = p
      BY <2>1, <2>11, <3>2
    <3>4. \A x \in PastAll' : lineReq'[x].p = p => Expects(lineReq[x], p)'
      BY <3>1, <3>2
    <3>5. p \in Props
      BY <1>3, <2>3
    <3> QED BY <3>3, <3>4, <3>5 DEF Clean
  <2>13. p \in Clean => p \in Clean'
    <3>1. p \in Clean => \A x \in Reqs : PastLook(lineReq[x]) /\ lineReq[x].p = p => Expects(lineReq[x], p)
      BY DEF Clean, PastAll
    <3> QED BY <2>12, <3>1
  <2>14. Clean \subseteq Clean'
    BY <2>5, <2>7, <2>13
  <2>15. CASE Line!Overlapping(r) # {}
    BY <1>1, <1>2, <1>3, <1>7, <2>6, <2>8, <2>14, <2>15, AllFinite, LostJoin
  <2>16. CASE Line!Overlapping(r) = {}
    <3>1. \A x \in Reqs : ~(PastLook(lineReq[x]) /\ lineReq[x].p = p)
      BY <1>3, <2>3, <2>16 DEF Line!Overlapping, PastLook
    <3>2. p \notin Clean /\ p \in Clean'
      BY <2>12, <3>1 DEF Clean, PastAll
    <3> QED BY <1>3, <2>6, <2>8, <2>14, <3>2, AllFinite, LostJoin
  <2> QED BY <2>15, <2>16
<1> QED BY <1>6, <1>7

\* a request that may have known of a purchase is over
LEMMA LostEnds ==
  ASSUME LineTyped, LineTyped', LostInv, NEW r \in PastAll, lineReq' = Line!Stirred(r, Line!Idle) \/ Line!Go(r, Line!Idle),
         NEW p, p = lineReq[r].p, \A y \in Props \ {p} : Tied(y)' => Tied(y) /\ row'[y].sid = row[y].sid,
         NEW o, Lost' \subseteq Lost \cup {o}, strays' >= strays, p \notin Clean \/ Lost' \subseteq Lost \/ strays' >= strays + 1
  PROVE  LostInv'
<1>0. r \in Reqs
  BY DEF PastAll
<1>1. lineReq'[r] = Line!Idle /\ \A x \in Reqs \ {r} : Alike(lineReq[x], lineReq'[x])
  BY <1>0, OthersAlike
<1>2. PICK X, R : X = {p} /\ R = {r}
  OBVIOUS
<1>3. \A x \in Reqs \ R : Stands(lineReq[x], lineReq'[x])
  BY <1>1, <1>2, AlikeStands
<1>4. PastAll' \ R = PastAll \ R
  BY <1>3, PastKeeps
<1>5. ~PastLook(lineReq'[r])
  BY <1>1, IdleHolds
<1>6. r \notin PastAll'
  BY <1>5 DEF PastAll, PastLook
<1>7. PastAll' \subseteq PastAll \ {r}
  BY <1>2, <1>4, <1>6
<1>8. Clean \ X \subseteq Clean'
  BY <1>2, <1>3, <1>5, CleanKept
<1>9. Balanced
  BY AllFinite
<1>10. Clean \ {p} \subseteq Clean'
  BY <1>2, <1>8
<1> QED BY <1>7, <1>9, <1>10, LostLeave

\* the marks of the others are as they were
LEMMA MarksOthers ==
  ASSUME LineTyped, NEW r \in Reqs, NEW new, Line!Go(r, new) \/ lineReq' = Line!Stirred(r, new)
  PROVE  lineReq'[r] = new /\ \A x \in Reqs \ {r} : Stands(lineReq[x], lineReq'[x]) /\ Marks(lineReq[x], lineReq'[x])
BY OthersAlike, AlikeStands

\* nothing that counts is lost by a step that leaves the purchases' and the rows' sides alone
LEMMA LostAlone ==
  ASSUME LineTyped, BoughtSame, RowsStill, \A x \in Reqs : Marks(lineReq[x], lineReq'[x])
  PROVE  Lost' \subseteq Lost
<1>1. PICK Y : Y = {}
  OBVIOUS
<1>2. Line!Bought \subseteq Line!Ids
  BY Knowns DEF LineTyped
<1>3. Lost' \subseteq Lost \cup Y
  BY <1>2, RealSame, MarksKeep, LostOutside DEF BoughtSame
<1> QED BY <1>1, <1>3

\* purchases lost: a number is bought, made up or not to be had
LEMMA LostBuy == ASSUME LineTyped, LineTyped', LostInv, OwnInv, NEW r \in Reqs, Line!Buy(r), prop' = prop PROVE LostInv'
<1> DEFINE q == lineReq[r]
<1>1. q \in LineReqs /\ row' = row /\ OwnReq(r) /\ q.pc = "buy" /\ q.op = "assign" /\ strays' = strays /\ strays \in Nat
  BY DEF LineTyped, ReqsTyped, ReqOK, Staged, StoreTyped, OwnInv, Line!Buy
<1>2. q.sid \notin Line!Ids /\ PastLook(q) /\ r \in PastAll /\ strays' >= strays /\ RowsStill
  BY <1>1, RowsStay DEF OwnReq, PastLook, PastAll
<1>3. PICK s, e, new, mock : /\ s = Len(bought) + 1 /\ new = [q EXCEPT !.pc = "write", !.sid = s]
                             /\ e = [num |-> q.n, acct |-> q.got["sid"], hook |-> q.got["url"], kept |-> TRUE]
                             /\ mock = [q EXCEPT !.pc = "write", !.sid = Line!Mock]
  OBVIOUS
<1>4. CASE Line!Go(r, mock) /\ bought' = bought
  <2>1. mock.pc = "write" /\ mock.sid = Line!Mock /\ mock.op = q.op /\ mock.p = q.p
    BY <1>1, <1>3 DEF LineReqs
  <2>2. Stands(q, mock) /\ Marks(q, mock)
    BY <1>1, <1>2, <2>1, NotBought, HoldsNone DEF Stands, PastLook
  <2> QED BY <1>2, <1>4, <2>2, BoughtStays, LostGo
<1>5. CASE Line!Go(r, Line!Idle) /\ bought' = bought
  <2>1. lineReq'[r] = Line!Idle /\ \A x \in Reqs \ {r} : Marks(lineReq[x], lineReq'[x])
    BY <1>5, MarksOthers
  <2>2. Marks(q, Line!Idle)
    BY <1>1, IdleHolds, HoldsNone
  <2>3. Lost' \subseteq Lost
    BY <1>2, <1>5, <2>1, <2>2, BoughtStays, LostAlone
  <2>4. PICK p, o : p = q.p /\ o = 0
    OBVIOUS
  <2>5. \A y \in Props \ {p} : Tied(y)' => Tied(y) /\ row'[y].sid = row[y].sid
    BY <1>2 DEF RowsStill
  <2> QED BY <1>2, <1>5, <2>3, <2>4, <2>5, LostEnds
<1>6. CASE bought' = Append(bought, e) /\ lineReq' = Line!Stirred(r, new) /\ Len(bought) < MaxBought
  <2>1. Len(bought) \in Nat /\ bought \in Seq(Line!Purchase) /\ MaxBought \in Nat
    BY LineAssumption DEF LineTyped, StoreTyped, Line!PhoneLineAssumption
  <2>2. s \in Line!Ids /\ s \notin Line!Bought
    BY <1>3, <1>6, <2>1 DEF Line!Ids, Line!Bought
  <2>3. /\ bought'[s] = e /\ e.kept /\ (\A x \in Line!Bought : bought'[x] = bought[x])
        /\ Line!Bought' \ {s} \subseteq Line!Bought
    BY <1>3, <1>6, <2>1 DEF Line!Bought
  <2>4. new.sid = s /\ new.pc = "write" /\ new.op = q.op /\ new.p = q.p
    BY <1>1, <1>3 DEF LineReqs
  <2>5. lineReq'[r] = new /\ \A x \in Reqs \ {r} : Stands(lineReq[x], lineReq'[x]) /\ Marks(lineReq[x], lineReq'[x])
    BY <1>6, MarksOthers
  <2>6. \A x \in Reqs : lineReq[x].sid # s
    BY <2>2 DEF LineTyped, ReqsTyped, ReqOK
  <2>7. Unwritten(s)' /\ ~Clearing(s)'
    <3>1. Unwritten(s)'
      BY <2>4, <2>5 DEF Unwritten
    <3>2. ASSUME NEW x \in Reqs, lineReq'[x].pc = "clear", lineReq'[x].sid = s PROVE FALSE
      <4>1. x # r
        BY <2>4, <2>5, <3>2
      <4> QED BY <2>2, <2>5, <2>6, <3>2, <4>1 DEF Marks
    <3> QED BY <3>1, <3>2 DEF Clearing
  <2>8. s \notin Lost'
    BY <2>3, <2>7 DEF Lost
  <2>9. Lost' \subseteq Lost
    <3>1. PICK X : X = {s}
      OBVIOUS
    <3>2. Line!Bought \subseteq Line!Ids
      BY Knowns DEF LineTyped
    <3>3. ASSUME NEW t \in Line!Bought' \ X
          PROVE  /\ t \in Line!Bought /\ (bought'[t].kept <=> bought[t].kept) /\ (t \in Line!Real' <=> t \in Line!Real)
                 /\ (Clearing(t)' <=> Clearing(t)) /\ (Unwritten(t)' <=> Unwritten(t))
      <4>1. t \in Line!Bought /\ bought'[t] = bought[t] /\ t \in Line!Ids /\ t # s
        BY <2>3, <3>1, <3>2
      <4>2. t # q.sid /\ t # lineReq'[r].sid
        BY <1>2, <2>4, <2>5, <4>1
      <4> QED BY <1>2, <2>5, <4>1, <4>2, RealSame, MarksLeave
    <3>4. Lost' \subseteq Lost \cup X
      BY <3>3, LostOutside
    <3> QED BY <2>8, <3>1, <3>4
  <2>10. Stands(q, new)
    BY <1>1, <1>2, <2>4 DEF Stands, PastLook
  <2>11. \A x \in Reqs : Stands(lineReq[x], lineReq'[x])
    BY <2>5, <2>10
  <2>12. PICK Z : Z = {}
    OBVIOUS
  <2>13. PastAll' \ Z = PastAll \ Z
    BY <2>11, PastKeeps
  <2>14. Clean \ Z \subseteq Clean'
    BY <1>2, <2>11, CleanKept DEF RowsStill
  <2> QED BY <1>2, <2>9, <2>12, <2>13, <2>14, AllFinite, LostSame
<1> QED BY <1>3, <1>4, <1>5, <1>6 DEF Line!Buy

\* the rows PhoneLine sees are those of Listing's live properties
LEMMA HereIs == ASSUME NEW p \in Props PROVE [y \in Props |-> y \in Live][p] <=> p \in Live
OBVIOUS

\* one row is written
LEMMA RealOthers ==
  ASSUME NEW p \in Props, prop' = prop, \A y \in Props \ {p} : row'[y] = row[y],
         NEW t, t # row[p].sid, t # row'[p].sid
  PROVE  t \in Line!Real' <=> t \in Line!Real
<1>1. t \in Line!Real' <=> \E y \in Props : Tied(y)' /\ row'[y].sid = t
  BY DEF Tied, Line!Real, Live
<1>2. \A y \in Props \ {p} : (Tied(y)' /\ row'[y].sid = t) <=> (Tied(y) /\ row[y].sid = t)
  BY DEF Tied, Live
<1> QED BY <1>1, <1>2, TiedReal

\* one request ends, purchases stay: only what it held and what its property had may be lost
LEMMA LostOne ==
  ASSUME LineTyped, NEW r \in Reqs, lineReq' = Line!Stirred(r, Line!Idle), NEW p \in Props, prop' = prop, bought' = bought,
         \A y \in Props \ {p} : row'[y] = row[y], row'[p].sid \in {row[p].sid, lineReq[r].sid, Line!NoSid}
  PROVE  Lost' \subseteq Lost \cup {row[p].sid, lineReq[r].sid}
<1>1. PICK X : X = {row[p].sid, lineReq[r].sid}
  OBVIOUS
<1>2. lineReq'[r] = Line!Idle /\ \A x \in Reqs \ {r} : Marks(lineReq[x], lineReq'[x])
  BY MarksOthers
<1>3. Line!Bought' = Line!Bought /\ Line!Bought \subseteq Line!Ids
  BY Knowns DEF LineTyped, Line!Bought
<1>4. ASSUME NEW t \in Line!Bought' \ X
      PROVE  /\ t \in Line!Bought /\ (bought'[t].kept <=> bought[t].kept) /\ (t \in Line!Real' <=> t \in Line!Real)
             /\ (Clearing(t)' <=> Clearing(t)) /\ (Unwritten(t)' <=> Unwritten(t))
  <2>1. t \in Line!Ids /\ t # row[p].sid /\ t # lineReq[r].sid /\ t # lineReq'[r].sid
    BY <1>1, <1>2, <1>3, IdleHolds
  <2>2. t # row'[p].sid
    BY <2>1, NotBought
  <2> QED BY <1>2, <1>3, <2>1, <2>2, RealOthers, MarksLeave
<1>5. Lost' \subseteq Lost \cup X
  BY <1>4, LostOutside
<1> QED BY <1>1, <1>5

\* what is lost was bought
LEMMA LostWithin == ASSUME LineTyped, bought' = bought PROVE Lost' \subseteq Line!Bought /\ Line!Bought \subseteq Line!Ids
BY Knowns DEF LineTyped, Lost, Line!Bought

\* purchases lost: a property's row is given a number, or cannot be
LEMMA LostWrite == ASSUME LineTyped, LineTyped', LostInv, OwnInv, NEW r \in Reqs, Line!Write(r), prop' = prop PROVE LostInv'
<1> DEFINE q == lineReq[r]
<1>1. /\ q \in LineReqs /\ OwnReq(r) /\ q.pc = "write" /\ q.op = "assign" /\ q.p \in Props /\ bought' = bought
      /\ lineReq' = Line!Stirred(r, Line!Idle) /\ strays \in Nat /\ row \in [Props -> Line!Row]
  BY DEF LineTyped, ReqsTyped, ReqOK, Staged, StoreTyped, OwnInv, Line!Write
<1>2. PICK p, s : p = q.p /\ s = q.sid
  OBVIOUS
<1>3. PastLook(q) /\ r \in PastAll /\ p \in Props
  BY <1>1, <1>2 DEF PastLook, PastAll
<1>4. CASE row' = row /\ strays' = IF s \in Line!Ids THEN strays + 1 ELSE strays
  <2>1. strays' >= strays /\ RowsStill /\ BoughtSame
    BY <1>1, <1>4, RowsStay, BoughtStays
  <2>2. \A y \in Props \ {p} : Tied(y)' => Tied(y) /\ row'[y].sid = row[y].sid
    BY <2>1 DEF RowsStill
  <2>3. CASE s \in Line!Ids
    <3>1. Lost' \subseteq Lost \cup {s}
      <4>1. PICK X : X = {s}
        OBVIOUS
      <4>2. lineReq'[r] = Line!Idle /\ \A x \in Reqs \ {r} : Marks(lineReq[x], lineReq'[x])
        BY <1>1, MarksOthers
      <4>3. Line!Bought \subseteq Line!Ids
        BY Knowns DEF LineTyped
      <4>4. ASSUME NEW t \in Line!Bought' \ X
            PROVE  /\ t \in Line!Bought /\ (bought'[t].kept <=> bought[t].kept) /\ (t \in Line!Real' <=> t \in Line!Real)
                   /\ (Clearing(t)' <=> Clearing(t)) /\ (Unwritten(t)' <=> Unwritten(t))
        <5>1. t \in Line!Bought /\ t \in Line!Ids /\ t # lineReq[r].sid /\ t # lineReq'[r].sid
          BY <1>2, <2>1, <4>1, <4>2, <4>3, IdleHolds DEF BoughtSame
        <5> QED BY <2>1, <4>2, <5>1, RealSame, MarksLeave DEF BoughtSame
      <4>5. Lost' \subseteq Lost \cup X
        BY <4>4, LostOutside
      <4> QED BY <4>1, <4>5
    <3>2. strays' >= strays + 1
      BY <1>1, <1>4, <2>3
    <3>3. lineReq' = Line!Stirred(r, Line!Idle) /\ p = lineReq[r].p /\ r \in PastAll
      BY <1>1, <1>2, <1>3
    <3> QED BY <2>1, <2>2, <3>1, <3>2, <3>3, LostEnds
  <2>4. CASE s \notin Line!Ids
    <3>1. lineReq'[r] = Line!Idle /\ \A x \in Reqs \ {r} : Marks(lineReq[x], lineReq'[x])
      BY <1>1, MarksOthers
    <3>2. Marks(q, Line!Idle)
      BY <1>2, <2>4, IdleHolds, HoldsNone
    <3>3. Lost' \subseteq Lost
      BY <2>1, <3>1, <3>2, LostAlone
    <3>4. Lost' \subseteq Lost \cup {s}
      BY <3>3
    <3> QED BY <1>1, <1>2, <1>3, <2>1, <2>2, <3>3, <3>4, LostEnds
  <2> QED BY <2>3, <2>4
<1>5. CASE p \in Live /\ row' = [row EXCEPT ![q.p] = [phone |-> q.n, sid |-> q.sid]] /\ strays' = strays
  <2>1. row'[p].sid = s /\ (\A y \in Props \ {p} : row'[y] = row[y]) /\ strays' >= strays
    BY <1>1, <1>2, <1>5
  <2>2. PICK o : o = row[p].sid
    OBVIOUS
  <2>3. Lost' \subseteq Lost \cup {o, s}
    BY <1>1, <1>2, <1>3, <2>1, <2>2, LostOne
  <2>4. s \notin Lost'
    <3>1. CASE s \notin Line!Ids
      BY <1>1, <3>1, LostWithin
    <3>2. CASE s \in Line!Ids
      <4>1. bought[s].kept /\ \A x \in Reqs \ {r} : lineReq[x].sid # s
        BY <1>1, <1>2, <3>2 DEF OwnReq, Writing
      <4>2. s \in Line!Real'
        <5>1. p \in Live'
          BY <1>5 DEF Live
        <5> QED BY <1>3, <2>1, <3>2, <5>1 DEF Line!Real
      <4>3. lineReq'[r] = Line!Idle /\ \A x \in Reqs \ {r} : Marks(lineReq[x], lineReq'[x])
        BY <1>1, MarksOthers
      <4>4. ASSUME NEW x \in Reqs, lineReq'[x].pc = "clear", lineReq'[x].sid = s PROVE FALSE
        <5>1. x # r
          BY <4>3, <4>4, IdleHolds
        <5> QED BY <3>2, <4>1, <4>3, <4>4, <5>1 DEF Marks
      <4>5. ~Clearing(s)'
        BY <4>4 DEF Clearing
      <4> QED BY <1>1, <4>1, <4>2, <4>5 DEF Lost
    <3> QED BY <3>1, <3>2
  <2>5. Lost' \subseteq Lost \cup {o}
    BY <2>3, <2>4
  <2>6. p \in Clean => Lost' \subseteq Lost
    <3>1. p \in Clean => ~Tied(p)
      BY <1>1, <1>2, <1>3 DEF Clean, Expects
    <3>2. ~Tied(p) => o \notin Lost'
      BY <1>1, <1>5, <2>2, LostWithin DEF Tied
    <3> QED BY <2>5, <3>1, <3>2
  <2>7. \A y \in Props \ {p} : Tied(y)' => Tied(y) /\ row'[y].sid = row[y].sid
    BY <2>1 DEF Tied, Live
  <2> QED BY <1>1, <1>2, <1>3, <2>1, <2>5, <2>6, <2>7, LostEnds
<1>6. \/ row' = row /\ strays' = IF s \in Line!Ids THEN strays + 1 ELSE strays
      \/ p \in Live /\ row' = [row EXCEPT ![q.p] = [phone |-> q.n, sid |-> q.sid]] /\ strays' = strays
  BY <1>1, <1>2, HereIs DEF Line!Write
<1> QED BY <1>4, <1>5, <1>6

\* purchases lost: a property's row is cleared
LEMMA LostClear == ASSUME LineTyped, LineTyped', LostInv, OwnInv, NEW r \in Reqs, Line!Clear(r), prop' = prop PROVE LostInv'
<1> DEFINE q == lineReq[r]
<1>1. /\ q \in LineReqs /\ OwnReq(r) /\ q.pc = "clear" /\ q.op = "release" /\ q.p \in Props /\ bought' = bought
      /\ lineReq' = Line!Stirred(r, Line!Idle) /\ strays \in Nat /\ strays' = strays /\ row \in [Props -> Line!Row]
  BY DEF LineTyped, ReqsTyped, ReqOK, Staged, StoreTyped, OwnInv, Line!Clear
<1>2. PICK p, c, o : p = q.p /\ c = q.sid /\ o = row[p].sid
  OBVIOUS
<1>3. PastLook(q) /\ r \in PastAll /\ p \in Props /\ strays' >= strays
  BY <1>1, <1>2 DEF PastLook, PastAll
<1>4. /\ \A y \in Props \ {p} : row'[y] = row[y]
      /\ \/ p \notin Live /\ row' = row
         \/ p \in Live /\ row'[p].sid = Line!NoSid
  BY <1>1, <1>2, HereIs DEF Line!Clear
<1>5. Lost' \subseteq Lost \cup {o, c}
  BY <1>1, <1>2, <1>3, <1>4, LostOne
<1>6. \A y \in Props \ {p} : Tied(y)' => Tied(y) /\ row'[y].sid = row[y].sid
  BY <1>4 DEF Tied, Live
<1>7. c \in Lost' => c \in Lost
  <2> SUFFICES ASSUME c \in Lost' PROVE c \in Lost
    OBVIOUS
  <2>1. c \in Line!Ids /\ c \in Line!Bought
    BY <1>1, LostWithin
  <2>2. Clearing(c)
    BY <1>1, <1>2 DEF Clearing
  <2>3. c \notin Line!Real'
    <3> SUFFICES ASSUME c \in Line!Real' PROVE FALSE
      OBVIOUS
    <3>1. PICK y \in Props : Tied(y)' /\ row'[y].sid = c
      BY DEF Tied, Line!Real, Live
    <3>2. \A z \in Props : row[z].sid = c => z = p
      BY <1>1, <1>2, <2>1 DEF OwnReq, Writing
    <3>3. y = p
      BY <1>4, <3>1, <3>2
    <3>4. p \in Live
      BY <3>1, <3>3 DEF Tied, Live
    <3> QED BY <1>4, <2>1, <3>1, <3>3, <3>4, NotBought
  <2>4. bought[c].kept
    BY <1>1, <2>3 DEF Lost
  <2> QED BY <2>1, <2>2, <2>4 DEF Lost
<1>8. Lost' \subseteq Lost \cup {o}
  BY <1>5, <1>7
<1>9. p \in Clean => Lost' \subseteq Lost
  <2> SUFFICES ASSUME p \in Clean, o \in Lost' PROVE o \in Lost
    BY <1>8
  <2>1. o \in Line!Ids
    BY <1>1, LostWithin
  <2>2. CASE p \in Live
    <3>1. Tied(p) /\ Expects(q, p)
      BY <1>2, <1>3, <2>1, <2>2 DEF Tied, Clean
    <3>2. o = c
      BY <1>2, <3>1 DEF Expects
    <3> QED BY <1>7, <3>2
  <2>3. CASE p \notin Live
    <3>1. RowsStill
      BY <1>4, <2>3, RowsStay
    <3>2. CASE o = c
      BY <1>7, <3>2
    <3>3. CASE o # c
      <4>1. lineReq'[r] = Line!Idle /\ \A x \in Reqs \ {r} : Marks(lineReq[x], lineReq'[x])
        BY <1>1, MarksOthers
      <4>2. o # lineReq[r].sid /\ o # lineReq'[r].sid
        BY <1>2, <2>1, <3>3, <4>1, IdleHolds
      <4>3. (Clearing(o)' <=> Clearing(o)) /\ (Unwritten(o)' <=> Unwritten(o))
        BY <2>1, <4>1, <4>2, MarksLeave
      <4> QED BY <1>1, <3>1, <4>3, RealSame DEF Lost, Line!Bought
    <3> QED BY <3>2, <3>3
  <2> QED BY <2>2, <2>3
<1> QED BY <1>1, <1>2, <1>3, <1>6, <1>8, <1>9, LostEnds

\* purchases lost: Twilio takes a number back, or does not
LEMMA LostRemove == ASSUME LineTyped, LineTyped', LostInv, NEW r \in Reqs, Line!Remove(r), prop' = prop PROVE LostInv'
<1> DEFINE q == lineReq[r]
<1>1. /\ q \in LineReqs /\ q.pc = "remove" /\ q.op = "release" /\ row' = row /\ strays \in Nat /\ strays' \in {strays, strays + 1}
      /\ bought \in Seq(Line!Purchase)
  BY DEF LineTyped, ReqsTyped, ReqOK, Staged, StoreTyped, Line!Remove
<1>2. PICK s, new : s = q.sid /\ new = [q EXCEPT !.pc = "clear"]
  OBVIOUS
<1>3. new.pc = "clear" /\ new.sid = s /\ new.op = q.op /\ new.p = q.p
  BY <1>1, <1>2 DEF LineReqs
<1>4. lineReq'[r] = new /\ \A x \in Reqs \ {r} : Stands(lineReq[x], lineReq'[x]) /\ Marks(lineReq[x], lineReq'[x])
  <2>1. lineReq' = Line!Stirred(r, new)
    BY <1>2 DEF Line!Remove
  <2> QED BY <2>1, MarksOthers
<1>5. \A x \in Reqs : Stands(lineReq[x], lineReq'[x])
  BY <1>1, <1>2, <1>3, <1>4 DEF Stands, PastLook
<1>6. Clearing(s)'
  BY <1>3, <1>4 DEF Clearing
<1>7. PICK Z, X : Z = {} /\ X = {s}
  OBVIOUS
<1>8. PastAll' \subseteq PastAll /\ Clean \subseteq Clean' /\ strays' >= strays /\ RowsStill /\ Balanced
  <2>1. RowsStill
    BY <1>1, RowsStay
  <2>2. PastAll' \ Z = PastAll \ Z
    BY <1>5, PastKeeps
  <2>3. Clean \ Z \subseteq Clean'
    BY <1>5, <2>1, CleanKept DEF RowsStill
  <2> QED BY <1>1, <1>7, <2>1, <2>2, <2>3, AllFinite
<1>9. ASSUME Line!Bought' = Line!Bought, \A t \in Line!Bought \ X : bought'[t].kept <=> bought[t].kept
      PROVE  Lost' \subseteq Lost \cup {s}
  <2>1. Line!Bought \subseteq Line!Ids
    BY Knowns DEF LineTyped
  <2>2. ASSUME NEW t \in Line!Bought' \ X
        PROVE  /\ t \in Line!Bought /\ (bought'[t].kept <=> bought[t].kept) /\ (t \in Line!Real' <=> t \in Line!Real)
               /\ (Clearing(t)' <=> Clearing(t)) /\ (Unwritten(t)' <=> Unwritten(t))
    <3>1. t \in Line!Bought /\ t \in Line!Ids /\ t # lineReq[r].sid /\ t # lineReq'[r].sid
      BY <1>2, <1>3, <1>4, <1>7, <1>9, <2>1
    <3> QED BY <1>4, <1>7, <1>8, <1>9, <3>1, RealSame, MarksLeave
  <2>3. Lost' \subseteq Lost \cup X
    BY <2>2, LostOutside
  <2> QED BY <1>7, <2>3
<1>10. CASE Line!Owns(q.got, s) /\ bought' = [bought EXCEPT ![s] = [bought[s] EXCEPT !.kept = FALSE]]
  <2>1. s \in 1..Len(bought)
    BY <1>10 DEF Line!Owns, Line!Live, Line!Bought
  <2>2. bought[s] \in Line!Purchase
    BY <1>1, <2>1, ElementOfSeq
  <2>3. PICK e : e = [bought[s] EXCEPT !.kept = FALSE]
    OBVIOUS
  <2>4. ~e.kept
    BY <2>2, <2>3 DEF Line!Purchase
  <2>5. bought' = [bought EXCEPT ![s] = e]
    BY <1>10, <2>3
  <2>6. bought'[s] = e /\ (\A t \in 1..Len(bought) : t # s => bought'[t] = bought[t]) /\ Len(bought') = Len(bought)
    BY <1>1, <2>1, <2>5
  <2>7. Line!Bought' = Line!Bought
    BY <2>6 DEF Line!Bought
  <2>8. Lost' \subseteq Lost \cup {s}
    BY <1>7, <1>9, <2>6, <2>7 DEF Line!Bought
  <2>9. s \notin Lost'
    BY <1>6, <2>4, <2>6 DEF Lost
  <2> QED BY <1>8, <2>8, <2>9, LostSame
<1>11. CASE bought' = bought /\ strays' = IF Line!Live(s) THEN strays + 1 ELSE strays
  <2>1. Lost' \subseteq Lost \cup {s}
    BY <1>9, <1>11 DEF Line!Bought
  <2>2. CASE Line!Live(s)
    <3>1. strays' >= strays + 1
      BY <1>1, <1>11, <2>2
    <3> QED BY <1>8, <2>1, <3>1, LostStray
  <2>3. CASE ~Line!Live(s)
    <3>1. s \notin Lost'
      BY <1>6, <1>11, <2>3 DEF Lost, Line!Live, Line!Bought
    <3> QED BY <1>8, <2>1, <3>1, LostSame
  <2> QED BY <2>2, <2>3
<1> QED BY <1>2, <1>10, <1>11 DEF Line!Remove

\* a property is deleted: the purchase its row had is the only one that may be lost
LEMMA LostGone == ASSUME LineTyped, LineTyped', LostInv, NEW p \in Props, Line!Gone(p) PROVE LostInv'
<1>1. /\ UNCHANGED <<row, bought>> /\ lineReq' = [q \in Reqs |-> Line!Uneasy(lineReq[q])]
      /\ strays' = (IF row[p].sid \in Line!Ids THEN strays + 1 ELSE strays) /\ strays \in Nat
      /\ [y \in Props |-> y \in Live'] = [[y \in Props |-> y \in Live] EXCEPT ![p] = FALSE]
  BY DEF Line!Gone, LineTyped, StoreTyped, Live
<1>2. p \notin Live' /\ \A y \in Props \ {p} : y \in Live' <=> y \in Live
  <2>1. \A y \in Props : [x \in Props |-> x \in Live'][y] = [[x \in Props |-> x \in Live] EXCEPT ![p] = FALSE][y]
    BY <1>1, Zenon
  <2>2. \A y \in Props : [x \in Props |-> x \in Live'][y] = (y \in Live')
    OBVIOUS
  <2>3. /\ [[x \in Props |-> x \in Live] EXCEPT ![p] = FALSE][p] = FALSE
        /\ \A y \in Props \ {p} : [[x \in Props |-> x \in Live] EXCEPT ![p] = FALSE][y] = (y \in Live)
    OBVIOUS
  <2> QED BY <2>1, <2>2, <2>3
<1>3. \A x \in Reqs : Stands(lineReq[x], lineReq'[x]) /\ Marks(lineReq[x], lineReq'[x])
  BY <1>1, UneasyAlike, AlikeStands DEF LineTyped, ReqsTyped
<1>4. ~Tied(p)' /\ \A y \in Props \ {p} : Tied(y)' <=> Tied(y)
  <2>1. \A y \in Props : Tied(y)' <=> y \in Live' /\ row'[y].sid \in Line!Ids
    BY DEF Tied, Live
  <2> QED BY <1>1, <1>2, <2>1 DEF Tied
<1>5. PICK Z, X, o : Z = {} /\ X = {o} /\ o = row[p].sid
  OBVIOUS
<1>6. PastAll' \subseteq PastAll /\ Clean \subseteq Clean' /\ strays' >= strays /\ Balanced
  <2>1. PastAll' \ Z = PastAll \ Z
    BY <1>3, PastKeeps
  <2>2. \A y \in Props \ Z : Tied(y)' => Tied(y) /\ row'[y].sid = row[y].sid
    BY <1>1, <1>4
  <2>3. Clean \ Z \subseteq Clean'
    BY <1>3, <2>2, CleanKept
  <2> QED BY <1>1, <1>5, <2>1, <2>3, AllFinite
<1>7. Lost' \subseteq Lost \cup {o}
  <2>1. ASSUME NEW t \in Line!Bought' \ X
        PROVE  /\ t \in Line!Bought /\ (bought'[t].kept <=> bought[t].kept) /\ (t \in Line!Real' <=> t \in Line!Real)
               /\ (Clearing(t)' <=> Clearing(t)) /\ (Unwritten(t)' <=> Unwritten(t))
    <3>1. t \in Line!Bought /\ t \in Line!Ids /\ t # o
      BY <1>1, <1>5, Knowns DEF LineTyped, Line!Bought
    <3>2. t \in Line!Real' <=> \E y \in Props : Tied(y)' /\ row'[y].sid = t
      BY DEF Tied, Line!Real, Live
    <3>3. t \in Line!Real' <=> t \in Line!Real
      BY <1>1, <1>4, <1>5, <3>1, <3>2, TiedReal
    <3> QED BY <1>1, <1>3, <3>1, <3>3, MarksKeep
  <2>2. Lost' \subseteq Lost \cup X
    BY <2>1, LostOutside
  <2> QED BY <1>5, <2>2
<1>8. CASE o \in Line!Ids
  <2>1. strays' >= strays + 1
    BY <1>1, <1>5, <1>8
  <2> QED BY <1>6, <1>7, <2>1, LostStray
<1>9. CASE o \notin Line!Ids
  <2>1. o \notin Lost'
    BY <1>1, <1>9, LostWithin
  <2> QED BY <1>6, <1>7, <2>1, LostSame
<1> QED BY <1>8, <1>9

\* properties are created and change otherwise, the network changes
LEMMA LostEvents ==
  ASSUME LineTyped, LineTyped', LostInv, NewRows, Line!Network \/ UNCHANGED lineOnly, \A p \in Props : Ages(p) /\ ~Deleted(p)
  PROVE  LostInv'
<1>1. UNCHANGED <<row, bought, strays>> /\ strays \in Nat
  BY DEF Line!Network, lineOnly, Line!account, LineTyped, StoreTyped
<1>2. \A x \in Reqs : lineReq'[x] = lineReq[x] \/ lineReq'[x] = Line!Uneasy(lineReq[x])
  BY DEF Line!Network, lineOnly
<1>3. \A x \in Reqs : Stands(lineReq[x], lineReq'[x]) /\ Marks(lineReq[x], lineReq'[x])
  <2>1. \A x \in Reqs : Alike(lineReq[x], lineReq'[x])
    BY <1>2, UneasyAlike DEF LineTyped, ReqsTyped, Alike
  <2> QED BY <2>1, AlikeStands
<1>4. RowsStill
  <2>1. ASSUME NEW p \in Props PROVE Tied(p)' <=> Tied(p)
    <3>1. prop'[p].st = prop[p].st \/ (prop[p].st = "none" /\ prop'[p].st = "live")
      BY DEF Ages, Deleted
    <3>2. prop[p].st = "none" => row[p].sid \notin Line!Ids
      BY NotBought DEF NewRows
    <3> QED BY <1>1, <3>1, <3>2 DEF Tied, Live
  <2> QED BY <1>1, <2>1 DEF RowsStill
<1>5. strays' >= strays
  BY <1>1
<1> QED BY <1>1, <1>3, <1>4, <1>5, BoughtStays, LostStill

\* an image is no larger than what it is the image of
LEMMA ImageSmall ==
  ASSUME NEW S, IsFiniteSet(S), NEW f, DOMAIN f = S, NEW T, \A t \in T : \E x \in S : f[x] = t
  PROVE  IsFiniteSet(T) /\ Cardinality(T) <= Cardinality(S)
<1>1. PICK U, g : U = {f[x] : x \in S} /\ g = [x \in S |-> f[x]]
  OBVIOUS
<1>2. g \in Surjection(S, U)
  BY <1>1 DEF Surjection
<1>3. IsFiniteSet(U) /\ Cardinality(U) <= Cardinality(S)
  BY <1>2, FS_Surjection
<1>4. T \subseteq U
  BY <1>1
<1>5. IsFiniteSet(T) /\ Cardinality(T) <= Cardinality(U)
  BY <1>3, <1>4, FS_Subset
<1>6. Cardinality(T) \in Nat /\ Cardinality(U) \in Nat /\ Cardinality(S) \in Nat
  BY <1>3, <1>5, FS_CardinalityType
<1> QED BY <1>3, <1>5, <1>6

\* there are no more properties with requests than requests
LEMMA CleanFew == ASSUME LineTyped PROVE /\ Cardinality(Clean) \in Nat /\ Cardinality(PastAll) \in Nat
                                         /\ Cardinality(Clean) <= Cardinality(PastAll)
<1>1. IsFiniteSet(PastAll)
  BY ListingAssumption, FS_Subset DEF PastAll
<1>2. PICK f : f = [x \in PastAll |-> lineReq[x].p]
  OBVIOUS
<1>3. DOMAIN f = PastAll /\ \A t \in Clean : \E x \in PastAll : f[x] = t
  BY <1>2 DEF Clean
<1>4. IsFiniteSet(Clean) /\ Cardinality(Clean) <= Cardinality(PastAll)
  BY <1>1, <1>3, ImageSmall
<1> QED BY <1>1, <1>4, FS_CardinalityType

\* a restart: what the requests held may be lost
LEMMA LostRestart == ASSUME LineTyped, LineTyped', LostInv, Line!Restart, prop' = prop PROVE LostInv'
<1>1. PICK Stuck : Stuck = {r \in Reqs : lineReq[r].pc \in {"write", "clear"} /\ lineReq[r].sid \in Line!Ids}
  OBVIOUS
<1>2. /\ UNCHANGED <<row, bought>> /\ lineReq' = [r \in Reqs |-> Line!Idle] /\ strays' = strays + Cardinality(Stuck)
      /\ strays \in Nat /\ strays' \in Nat
  BY <1>1, SameCount DEF Line!Restart, Line!account, LineTyped, StoreTyped
<1>3. IsFiniteSet(Stuck) /\ Cardinality(Stuck) \in Nat
  <2>1. Stuck \subseteq Reqs /\ IsFiniteSet(Reqs)
    BY <1>1, ListingAssumption
  <2> QED BY <2>1, FS_Subset, FS_CardinalityType
<1>4. \A x \in Reqs : ~PastLook(lineReq'[x]) /\ lineReq'[x].pc \notin {"write", "clear"}
  BY <1>2, IdleHolds
<1>5. PastAll' = {} /\ Clean' = {}
  <2>1. PastAll' = {}
    BY <1>4 DEF PastAll, PastLook
  <2>2. Clean' = {}
    BY <2>1 DEF Clean
  <2> QED BY <2>1, <2>2
<1>6. PICK I, f : f = [x \in Stuck |-> lineReq[x].sid] /\ I = {f[x] : x \in Stuck}
  OBVIOUS
<1>7. IsFiniteSet(I) /\ Cardinality(I) <= Cardinality(Stuck)
  BY <1>3, <1>6, ImageSmall
<1>8. Lost' \subseteq Lost \cup I
  <2> SUFFICES ASSUME NEW t \in Lost' PROVE t \in Lost \cup I
    OBVIOUS
  <2>1. t \in Line!Bought /\ t \in Line!Ids
    BY <1>2, LostWithin
  <2>2. ~Clearing(t)' /\ ~Unwritten(t)'
    BY <1>4 DEF Clearing, Unwritten
  <2>3. RowsStill
    BY <1>2, RowsStay
  <2>4. IF bought[t].kept THEN t \notin Line!Real ELSE t \in Line!Real
    BY <1>2, <2>2, <2>3, RealSame DEF Lost
  <2>5. CASE Clearing(t) \/ Unwritten(t)
    <3>1. PICK x \in Reqs : lineReq[x].pc \in {"write", "clear"} /\ lineReq[x].sid = t
      BY <2>5 DEF Clearing, Unwritten
    <3>2. x \in Stuck
      BY <1>1, <2>1, <3>1
    <3> QED BY <1>6, <3>1, <3>2
  <2>6. CASE ~Clearing(t) /\ ~Unwritten(t)
    BY <2>1, <2>4, <2>6 DEF Lost
  <2> QED BY <2>5, <2>6
<1>9. Cardinality(Lost') <= Cardinality(Lost) + Cardinality(Stuck)
  <2>1. IsFiniteSet(Lost) /\ IsFiniteSet(Lost')
    BY AllFinite DEF Balanced, Countable
  <2>2. IsFiniteSet(Lost \cup I) /\ Cardinality(Lost \cup I) = Cardinality(Lost) + Cardinality(I) - Cardinality(Lost \cap I)
    BY <1>7, <2>1, FS_Union
  <2>3. Cardinality(Lost') <= Cardinality(Lost \cup I)
    BY <1>8, <2>2, FS_Subset
  <2>4. IsFiniteSet(Lost \cap I)
    BY <1>7, FS_Subset
  <2>5. /\ Cardinality(Lost') \in Nat /\ Cardinality(Lost) \in Nat /\ Cardinality(I) \in Nat
        /\ Cardinality(Lost \cap I) \in Nat /\ Cardinality(Lost \cup I) \in Nat
    BY <1>7, <2>1, <2>2, <2>4, FS_CardinalityType
  <2> QED BY <1>3, <1>7, <2>2, <2>3, <2>5
<1>10. Cardinality(PastAll)' = 0 /\ Cardinality(Clean)' = 0 /\ Cardinality(Lost)' = Cardinality(Lost')
  BY <1>5, FS_EmptySet
<1>11. Cardinality(Lost) \in Nat /\ Cardinality(Lost') \in Nat
  BY AllFinite DEF Balanced, Countable
<1> QED BY <1>2, <1>3, <1>9, <1>10, <1>11, CleanFew DEF LostInv

\* purchases lost, at every step of the desk
LEMMA LostStep ==
  ASSUME LineTyped, ListTyped, ReadyInv, OwnInv, LostInv, DeskNext \/ UNCHANGED <<listVars, lineOnly>> PROVE LostInv'
<1>0. LineTyped'
  BY LineTypedStep
<1>1. CASE ListStep \/ UNCHANGED <<listVars, lineOnly>>
  <2>1. CASE \E p \in Props : Line!Gone(p)
    BY <1>0, <2>1, LostGone
  <2>2. CASE ~ \E p \in Props : Line!Gone(p)
    <3>1. UNCHANGED lineOnly /\ \A p \in Props : ~Deleted(p)
      BY <1>1, <2>2 DEF ListStep, Deleted, listVars, store
    <3>2. \A p \in Props : Ages(p)
      BY PropsAge
    <3> QED BY <1>0, <3>1, <3>2, LostEvents DEF ReadyInv
  <2> QED BY <2>1, <2>2
<1>2. CASE LineStep
  <2>1. prop' = prop
    BY <1>2, LineLeaves
  <2>2. CASE Line!Settings
    BY <1>0, <2>1, <2>2, LostSettings
  <2>3. CASE \E r \in Reqs : Line!Resolve(r) \/ Line!NumberStep(r) \/ Line!SystemStep(r)
    BY <1>0, <2>1, <2>3, LostResolve, LostBegins, LostLook, LostBuy, LostWrite, LostRemove, LostClear, LostSystem
       DEF Line!NumberStep
  <2>4. CASE Line!Restart
    BY <1>0, <2>1, <2>4, LostRestart
  <2>5. CASE Line!Network
    <3>1. \A p \in Props : Ages(p) /\ ~Deleted(p)
      BY <2>1 DEF Ages, Deleted
    <3> QED BY <1>0, <2>5, <3>1, LostEvents DEF ReadyInv
  <2> QED BY <1>2, <2>2, <2>3, <2>4, <2>5 DEF LineStep, Line!Next
<1> QED BY <1>1, <1>2 DEF DeskNext

\* purchases lost: none at the start
LEMMA LostInit == ASSUME Line!Init PROVE LostInv
<1>1. bought = <<>> /\ strays = 0 /\ lineReq = [r \in Reqs |-> Line!Idle]
  BY DEF Line!Init
<1>2. Lost = {}
  <2>1. Len(bought) = 0
    BY <1>1
  <2>2. Line!Bought = {}
    BY <2>1 DEF Line!Bought
  <2> QED BY <2>2 DEF Lost
<1>3. PastAll = {}
  BY <1>1, IdleHolds DEF PastAll
<1>4. Clean = {}
  BY <1>3 DEF Clean
<1> QED BY <1>1, <1>2, <1>3, <1>4, FS_EmptySet DEF LostInv

\* what nothing refers to, and what a row refers to in vain, is lost
LEMMA LostCounts == ASSUME LineTyped, LostInv PROVE Line!LineKept
<1>1. /\ Line!Orphans \subseteq Lost /\ Line!Dangling \subseteq Lost /\ Line!Orphans \cap Line!Dangling = {}
  <2>1. Line!Orphans \subseteq Lost
    <3> SUFFICES ASSUME NEW s \in Line!Orphans PROVE s \in Lost
      OBVIOUS
    <3>1. s \in Line!Bought /\ bought[s].kept /\ s \notin Line!Real /\ s \notin Line!Held
      BY DEF Line!Orphans
    <3>2. ~Unwritten(s)
      BY <3>1 DEF Unwritten, Line!Held
    <3> QED BY <3>1, <3>2 DEF Lost
  <2>2. Line!Dangling \subseteq Lost
    <3> SUFFICES ASSUME NEW s \in Line!Dangling PROVE s \in Lost
      OBVIOUS
    <3>1. s \in Line!Real /\ ~bought[s].kept /\ s \notin Line!Held
      BY DEF Line!Dangling
    <3>2. s \in Line!Bought
      BY <3>1 DEF Line!Real, LineTyped, StoreTyped
    <3>3. ~Clearing(s)
      BY <3>1 DEF Clearing, Line!Held
    <3> QED BY <3>1, <3>2, <3>3 DEF Lost
  <2> QED BY <2>1, <2>2 DEF Line!Orphans, Line!Dangling
<1>2. IsFiniteSet(Lost)
  <2>1. Line!Bought = 1..Len(bought) /\ Len(bought) \in Nat
    BY Knowns DEF Line!Bought, LineTyped
  <2>2. Len(bought) \in Int /\ 1 \in Int
    BY <2>1
  <2>3. IsFiniteSet(Line!Bought)
    BY <2>1, <2>2, FS_Interval
  <2> QED BY <2>3, FS_Subset DEF Lost
<1>3. PICK O, D : O = Line!Orphans /\ D = Line!Dangling
  OBVIOUS
<1>4. IsFiniteSet(O) /\ IsFiniteSet(D) /\ O \cup D \subseteq Lost
  BY <1>1, <1>2, <1>3, FS_Subset
<1>5. Cardinality(O \cup D) = Cardinality(O) + Cardinality(D)
  <2>1. O \cap D = {}
    BY <1>1, <1>3
  <2>2. Cardinality(O \cup D) = Cardinality(O) + Cardinality(D) - 0
    BY <1>4, <2>1, FS_Union, FS_EmptySet
  <2>3. Cardinality(O) \in Nat /\ Cardinality(D) \in Nat
    BY <1>4, FS_CardinalityType
  <2> QED BY <2>2, <2>3
<1>6. Cardinality(O \cup D) <= Cardinality(Lost) /\ Cardinality(Lost) \in Nat
  BY <1>2, <1>4, FS_Subset, FS_CardinalityType
<1>7. Cardinality(O) \in Nat /\ Cardinality(D) \in Nat
  BY <1>4, FS_CardinalityType
<1>8. Cardinality(O) + Cardinality(D) <= strays
  <2>1. strays \in Nat
    BY DEF LineTyped, StoreTyped
  <2> QED BY <1>5, <1>6, <1>7, <2>1, CleanFew DEF LostInv
<1>9. Line!Cardinality(Line!Orphans) = Cardinality(O) /\ Line!Cardinality(Line!Dangling) = Cardinality(D)
  BY <1>3, SameCount
<1> QED BY <1>8, <1>9 DEF Line!LineKept

\* PhoneLine's types, from the desk's
LEMMA LineOf == ASSUME LineTyped, ListTyped PROVE Line!TypeOK
<1>1. \A s \in Line!Bought : bought[s] \in Line!Purchase
  BY ElementOfSeq DEF LineTyped, StoreTyped, Line!Bought
<1>2. [p \in Props |-> p \in Live] \in [Props -> BOOLEAN]
  OBVIOUS
<1> QED BY <1>1, <1>2 DEF LineTyped, StoreTyped, ListTyped, RestTyped, Line!TypeOK

\* A number the account pays for is a property's number and the other way round, but for as
\* many as there were mishaps.
THEOREM NumbersAreKept == DeskSpec => []LineKept
<1>1. DeskInit => LineTyped /\ ReadyInv /\ OwnInv /\ LostInv
  <2>1. ASSUME DeskInit PROVE LineTyped /\ ReadyInv /\ OwnInv /\ LostInv
    <3>1. \A r \in Reqs : lineReq[r].pc = "idle"
      BY <2>1 DEF DeskInit, Line!Init, Line!Idle
    <3>2. NewRows
      BY <2>1 DEF DeskInit, Line!Init, NewRows
    <3> QED BY <2>1, <3>1, <3>2, LineTypedInit, OwnInit, LostInit DEF DeskInit, ReadyInv, Checked
  <2> QED BY <2>1
<1>2. /\ ListInv /\ LineTyped /\ ReadyInv /\ OwnInv /\ LostInv /\ [DeskNext]_<<listVars, lineOnly>>
      => (LineTyped /\ ReadyInv /\ OwnInv /\ LostInv)'
  BY LineTypedStep, ReadyStep, OwnStep, LostStep DEF ListInv
<1>3. ListInv /\ LineTyped /\ LostInv => LineKept
  BY LostCounts, LineOf DEF ListInv, LineKept
<1> QED BY <1>1, <1>2, <1>3, DeskIsKept, PTL DEF DeskSpec

=============================================================================
