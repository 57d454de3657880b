-------------------------- MODULE Landlords_proofs --------------------------
(***************************************************************************)
(* Proofs about the calls a landlord's assistant takes (VoiceCall) and     *)
(* what the landlord pays for it (Billing), for any calls, plans, requests *)
(* and bounds.                                                             *)
(***************************************************************************)
EXTENDS VoiceCall, Billing, FiniteSetTheorems, WellFoundedInduction, TLAPS

-----------------------------------------------------------------------------
(* Calls.  Of a process that lives every call is InOrder; of one that has  *)
(* died nothing is left that could move.                                   *)

(* Before Start a call has no session, and nobody listens to its socket.   *)
NotStarted(k) ==
    /\ setup[k] # "live" => current[k] = 0 /\ \A e \in Enders : ending[k][e] = "idle"
    /\ current[k] = 0 =>
          /\ k \notin registry /\ k \notin monitor
          /\ resuming[k] = 0 /\ reconnects[k] = 0
          /\ \A s \in Sessions : ws[k][s] = "none"
          /\ \A e \in Enders : ending[k][e] \in {"idle", "done"}

(* Every reconnect counted is a session opened or being opened, up to the  *)
(* one too many, after which there is none.                                *)
Counted(k) ==
    /\ current[k] # 0 /\ reconnects[k] <= MaxReconnects =>
          current[k] + resuming[k] = reconnects[k] + 1
    /\ reconnects[k] = MaxReconnects + 1 =>
          resuming[k] = 0 /\ \A s \in Sessions : ~Live(k, s)

Single(k) ==
    /\ \A s \in Sessions : Live(k, s) => s = current[k]
    /\ resuming[k] <= 1
    /\ resuming[k] > 0 => \A s \in Sessions : ~Live(k, s)

Billed(k) ==
    /\ \A e \in Enders : ending[k][e] = "usage" => log[k] = "ended"
    /\ current[k] # 0 /\ k \notin registry => log[k] = "ended" /\ usage[k] > 0

(* A call whose set-up has begun was connected.                            *)
Waiting(k) == socket[k] \in {"none", "ringing"}
Connected(k) == Waiting(k) => setup[k] = "none"

InOrder(k) == Connected(k) /\ NotStarted(k) /\ Counted(k) /\ Single(k) /\ Billed(k)

Dead == /\ monitor = {}
        /\ \A k \in Calls : resuming[k] = 0 /\ \A s \in Sessions : ~Live(k, s)

Inv == TypeOK /\ (IF up THEN \A k \in Calls : InOrder(k) ELSE Dead)

-----------------------------------------------------------------------------
(* What a step on one call leaves of another.                              *)
Same(j) ==
    /\ setup'[j] = setup[j] /\ ws'[j] = ws[j] /\ current'[j] = current[j]
    /\ reconnects'[j] = reconnects[j] /\ resuming'[j] = resuming[j]
    /\ ending'[j] = ending[j] /\ log'[j] = log[j] /\ usage'[j] = usage[j]
    /\ (Waiting(j)' => Waiting(j))
    /\ (j \in registry' <=> j \in registry) /\ (j \in monitor' <=> j \in monitor)

LEMMA Elsewhere == ASSUME NEW j \in Calls, InOrder(j), Same(j) PROVE InOrder(j)'
  <1>1. NotStarted(j)'
    BY DEF InOrder, NotStarted, Same
  <1>2. Counted(j)'
    BY DEF InOrder, Counted, Same, Live
  <1>3. Single(j)'
    BY DEF InOrder, Single, Same, Live
  <1>4. Billed(j)'
    BY DEF InOrder, Billed, Same
  <1>5. Connected(j)'
    BY DEF InOrder, Connected, Same
  <1> QED BY <1>1, <1>2, <1>3, <1>4, <1>5 DEF InOrder

(* So a step on the call k is sound if it keeps k in order.                *)
LEMMA OneCall ==
  ASSUME Inv, up, up', NEW k \in Calls, TypeOK', InOrder(k)',
         \A j \in Calls : j # k => Same(j)
  PROVE  Inv'
  <1>1. ASSUME NEW j \in Calls PROVE InOrder(j)'
    BY Elsewhere DEF Inv
  <1> QED BY <1>1 DEF Inv

LEMMA SessionNumbers == 1 \in Sessions /\ Sessions \subseteq Nat \ {0}
  BY VoiceAssumption DEF Sessions

LEMMA FailureCounted == TypeOK /\ Fail => failures' \in 0 .. MaxFailures
  BY VoiceAssumption DEF TypeOK, Fail

LEMMA InitInv == Init => Inv
  <1> SUFFICES ASSUME Init PROVE Inv
    OBVIOUS
  <1>1. TypeOK
    BY VoiceAssumption DEF Init, TypeOK
  <1>2. ASSUME NEW k \in Calls PROVE InOrder(k)
    BY VoiceAssumption DEF Init, InOrder, Connected, NotStarted, Counted, Single, Billed, Live
  <1> QED BY <1>1, <1>2 DEF Inv, Init

-----------------------------------------------------------------------------
(* Steps that only move the vendor's socket or the set-up.                 *)
LEMMA DoorStep ==
  ASSUME Inv, NEW k \in Calls, Admit(k) \/ TurnAway(k) \/ Connect(k) \/ MonitorExpires(k)
  PROVE  Inv'
  <1>1. up /\ up'
    BY DEF Inv, Dead, Admit, TurnAway, Connect, MonitorExpires
  <1>2. TypeOK'
    BY DEF Inv, TypeOK, Admit, TurnAway, Connect, MonitorExpires, Hung, memory
  <1>3. ASSUME NEW j \in Calls, j # k PROVE Same(j)
    <2>1. CASE Admit(k) \/ TurnAway(k)
      BY <1>3, <2>1 DEF Inv, TypeOK, Same, Waiting, Admit, TurnAway, memory
    <2>2. CASE Connect(k)
      BY <1>3, <2>2 DEF Inv, TypeOK, Same, Waiting, Connect, memory
    <2>3. CASE MonitorExpires(k)
      BY <1>3, <2>3 DEF Inv, TypeOK, Same, Waiting, MonitorExpires, Hung, memory
    <2> QED BY <2>1, <2>2, <2>3
  <1>4. InOrder(k)
    BY <1>1 DEF Inv
  <1>5. InOrder(k)'
    <2>1. CASE Connect(k)
      BY <2>1, <1>4 
         DEF Inv, TypeOK, Connect, memory, InOrder, Connected, Waiting, NotStarted, Counted,
             Single, Billed, Live
    <2>2. CASE Admit(k) \/ TurnAway(k) \/ MonitorExpires(k)
      <3>1. Same(k)
        BY <2>2 DEF Inv, TypeOK, Same, Waiting, Admit, TurnAway, MonitorExpires, Hung, memory
      <3> QED BY <3>1, <1>4, Elsewhere
    <2> QED BY <2>1, <2>2
  <1> QED BY <1>1, <1>2, <1>3, <1>5, OneCall

LEMMA SetUpStep ==
  ASSUME Inv, NEW k \in Calls, SetUp(k)
  PROVE  Inv'
  <1>1. up /\ up' /\ setup[k] = "running"
    BY DEF Inv, TypeOK, SetUp, SetupFails, Start, StartFails
  <1>2. InOrder(k) /\ current[k] = 0
    BY <1>1 DEF Inv, InOrder, NotStarted
  <1>3. CASE SetupFails(k)
    <2>1. TypeOK'
      BY <1>3, FailureCounted DEF Inv, TypeOK, SetupFails, Hung, memory
    <2>2. ASSUME NEW j \in Calls, j # k PROVE Same(j)
      BY <1>3, <2>2 DEF Inv, TypeOK, Same, Waiting, SetupFails, Hung, memory
    <2>3. InOrder(k)'
      BY <1>1, <1>2, <1>3 DEF Inv, TypeOK, SetupFails, Hung, memory, InOrder, Connected, Waiting, NotStarted, Counted, Single, Billed, Live
    <2> QED BY <1>1, <2>1, <2>2, <2>3, OneCall
  <1>4. CASE Start(k)
    <2>1. TypeOK'
      <3>1. ws' \in [Calls -> [Sessions -> {"none", "open", "closing", "closed"}]]
        BY <1>4, SessionNumbers DEF Inv, TypeOK, Start, Opens
      <3>2. current' \in [Calls -> Sessions \union {0}]
        BY <1>4, SessionNumbers DEF Inv, TypeOK, Start, Opens
      <3> QED BY <1>4, <3>1, <3>2 DEF Inv, TypeOK, Start
    <2>2. ASSUME NEW j \in Calls, j # k PROVE Same(j)
      BY <1>4, <2>2 DEF Inv, TypeOK, Same, Waiting, Start, Opens
    <2>3. /\ ws'[k] = [ws[k] EXCEPT ![1] = "open"] /\ current'[k] = 1
          /\ setup'[k] = "live" /\ k \in registry' /\ log'[k] = "open"
          /\ socket' = socket /\ resuming' = resuming /\ reconnects' = reconnects
          /\ ending' = ending /\ usage' = usage
      BY <1>4 DEF Inv, TypeOK, Start, Opens
    <2>4. \A s \in Sessions : ws'[k][s] = IF s = 1 THEN "open" ELSE "none"
      BY <1>2, <2>3, SessionNumbers DEF Inv, TypeOK, InOrder, NotStarted
    <2>5. InOrder(k)'
      BY <1>1, <1>2, <2>3, <2>4, VoiceAssumption
         DEF Inv, TypeOK, InOrder, Connected, Waiting, NotStarted,
             Counted, Single, Billed, Live
    <2> QED BY <1>1, <2>1, <2>2, <2>5, OneCall
  <1>5. CASE StartFails(k)
    <2>1. TypeOK'
      BY <1>5, FailureCounted DEF Inv, TypeOK, StartFails, memory
    <2>2. ASSUME NEW j \in Calls, j # k PROVE Same(j)
      BY <1>5, <2>2 DEF Inv, TypeOK, Same, Waiting, StartFails, memory
    <2>3. InOrder(k)'
      BY <1>1, <1>2, <1>5 DEF Inv, TypeOK, StartFails, memory, InOrder, Connected, Waiting, NotStarted, Counted, Single, Billed, Live
    <2> QED BY <1>1, <2>1, <2>2, <2>3, OneCall
  <1> QED BY <1>3, <1>4, <1>5 DEF SetUp

-----------------------------------------------------------------------------
(* Closing a session leaves it live: only its close event ends it.         *)
LEMMA ClosingIsLive ==
  ASSUME TypeOK, NEW k \in Calls, CloseSession(k)
  PROVE  /\ ws' \in [Calls -> [Sessions -> {"none", "open", "closing", "closed"}]]
         /\ \A j \in Calls : j # k => ws'[j] = ws[j]
         /\ \A s \in Sessions : Live(k, s)' <=> Live(k, s)
         /\ \A s \in Sessions : ws[k][s] = "none" => ws'[k][s] = "none"
  <1>1. ws'[k] = [s \in Sessions |->
                    IF s = current[k] /\ ws[k][s] = "open" THEN "closing" ELSE ws[k][s]]
    BY DEF TypeOK, CloseSession
  <1>2. ws'[k] \in [Sessions -> {"none", "open", "closing", "closed"}]
    BY <1>1 DEF TypeOK
  <1>3. ws' = [ws EXCEPT ![k] = ws'[k]]
    BY <1>1 DEF TypeOK, CloseSession
  <1> QED BY <1>1, <1>2, <1>3 DEF TypeOK, Live

(* The first step of handleCallEnd, on a call that is listened to.         *)
LEMMA EndBegins ==
  ASSUME Inv, up, NEW k \in Calls, setup[k] = "live", NEW e \in Enders, EndBegin(k, e),
         up' = up, setup' = setup, log' = log, usage' = usage, failures' = failures,
         socket' \in [Calls -> {"none", "ringing", "open", "closing", "closed"}],
         \A j \in Calls : Waiting(j)' => Waiting(j)
  PROVE  Inv'
  <1>1. InOrder(k) /\ (k \in registry => current[k] # 0)
    BY DEF Inv, InOrder, NotStarted
  <1>2. /\ ws' \in [Calls -> [Sessions -> {"none", "open", "closing", "closed"}]]
        /\ \A j \in Calls : j # k => ws'[j] = ws[j]
        /\ \A s \in Sessions : Live(k, s)' <=> Live(k, s)
        /\ \A s \in Sessions : ws[k][s] = "none" => ws'[k][s] = "none"
    BY ClosingIsLive DEF Inv, TypeOK, EndBegin, Live
  <1>3. PICK step \in {"log", "done"} :
           /\ Goto(k, e, step)
           /\ step = "log" => k \in registry
    BY DEF EndBegin
  <1>4. /\ ending' \in [Calls -> [Enders -> {"idle", "log", "usage", "done"}]]
        /\ \A j \in Calls : j # k => ending'[j] = ending[j]
        /\ \A d \in Enders : ending'[k][d] = IF d = e THEN step ELSE ending[k][d]
    BY <1>3 DEF Inv, TypeOK, Goto
  <1>5. TypeOK'
    BY <1>2, <1>4 DEF Inv, TypeOK, EndBegin
  <1>6. ASSUME NEW j \in Calls, j # k PROVE Same(j)
    BY <1>2, <1>4, <1>6 DEF Inv, Same, EndBegin
  <1>7. Connected(k)'
    BY <1>1 DEF InOrder, Connected
  <1>8. NotStarted(k)'
    BY <1>1, <1>2, <1>3, <1>4 DEF InOrder, NotStarted, EndBegin
  <1>9. Counted(k)' /\ Single(k)'
    BY <1>1, <1>2 DEF InOrder, Counted, Single, EndBegin
  <1>10. Billed(k)'
    BY <1>1, <1>3, <1>4 DEF InOrder, Billed, EndBegin
  <1>11. InOrder(k)'
    BY <1>7, <1>8, <1>9, <1>10 DEF InOrder
  <1> QED BY <1>5, <1>6, <1>11, OneCall

LEMMA HangUpStep ==
  ASSUME Inv, NEW k \in Calls, StopEvent(k) \/ SocketCloses(k)
  PROVE  Inv'
  <1>1. CASE StopEvent(k)
    BY <1>1, EndBegins DEF Inv, TypeOK, StopEvent, At, Enders, Waiting
  <1>2. CASE SocketCloses(k) /\ setup[k] = "live"
    <2>1. /\ socket' \in [Calls -> {"none", "ringing", "open", "closing", "closed"}]
          /\ \A j \in Calls : Waiting(j)' => Waiting(j)
      BY <1>2 DEF Inv, TypeOK, SocketCloses, Waiting
    <2> QED BY <1>2, <2>1, EndBegins DEF SocketCloses, Enders
  <1>3. CASE SocketCloses(k) /\ setup[k] # "live"
    <2>1. up /\ up'
      BY <1>3 DEF SocketCloses
    <2>2. TypeOK'
      BY <1>3 DEF Inv, TypeOK, SocketCloses, memory
    <2>3. ASSUME NEW j \in Calls PROVE Same(j)
      BY <1>3 DEF Inv, TypeOK, Same, Waiting, SocketCloses, memory
    <2>4. InOrder(k)'
      BY <2>1, <2>3, Elsewhere DEF Inv
    <2> QED BY <2>1, <2>2, <2>3, <2>4, OneCall
  <1> QED BY <1>1, <1>2, <1>3

(* A rejection that nobody handles ends every call at once.                *)
LEMMA DeathStep == ASSUME Inv, Fail, Dies PROVE Inv'
  <1>1. ws' \in [Calls -> [Sessions -> {"none", "open", "closing", "closed"}]]
    BY DEF Inv, TypeOK, Dies
  <1>2. TypeOK'
    BY <1>1, FailureCounted DEF Inv, TypeOK, Dies
  <1>3. Dead'
    BY DEF Inv, TypeOK, Dies, Dead, Live
  <1> QED BY <1>2, <1>3 DEF Inv, Dies

LEMMA EndLogStep ==
  ASSUME Inv, NEW k \in Calls, NEW e \in Enders, EndLog(k, e)
  PROVE  Inv'
  <1>1. up /\ up' /\ InOrder(k) /\ ending[k][e] = "log"
    BY DEF Inv, EndLog, At
  <1>2. /\ ending' \in [Calls -> [Enders -> {"idle", "log", "usage", "done"}]]
        /\ \A j \in Calls : j # k => ending'[j] = ending[j]
        /\ \A d \in Enders : ending'[k][d] = IF d = e THEN "usage" ELSE ending[k][d]
    BY DEF Inv, TypeOK, EndLog, Goto
  <1>3. TypeOK'
    BY <1>2 DEF Inv, TypeOK, EndLog, memory
  <1>4. ASSUME NEW j \in Calls, j # k PROVE Same(j)
    BY <1>2, <1>4 DEF Inv, TypeOK, Same, Waiting, EndLog, memory
  <1>5. log'[k] = "ended" /\ current[k] # 0
    BY <1>1 DEF Inv, TypeOK, EndLog, InOrder, NotStarted
  <1>6. NotStarted(k)' /\ Connected(k)'
    BY <1>1, <1>2, <1>5 DEF InOrder, NotStarted, Connected, Waiting, EndLog, memory
  <1>7. Counted(k)' /\ Single(k)'
    BY <1>1 DEF InOrder, Counted, Single, Live, EndLog, memory
  <1>8. Billed(k)'
    BY <1>1, <1>5 DEF InOrder, Billed, EndLog, memory
  <1> QED BY <1>1, <1>3, <1>4, <1>6, <1>7, <1>8, OneCall DEF InOrder

LEMMA EndUsageStep ==
  ASSUME Inv, NEW k \in Calls, NEW e \in Enders, EndUsage(k, e)
  PROVE  Inv'
  <1>1. up /\ up' /\ InOrder(k) /\ ending[k][e] = "usage"
    BY DEF Inv, EndUsage, At
  <1>2. /\ ending' \in [Calls -> [Enders -> {"idle", "log", "usage", "done"}]]
        /\ \A j \in Calls : j # k => ending'[j] = ending[j]
        /\ \A d \in Enders : ending'[k][d] = IF d = e THEN "done" ELSE ending[k][d]
    BY DEF Inv, TypeOK, EndUsage, Goto
  <1>9. usage' \in [Calls -> Nat]
    BY DEF Inv, TypeOK, EndUsage
  <1>3. TypeOK'
    BY <1>2, <1>9 DEF Inv, TypeOK, EndUsage
  <1>4. ASSUME NEW j \in Calls, j # k PROVE Same(j)
    BY <1>2, <1>4 DEF Inv, TypeOK, Same, Waiting, EndUsage
  <1>5. log[k] = "ended" /\ usage'[k] > 0 /\ current[k] # 0
    BY <1>1 DEF Inv, TypeOK, EndUsage, InOrder, NotStarted, Billed
  <1>6. NotStarted(k)' /\ Connected(k)'
    BY <1>1, <1>2, <1>5 DEF InOrder, NotStarted, Connected, Waiting, EndUsage
  <1>7. Counted(k)' /\ Single(k)'
    BY <1>1 DEF InOrder, Counted, Single, Live, EndUsage
  <1>8. Billed(k)'
    BY <1>1, <1>2, <1>5 DEF InOrder, Billed, EndUsage
  <1> QED BY <1>1, <1>3, <1>4, <1>6, <1>7, <1>8, OneCall DEF InOrder

LEMMA EndFailsStep ==
  ASSUME Inv, NEW k \in Calls, NEW e \in Enders, EndFails(k, e)
  PROVE  Inv'
  <1>1. CASE e # "stop"
    BY <1>1, DeathStep DEF EndFails
  <1>2. CASE e = "stop"
    <2>1. up /\ up' /\ InOrder(k)
      BY <1>2 DEF Inv, EndFails, At
    <2>2. /\ ending' \in [Calls -> [Enders -> {"idle", "log", "usage", "done"}]]
          /\ \A j \in Calls : j # k => ending'[j] = ending[j]
          /\ \A d \in Enders : ending'[k][d] = IF d = e THEN "done" ELSE ending[k][d]
      <3>1. Goto(k, e, "done")
        BY <1>2 DEF EndFails
      <3> QED BY <3>1 DEF Inv, TypeOK, Goto
    <2>3. TypeOK'
      BY <1>2, <2>2, FailureCounted DEF Inv, TypeOK, EndFails, memory
    <2>4. ASSUME NEW j \in Calls, j # k PROVE Same(j)
      BY <1>2, <2>2, <2>4 DEF Inv, TypeOK, Same, Waiting, EndFails, memory
    <2>5. ending[k][e] # "idle" /\ setup[k] = "live"
      BY <1>2, <2>1 DEF EndFails, At, InOrder, NotStarted
    <2>6. NotStarted(k)' /\ Connected(k)'
      BY <1>2, <2>1, <2>2, <2>5 DEF InOrder, NotStarted, Connected, Waiting, EndFails, memory
    <2>7. Counted(k)' /\ Single(k)'
      BY <1>2, <2>1 DEF InOrder, Counted, Single, Live, EndFails, memory
    <2>8. Billed(k)'
      BY <1>2, <2>1, <2>2 DEF InOrder, Billed, EndFails, memory
    <2> QED BY <2>1, <2>3, <2>4, <2>6, <2>7, <2>8, OneCall DEF InOrder
  <1> QED BY <1>1, <1>2

-----------------------------------------------------------------------------
(* The OpenAI sockets and the monitor.                                     *)
LEMMA SessionClosesStep ==
  ASSUME Inv, NEW k \in Calls, NEW s \in Sessions, SessionCloses(k, s)
  PROVE  Inv'
  <1>1. up /\ up' /\ InOrder(k)
    BY DEF Inv, SessionCloses
  <1>2. /\ s = current[k] /\ current[k] # 0
        /\ resuming[k] = 0 /\ reconnects[k] <= MaxReconnects
    BY <1>1, SessionNumbers, VoiceAssumption
       DEF Inv, TypeOK, SessionCloses, InOrder, Single, Counted, Live
  <1>3. /\ ws' \in [Calls -> [Sessions -> {"none", "open", "closing", "closed"}]]
        /\ \A j \in Calls : j # k => ws'[j] = ws[j]
        /\ \A z \in Sessions : ws'[k][z] = IF z = s THEN "closed" ELSE ws[k][z]
    BY DEF Inv, TypeOK, SessionCloses
  <1>4. \A z \in Sessions : ~Live(k, z)'
    BY <1>1, <1>2, <1>3 DEF InOrder, Single, Live
  <1>5. CASE k \notin registry \/ socket[k] # "open"
    <2>1. UNCHANGED <<socket, reconnects, resuming>>
      BY <1>5 DEF SessionCloses
    <2>2. TypeOK'
      BY <1>3, <2>1 DEF Inv, TypeOK, SessionCloses
    <2>3. ASSUME NEW j \in Calls, j # k PROVE Same(j)
      BY <1>3, <2>1, <2>3 DEF Same, Waiting, SessionCloses
    <2>4. NotStarted(k)' /\ Connected(k)' /\ Billed(k)'
      BY <1>1, <1>2, <2>1 DEF InOrder, NotStarted, Connected, Waiting, Billed, SessionCloses
    <2>5. Counted(k)' /\ Single(k)'
      BY <1>1, <1>2, <1>4, <2>1 DEF InOrder, Counted, Single, SessionCloses
    <2> QED BY <1>1, <2>2, <2>3, <2>4, <2>5, OneCall DEF InOrder
  <1>6. CASE k \in registry /\ socket[k] = "open"
    <2>1. /\ reconnects' = [reconnects EXCEPT ![k] = @ + 1]
          /\ IF reconnects[k] = MaxReconnects
             THEN Hung(k) /\ resuming' = resuming
             ELSE resuming' = [resuming EXCEPT ![k] = @ + 1] /\ socket' = socket
      BY <1>6 DEF SessionCloses
    <2>2. reconnects'[k] = reconnects[k] + 1
      BY <2>1 DEF Inv, TypeOK
    <2>3. resuming'[k] = IF reconnects[k] = MaxReconnects THEN 0 ELSE 1
      BY <1>2, <2>1 DEF Inv, TypeOK
    <2>4. /\ reconnects' \in [Calls -> 0 .. MaxReconnects + 1]
          /\ resuming' \in [Calls -> Nat]
          /\ socket' \in [Calls -> {"none", "ringing", "open", "closing", "closed"}]
          /\ \A j \in Calls : Waiting(j)' => Waiting(j)
      <3>1. reconnects' \in [Calls -> 0 .. MaxReconnects + 1]
        BY <1>2, <2>1, VoiceAssumption DEF Inv, TypeOK
      <3>2. resuming' \in [Calls -> Nat]
        BY <2>1 DEF Inv, TypeOK
      <3>3. CASE Hung(k)
        BY <3>1, <3>2, <3>3 DEF Inv, TypeOK, Hung, Waiting
      <3>4. CASE socket' = socket
        BY <3>1, <3>2, <3>4 DEF Inv, TypeOK, Waiting
      <3> QED BY <2>1, <3>3, <3>4
    <2>5. TypeOK'
      BY <1>3, <2>4 DEF Inv, TypeOK, SessionCloses
    <2>6. ASSUME NEW j \in Calls, j # k PROVE Same(j)
      BY <1>3, <2>1, <2>4, <2>6 DEF Inv, TypeOK, Same, SessionCloses
    <2>7. NotStarted(k)' /\ Connected(k)' /\ Billed(k)'
      BY <1>1, <1>2, <2>4 DEF InOrder, NotStarted, Connected, Billed, SessionCloses
    <2>8. Counted(k)'
      <3>1. current[k] = reconnects[k] + 1 /\ reconnects[k] \in Nat /\ current'[k] = current[k]
        BY <1>1, <1>2, SessionNumbers DEF Inv, TypeOK, InOrder, Counted, SessionCloses
      <3>2. reconnects'[k] <= MaxReconnects => current'[k] + resuming'[k] = reconnects'[k] + 1
        BY <3>1, <2>2, <2>3, VoiceAssumption
      <3>3. reconnects'[k] = MaxReconnects + 1 => resuming'[k] = 0
        BY <3>1, <2>2, <2>3, VoiceAssumption
      <3> QED BY <3>2, <3>3, <1>4 DEF Counted
    <2>9. Single(k)'
      BY <1>4, <2>3 DEF Single
    <2> QED BY <1>1, <2>5, <2>6, <2>7, <2>8, <2>9, OneCall DEF InOrder
  <1> QED BY <1>5, <1>6

LEMMA ResumeStep ==
  ASSUME Inv, NEW k \in Calls, NEW s \in Sessions, Resume(k, s)
  PROVE  Inv'
  <1>1. up /\ up' /\ InOrder(k)
    BY DEF Inv, Resume
  <1>2. /\ resuming[k] = 1 /\ current[k] # 0 /\ reconnects[k] <= MaxReconnects
        /\ s = current[k] + 1 /\ s # 0
        /\ \A z \in Sessions : ~Live(k, z)
    BY <1>1, SessionNumbers, VoiceAssumption
       DEF Inv, TypeOK, Resume, InOrder, NotStarted, Single, Counted
  <1>3. /\ ws' \in [Calls -> [Sessions -> {"none", "open", "closing", "closed"}]]
        /\ \A j \in Calls : j # k => ws'[j] = ws[j]
        /\ \A z \in Sessions : ws'[k][z] = IF z = s THEN "open" ELSE ws[k][z]
    BY DEF Inv, TypeOK, Resume, Opens
  <1>4. /\ current' \in [Calls -> Sessions \union {0}] /\ current'[k] = s
        /\ \A j \in Calls : j # k => current'[j] = current[j]
    BY DEF Inv, TypeOK, Resume, Opens
  <1>5. /\ resuming' \in [Calls -> Nat] /\ resuming'[k] = 0
        /\ \A j \in Calls : j # k => resuming'[j] = resuming[j]
    BY <1>2 DEF Inv, TypeOK, Resume
  <1>6. TypeOK'
    BY <1>3, <1>4, <1>5 DEF Inv, TypeOK, Resume
  <1>7. ASSUME NEW j \in Calls, j # k PROVE Same(j)
    BY <1>3, <1>4, <1>5, <1>7 DEF Same, Waiting, Resume
  <1>8. NotStarted(k)' /\ Connected(k)' /\ Billed(k)'
    BY <1>1, <1>2, <1>4 DEF InOrder, NotStarted, Connected, Waiting, Billed, Resume
  <1>9. Counted(k)'
    BY <1>1, <1>2, <1>4, <1>5, SessionNumbers, VoiceAssumption
       DEF Inv, TypeOK, InOrder, Counted, Resume
  <1>10. Single(k)'
    BY <1>2, <1>3, <1>4, <1>5 DEF Single, Live
  <1> QED BY <1>1, <1>6, <1>7, <1>8, <1>9, <1>10, OneCall DEF InOrder

LEMMA MonitorReconnectsStep ==
  ASSUME Inv, NEW k \in Calls, MonitorReconnects(k)
  PROVE  Inv'
  <1>1. up /\ up' /\ InOrder(k) /\ current[k] # 0
    BY DEF Inv, Dead, MonitorReconnects, InOrder, NotStarted
  <1>2. /\ ws' \in [Calls -> [Sessions -> {"none", "open", "closing", "closed"}]]
        /\ \A j \in Calls : j # k => ws'[j] = ws[j]
        /\ \A s \in Sessions : Live(k, s)' <=> Live(k, s)
    BY ClosingIsLive DEF Inv, MonitorReconnects
  <1>3. TypeOK'
    BY <1>2 DEF Inv, TypeOK, MonitorReconnects
  <1>4. ASSUME NEW j \in Calls, j # k PROVE Same(j)
    BY <1>2, <1>4 DEF Same, Waiting, MonitorReconnects
  <1>5. NotStarted(k)' /\ Connected(k)' /\ Billed(k)'
    BY <1>1 DEF InOrder, NotStarted, Connected, Waiting, Billed, MonitorReconnects
  <1>6. Counted(k)' /\ Single(k)'
    BY <1>1, <1>2 DEF InOrder, Counted, Single, MonitorReconnects
  <1> QED BY <1>1, <1>3, <1>4, <1>5, <1>6, OneCall DEF InOrder

-----------------------------------------------------------------------------
LEMMA NextInv == Inv /\ [Next]_vars => Inv'
  <1>1. ASSUME Inv, Next PROVE Inv'
    <2> PICK k \in Calls :
          \/ Admit(k) \/ TurnAway(k) \/ Connect(k) \/ SetUp(k)
          \/ StopEvent(k) \/ SocketCloses(k)
          \/ \E e \in Enders : EndStep(k, e)
          \/ \E s \in Sessions : SessionCloses(k, s)
          \/ Reopen(k)
          \/ MonitorExpires(k) \/ MonitorReconnects(k)
      BY <1>1 DEF Next
    <2>1. CASE Admit(k) \/ TurnAway(k) \/ Connect(k) \/ MonitorExpires(k)
      BY <1>1, <2>1, DoorStep
    <2>2. CASE SetUp(k)
      BY <1>1, <2>2, SetUpStep
    <2>3. CASE StopEvent(k) \/ SocketCloses(k)
      BY <1>1, <2>3, HangUpStep
    <2>4. CASE \E e \in Enders : EndStep(k, e)
      BY <1>1, <2>4, EndLogStep, EndUsageStep, EndFailsStep DEF EndStep
    <2>5. CASE \E s \in Sessions : SessionCloses(k, s)
      BY <1>1, <2>5, SessionClosesStep
    <2>6. CASE Reopen(k)
      BY <1>1, <2>6, ResumeStep, DeathStep DEF Reopen, ResumeFails
    <2>7. CASE MonitorReconnects(k)
      BY <1>1, <2>7, MonitorReconnectsStep
    <2> QED BY <2>1, <2>2, <2>3, <2>4, <2>5, <2>6, <2>7
  <1>2. ASSUME Inv, UNCHANGED vars PROVE Inv'
    <2>1. TypeOK' /\ up' = up
      BY <1>2 DEF Inv, TypeOK, vars, memory
    <2>2. ASSUME NEW j \in Calls PROVE Same(j)
      BY <1>2 DEF Same, Waiting, vars, memory
    <2>3. CASE up
      BY <1>2, <2>1, <2>2, <2>3, Elsewhere DEF Inv
    <2>4. CASE ~up
      BY <1>2, <2>1, <2>4 DEF Inv, Dead, Live, vars, memory
    <2> QED BY <2>3, <2>4
  <1> QED BY <1>1, <1>2

(* The types of the call's state, its counters included, hold for any      *)
(* number of calls, lines and reconnects.                                  *)
THEOREM TypeCorrect == Spec => []TypeOK
  <1>1. Inv => TypeOK
    BY DEF Inv
  <1> QED BY InitInv, NextInv, <1>1, PTL DEF Spec

(* However closes, reconnects, the monitor and hang-ups interleave, a call *)
(* has one AI session at most.                                             *)
THEOREM SessionsAreSingle == Spec => []OneSession
  <1>1. Inv => OneSession
    BY DEF Inv, InOrder, Single, Dead, OneSession, TypeOK
  <1> QED BY InitInv, NextInv, <1>1, PTL DEF Spec

(* No call leaves the registry without its end logged and its usage        *)
(* recorded, whatever fails and however often handleCallEnd runs.          *)
THEOREM GoneIsBilled == Spec => []BilledWhenGone
  <1>1. Inv => BilledWhenGone
    BY DEF Inv, InOrder, Billed, BilledWhenGone
  <1> QED BY InitInv, NextInv, <1>1, PTL DEF Spec

(* The two promises about a call, for the run's property.                  *)
THEOREM CallsAreKept == Spec => []CallKept
BY TypeCorrect, SessionsAreSingle, GoneIsBilled, PTL DEF CallKept

-----------------------------------------------------------------------------
(* A landlord's plan: types                                                *)

PlanRows == [status : Statuses \cup {"none", "suspended"}, tier : Tiers \cup {"none"}, stripe : 0..MaxSubs]
StripeSubs == [owner : Landlords, status : Statuses, atEnd : BOOLEAN, price : Tiers]
TabSet == [pc : {"idle", "stripe", "row"}, op : {"none", "subscribe", "change", "cancel"},
           who : Landlords \cup {"none"}, tier : Tiers \cup {"none"}, stripe : 0..MaxSubs]

PlanTypes ==
  /\ cast \in Casts
  /\ row \in [Landlords -> PlanRows]
  /\ subs \in 0..MaxSubs /\ DOMAIN stripe = 1..subs
  /\ \A s \in 1..subs : stripe[s] \in StripeSubs
  /\ DOMAIN events \in {1..n : n \in 0..MaxEvents} /\ handled \subseteq DOMAIN events
  /\ \A n \in DOMAIN events : events[n] \in [sub : 1..subs, status : Statuses]
  /\ tab \in [Tabs -> TabSet]

\* a landlord without a row has NoRow, and one with a row owns its subscription
RowsOwn == \A l \in Landlords :
  \/ row[l] = NoRow
  \/ /\ row[l].status # "none" /\ row[l].tier \in Tiers
     /\ row[l].stripe \in 1..subs /\ stripe[row[l].stripe].owner = l

EventsOf(s) == {n \in DOMAIN events : events[n].sub = s}

\* the subscription Stripe has just made for a request that has not written the row
FreshSub(r) ==
  /\ r.stripe \in 1..subs
  /\ stripe[r.stripe] = [owner |-> r.who, status |-> "trialing", atEnd |-> FALSE, price |-> r.tier]
  /\ EventsOf(r.stripe) = {}
  /\ \A l \in Landlords : row[l].stripe # r.stripe

Starting(r) == r.op = "subscribe" /\ r.pc = "row"
TabOK(r) == r.pc # "idle" =>
  /\ r.who \in Landlords /\ r.tier \in Tiers /\ r.op # "none"
  /\ r.op = "subscribe" => row[r.who].stripe = 0 \/ r.who \in raced
  /\ Starting(r) => FreshSub(r)
  /\ r.op # "subscribe" => row[r.who].stripe # 0 /\ r.stripe = row[r.who].stripe
  /\ r.op = "cancel" /\ r.pc = "row" => stripe[r.stripe].atEnd

\* two requests of a landlord at once are a race
TabsOK ==
  /\ \A t \in Tabs : TabOK(tab[t])
  /\ \A t, u \in Tabs : t # u /\ tab[t].pc # "idle" /\ tab[u].pc # "idle" =>
       /\ tab[t].who = tab[u].who => tab[t].who \in raced
       /\ Starting(tab[t]) /\ Starting(tab[u]) => tab[t].stripe # tab[u].stripe

PlanFacts == PlanTypes /\ RowsOwn /\ TabsOK

LEMMA NoRowFacts ==
  /\ NoRow \in PlanRows /\ NoRow.stripe = 0
  /\ NoTab \in TabSet /\ NoTab.pc = "idle"
BY BillingAssumption DEF NoRow, PlanRows, NoTab, TabSet, Statuses

LEMMA RowStripe ==
  ASSUME PlanFacts, NEW l \in Landlords
  PROVE  /\ row[l] = NoRow <=> row[l].stripe = 0
         /\ row[l].stripe # 0 => /\ row[l].stripe \in 1..subs /\ stripe[row[l].stripe].owner = l
                                 /\ row[l].tier \in Tiers /\ row[l].status # "none"
BY NoRowFacts DEF PlanFacts, RowsOwn, PlanTypes

\* what an event that is sent adds
LEMMA EmitFacts ==
  ASSUME PlanTypes, NEW s \in 1..subs, NEW x \in Statuses, Emit(s, x)
  PROVE  \E n \in Nat : /\ DOMAIN events = 1..n /\ DOMAIN events' = 1..(n + 1) /\ n + 1 <= MaxEvents
                        /\ events'[n + 1] = [sub |-> s, status |-> x]
                        /\ \A k \in 1..n : events'[k] = events[k]
<1>1. PICK n \in 0..MaxEvents : DOMAIN events = 1..n
  BY DEF PlanTypes
<1>2. n \in Nat /\ MaxEvents \in Nat /\ cast.events \in 0..MaxEvents
  BY BillingAssumption DEF PlanTypes
<1>3. Cardinality(DOMAIN events) = n
  BY <1>1, <1>2, FS_Interval
<1>4. /\ n < cast.events
      /\ events' = [k \in 1..(n + 1) |-> IF k = n + 1 THEN [sub |-> s, status |-> x] ELSE events[k]]
  BY <1>3 DEF Emit
<1>5. n + 1 \in 1..(n + 1) /\ \A k \in 1..n : k \in 1..(n + 1) /\ k # n + 1
  BY <1>2
<1>6. n + 1 <= MaxEvents
  BY <1>2, <1>4
<1> QED BY <1>1, <1>2, <1>4, <1>5, <1>6

\* after an event is sent: the types of the events, and whose events there are
LEMMA EmitTypes ==
  ASSUME PlanTypes, NEW s \in 1..subs, NEW x \in Statuses, Emit(s, x), UNCHANGED <<handled, subs>>
  PROVE  /\ DOMAIN events' \in {1..n : n \in 0..MaxEvents} /\ handled' \subseteq DOMAIN events'
         /\ \A n \in DOMAIN events' : events'[n] \in [sub : 1..subs', status : Statuses]
         /\ \A u : u # s => EventsOf(u)' = EventsOf(u)
<1>1. PICK n \in Nat : /\ DOMAIN events = 1..n /\ DOMAIN events' = 1..(n + 1) /\ n + 1 <= MaxEvents
                       /\ events'[n + 1] = [sub |-> s, status |-> x]
                       /\ \A k \in 1..n : events'[k] = events[k]
  BY EmitFacts
<1>2. MaxEvents \in Nat /\ n + 1 \in 0..MaxEvents /\ 1..n \subseteq 1..(n + 1)
  BY <1>1, BillingAssumption
<1>3. \A k \in 1..(n + 1) : k = n + 1 \/ k \in 1..n
  BY <1>1
<1>4. \A k \in DOMAIN events' : events'[k] \in [sub : 1..subs', status : Statuses]
  BY <1>1, <1>3 DEF PlanTypes
<1>5. \A u : u # s => EventsOf(u)' = EventsOf(u)
  BY <1>1, <1>2, <1>3 DEF EventsOf
<1> QED BY <1>1, <1>2, <1>4, <1>5 DEF PlanTypes

\* what a step must leave of a request it is not about
LEMMA TabStays ==
  ASSUME PlanFacts, NEW r \in TabSet, TabOK(r), raced \subseteq raced',
         \A l \in Landlords :
           \/ row'[l].stripe = row[l].stripe
           \/ /\ row[l].stripe = 0 /\ row'[l].stripe # 0
              /\ r.who = l => l \in raced /\ r.op = "subscribe",
         \A s \in 1..subs : stripe[s].atEnd => stripe'[s].atEnd,
         Starting(r) => FreshSub(r)'
  PROVE  TabOK(r)'
<1> SUFFICES ASSUME r.pc # "idle" PROVE TabOK(r)'
  BY DEF TabOK
<1>1. /\ r.who \in Landlords /\ r.tier \in Tiers /\ r.op # "none"
      /\ r.op = "subscribe" => row[r.who].stripe = 0 \/ r.who \in raced
      /\ r.op # "subscribe" => row[r.who].stripe # 0 /\ r.stripe = row[r.who].stripe
      /\ r.op = "cancel" /\ r.pc = "row" => stripe[r.stripe].atEnd
  BY DEF TabOK
<1>2. r.op = "subscribe" => row'[r.who].stripe = 0 \/ r.who \in raced'
  BY <1>1
<1>3. r.op # "subscribe" => row'[r.who].stripe # 0 /\ r.stripe = row'[r.who].stripe
  BY <1>1
<1>4. r.op = "cancel" /\ r.pc = "row" => stripe'[r.stripe].atEnd
  BY <1>1, RowStripe
<1> QED BY <1>1, <1>2, <1>3, <1>4 DEF TabOK

\* what a step of request t has to show
LEMMA TabsKept ==
  ASSUME PlanFacts, NEW t \in Tabs, NEW r \in TabSet, tab' = [tab EXCEPT ![t] = r], raced \subseteq raced',
         TabOK(r)', \A u \in Tabs \ {t} : \A q \in TabSet : q = tab[u] => TabOK(q)',
         \A u \in Tabs \ {t} : r.pc # "idle" /\ tab[u].pc # "idle" =>
           /\ tab[u].who = r.who => r.who \in raced'
           /\ Starting(r) /\ Starting(tab[u]) => tab[u].stripe # r.stripe
  PROVE  tab' \in [Tabs -> TabSet] /\ TabsOK'
<1>1. tab \in [Tabs -> TabSet]
  BY DEF PlanFacts, PlanTypes
<1>2. tab' \in [Tabs -> TabSet] /\ \A u \in Tabs : tab'[u] = IF u = t THEN r ELSE tab[u]
  BY <1>1
<1>3. \A u \in Tabs : TabOK(tab[u])'
  <2> SUFFICES ASSUME NEW u \in Tabs, NEW q \in TabSet, q = tab'[u] PROVE TabOK(q)'
    BY <1>2 DEF TabOK, Starting, FreshSub
  <2> QED BY <1>2
<1>4. \A u, v \in Tabs : u # v /\ tab'[u].pc # "idle" /\ tab'[v].pc # "idle" =>
       /\ tab'[u].who = tab'[v].who => tab'[u].who \in raced'
       /\ Starting(tab'[u]) /\ Starting(tab'[v]) => tab'[u].stripe # tab'[v].stripe
  BY <1>2 DEF PlanFacts, TabsOK
<1> QED BY <1>2, <1>3, <1>4 DEF TabsOK

LEMMA BeginFacts ==
  ASSUME PlanFacts, NEW t \in Tabs, NEW r \in TabSet, Begin(t, r), r.pc = "stripe", TabOK(r)
  PROVE  PlanFacts'
<1>1. /\ tab' = [tab EXCEPT ![t] = r] /\ r.who \in cast.who /\ UNCHANGED <<cast, plan>>
      /\ raced' = IF Busy(r.who) # {} THEN raced \cup {r.who} ELSE raced
  BY DEF Begin
<1>2. raced \subseteq raced' /\ UNCHANGED <<row, subs, stripe, events, handled>>
  BY <1>1 DEF plan
<1>3. ASSUME NEW q \in TabSet, TabOK(q) PROVE TabOK(q)'
  BY <1>2, <1>3 DEF TabOK, FreshSub, EventsOf
<1>4. \A u \in Tabs : tab[u] \in TabSet /\ TabOK(tab[u])
  BY DEF PlanFacts, PlanTypes, TabsOK
<1>5. \A u \in Tabs : tab[u].who = r.who => r.who \in raced'
  BY <1>1 DEF Busy
<1>6. tab' \in [Tabs -> TabSet] /\ TabsOK'
  <2>1. TabOK(r)' /\ ~Starting(r) /\ \A q \in TabSet : TabOK(q) => TabOK(q)'
    BY <1>3 DEF Starting
  <2>2. \A u \in Tabs \ {t} : \A q \in TabSet : q = tab[u] => TabOK(q)'
    BY <1>4, <2>1
  <2> QED BY <1>1, <1>2, <1>5, <2>1, <2>2, TabsKept
<1> QED BY <1>1, <1>2, <1>6 DEF PlanFacts, PlanTypes, RowsOwn

LEMMA RequestFacts ==
  ASSUME PlanFacts, NEW t \in Tabs, NEW l \in Landlords, NEW x \in Tiers
  PROVE  Subscribe(t, l, x) \/ ChangePlan(t, l, x) \/ Cancel(t, l) => PlanFacts'
<1>1. row[l] \in PlanRows
  BY DEF PlanFacts, PlanTypes
<1>2. ASSUME NEW o \in {"subscribe", "change", "cancel"}, NEW y \in Tiers,
             Begin(t, Request(o, l, y)), o = "subscribe" <=> row[l].stripe = 0
      PROVE  PlanFacts'
  <2>1. Request(o, l, y) \in TabSet /\ Request(o, l, y).pc = "stripe"
    BY <1>1 DEF Request, TabSet, PlanRows
  <2>2. TabOK(Request(o, l, y))
    BY <1>2 DEF Request, TabOK, Starting
  <2> QED BY <1>2, <2>1, <2>2, BeginFacts
<1>3. row[l] # NoRow => row[l].stripe # 0 /\ row[l].tier \in Tiers
  BY RowStripe
<1>4. CASE Subscribe(t, l, x)
  BY <1>2, <1>4, NoRowFacts DEF Subscribe
<1>5. CASE ChangePlan(t, l, x)
  BY <1>2, <1>3, <1>5 DEF ChangePlan
<1>6. CASE Cancel(t, l)
  <2>1. row[l] # NoRow
    BY <1>6 DEF Cancel, NoRow
  <2> QED BY <1>2, <1>3, <1>6, <2>1 DEF Cancel
<1> QED BY <1>4, <1>5, <1>6

LEMMA MovesFacts ==
  ASSUME PlanFacts, NEW s \in SubIds, StripeCourse(s)
  PROVE  PlanFacts'
<1>1. s \in 1..subs /\ Settled(s) /\ stripe[s] \in StripeSubs
  BY DEF StripeCourse, PlanFacts, PlanTypes
<1>2. PICK x \in Statuses : StripeMoves(s, x)
  BY DEF StripeCourse, Statuses
<1>3. /\ Emit(s, x) /\ stripe' = [stripe EXCEPT ![s] = [stripe[s] EXCEPT !.status = x]]
      /\ UNCHANGED <<cast, row, subs, handled, tab, raced>>
  BY <1>2 DEF StripeMoves, ghost
<1>4. \A u \in 1..subs : stripe'[u] = IF u = s THEN [stripe[s] EXCEPT !.status = x] ELSE stripe[u]
  BY <1>3 DEF PlanFacts, PlanTypes
<1>5. /\ DOMAIN stripe' = 1..subs'
      /\ \A u \in 1..subs' : /\ stripe'[u] \in StripeSubs /\ stripe'[u].owner = stripe[u].owner
                             /\ stripe'[u].atEnd = stripe[u].atEnd
  BY <1>1, <1>3, <1>4 DEF PlanFacts, PlanTypes, StripeSubs
<1>6. /\ DOMAIN events' \in {1..n : n \in 0..MaxEvents} /\ handled' \subseteq DOMAIN events'
      /\ \A n \in DOMAIN events' : events'[n] \in [sub : 1..subs', status : Statuses]
      /\ \A u : u # s => EventsOf(u)' = EventsOf(u)
  BY <1>1, <1>3, EmitTypes DEF PlanFacts
<1>7. PlanTypes'
  BY <1>3, <1>5, <1>6 DEF PlanFacts, PlanTypes
<1>8. RowsOwn'
  BY <1>3, <1>5 DEF PlanFacts, RowsOwn
<1>9. ASSUME NEW t \in Tabs, NEW r \in TabSet, r = tab[t] PROVE TabOK(r)'
  <2>1. TabOK(r)
    BY <1>9 DEF PlanFacts, TabsOK
  <2>2. ASSUME Starting(r) PROVE FreshSub(r)'
    <3>1. FreshSub(r) /\ r.stripe # s
      BY <1>1, <1>9, <2>1, <2>2 DEF Settled, Starting, TabOK
    <3>2. stripe'[r.stripe] = stripe[r.stripe] /\ EventsOf(r.stripe)' = EventsOf(r.stripe)
      BY <1>4, <1>6, <3>1 DEF FreshSub
    <3> QED BY <1>3, <3>1, <3>2 DEF FreshSub
  <2> QED BY <1>3, <1>5, <2>1, <2>2, TabStays
<1>10. TabsOK'
  <2>1. \A t \in Tabs : TabOK(tab[t])'
    <3> SUFFICES ASSUME NEW t \in Tabs, NEW r \in TabSet, r = tab[t] PROVE TabOK(r)'
      BY <1>3 DEF PlanFacts, PlanTypes, TabOK, FreshSub, Starting
    <3> QED BY <1>9
  <2> QED BY <1>3, <2>1 DEF PlanFacts, TabsOK
<1> QED BY <1>7, <1>8, <1>10 DEF PlanFacts

\* a step of rows that keeps who has which subscription
LEMMA RowsFacts ==
  ASSUME PlanFacts, row' \in [Landlords -> PlanRows],
         \A l \in Landlords : \/ row'[l] = row[l]
                              \/ /\ row[l].stripe # 0 /\ row'[l].stripe = row[l].stripe
                                 /\ row'[l].status # "none" /\ row'[l].tier \in Tiers,
         handled' \subseteq DOMAIN events,
         UNCHANGED <<cast, subs, stripe, events, raced>>
  PROVE  /\ tab' = tab => PlanFacts'
         /\ \A t \in Tabs : tab' = [tab EXCEPT ![t] = NoTab] => PlanFacts'
<1>1. RowsOwn'
  <2> SUFFICES ASSUME NEW l \in Landlords, row'[l] # NoRow
               PROVE  /\ row'[l].status # "none" /\ row'[l].tier \in Tiers
                      /\ row'[l].stripe \in 1..subs /\ stripe[row'[l].stripe].owner = l
    BY DEF RowsOwn
  <2>1. CASE row'[l] = row[l]
    BY <2>1, RowStripe
  <2>2. CASE row'[l] # row[l]
    BY <2>2, RowStripe
  <2> QED BY <2>1, <2>2
<1>2. \A l \in Landlords : row'[l].stripe = row[l].stripe
  OBVIOUS
<1>3. \A r \in TabSet : TabOK(r) => TabOK(r)'
  BY <1>2 DEF TabOK, FreshSub, EventsOf
<1>4. \A t \in Tabs : tab[t] \in TabSet /\ TabOK(tab[t])
  BY DEF PlanFacts, PlanTypes, TabsOK
<1>5. ASSUME tab' = tab PROVE PlanFacts'
  <2>1. \A t \in Tabs : TabOK(tab[t])'
    <3> SUFFICES ASSUME NEW t \in Tabs, NEW r \in TabSet, r = tab[t] PROVE TabOK(r)'
      BY <1>4, <1>5 DEF TabOK, FreshSub, Starting
    <3> QED BY <1>3, <1>4
  <2>2. TabsOK'
    BY <1>5, <2>1 DEF PlanFacts, TabsOK
  <2> QED BY <1>1, <1>5, <2>2 DEF PlanFacts, PlanTypes
<1>6. ASSUME NEW t \in Tabs, tab' = [tab EXCEPT ![t] = NoTab] PROVE PlanFacts'
  <2>1. NoTab \in TabSet /\ NoTab.pc = "idle"
    BY NoRowFacts
  <2>2. TabOK(NoTab)'
    BY <2>1 DEF TabOK, NoTab
  <2>3. tab' \in [Tabs -> TabSet] /\ TabsOK'
    BY <1>3, <1>4, <1>6, <2>1, <2>2, TabsKept
  <2> QED BY <1>1, <2>3 DEF PlanFacts, PlanTypes
<1> QED BY <1>5, <1>6

LEMMA WebhookFacts ==
  ASSUME PlanFacts, NEW n \in 1..MaxEvents, Webhook(n)
  PROVE  PlanFacts'
<1>1. /\ n \in DOMAIN events /\ handled' = handled \cup {n}
      /\ row' = [l \in Landlords |-> IF row[l].stripe = events[n].sub
                                     THEN [row[l] EXCEPT !.status = events[n].status] ELSE row[l]]
      /\ UNCHANGED <<cast, subs, stripe, events, tab, raced>>
  BY DEF Webhook, Status
<1>2. events[n].sub \in 1..subs /\ events[n].status \in Statuses /\ subs \in Nat
      /\ row \in [Landlords -> PlanRows] /\ handled \subseteq DOMAIN events
  BY <1>1, BillingAssumption DEF PlanFacts, PlanTypes
<1>3. ASSUME NEW l \in Landlords
      PROVE  /\ row'[l] \in PlanRows
             /\ \/ row'[l] = row[l]
                \/ /\ row[l].stripe # 0 /\ row'[l].stripe = row[l].stripe
                   /\ row'[l].status # "none" /\ row'[l].tier \in Tiers
  <2>1. CASE row[l].stripe = events[n].sub
    <3>1. row[l].stripe # 0 /\ row[l] \in PlanRows /\ row[l].tier \in Tiers
      BY <1>2, <2>1, RowStripe
    <3>2. row'[l] = [row[l] EXCEPT !.status = events[n].status]
      BY <1>1, <2>1
    <3> QED BY <1>2, <3>1, <3>2 DEF PlanRows, Statuses
  <2>2. CASE row[l].stripe # events[n].sub
    BY <1>1, <1>2, <2>2
  <2> QED BY <2>1, <2>2
<1>4. row' \in [Landlords -> PlanRows]
  BY <1>1, <1>3
<1> QED BY <1>1, <1>2, <1>3, <1>4, RowsFacts

LEMMA AdminFacts ==
  ASSUME PlanFacts, NEW l \in Landlords, NEW x \in {"active", "suspended", "canceled"},
         AdminSetsStatus(l, x)
  PROVE  PlanFacts'
<1>1. /\ row[l] # NoRow /\ row' = [row EXCEPT ![l] = [row[l] EXCEPT !.status = x]]
      /\ UNCHANGED <<cast, subs, stripe, events, handled, tab, raced>>
  BY DEF AdminSetsStatus
<1>2. row \in [Landlords -> PlanRows] /\ row[l].stripe # 0 /\ row[l].tier \in Tiers /\ handled \subseteq DOMAIN events
  BY <1>1, RowStripe DEF PlanFacts, PlanTypes
<1>3. [row[l] EXCEPT !.status = x] \in PlanRows
  BY <1>2 DEF PlanRows, Statuses
<1>4. row' \in [Landlords -> PlanRows]
  BY <1>1, <1>2, <1>3
<1>5. \A k \in Landlords : row'[k] = IF k = l THEN [row[l] EXCEPT !.status = x] ELSE row[k]
  BY <1>1, <1>2
<1>6. [row[l] EXCEPT !.status = x].stripe = row[l].stripe /\ [row[l] EXCEPT !.status = x].status = x
      /\ [row[l] EXCEPT !.status = x].tier = row[l].tier
  BY <1>2 DEF PlanRows
<1>7. \A k \in Landlords : \/ row'[k] = row[k]
                           \/ /\ row[k].stripe # 0 /\ row'[k].stripe = row[k].stripe
                              /\ row'[k].status # "none" /\ row'[k].tier \in Tiers
  BY <1>2, <1>5, <1>6
<1> QED BY <1>1, <1>2, <1>4, <1>7, RowsFacts

LEMMA UpdateRowFacts ==
  ASSUME PlanFacts, NEW t \in Tabs, UpdateRow(t)
  PROVE  PlanFacts'
<1> DEFINE l == tab[t].who
           new == IF tab[t].op = "cancel" THEN [row[l] EXCEPT !.status = "canceled"]
                  ELSE [row[l] EXCEPT !.tier = tab[t].tier]
<1>1. /\ tab[t].pc = "row" /\ tab[t].op \in {"change", "cancel"}
      /\ row' = [row EXCEPT ![l] = new] /\ tab' = [tab EXCEPT ![t] = NoTab]
      /\ UNCHANGED <<cast, subs, stripe, events, handled, raced>>
  BY DEF UpdateRow, Ends, ghost
<1>2. l \in Landlords /\ tab[t].tier \in Tiers /\ row[l].stripe # 0
  BY <1>1 DEF PlanFacts, TabsOK, TabOK
<1>3. /\ row \in [Landlords -> PlanRows] /\ row[l].tier \in Tiers /\ row[l].status # "none"
      /\ handled \subseteq DOMAIN events
  BY <1>2, RowStripe DEF PlanFacts, PlanTypes
<1>4. /\ new \in PlanRows /\ new.stripe = row[l].stripe /\ new.status # "none" /\ new.tier \in Tiers
  BY <1>2, <1>3 DEF PlanRows, Statuses
<1> HIDE DEF new, l
<1>5. row' \in [Landlords -> PlanRows] /\ \A k \in Landlords : row'[k] = IF k = l THEN new ELSE row[k]
  BY <1>1, <1>2, <1>3, <1>4
<1>6. \A k \in Landlords : \/ row'[k] = row[k]
                           \/ /\ row[k].stripe # 0 /\ row'[k].stripe = row[k].stripe
                              /\ row'[k].status # "none" /\ row'[k].tier \in Tiers
  BY <1>2, <1>4, <1>5
<1> QED BY <1>1, <1>3, <1>5, <1>6, RowsFacts

LEMMA DiesFacts ==
  ASSUME PlanFacts, NEW t \in Tabs, RequestDies(t)
  PROVE  PlanFacts'
<1>1. /\ tab' = [tab EXCEPT ![t] = NoTab] /\ raced \subseteq raced' /\ UNCHANGED <<cast, plan>>
  BY DEF RequestDies, Ends
<1>2. UNCHANGED <<row, subs, stripe, events, handled>>
  BY <1>1 DEF plan
<1>3. \A r \in TabSet : TabOK(r) => TabOK(r)'
  BY <1>1, <1>2 DEF TabOK, FreshSub, EventsOf
<1>4. \A u \in Tabs : tab[u] \in TabSet /\ TabOK(tab[u])
  BY DEF PlanFacts, PlanTypes, TabsOK
<1>5. NoTab \in TabSet /\ NoTab.pc = "idle" /\ TabOK(NoTab)'
  BY NoRowFacts DEF TabOK, NoTab
<1>6. tab' \in [Tabs -> TabSet] /\ TabsOK'
  BY <1>1, <1>3, <1>4, <1>5, TabsKept
<1> QED BY <1>1, <1>2, <1>6 DEF PlanFacts, PlanTypes, RowsOwn

LEMMA CreatesFacts ==
  ASSUME PlanFacts, NEW t \in Tabs, StripeCreates(t)
  PROVE  PlanFacts'
<1> DEFINE n == subs + 1
           new == [owner |-> tab[t].who, status |-> "trialing", atEnd |-> FALSE, price |-> tab[t].tier]
           r == [tab[t] EXCEPT !.pc = "row", !.stripe = n]
<1>1. /\ tab[t].pc = "stripe" /\ tab[t].op = "subscribe" /\ subs < MaxSubs /\ subs' = n
      /\ stripe' = [s \in 1..n |-> IF s = n THEN new ELSE stripe[s]] /\ tab' = [tab EXCEPT ![t] = r]
      /\ UNCHANGED <<cast, row, events, handled, raced>>
  BY DEF StripeCreates, ghost
<1>2. /\ subs \in Nat /\ MaxSubs \in Nat /\ n \in 0..MaxSubs /\ tab[t] \in TabSet /\ row \in [Landlords -> PlanRows]
      /\ tab \in [Tabs -> TabSet] /\ n \in Nat
  BY <1>1, BillingAssumption DEF PlanFacts, PlanTypes
<1>3. /\ tab[t].who \in Landlords /\ tab[t].tier \in Tiers
      /\ row[tab[t].who].stripe = 0 \/ tab[t].who \in raced
  BY <1>1 DEF PlanFacts, TabsOK, TabOK
<1>4. new \in StripeSubs
  BY <1>3 DEF StripeSubs, Statuses
<1>5. /\ \A s \in 1..subs : s \in 1..n /\ s # n /\ stripe'[s] = stripe[s]
      /\ n \in 1..n /\ n # 0 /\ stripe'[n] = new /\ \A s \in 1..n : s = n \/ s \in 1..subs
  BY <1>1, <1>2
<1>6. r \in TabSet /\ r.pc = "row" /\ r.op = "subscribe" /\ r.who = tab[t].who /\ r.tier = tab[t].tier /\ r.stripe = n
  BY <1>1, <1>2 DEF TabSet
<1> HIDE DEF n, r
<1>7. PlanTypes' \/ tab' \notin [Tabs -> TabSet]
  BY <1>1, <1>2, <1>4, <1>5 DEF PlanFacts, PlanTypes
<1>8. RowsOwn'
  BY <1>1, <1>5 DEF PlanFacts, RowsOwn
<1>9. ~\E k \in DOMAIN events : events[k].sub = n
  BY <1>5 DEF PlanFacts, PlanTypes
<1>10. \A l \in Landlords : row[l].stripe # n
  BY <1>5, RowStripe
<1>11. \A u \in Tabs : tab[u] \in TabSet /\ TabOK(tab[u]) /\ (Starting(tab[u]) => tab[u].stripe \in 1..subs)
  BY <1>2 DEF PlanFacts, TabsOK, TabOK, Starting, FreshSub
<1>12. PICK q \in TabSet : q = r
  BY <1>6
<1>13. TabOK(q)'
  <2>1. FreshSub(q)'
    BY <1>1, <1>5, <1>6, <1>9, <1>10, <1>12 DEF FreshSub, EventsOf
  <2> QED BY <1>1, <1>3, <1>6, <1>12, <2>1 DEF TabOK
<1>14. ASSUME NEW p \in TabSet, TabOK(p) PROVE TabOK(p)'
  <2>1. Starting(p) => FreshSub(p)'
    BY <1>1, <1>5, <1>14 DEF TabOK, Starting, FreshSub, EventsOf
  <2> QED BY <1>1, <1>5, <1>14, <2>1, TabStays
<1>15. tab' \in [Tabs -> TabSet] /\ TabsOK'
  <2>1. \A u \in Tabs \ {t} : tab[u].pc # "idle" /\ tab[u].who = q.who => q.who \in raced'
    BY <1>1, <1>6, <1>12 DEF PlanFacts, TabsOK
  <2>2. \A u \in Tabs \ {t} : Starting(tab[u]) => tab[u].stripe # q.stripe
    BY <1>5, <1>6, <1>11, <1>12
  <2>3. tab' = [tab EXCEPT ![t] = q] /\ raced \subseteq raced'
    BY <1>1, <1>12
  <2>4. \A u \in Tabs \ {t} : \A p \in TabSet : p = tab[u] => TabOK(p)'
    BY <1>11, <1>14
  <2> QED BY <1>13, <2>1, <2>2, <2>3, <2>4, TabsKept
<1> QED BY <1>7, <1>8, <1>15 DEF PlanFacts

LEMMA InsertRowFacts ==
  ASSUME PlanFacts, NEW t \in Tabs, InsertRow(t)
  PROVE  PlanFacts'
<1> DEFINE l == tab[t].who
           new == [status |-> "trialing", tier |-> tab[t].tier, stripe |-> tab[t].stripe]
<1>1. /\ Starting(tab[t]) /\ tab' = [tab EXCEPT ![t] = NoTab]
      /\ row' = IF row[l] # NoRow THEN row ELSE [row EXCEPT ![l] = new]
      /\ UNCHANGED <<cast, subs, stripe, events, handled, raced>>
  BY DEF InsertRow, Ends, ghost, Starting
<1>2. /\ l \in Landlords /\ tab[t].tier \in Tiers /\ FreshSub(tab[t]) /\ row \in [Landlords -> PlanRows]
      /\ handled \subseteq DOMAIN events /\ tab[t] \in TabSet /\ subs \in Nat
  BY <1>1, BillingAssumption DEF PlanFacts, PlanTypes, TabsOK, TabOK, Starting
<1>3. CASE row[l] # NoRow
  BY <1>1, <1>2, <1>3, RowsFacts
<1>4. CASE row[l] = NoRow
  <2>1. /\ new \in PlanRows /\ new.stripe \in 1..subs /\ new.stripe # 0 /\ stripe[new.stripe].owner = l
        /\ \A k \in Landlords : row[k].stripe # new.stripe
    BY <1>2 DEF FreshSub, PlanRows, TabSet, Statuses
  <2> HIDE DEF l
  <2>2. row' \in [Landlords -> PlanRows] /\ \A k \in Landlords : row'[k] = IF k = l THEN new ELSE row[k]
    BY <1>1, <1>2, <1>4, <2>1
  <2>3. RowsOwn'
    BY <1>1, <1>2, <2>1, <2>2 DEF PlanFacts, RowsOwn
  <2>4. row[l].stripe = 0
    BY <1>4, NoRowFacts
  <2>5. ASSUME NEW u \in Tabs \ {t}, NEW q \in TabSet, q = tab[u] PROVE TabOK(q)'
    <3>1. TabOK(q)
      BY <2>5 DEF PlanFacts, TabsOK
    <3>2. ASSUME Starting(q) PROVE FreshSub(q)'
      <4>1. FreshSub(q) /\ q.stripe # tab[t].stripe
        BY <1>1, <2>5, <3>1, <3>2 DEF TabOK, Starting, PlanFacts, TabsOK
      <4> QED BY <1>1, <2>2, <4>1 DEF FreshSub, EventsOf
    <3>3. ASSUME q.who = l, q.pc # "idle" PROVE l \in raced /\ q.op = "subscribe"
      <4>1. q.who = tab[t].who /\ tab[t].pc # "idle"
        BY <1>1, <3>3 DEF l, Starting
      <4>2. l \in raced
        BY <2>5, <3>3, <4>1 DEF PlanFacts, TabsOK
      <4> QED BY <2>4, <3>1, <3>3, <4>2 DEF TabOK
    <3>4. CASE q.pc = "idle"
      BY <3>4 DEF TabOK
    <3>5. CASE q.pc # "idle"
      <4>1. \A k \in Landlords : \/ row'[k].stripe = row[k].stripe
                                 \/ /\ row[k].stripe = 0 /\ row'[k].stripe # 0
                                    /\ q.who = k => k \in raced /\ q.op = "subscribe"
        BY <2>1, <2>2, <2>4, <3>3, <3>5
      <4> QED BY <1>1, <3>1, <3>2, <4>1, TabStays
    <3> QED BY <3>4, <3>5
  <2>6. NoTab \in TabSet /\ NoTab.pc = "idle" /\ TabOK(NoTab)'
    BY NoRowFacts DEF TabOK, NoTab
  <2>7. tab' \in [Tabs -> TabSet] /\ TabsOK'
    BY <1>1, <2>5, <2>6, TabsKept
  <2> QED BY <1>1, <2>2, <2>3, <2>7 DEF PlanFacts, PlanTypes
<1> QED BY <1>3, <1>4

LEMMA ChangesFacts ==
  ASSUME PlanFacts, NEW t \in Tabs, StripeChanges(t)
  PROVE  PlanFacts'
<1> DEFINE s == tab[t].stripe
           new == IF tab[t].op = "cancel" THEN [stripe[s] EXCEPT !.atEnd = TRUE]
                  ELSE [stripe[s] EXCEPT !.price = tab[t].tier]
           r == [tab[t] EXCEPT !.pc = "row"]
<1>1. /\ tab[t].pc = "stripe" /\ tab[t].op \in {"change", "cancel"}
      /\ UNCHANGED <<cast, row, subs, handled, raced>>
  BY DEF StripeChanges, ghost
<1>2. \/ tab' = [tab EXCEPT ![t] = NoTab] /\ UNCHANGED <<stripe, events>>
      \/ stripe' = [stripe EXCEPT ![s] = new] /\ Emit(s, stripe[s].status) /\ tab' = [tab EXCEPT ![t] = r]
  BY DEF StripeChanges, Ends, Goes
<1>3. /\ tab[t] \in TabSet /\ tab[t].who \in Landlords /\ tab[t].tier \in Tiers
      /\ row[tab[t].who].stripe # 0 /\ s = row[tab[t].who].stripe
  BY <1>1 DEF PlanFacts, PlanTypes, TabsOK, TabOK
<1>4. s \in 1..subs /\ stripe[s] \in StripeSubs /\ stripe[s].status \in Statuses
  BY <1>3, RowStripe DEF PlanFacts, PlanTypes, StripeSubs
<1>5. CASE tab' = [tab EXCEPT ![t] = NoTab] /\ UNCHANGED <<stripe, events>>
  <2>1. row \in [Landlords -> PlanRows] /\ handled \subseteq DOMAIN events
    BY DEF PlanFacts, PlanTypes
  <2> QED BY <1>1, <1>5, <2>1, RowsFacts
<1>6. CASE stripe' = [stripe EXCEPT ![s] = new] /\ Emit(s, stripe[s].status) /\ tab' = [tab EXCEPT ![t] = r]
  <2>1. new \in StripeSubs /\ new.owner = stripe[s].owner /\ (stripe[s].atEnd => new.atEnd)
        /\ (tab[t].op = "cancel" => new.atEnd)
    BY <1>1, <1>3, <1>4 DEF StripeSubs
  <2>2. r \in TabSet /\ r.pc = "row" /\ r.op = tab[t].op /\ r.who = tab[t].who /\ r.tier = tab[t].tier /\ r.stripe = s
    BY <1>3 DEF TabSet
  <2> HIDE DEF new, s, r
  <2>3. DOMAIN stripe' = 1..subs /\ \A u \in 1..subs : stripe'[u] = IF u = s THEN new ELSE stripe[u]
    BY <1>6 DEF PlanFacts, PlanTypes
  <2>4. /\ DOMAIN events' \in {1..n : n \in 0..MaxEvents} /\ handled' \subseteq DOMAIN events'
        /\ \A n \in DOMAIN events' : events'[n] \in [sub : 1..subs', status : Statuses]
        /\ \A u : u # s => EventsOf(u)' = EventsOf(u)
    BY <1>1, <1>4, <1>6, EmitTypes DEF PlanFacts
  <2>5. RowsOwn'
    BY <1>1, <2>1, <2>3 DEF PlanFacts, RowsOwn
  <2>6. PICK q \in TabSet : q = r
    BY <2>2
  <2>7. TabOK(q)'
    BY <1>1, <1>3, <1>4, <2>1, <2>2, <2>3, <2>6 DEF TabOK, Starting
  <2>8. ASSUME NEW p \in TabSet, TabOK(p) PROVE TabOK(p)'
    <3>1. Starting(p) => FreshSub(p)'
      <4> SUFFICES ASSUME Starting(p) PROVE FreshSub(p)'
        OBVIOUS
      <4>1. FreshSub(p)
        BY <2>8 DEF TabOK, Starting
      <4>2. p.stripe # s
        BY <1>3, <4>1 DEF FreshSub
      <4> QED BY <1>1, <2>3, <2>4, <4>1, <4>2 DEF FreshSub
    <3> QED BY <1>1, <2>1, <2>3, <2>8, <3>1, TabStays
  <2>9. \A u \in Tabs : tab[u] \in TabSet /\ TabOK(tab[u])
    BY DEF PlanFacts, PlanTypes, TabsOK
  <2>10. ~Starting(q)
    BY <1>1, <2>2, <2>6 DEF Starting
  <2>11. \A u \in Tabs \ {t} : tab[u].pc # "idle" /\ tab[u].who = q.who => q.who \in raced'
    BY <1>1, <2>2, <2>6 DEF PlanFacts, TabsOK
  <2>12. tab' \in [Tabs -> TabSet] /\ TabsOK'
    BY <1>1, <1>6, <2>6, <2>7, <2>8, <2>9, <2>10, <2>11, TabsKept
  <2> QED BY <1>1, <2>1, <2>3, <2>4, <2>5, <2>12 DEF PlanFacts, PlanTypes
<1> QED BY <1>2, <1>5, <1>6

\* the actions of the usage records and of the job
Metering ==
  \/ \E l \in Landlords : Stamp(l) \/ WriteUsage(l) \/ JobSums(l)
  \/ MonthEnds \/ JobReads \/ JobInvoices \/ JobThrows

LEMMA MeterKeepsPlan ==
  ASSUME Metering \/ UNCHANGED billingVars
  PROVE  UNCHANGED <<cast, row, subs, stripe, events, handled, tab, raced, reordered, touched>>
<1>1. CASE UNCHANGED billingVars
  BY <1>1 DEF billingVars, plan, ghost
<1>2. CASE \E l \in Landlords : Stamp(l)
  BY <1>2 DEF Stamp, plan, ghost
<1>3. CASE \E l \in Landlords : WriteUsage(l)
  BY <1>3 DEF WriteUsage, plan
<1>4. CASE \E l \in Landlords : JobSums(l)
  BY <1>4 DEF JobSums, plan, ghost
<1>5. CASE MonthEnds
  BY <1>5 DEF MonthEnds, plan, ghost
<1>6. CASE JobReads
  BY <1>6 DEF JobReads, plan, ghost
<1>7. CASE JobInvoices
  BY <1>7 DEF JobInvoices, plan, ghost
<1>8. CASE JobThrows
  BY <1>8 DEF JobThrows, plan, ghost
<1> QED BY <1>1, <1>2, <1>3, <1>4, <1>5, <1>6, <1>7, <1>8 DEF Metering

LEMMA StepPlanFacts == PlanFacts /\ [BillingNext]_billingVars => PlanFacts'
<1> SUFFICES ASSUME PlanFacts, [BillingNext]_billingVars PROVE PlanFacts'
  OBVIOUS
<1>1. CASE \E s \in SubIds : StripeCourse(s)
  BY <1>1, MovesFacts
<1>2. CASE \E n \in 1..MaxEvents : Webhook(n)
  BY <1>2, WebhookFacts
<1>3. CASE \E t \in Tabs, l \in Landlords, x \in Tiers : Subscribe(t, l, x) \/ ChangePlan(t, l, x)
  BY <1>3, RequestFacts
<1>4. CASE \E t \in Tabs, l \in Landlords : Cancel(t, l)
  BY <1>4, RequestFacts, BillingAssumption
<1>5. CASE \E t \in Tabs : StripeCreates(t) \/ InsertRow(t) \/ StripeChanges(t) \/ UpdateRow(t) \/ RequestDies(t)
  BY <1>5, CreatesFacts, InsertRowFacts, ChangesFacts, UpdateRowFacts, DiesFacts
<1>6. CASE \E l \in Landlords, x \in {"active", "suspended", "canceled"} : AdminSetsStatus(l, x)
  BY <1>6, AdminFacts
<1>7. CASE Metering \/ UNCHANGED billingVars
  <2>1. UNCHANGED <<cast, row, subs, stripe, events, handled, tab, raced>>
    BY <1>7, MeterKeepsPlan
  <2>2. \A u \in Tabs : TabOK(tab[u])'
    <3> SUFFICES ASSUME NEW u \in Tabs, NEW q, q = tab[u] PROVE TabOK(q)'
      BY <2>1 DEF TabOK, FreshSub, Starting
    <3>1. TabOK(q)
      BY DEF PlanFacts, TabsOK
    <3> QED BY <2>1, <3>1 DEF TabOK, FreshSub, EventsOf
  <2> QED BY <2>1, <2>2 DEF PlanFacts, PlanTypes, RowsOwn, TabsOK
<1> QED BY <1>1, <1>2, <1>3, <1>4, <1>5, <1>6, <1>7 DEF BillingNext, Metering

LEMMA StartedFacts ==
  /\ Started \in [Subscribed -> 1..Cardinality(Subscribed)]
  /\ \A k, l \in Subscribed : Started[k] = Started[l] => k = l
  /\ \A s \in 1..Cardinality(Subscribed) : \E l \in Subscribed : Started[l] = s
  /\ Cardinality(Subscribed) \in 0..MaxSubs
<1> DEFINE n == Cardinality(Subscribed)
           F == [Subscribed -> 1..n]
<1>1. IsFiniteSet(Subscribed)
  BY BillingAssumption, FS_Subset
<1>2. n \in Nat /\ n \in 0..MaxSubs /\ ExistsBijection(1..n, Subscribed)
  BY <1>1, BillingAssumption, FS_CardinalityType
<1>3. PICK g \in Bijection(1..n, Subscribed) : TRUE
  BY <1>2 DEF ExistsBijection
<1>4. \E f \in F : \A k, l \in Subscribed : f[k] = f[l] => k = l
  <2>1. /\ g \in [1..n -> Subscribed] /\ \A l \in Subscribed : \E i \in 1..n : g[i] = l
    BY <1>3 DEF Bijection, Surjection, Injection
  <2> DEFINE f == [l \in Subscribed |-> CHOOSE i \in 1..n : g[i] = l]
  <2>2. \A l \in Subscribed : f[l] \in 1..n /\ g[f[l]] = l
    BY <2>1
  <2>3. f \in F
    BY <2>2
  <2> HIDE DEF f
  <2> QED BY <2>2, <2>3
<1>5. Started \in F /\ \A k, l \in Subscribed : Started[k] = Started[l] => k = l
  BY <1>4 DEF Started
<1>6. Started \in Surjection(Subscribed, 1..n)
  <2>1. Started \in Injection(Subscribed, 1..n)
    BY <1>5 DEF Injection, IsInjective
  <2>2. IsFiniteSet(1..n) /\ Cardinality(1..n) = n
    BY <1>2, FS_Interval
  <2> QED BY <2>1, <2>2, FS_Injection
<1> QED BY <1>2, <1>5, <1>6 DEF Surjection

LEMMA InitPlanFacts == BillingInit => PlanFacts
<1> SUFFICES ASSUME BillingInit PROVE PlanFacts
  OBVIOUS
<1> DEFINE n == Cardinality(Subscribed)
<1>1. /\ cast \in Casts /\ subs = n /\ tab = [t \in Tabs |-> NoTab] /\ handled = {} /\ DOMAIN events = {}
      /\ row = [l \in Landlords |->
           IF l \in Subscribed THEN [status |-> "active", tier |-> FirstTier, stripe |-> Started[l]] ELSE NoRow]
      /\ stripe = [s \in 1..n |->
           [owner |-> CHOOSE l \in Subscribed : Started[l] = s, status |-> "active", atEnd |-> FALSE,
            price |-> FirstTier]]
  BY DEF BillingInit
<1>2. /\ n \in 0..MaxSubs /\ n \in Nat /\ MaxSubs \in Nat /\ MaxEvents \in Nat /\ FirstTier \in Tiers
      /\ Subscribed \subseteq Landlords /\ 1..n \subseteq 0..MaxSubs
  BY StartedFacts, BillingAssumption
<1>3. \A l \in Subscribed : Started[l] \in 1..n
  BY StartedFacts
<1>4. \A s \in 1..n : \A l \in Subscribed : Started[l] = s => (CHOOSE k \in Subscribed : Started[k] = s) = l
  BY StartedFacts
<1>5. \A s \in 1..n : (CHOOSE k \in Subscribed : Started[k] = s) \in Subscribed
  BY StartedFacts
<1> HIDE DEF n
<1>6. row \in [Landlords -> PlanRows]
  BY <1>1, <1>2, <1>3, NoRowFacts DEF PlanRows, Statuses
<1>7. DOMAIN stripe = 1..subs /\ \A s \in 1..subs : stripe[s] \in StripeSubs
  BY <1>1, <1>2, <1>5 DEF StripeSubs, Statuses
<1>8. DOMAIN events \in {1..k : k \in 0..MaxEvents}
  <2>1. 1..0 = {} /\ 0 \in 0..MaxEvents
    BY <1>2
  <2> QED BY <1>1, <2>1
<1>9. tab \in [Tabs -> TabSet] /\ \A t \in Tabs : tab[t] = NoTab
  BY <1>1, NoRowFacts
<1>10. PlanTypes
  BY <1>1, <1>2, <1>6, <1>7, <1>8, <1>9 DEF PlanTypes
<1>11. RowsOwn
  BY <1>1, <1>2, <1>3, <1>4 DEF RowsOwn
<1>12. TabsOK
  BY <1>9, NoRowFacts DEF TabsOK, TabOK
<1> QED BY <1>10, <1>11, <1>12 DEF PlanFacts

-----------------------------------------------------------------------------
(* A landlord's plan: Stripe and the row                                   *)

\* the price is the plan's, or that of the plan a request has bought and not written
Repricing(t, l) == tab[t].pc = "row" /\ tab[t].op = "change" /\ tab[t].who = l
PriceInv == \A l \in Landlords : row[l].stripe # 0 /\ l \notin raced =>
  /\ \A t \in Tabs : Repricing(t, l) => stripe[row[l].stripe].price = tab[t].tier
  /\ (\A t \in Tabs : ~Repricing(t, l)) => stripe[row[l].stripe].price = row[l].tier

LEMMA PriceShows == PlanFacts /\ PriceInv => PriceFollowsPlan
<1> SUFFICES ASSUME PlanFacts, PriceInv, NEW l \in Landlords, row[l] # NoRow, l \notin raced, Busy(l) = {}
             PROVE  stripe[row[l].stripe].price = row[l].tier
  BY DEF PriceFollowsPlan
<1>1. \A t \in Tabs : ~Repricing(t, l)
  BY DEF Repricing, Busy
<1> QED BY <1>1, RowStripe DEF PriceInv

\* rows have different subscriptions
LEMMA RowsApart ==
  ASSUME PlanFacts, NEW k \in Landlords, NEW l \in Landlords, row[k].stripe # 0,
         row[k].stripe = row[l].stripe
  PROVE  k = l
BY RowStripe

\* a step that leaves a landlord's price and plan and the requests that reprice alone
LEMMA PriceStays ==
  ASSUME PlanFacts, PriceInv, NEW l \in Landlords, row[l].stripe # 0, l \notin raced,
         row'[l].stripe = row[l].stripe, row'[l].tier = row[l].tier,
         stripe'[row[l].stripe].price = stripe[row[l].stripe].price,
         \A t \in Tabs : tab'[t] = tab[t] \/ (~Repricing(t, l) /\ ~Repricing(t, l)')
  PROVE  /\ \A t \in Tabs : Repricing(t, l)' => stripe'[row'[l].stripe].price = tab'[t].tier
         /\ (\A t \in Tabs : ~Repricing(t, l)') => stripe'[row'[l].stripe].price = row'[l].tier
<1>1. \A t \in Tabs : Repricing(t, l)' => Repricing(t, l) /\ tab'[t] = tab[t]
  BY DEF Repricing
<1>2. (\A t \in Tabs : ~Repricing(t, l)') => \A t \in Tabs : ~Repricing(t, l)
  BY DEF Repricing
<1> QED BY <1>1, <1>2 DEF PriceInv

LEMMA ChangesPrice ==
  ASSUME PlanFacts, PriceInv, NEW t \in Tabs, StripeChanges(t)
  PROVE  PriceInv'
<1> DEFINE s == tab[t].stripe
           l == tab[t].who
           new == IF tab[t].op = "cancel" THEN [stripe[s] EXCEPT !.atEnd = TRUE]
                  ELSE [stripe[s] EXCEPT !.price = tab[t].tier]
           r == [tab[t] EXCEPT !.pc = "row"]
<1>1. /\ tab[t].pc = "stripe" /\ tab[t].op \in {"change", "cancel"} /\ UNCHANGED <<row, subs, raced>>
  BY DEF StripeChanges, ghost
<1>2. \/ tab' = [tab EXCEPT ![t] = NoTab] /\ UNCHANGED stripe
      \/ stripe' = [stripe EXCEPT ![s] = new] /\ tab' = [tab EXCEPT ![t] = r]
  BY DEF StripeChanges, Ends, Goes
<1>3. /\ tab[t] \in TabSet /\ l \in Landlords /\ row[l].stripe # 0 /\ s = row[l].stripe
      /\ tab \in [Tabs -> TabSet]
  BY <1>1 DEF PlanFacts, PlanTypes, TabsOK, TabOK
<1>4. s \in 1..subs /\ stripe[s] \in StripeSubs /\ DOMAIN stripe = 1..subs
  BY <1>3, RowStripe DEF PlanFacts, PlanTypes
<1> SUFFICES ASSUME NEW k \in Landlords, row[k].stripe # 0, k \notin raced
             PROVE  /\ \A u \in Tabs : Repricing(u, k)' => stripe'[row'[k].stripe].price = tab'[u].tier
                    /\ (\A u \in Tabs : ~Repricing(u, k)') => stripe'[row'[k].stripe].price = row'[k].tier
  BY <1>1 DEF PriceInv
<1>5. CASE tab' = [tab EXCEPT ![t] = NoTab] /\ UNCHANGED stripe
  <2>1. \A u \in Tabs : tab'[u] = tab[u] \/ (~Repricing(u, k) /\ ~Repricing(u, k)')
    BY <1>1, <1>3, <1>5 DEF Repricing, NoTab
  <2> QED BY <1>1, <1>5, <2>1, PriceStays
<1>6. CASE stripe' = [stripe EXCEPT ![s] = new] /\ tab' = [tab EXCEPT ![t] = r]
  <2>1. /\ \A u \in 1..subs : stripe'[u] = IF u = s THEN new ELSE stripe[u]
        /\ \A u \in Tabs : tab'[u] = IF u = t THEN r ELSE tab[u]
    BY <1>3, <1>4, <1>6
  <2>2. r.pc = "row" /\ r.op = tab[t].op /\ r.who = l /\ r.tier = tab[t].tier
    BY <1>3 DEF TabSet
  <2>3. /\ tab[t].op = "cancel" => new.price = stripe[s].price
        /\ tab[t].op = "change" => new.price = tab[t].tier
    BY <1>4 DEF StripeSubs
  <2>4. row[k].stripe \in 1..subs /\ (k # l => row[k].stripe # s)
    BY <1>3, RowsApart, RowStripe
  <2>5. CASE k # l \/ tab[t].op = "cancel"
    <3>1. \A u \in Tabs : tab'[u] = tab[u] \/ (~Repricing(u, k) /\ ~Repricing(u, k)')
      BY <1>1, <2>1, <2>2, <2>5 DEF Repricing
    <3>2. stripe'[row[k].stripe].price = stripe[row[k].stripe].price
      BY <1>3, <2>1, <2>3, <2>4, <2>5
    <3> QED BY <1>1, <3>1, <3>2, PriceStays
  <2>6. CASE k = l /\ tab[t].op = "change"
    <3>1. stripe'[row'[k].stripe].price = tab[t].tier
      BY <1>1, <1>3, <2>1, <2>3, <2>4, <2>6
    <3>2. ASSUME NEW u \in Tabs, Repricing(u, k)' PROVE u = t
      <4>1. u # t => tab[u].pc = "row" /\ tab[u].who = l
        BY <2>1, <2>6, <3>2 DEF Repricing
      <4> QED BY <1>1, <2>6, <4>1 DEF PlanFacts, TabsOK
    <3>3. Repricing(t, k)'
      BY <2>1, <2>2, <2>6 DEF Repricing
    <3>4. tab'[t].tier = tab[t].tier
      BY <2>1, <2>2
    <3> QED BY <3>1, <3>2, <3>3, <3>4
  <2> QED BY <1>1, <2>5, <2>6
<1> QED BY <1>2, <1>5, <1>6

LEMMA UpdatePrice ==
  ASSUME PlanFacts, PriceInv, NEW t \in Tabs, UpdateRow(t)
  PROVE  PriceInv'
<1> DEFINE l == tab[t].who
           new == IF tab[t].op = "cancel" THEN [row[l] EXCEPT !.status = "canceled"]
                  ELSE [row[l] EXCEPT !.tier = tab[t].tier]
<1>1. /\ tab[t].pc = "row" /\ tab[t].op \in {"change", "cancel"}
      /\ row' = [row EXCEPT ![l] = new] /\ tab' = [tab EXCEPT ![t] = NoTab]
      /\ UNCHANGED <<subs, stripe, raced>>
  BY DEF UpdateRow, Ends, ghost
<1>2. /\ l \in Landlords /\ row \in [Landlords -> PlanRows] /\ row[l] \in PlanRows /\ tab \in [Tabs -> TabSet]
      /\ \A k \in Landlords : row'[k] = IF k = l THEN new ELSE row[k]
      /\ \A u \in Tabs : tab'[u] = IF u = t THEN NoTab ELSE tab[u]
  BY <1>1 DEF PlanFacts, PlanTypes, TabsOK, TabOK
<1>3. /\ new.stripe = row[l].stripe
      /\ tab[t].op = "cancel" => new.tier = row[l].tier
      /\ tab[t].op = "change" => new.tier = tab[t].tier
  BY <1>2 DEF PlanRows
<1> SUFFICES ASSUME NEW k \in Landlords, row[k].stripe # 0, k \notin raced
             PROVE  /\ \A u \in Tabs : Repricing(u, k)' => stripe'[row'[k].stripe].price = tab'[u].tier
                    /\ (\A u \in Tabs : ~Repricing(u, k)') => stripe'[row'[k].stripe].price = row'[k].tier
  BY <1>1, <1>2, <1>3 DEF PriceInv
<1> HIDE DEF new
<1>5. CASE k # l \/ tab[t].op = "cancel"
  <2>1. \A u \in Tabs : tab'[u] = tab[u] \/ (~Repricing(u, k) /\ ~Repricing(u, k)')
    BY <1>2, <1>5 DEF Repricing, NoTab
  <2>2. row'[k].stripe = row[k].stripe /\ row'[k].tier = row[k].tier
    BY <1>2, <1>3, <1>5
  <2> QED BY <1>1, <2>1, <2>2, PriceStays
<1>6. CASE k = l /\ tab[t].op = "change"
  <2>1. \A u \in Tabs : ~Repricing(u, k)'
    <3> SUFFICES ASSUME NEW u \in Tabs, Repricing(u, k)' PROVE FALSE
      OBVIOUS
    <3>1. u # t /\ tab[u].pc = "row" /\ tab[u].who = k /\ tab[t].who = k
      BY <1>2, <1>6 DEF Repricing, NoTab
    <3> QED BY <1>1, <3>1 DEF PlanFacts, TabsOK
  <2>2. stripe[row[k].stripe].price = tab[t].tier
    BY <1>1, <1>6 DEF PriceInv, Repricing
  <2>3. row'[k].stripe = row[k].stripe /\ row'[k].tier = tab[t].tier
    BY <1>2, <1>3, <1>6
  <2> QED BY <1>1, <2>1, <2>2, <2>3
<1> QED BY <1>1, <1>5, <1>6

\* every landlord with a row keeps price and plan
LEMMA PriceKept ==
  ASSUME PlanFacts, PriceInv, raced \subseteq raced',
         \A l \in Landlords : row'[l].stripe # 0 /\ l \notin raced' =>
           /\ row[l].stripe # 0 /\ row'[l].stripe = row[l].stripe /\ row'[l].tier = row[l].tier
           /\ stripe'[row[l].stripe].price = stripe[row[l].stripe].price
           /\ \A t \in Tabs : tab'[t] = tab[t] \/ (~Repricing(t, l) /\ ~Repricing(t, l)')
  PROVE  PriceInv'
<1> SUFFICES ASSUME NEW l \in Landlords, row'[l].stripe # 0, l \notin raced'
             PROVE  /\ \A t \in Tabs : Repricing(t, l)' => stripe'[row'[l].stripe].price = tab'[t].tier
                    /\ (\A t \in Tabs : ~Repricing(t, l)') => stripe'[row'[l].stripe].price = row'[l].tier
  BY DEF PriceInv
<1> QED BY PriceStays

\* the steps between Stripe and a row, apart from those of a change
LEMMA MovesPrice ==
  ASSUME PlanFacts, PriceInv, NEW s \in SubIds, StripeCourse(s)
  PROVE  PriceInv'
<1>1. s \in 1..subs /\ stripe[s] \in StripeSubs
  BY DEF StripeCourse, PlanFacts, PlanTypes
<1>2. PICK x : StripeMoves(s, x)
  BY DEF StripeCourse
<1>3. /\ stripe' = [stripe EXCEPT ![s] = [stripe[s] EXCEPT !.status = x]]
      /\ UNCHANGED <<row, tab, raced>>
  BY <1>2 DEF StripeMoves, ghost
<1>4. \A u \in 1..subs : stripe'[u].price = stripe[u].price
  <2> SUFFICES ASSUME NEW u \in 1..subs PROVE stripe'[u].price = stripe[u].price
    OBVIOUS
  <2>1. CASE u = s
    BY <1>1, <1>3, <2>1 DEF PlanFacts, PlanTypes, StripeSubs
  <2>2. CASE u # s
    BY <1>3, <2>2 DEF PlanFacts, PlanTypes
  <2> QED BY <2>1, <2>2
<1> QED BY <1>3, <1>4, RowStripe, PriceKept

LEMMA WebhookPrice ==
  ASSUME PlanFacts, PriceInv, NEW n \in 1..MaxEvents, Webhook(n)
  PROVE  PriceInv'
<1>1. /\ row' = [l \in Landlords |-> IF row[l].stripe = events[n].sub
                                     THEN [row[l] EXCEPT !.status = events[n].status] ELSE row[l]]
      /\ UNCHANGED <<stripe, tab, raced>>
  BY DEF Webhook, Status
<1>2. \A l \in Landlords : row'[l].stripe = row[l].stripe /\ row'[l].tier = row[l].tier
  BY <1>1 DEF PlanFacts, PlanTypes, PlanRows
<1> QED BY <1>1, <1>2, PriceKept

LEMMA AdminPrice ==
  ASSUME PlanFacts, PriceInv, NEW l \in Landlords, NEW x \in {"active", "suspended", "canceled"},
         AdminSetsStatus(l, x)
  PROVE  PriceInv'
<1>1. /\ row' = [row EXCEPT ![l] = [row[l] EXCEPT !.status = x]] /\ UNCHANGED <<stripe, tab, raced>>
  BY DEF AdminSetsStatus
<1>2. \A k \in Landlords : row'[k].stripe = row[k].stripe /\ row'[k].tier = row[k].tier
  BY <1>1 DEF PlanFacts, PlanTypes, PlanRows
<1> QED BY <1>1, <1>2, PriceKept

LEMMA BeginPrice ==
  ASSUME PlanFacts, PriceInv, NEW t \in Tabs, NEW r \in TabSet, Begin(t, r), r.pc = "stripe"
  PROVE  PriceInv'
<1>1. /\ tab[t].pc = "idle" /\ tab' = [tab EXCEPT ![t] = r] /\ UNCHANGED <<cast, plan>> /\ raced \subseteq raced'
  BY DEF Begin
<1>2. UNCHANGED <<row, stripe>> /\ \A u \in Tabs : tab'[u] = IF u = t THEN r ELSE tab[u]
  BY <1>1 DEF plan, PlanFacts, PlanTypes
<1>3. \A l \in Landlords, u \in Tabs : tab'[u] = tab[u] \/ (~Repricing(u, l) /\ ~Repricing(u, l)')
  BY <1>1, <1>2 DEF Repricing
<1> QED BY <1>1, <1>2, <1>3, PriceKept

LEMMA RequestPrice ==
  ASSUME PlanFacts, PriceInv, NEW t \in Tabs, NEW l \in Landlords, NEW x \in Tiers
  PROVE  Subscribe(t, l, x) \/ ChangePlan(t, l, x) \/ Cancel(t, l) => PriceInv'
<1>1. row[l] \in PlanRows
  BY DEF PlanFacts, PlanTypes
<1>2. ASSUME NEW o \in {"subscribe", "change", "cancel"}, NEW y \in Tiers, Begin(t, Request(o, l, y))
      PROVE  PriceInv'
  <2>1. Request(o, l, y) \in TabSet /\ Request(o, l, y).pc = "stripe"
    BY <1>1 DEF Request, TabSet, PlanRows
  <2> QED BY <1>2, <2>1, BeginPrice
<1>3. CASE Subscribe(t, l, x) \/ ChangePlan(t, l, x)
  BY <1>2, <1>3 DEF Subscribe, ChangePlan
<1>4. CASE Cancel(t, l)
  <2>1. row[l] # NoRow
    BY <1>4 DEF Cancel, NoRow
  <2>2. row[l].tier \in Tiers
    BY <2>1, RowStripe
  <2> QED BY <1>2, <1>4, <2>2 DEF Cancel
<1> QED BY <1>3, <1>4

LEMMA CreatesPrice ==
  ASSUME PlanFacts, PriceInv, NEW t \in Tabs, StripeCreates(t)
  PROVE  PriceInv'
<1> DEFINE r == [tab[t] EXCEPT !.pc = "row", !.stripe = subs + 1]
<1>1. /\ tab[t].op = "subscribe" /\ tab' = [tab EXCEPT ![t] = r] /\ UNCHANGED <<row, raced>>
      /\ stripe' = [s \in 1..(subs + 1) |-> IF s = subs + 1 THEN
           [owner |-> tab[t].who, status |-> "trialing", atEnd |-> FALSE, price |-> tab[t].tier] ELSE stripe[s]]
  BY DEF StripeCreates, ghost
<1>2. tab[t] \in TabSet /\ tab \in [Tabs -> TabSet] /\ subs \in Nat
  BY BillingAssumption DEF PlanFacts, PlanTypes
<1>3. r.op = "subscribe"
  BY <1>1, <1>2 DEF TabSet
<1>4. \A s \in 1..subs : stripe'[s] = stripe[s]
  BY <1>1, <1>2
<1> HIDE DEF r
<1>5. \A l \in Landlords, u \in Tabs : tab'[u] = tab[u] \/ (~Repricing(u, l) /\ ~Repricing(u, l)')
  BY <1>1, <1>2, <1>3 DEF Repricing
<1> QED BY <1>1, <1>4, <1>5, RowStripe, PriceKept

LEMMA InsertRowPrice ==
  ASSUME PlanFacts, PriceInv, NEW t \in Tabs, InsertRow(t)
  PROVE  PriceInv'
<1> DEFINE l == tab[t].who
           new == [status |-> "trialing", tier |-> tab[t].tier, stripe |-> tab[t].stripe]
<1>1. /\ Starting(tab[t]) /\ tab' = [tab EXCEPT ![t] = NoTab]
      /\ row' = IF row[l] # NoRow THEN row ELSE [row EXCEPT ![l] = new]
      /\ UNCHANGED <<stripe, raced>>
  BY DEF InsertRow, Ends, ghost, Starting
<1>2. /\ l \in Landlords /\ FreshSub(tab[t]) /\ row \in [Landlords -> PlanRows] /\ tab \in [Tabs -> TabSet]
  BY <1>1 DEF PlanFacts, PlanTypes, TabsOK, TabOK, Starting
<1>3. \A k \in Landlords, u \in Tabs : tab'[u] = tab[u] \/ (~Repricing(u, k) /\ ~Repricing(u, k)')
  BY <1>1, <1>2 DEF Repricing, Starting, NoTab
<1>4. CASE row[l] # NoRow
  BY <1>1, <1>3, <1>4, PriceKept
<1>5. CASE row[l] = NoRow
  <2>1. \A k \in Landlords : row'[k] = IF k = l THEN new ELSE row[k]
    BY <1>1, <1>2, <1>5
  <2> SUFFICES ASSUME NEW k \in Landlords, row'[k].stripe # 0, k \notin raced'
               PROVE  /\ \A u \in Tabs : Repricing(u, k)' => stripe'[row'[k].stripe].price = tab'[u].tier
                      /\ (\A u \in Tabs : ~Repricing(u, k)') => stripe'[row'[k].stripe].price = row'[k].tier
    BY DEF PriceInv
  <2>2. CASE k # l
    BY <1>1, <1>3, <2>1, <2>2, PriceStays
  <2>3. CASE k = l
    <3>1. \A u \in Tabs : ~Repricing(u, k)
      <4> SUFFICES ASSUME NEW u \in Tabs, Repricing(u, k) PROVE FALSE
        OBVIOUS
      <4>1. row[l].stripe # 0
        BY <2>3 DEF Repricing, PlanFacts, TabsOK, TabOK
      <4> QED BY <1>5, <4>1, NoRowFacts
    <3>2. \A u \in Tabs : ~Repricing(u, k)'
      BY <1>3, <3>1 DEF Repricing
    <3>3. stripe[tab[t].stripe].price = tab[t].tier
      BY <1>2 DEF FreshSub
    <3> QED BY <1>1, <2>1, <2>3, <3>2, <3>3
  <2> QED BY <2>2, <2>3
<1> QED BY <1>4, <1>5

LEMMA DiesPrice ==
  ASSUME PlanFacts, PriceInv, NEW t \in Tabs, RequestDies(t)
  PROVE  PriceInv'
<1>1. /\ tab' = [tab EXCEPT ![t] = NoTab] /\ raced' = raced \cup {tab[t].who} /\ UNCHANGED <<row, stripe>>
  BY DEF RequestDies, Ends, plan
<1>2. \A l \in Landlords, u \in Tabs :
        l \notin raced' => tab'[u] = tab[u] \/ (~Repricing(u, l) /\ ~Repricing(u, l)')
  BY <1>1 DEF Repricing, NoTab, PlanFacts, PlanTypes
<1> QED BY <1>1, <1>2, PriceKept

LEMMA StepPrice == PlanFacts /\ PriceInv /\ [BillingNext]_billingVars => PriceInv'
<1> SUFFICES ASSUME PlanFacts, PriceInv, [BillingNext]_billingVars PROVE PriceInv'
  OBVIOUS
<1>1. CASE \E s \in SubIds : StripeCourse(s)
  BY <1>1, MovesPrice
<1>2. CASE \E n \in 1..MaxEvents : Webhook(n)
  BY <1>2, WebhookPrice
<1>3. CASE \E t \in Tabs, l \in Landlords, x \in Tiers : Subscribe(t, l, x) \/ ChangePlan(t, l, x)
  BY <1>3, RequestPrice
<1>4. CASE \E t \in Tabs, l \in Landlords : Cancel(t, l)
  BY <1>4, RequestPrice, BillingAssumption
<1>5. CASE \E t \in Tabs : StripeCreates(t) \/ InsertRow(t) \/ StripeChanges(t) \/ UpdateRow(t) \/ RequestDies(t)
  BY <1>5, CreatesPrice, InsertRowPrice, ChangesPrice, UpdatePrice, DiesPrice
<1>6. CASE \E l \in Landlords, x \in {"active", "suspended", "canceled"} : AdminSetsStatus(l, x)
  BY <1>6, AdminPrice
<1>7. CASE Metering \/ UNCHANGED billingVars
  <2>1. UNCHANGED <<row, stripe, tab, raced>>
    BY <1>7, MeterKeepsPlan
  <2> QED BY <2>1, PriceKept
<1> QED BY <1>1, <1>2, <1>3, <1>4, <1>5, <1>6, <1>7 DEF BillingNext, Metering

-----------------------------------------------------------------------------
(* No stray subscription                                                   *)

LEMMA StepStray ==
  ASSUME PlanFacts, NoStraySubscription, [BillingNext]_billingVars
  PROVE  NoStraySubscription'
<1> DEFINE Held(s) == \E t \in Tabs : tab[t].pc = "row" /\ tab[t].stripe = s
           Kept(s) == row[stripe[s].owner].stripe = s \/ stripe[s].owner \in raced \/ Held(s)
<1>0. /\ \A s \in 1..subs : Kept(s) /\ stripe[s] \in StripeSubs /\ stripe[s].owner \in Landlords
      /\ DOMAIN stripe = 1..subs /\ subs \in Nat /\ row \in [Landlords -> PlanRows] /\ tab \in [Tabs -> TabSet]
  BY BillingAssumption DEF NoStraySubscription, PlanFacts, PlanTypes, StripeSubs
<1>1. CASE \E s \in SubIds : StripeCourse(s)
  <2>1. PICK s \in SubIds : StripeCourse(s)
    BY <1>1
  <2>2. PICK x : StripeMoves(s, x)
    BY <2>1 DEF StripeCourse
  <2>3. /\ s \in 1..subs /\ stripe' = [stripe EXCEPT ![s] = [stripe[s] EXCEPT !.status = x]]
        /\ UNCHANGED <<row, subs, tab, raced>>
    BY <2>1, <2>2 DEF StripeCourse, StripeMoves, ghost
  <2>4. \A u \in 1..subs : stripe'[u].owner = stripe[u].owner
    BY <1>0, <2>3 DEF StripeSubs
  <2> QED BY <1>0, <2>3, <2>4 DEF NoStraySubscription
<1>2. CASE \E n \in 1..MaxEvents : Webhook(n)
  <2>1. PICK n \in 1..MaxEvents : Webhook(n)
    BY <1>2
  <2>2. /\ row' = [l \in Landlords |-> IF row[l].stripe = events[n].sub
                                       THEN [row[l] EXCEPT !.status = events[n].status] ELSE row[l]]
        /\ UNCHANGED <<subs, stripe, tab, raced>>
    BY <2>1 DEF Webhook, Status
  <2>3. \A l \in Landlords : row'[l].stripe = row[l].stripe
    BY <1>0, <2>2 DEF PlanRows
  <2> QED BY <1>0, <2>2, <2>3 DEF NoStraySubscription
<1>3. ASSUME NEW t \in Tabs, NEW r, Begin(t, r) PROVE NoStraySubscription'
  <2>1. /\ tab[t].pc = "idle" /\ tab' = [tab EXCEPT ![t] = r] /\ raced \subseteq raced'
        /\ UNCHANGED <<row, subs, stripe>>
    BY <1>3 DEF Begin, plan
  <2>2. \A u \in Tabs \ {t} : tab'[u] = tab[u]
    BY <1>0, <2>1
  <2> QED BY <1>0, <2>1, <2>2 DEF NoStraySubscription
<1>4. ASSUME NEW t \in Tabs, StripeCreates(t) PROVE NoStraySubscription'
  <2> DEFINE n == subs + 1
             r == [tab[t] EXCEPT !.pc = "row", !.stripe = n]
  <2>1. /\ tab[t].pc = "stripe" /\ subs' = n /\ tab' = [tab EXCEPT ![t] = r] /\ UNCHANGED <<row, raced>>
        /\ stripe' = [s \in 1..n |-> IF s = n THEN
             [owner |-> tab[t].who, status |-> "trialing", atEnd |-> FALSE, price |-> tab[t].tier] ELSE stripe[s]]
    BY <1>4 DEF StripeCreates, ghost
  <2>2. /\ \A s \in 1..subs : stripe'[s] = stripe[s]
        /\ \A s \in 1..n : s = n \/ s \in 1..subs
        /\ tab'[t] = r /\ \A u \in Tabs \ {t} : tab'[u] = tab[u]
    BY <1>0, <2>1
  <2>3. r.pc = "row" /\ r.stripe = n
    BY <1>0 DEF TabSet
  <2> QED BY <1>0, <2>1, <2>2, <2>3 DEF NoStraySubscription
<1>5. ASSUME NEW t \in Tabs, InsertRow(t) PROVE NoStraySubscription'
  <2> DEFINE l == tab[t].who
             new == [status |-> "trialing", tier |-> tab[t].tier, stripe |-> tab[t].stripe]
  <2>1. /\ Starting(tab[t]) /\ tab' = [tab EXCEPT ![t] = NoTab]
        /\ row' = IF row[l] # NoRow THEN row ELSE [row EXCEPT ![l] = new]
        /\ UNCHANGED <<subs, stripe, raced>>
    BY <1>5 DEF InsertRow, Ends, ghost, Starting
  <2>2. TabOK(tab[t]) /\ tab[t].pc = "row" /\ tab[t].op = "subscribe"
    BY <2>1 DEF PlanFacts, TabsOK, Starting
  <2>3. /\ l \in Landlords /\ stripe[tab[t].stripe].owner = l /\ (row[l].stripe = 0 \/ l \in raced)
        /\ \A u \in Tabs \ {t} : tab'[u] = tab[u]
    BY <1>0, <2>1, <2>2 DEF TabOK, FreshSub
  <2>4. \/ row' = row /\ l \in raced
        \/ row[l].stripe = 0 /\ \A k \in Landlords : row'[k] = IF k = l THEN new ELSE row[k]
    BY <1>0, <2>1, <2>3, RowStripe
  <2> SUFFICES ASSUME NEW s \in 1..subs PROVE Kept(s)'
    BY <2>1 DEF NoStraySubscription
  <2>5. CASE s = tab[t].stripe
    BY <2>1, <2>3, <2>4, <2>5
  <2>6. CASE s # tab[t].stripe
    <3>1. Held(s) => Held(s)'
      BY <2>3, <2>6
    <3>2. row[stripe[s].owner].stripe = s => row'[stripe[s].owner].stripe = s
      BY <1>0, <2>4
    <3> QED BY <1>0, <2>1, <3>1, <3>2
  <2> QED BY <2>5, <2>6
<1>6. ASSUME NEW t \in Tabs, StripeChanges(t) PROVE NoStraySubscription'
  <2> DEFINE s == tab[t].stripe
             new == IF tab[t].op = "cancel" THEN [stripe[s] EXCEPT !.atEnd = TRUE]
                    ELSE [stripe[s] EXCEPT !.price = tab[t].tier]
  <2>1. /\ tab[t].pc = "stripe" /\ UNCHANGED <<row, subs, raced>>
        /\ \E r : tab' = [tab EXCEPT ![t] = r]
        /\ stripe' = stripe \/ stripe' = [stripe EXCEPT ![s] = new]
    BY <1>6 DEF StripeChanges, ghost, Ends, Goes
  <2>2. \A u \in Tabs \ {t} : tab'[u] = tab[u]
    BY <1>0, <2>1
  <2>3. \A u \in 1..subs : stripe'[u].owner = stripe[u].owner
    BY <1>0, <2>1 DEF StripeSubs
  <2> QED BY <1>0, <2>1, <2>2, <2>3 DEF NoStraySubscription
<1>7. ASSUME NEW t \in Tabs, UpdateRow(t) \/ RequestDies(t) PROVE NoStraySubscription'
  <2>1. /\ tab[t].pc # "idle" /\ tab' = [tab EXCEPT ![t] = NoTab] /\ raced \subseteq raced'
        /\ UNCHANGED <<subs, stripe>>
    BY <1>7 DEF UpdateRow, RequestDies, Ends, plan, ghost
  <2>2. \A k \in Landlords : row'[k].stripe = row[k].stripe
    BY <1>0, <1>7 DEF UpdateRow, RequestDies, plan, PlanRows
  <2>3. \A u \in Tabs \ {t} : tab'[u] = tab[u]
    BY <1>0, <2>1
  <2>4. \/ row[tab[t].who].stripe = tab[t].stripe
        \/ tab[t].who \in raced'
    BY <1>7, <2>1 DEF UpdateRow, RequestDies, PlanFacts, TabsOK, TabOK
  <2>5. tab[t].pc = "row" => tab[t].who \in Landlords /\ (tab[t].stripe \in 1..subs => stripe[tab[t].stripe].owner = tab[t].who)
    <3> SUFFICES ASSUME tab[t].pc = "row"
                 PROVE  tab[t].who \in Landlords /\ (tab[t].stripe \in 1..subs => stripe[tab[t].stripe].owner = tab[t].who)
      OBVIOUS
    <3>1. CASE tab[t].op = "subscribe"
      <4>1. TabOK(tab[t])
        BY DEF PlanFacts, TabsOK
      <4> QED BY <3>1, <4>1 DEF TabOK, Starting, FreshSub
    <3>2. CASE tab[t].op # "subscribe"
      <4>1. tab[t].who \in Landlords /\ row[tab[t].who].stripe # 0 /\ tab[t].stripe = row[tab[t].who].stripe
        BY <3>2 DEF PlanFacts, TabsOK, TabOK
      <4> QED BY <4>1, RowStripe
    <3> QED BY <3>1, <3>2
  <2> SUFFICES ASSUME NEW s \in 1..subs PROVE Kept(s)'
    BY <2>1 DEF NoStraySubscription
  <2>6. CASE tab[t].pc = "row" /\ tab[t].stripe = s
    BY <1>0, <2>1, <2>2, <2>4, <2>5, <2>6
  <2>7. CASE ~(tab[t].pc = "row" /\ tab[t].stripe = s)
    <3>1. Held(s) => Held(s)'
      BY <2>3, <2>7
    <3> QED BY <1>0, <2>1, <2>2, <3>1
  <2> QED BY <2>6, <2>7
<1>8. CASE \E l \in Landlords, x \in {"active", "suspended", "canceled"} : AdminSetsStatus(l, x)
  <2>1. PICK l \in Landlords, x \in {"active", "suspended", "canceled"} : AdminSetsStatus(l, x)
    BY <1>8
  <2>2. /\ row' = [row EXCEPT ![l] = [row[l] EXCEPT !.status = x]] /\ UNCHANGED <<subs, stripe, tab, raced>>
    BY <2>1 DEF AdminSetsStatus
  <2>3. \A k \in Landlords : row'[k].stripe = row[k].stripe
    BY <1>0, <2>2 DEF PlanRows
  <2> QED BY <1>0, <2>2, <2>3 DEF NoStraySubscription
<1>9. CASE Metering \/ UNCHANGED billingVars
  <2>1. UNCHANGED <<row, subs, stripe, tab, raced>>
    BY <1>9, MeterKeepsPlan
  <2> QED BY <2>1 DEF NoStraySubscription
<1>10. CASE \E t \in Tabs, l \in Landlords : (\E x \in Tiers : Subscribe(t, l, x) \/ ChangePlan(t, l, x)) \/ Cancel(t, l)
  BY <1>3, <1>10 DEF Subscribe, ChangePlan, Cancel
<1> HIDE DEF Held, Kept
<1> QED BY <1>1, <1>2, <1>4, <1>5, <1>6, <1>7, <1>8, <1>9, <1>10 DEF BillingNext, Metering

-----------------------------------------------------------------------------
(* The row and Stripe's events                                             *)

\* the last event of a subscription says what Stripe has
LastTold == \A s \in 1..subs : \A n \in EventsOf(s) :
  (\A k \in EventsOf(s) : k <= n) => events[n].status = stripe[s].status

\* a row says what the last event handled says, unless it was canceled for the end of the period
Says(l, s, x) == row[l].status = x \/ (row[l].status = "canceled" /\ stripe[s].atEnd)
Told(s) == EventsOf(s) \cap handled
Follows(l) == l \notin touched => \A s \in SubIds : row[l].stripe = s /\ s \notin reordered =>
  /\ EventsOf(s) = {} => Says(l, s, stripe[s].status)
  /\ \A n \in Told(s) : (\A k \in Told(s) : k <= n) => Says(l, s, events[n].status)
AgreeInv == LastTold /\ \A l \in Landlords : Follows(l)

LEMMA LastExists ==
  ASSUME NEW n \in Nat, NEW L \in SUBSET (1..n), L # {}
  PROVE  \E l \in L : \A k \in L : k <= l
<1> DEFINE S == {n - l : l \in L}
<1>1. \A l \in L : l \in Nat /\ n - l \in Nat
  OBVIOUS
<1>2. S \subseteq Nat /\ S # {}
  BY <1>1
<1>3. IsWellFoundedOn(OpToRel(<, Nat), Nat)
  BY NatLessThanWellFounded
<1> HIDE DEF S
<1>4. PICK x \in S : \A y \in S : ~(<<y, x>> \in OpToRel(<, Nat))
  BY <1>2, <1>3, WFMin
<1>5. x \in Nat /\ \A y \in S : y \in Nat
  BY <1>2, <1>4
<1>6. \A y \in S : ~(y < x)
  BY <1>4, <1>5 DEF OpToRel
<1> USE DEF S
<1>7. PICK l \in L : x = n - l
  BY <1>4
<1>8. ASSUME NEW k \in L PROVE k <= l
  <2>1. n - k \in S /\ k \in Nat /\ l \in Nat
    BY <1>1
  <2>2. ~(n - k < n - l)
    BY <1>6, <1>7, <2>1
  <2> QED BY <2>1, <2>2
<1> QED BY <1>8

LEMMA AgreeShows == PlanFacts /\ AgreeInv => RowAgrees
<1> SUFFICES ASSUME PlanFacts, AgreeInv PROVE RowAgrees
  OBVIOUS
<1>0. \A k \in Landlords : row[k].stripe \in 0..MaxSubs
  BY DEF PlanFacts, PlanTypes, PlanRows
<1> SUFFICES ASSUME NEW l \in Landlords \ touched, NEW s \in 0..MaxSubs, s = row[l].stripe,
                    s # 0, s \notin reordered, \A n \in DOMAIN events : events[n].sub = s => n \in handled
             PROVE  Says(l, s, stripe[s].status)
  BY <1>0 DEF RowAgrees, Says
<1>1. s \in 1..subs /\ s \in SubIds
  <2>1. s \in 1..subs
    BY RowStripe
  <2> QED BY <2>1, BillingAssumption DEF PlanFacts, PlanTypes, SubIds
<1>2. EventsOf(s) = Told(s)
  BY DEF EventsOf, Told
<1>3. CASE EventsOf(s) = {}
  BY <1>1, <1>3 DEF AgreeInv, Follows
<1>4. CASE EventsOf(s) # {}
  <2>1. PICK m \in 0..MaxEvents : DOMAIN events = 1..m
    BY DEF PlanFacts, PlanTypes
  <2>2. m \in Nat /\ EventsOf(s) \in SUBSET (1..m)
    BY <2>1, BillingAssumption DEF EventsOf
  <2>3. PICK n \in EventsOf(s) : \A k \in EventsOf(s) : k <= n
    BY <1>4, <2>2, LastExists
  <2>4. events[n].status = stripe[s].status
    BY <1>1, <2>3 DEF AgreeInv, LastTold
  <2>5. Says(l, s, events[n].status)
    BY <1>1, <1>2, <2>3 DEF AgreeInv, Follows
  <2> QED BY <2>4, <2>5
<1> QED BY <1>3, <1>4

\* nothing is sent, and Stripe's states stay
LEMMA ToldKept ==
  ASSUME LastTold, UNCHANGED <<subs, events>>, \A s \in 1..subs : stripe'[s].status = stripe[s].status
  PROVE  LastTold'
<1> SUFFICES ASSUME NEW s \in 1..subs, NEW n \in EventsOf(s), \A k \in EventsOf(s) : k <= n
             PROVE  events[n].status = stripe'[s].status
  BY DEF LastTold, EventsOf
<1> QED BY DEF LastTold

\* something is sent: it is the last of its subscription
LEMMA ToldEmits ==
  ASSUME PlanTypes, LastTold, NEW s \in 1..subs, NEW x \in Statuses, Emit(s, x), UNCHANGED subs,
         stripe'[s].status = x, \A u \in 1..subs \ {s} : stripe'[u] = stripe[u]
  PROVE  /\ LastTold'
         /\ \A n \in DOMAIN events : n \in DOMAIN events' /\ events'[n] = events[n]
         /\ \A u : EventsOf(u)' = {} => EventsOf(u) = {} /\ u # s
<1>1. PICK n \in Nat : /\ DOMAIN events = 1..n /\ DOMAIN events' = 1..(n + 1) /\ n + 1 <= MaxEvents
                       /\ events'[n + 1] = [sub |-> s, status |-> x]
                       /\ \A k \in 1..n : events'[k] = events[k]
  BY EmitFacts
<1>2. 1..n \subseteq 1..(n + 1) /\ n + 1 \in 1..(n + 1) /\ \A k \in 1..(n + 1) : k = n + 1 \/ k \in 1..n
  BY <1>1
<1>3. n + 1 \in EventsOf(s)' /\ \A u : EventsOf(u) \subseteq EventsOf(u)'
  BY <1>1, <1>2 DEF EventsOf
<1>4. \A u : u # s => EventsOf(u)' = EventsOf(u)
  BY <1>1, <1>2 DEF EventsOf
<1>5. ASSUME NEW u \in 1..subs, NEW m \in EventsOf(u)', \A k \in EventsOf(u)' : k <= m
      PROVE  events'[m].status = stripe'[u].status
  <2>1. CASE u = s
    <3>1. m \in 1..(n + 1) /\ n + 1 <= m
      BY <1>1, <1>3, <1>5, <2>1 DEF EventsOf
    <3>2. m = n + 1
      BY <1>1, <3>1
    <3> QED BY <1>1, <2>1, <3>2
  <2>2. CASE u # s
    <3>1. m \in EventsOf(u) /\ \A k \in EventsOf(u) : k <= m
      BY <1>4, <1>5, <2>2
    <3>2. m \in 1..n /\ events[m].status = stripe[u].status
      BY <1>1, <3>1 DEF EventsOf, LastTold
    <3> QED BY <1>1, <2>2, <3>2
  <2> QED BY <2>1, <2>2
<1>6. LastTold'
  BY <1>5 DEF LastTold
<1> QED BY <1>1, <1>2, <1>3, <1>6

\* what a step leaves of a row that follows
Undisturbed(l) ==
  /\ row'[l].stripe = row[l].stripe
  /\ \A s \in SubIds : row[l].stripe = s =>
       /\ stripe[s].atEnd => stripe'[s].atEnd
       /\ row'[l].status = row[l].status \/ (row'[l].status = "canceled" /\ stripe'[s].atEnd)
       /\ EventsOf(s)' = {} => EventsOf(s) = {} /\ stripe'[s].status = stripe[s].status

LEMMA FollowsOn ==
  ASSUME PlanFacts, NEW l \in Landlords, Follows(l), UNCHANGED handled, touched \subseteq touched',
         reordered \subseteq reordered', l \notin touched' => Undisturbed(l),
         \A n \in DOMAIN events : n \in DOMAIN events' /\ events'[n] = events[n]
  PROVE  Follows(l)'
<1> SUFFICES ASSUME l \notin touched', NEW s \in SubIds, row'[l].stripe = s, s \notin reordered'
             PROVE  /\ EventsOf(s)' = {} => Says(l, s, stripe[s].status)'
                    /\ \A n \in Told(s)' : (\A k \in Told(s)' : k <= n) => Says(l, s, events[n].status)'
  BY DEF Follows
<1>1. /\ row[l].stripe = s /\ l \notin touched /\ s \notin reordered
      /\ stripe[s].atEnd => stripe'[s].atEnd
      /\ row'[l].status = row[l].status \/ (row'[l].status = "canceled" /\ stripe'[s].atEnd)
      /\ EventsOf(s)' = {} => EventsOf(s) = {} /\ stripe'[s].status = stripe[s].status
  BY DEF Undisturbed
<1>2. \A x : Says(l, s, x) => row'[l].status = x \/ (row'[l].status = "canceled" /\ stripe'[s].atEnd)
  BY <1>1 DEF Says
<1>3. EventsOf(s)' = {} => Says(l, s, stripe[s].status)'
  BY <1>1, <1>2 DEF Follows, Says
<1>4. Told(s)' = Told(s) /\ \A n \in Told(s) : events'[n] = events[n]
  BY DEF Told, EventsOf, PlanFacts, PlanTypes
<1>5. ASSUME NEW n \in Told(s)', \A k \in Told(s)' : k <= n PROVE Says(l, s, events[n].status)'
  <2>1. Says(l, s, events[n].status) /\ events'[n] = events[n]
    BY <1>1, <1>4, <1>5 DEF Follows
  <2> QED BY <1>2, <2>1 DEF Says
<1> QED BY <1>3, <1>5

\* a step that sends nothing and changes no status
LEMMA AgreeKept ==
  ASSUME PlanFacts, AgreeInv, UNCHANGED <<subs, events, handled>>, touched \subseteq touched',
         reordered \subseteq reordered',
         \A s \in 1..subs : stripe'[s] = stripe[s],
         \A l \in Landlords : l \notin touched' => row'[l].stripe = row[l].stripe /\ row'[l].status = row[l].status
  PROVE  AgreeInv'
<1>1. LastTold'
  BY ToldKept DEF AgreeInv
<1>2. ASSUME NEW l \in Landlords, l \notin touched' PROVE Undisturbed(l)
  <2>1. ASSUME NEW s \in SubIds, row[l].stripe = s PROVE s \in 1..subs /\ EventsOf(s)' = EventsOf(s)
    <3>1. s # 0
      BY BillingAssumption DEF SubIds
    <3> QED BY <2>1, <3>1, RowStripe DEF EventsOf
  <2> QED BY <1>2, <2>1 DEF Undisturbed
<1> QED BY <1>1, <1>2, FollowsOn DEF AgreeInv

LEMMA MovesAgree ==
  ASSUME PlanFacts, AgreeInv, NEW s \in SubIds, StripeCourse(s)
  PROVE  AgreeInv'
<1>1. s \in 1..subs /\ stripe[s] \in StripeSubs /\ DOMAIN stripe = 1..subs
  BY DEF StripeCourse, PlanFacts, PlanTypes
<1>2. PICK x \in Statuses : StripeMoves(s, x)
  BY DEF StripeCourse, Statuses
<1>3. /\ Emit(s, x) /\ stripe' = [stripe EXCEPT ![s] = [stripe[s] EXCEPT !.status = x]]
      /\ UNCHANGED <<row, subs, handled, touched, reordered>>
  BY <1>2 DEF StripeMoves, ghost
<1>4. /\ stripe'[s].status = x /\ stripe'[s].atEnd = stripe[s].atEnd
      /\ \A u \in 1..subs \ {s} : stripe'[u] = stripe[u]
  BY <1>1, <1>3 DEF StripeSubs
<1>5. /\ LastTold'
      /\ \A n \in DOMAIN events : n \in DOMAIN events' /\ events'[n] = events[n]
      /\ \A u : EventsOf(u)' = {} => EventsOf(u) = {} /\ u # s
  BY <1>1, <1>3, <1>4, ToldEmits DEF PlanFacts, AgreeInv
<1>6. ASSUME NEW l \in Landlords PROVE Undisturbed(l)
  <2>1. ASSUME NEW u \in SubIds, row[l].stripe = u PROVE u \in 1..subs
    <3>1. u # 0
      BY BillingAssumption DEF SubIds
    <3> QED BY <2>1, <3>1, RowStripe
  <2> QED BY <1>3, <1>4, <1>5, <2>1 DEF Undisturbed
<1> QED BY <1>3, <1>5, <1>6, FollowsOn DEF AgreeInv

LEMMA ChangesAgree ==
  ASSUME PlanFacts, AgreeInv, NEW t \in Tabs, StripeChanges(t)
  PROVE  AgreeInv'
<1> DEFINE s == tab[t].stripe
           new == IF tab[t].op = "cancel" THEN [stripe[s] EXCEPT !.atEnd = TRUE]
                  ELSE [stripe[s] EXCEPT !.price = tab[t].tier]
<1>1. /\ tab[t].pc = "stripe" /\ tab[t].op \in {"change", "cancel"}
      /\ UNCHANGED <<row, subs, handled, touched, reordered>>
      /\ \/ UNCHANGED <<stripe, events>>
         \/ stripe' = [stripe EXCEPT ![s] = new] /\ Emit(s, stripe[s].status)
  BY DEF StripeChanges, ghost
<1>2. CASE UNCHANGED <<stripe, events>>
  BY <1>1, <1>2, AgreeKept
<1>3. CASE stripe' = [stripe EXCEPT ![s] = new] /\ Emit(s, stripe[s].status)
  <2>1. tab[t].who \in Landlords /\ row[tab[t].who].stripe # 0 /\ s = row[tab[t].who].stripe
    BY <1>1 DEF PlanFacts, TabsOK, TabOK
  <2>2. s \in 1..subs /\ stripe[s] \in StripeSubs /\ stripe[s].status \in Statuses /\ DOMAIN stripe = 1..subs
    BY <2>1, RowStripe DEF PlanFacts, PlanTypes, StripeSubs
  <2>3. new.status = stripe[s].status /\ (stripe[s].atEnd => new.atEnd)
    BY <2>2 DEF StripeSubs
  <2> HIDE DEF new, s
  <2>4. stripe'[s] = new /\ \A u \in 1..subs \ {s} : stripe'[u] = stripe[u]
    BY <1>3, <2>2
  <2>5. /\ LastTold'
        /\ \A n \in DOMAIN events : n \in DOMAIN events' /\ events'[n] = events[n]
        /\ \A u : EventsOf(u)' = {} => EventsOf(u) = {} /\ u # s
    BY <1>1, <1>3, <2>2, <2>3, <2>4, ToldEmits DEF PlanFacts, AgreeInv
  <2>6. ASSUME NEW l \in Landlords PROVE Undisturbed(l)
    <3>1. ASSUME NEW u \in SubIds, row[l].stripe = u PROVE u \in 1..subs
      <4>1. u # 0
        BY BillingAssumption DEF SubIds
      <4> QED BY <3>1, <4>1, RowStripe
    <3> QED BY <1>1, <2>3, <2>4, <2>5, <3>1 DEF Undisturbed
  <2> QED BY <1>1, <2>5, <2>6, FollowsOn DEF AgreeInv
<1> QED BY <1>1, <1>2, <1>3

LEMMA UpdateAgree ==
  ASSUME PlanFacts, AgreeInv, NEW t \in Tabs, UpdateRow(t)
  PROVE  AgreeInv'
<1> DEFINE l == tab[t].who
           new == IF tab[t].op = "cancel" THEN [row[l] EXCEPT !.status = "canceled"]
                  ELSE [row[l] EXCEPT !.tier = tab[t].tier]
<1>1. /\ tab[t].pc = "row" /\ tab[t].op \in {"change", "cancel"} /\ row' = [row EXCEPT ![l] = new]
      /\ UNCHANGED <<subs, stripe, events, handled, touched, reordered>>
  BY DEF UpdateRow, ghost
<1>2. /\ l \in Landlords /\ row \in [Landlords -> PlanRows] /\ row[l] \in PlanRows
      /\ tab[t].stripe = row[l].stripe /\ (tab[t].op = "cancel" => stripe[tab[t].stripe].atEnd)
  BY <1>1 DEF PlanFacts, PlanTypes, TabsOK, TabOK
<1>3. /\ new.stripe = row[l].stripe
      /\ new.status = row[l].status \/ (tab[t].op = "cancel" /\ new.status = "canceled")
  BY <1>1, <1>2 DEF PlanRows
<1>4. \A k \in Landlords : row'[k] = IF k = l THEN new ELSE row[k]
  BY <1>1, <1>2
<1>5. LastTold'
  BY <1>1, ToldKept DEF AgreeInv
<1> HIDE DEF new, l
<1>6. ASSUME NEW k \in Landlords PROVE Undisturbed(k)
  <2>1. \A u : EventsOf(u)' = EventsOf(u)
    BY <1>1 DEF EventsOf
  <2>2. row'[k].stripe = row[k].stripe
    BY <1>3, <1>4
  <2>3. row'[k].status = row[k].status \/ (row'[k].status = "canceled" /\ stripe[row[k].stripe].atEnd)
    BY <1>2, <1>3, <1>4
  <2> QED BY <1>1, <2>1, <2>2, <2>3 DEF Undisturbed
<1> QED BY <1>1, <1>5, <1>6, FollowsOn DEF AgreeInv

LEMMA InsertAgree ==
  ASSUME PlanFacts, AgreeInv, NEW t \in Tabs, InsertRow(t)
  PROVE  AgreeInv'
<1> DEFINE l == tab[t].who
           new == [status |-> "trialing", tier |-> tab[t].tier, stripe |-> tab[t].stripe]
<1>1. /\ Starting(tab[t]) /\ row' = IF row[l] # NoRow THEN row ELSE [row EXCEPT ![l] = new]
      /\ UNCHANGED <<subs, stripe, events, handled, touched, reordered>>
  BY DEF InsertRow, ghost, Starting
<1>2. TabOK(tab[t]) /\ row \in [Landlords -> PlanRows]
  BY DEF PlanFacts, PlanTypes, TabsOK
<1>3. l \in Landlords /\ FreshSub(tab[t])
  BY <1>1, <1>2 DEF TabOK, Starting
<1>4. CASE row[l] # NoRow
  BY <1>1, <1>4, AgreeKept
<1>5. CASE row[l] = NoRow
  <2>1. \A k \in Landlords : row'[k] = IF k = l THEN new ELSE row[k]
    BY <1>1, <1>2, <1>5
  <2>2. LastTold'
    BY <1>1, ToldKept DEF AgreeInv
  <2>3. \A u : EventsOf(u)' = EventsOf(u) /\ Told(u)' = Told(u)
    BY <1>1 DEF EventsOf, Told
  <2>4. ASSUME NEW k \in Landlords PROVE Follows(k)'
    <3>1. CASE k # l
      <4>1. Undisturbed(k)
        BY <1>1, <2>1, <2>3, <3>1 DEF Undisturbed
      <4> QED BY <1>1, <4>1, FollowsOn DEF AgreeInv
    <3>2. CASE k = l
      <4> SUFFICES ASSUME NEW s \in SubIds, row'[k].stripe = s
                   PROVE  /\ EventsOf(s)' = {} => Says(k, s, stripe[s].status)'
                          /\ Told(s)' = {}
        BY DEF Follows
      <4>1. s = tab[t].stripe /\ row'[k].status = "trialing"
        BY <2>1, <3>2
      <4>2. EventsOf(s) = {} /\ stripe[s].status = "trialing"
        BY <1>3, <4>1 DEF FreshSub
      <4> QED BY <1>1, <2>3, <4>1, <4>2 DEF Says, Told
    <3> QED BY <3>1, <3>2
  <2> QED BY <2>2, <2>4 DEF AgreeInv
<1> QED BY <1>4, <1>5

LEMMA WebhookAgree ==
  ASSUME PlanFacts, AgreeInv, NEW n \in 1..MaxEvents, Webhook(n)
  PROVE  AgreeInv'
<1>1. /\ n \in DOMAIN events /\ handled' = handled \cup {n}
      /\ reordered' = IF \E k \in handled : k > n /\ events[k].sub = events[n].sub
                        THEN reordered \cup {events[n].sub} ELSE reordered
      /\ row' = [l \in Landlords |-> IF row[l].stripe = events[n].sub
                                     THEN [row[l] EXCEPT !.status = events[n].status] ELSE row[l]]
      /\ UNCHANGED <<subs, stripe, events, touched>>
  BY DEF Webhook, Status
<1>2. PICK m \in 0..MaxEvents : DOMAIN events = 1..m
  BY DEF PlanFacts, PlanTypes
<1>3. m \in Nat /\ n \in Nat /\ handled \subseteq 1..m
  BY <1>1, <1>2, BillingAssumption DEF PlanFacts, PlanTypes
<1>4. LastTold'
  BY <1>1, ToldKept DEF AgreeInv
<1>5. \A u : EventsOf(u)' = EventsOf(u)
  BY <1>1 DEF EventsOf
<1>6. ASSUME NEW l \in Landlords PROVE Follows(l)'
  <2> SUFFICES ASSUME l \notin touched, NEW s \in SubIds, row'[l].stripe = s, s \notin reordered'
               PROVE  /\ EventsOf(s) = {} => Says(l, s, stripe[s].status)'
                      /\ \A k \in Told(s)' : (\A j \in Told(s)' : j <= k) => Says(l, s, events[k].status)'
    BY <1>1, <1>5 DEF Follows
  <2>1. row[l].stripe = s /\ s \notin reordered /\ row[l] \in PlanRows
    BY <1>1 DEF PlanFacts, PlanTypes, PlanRows
  <2>2. CASE events[n].sub = s
    <3>1. row'[l].status = events[n].status
      BY <1>1, <2>1, <2>2 DEF PlanRows
    <3>2. n \in EventsOf(s) /\ n \in Told(s)'
      BY <1>1, <2>2 DEF EventsOf, Told
    <3>3. \A k \in handled : events[k].sub = s => ~(k > n)
      BY <1>1, <2>2
    <3>4. \A k \in Told(s)' : k \in Nat /\ (k <= n)
      <4>1. \A k \in Told(s)' : k = n \/ (k \in handled /\ events[k].sub = s)
        BY <1>1 DEF Told, EventsOf
      <4>2. \A k \in handled : k \in Nat
        BY <1>3
      <4> SUFFICES ASSUME NEW k \in Told(s)' PROVE k \in Nat /\ (k <= n)
        OBVIOUS
      <4>3. CASE k = n
        BY <1>3, <4>3
      <4>4. CASE k # n
        <5>1. k \in handled /\ events[k].sub = s
          BY <4>1, <4>4
        <5>2. k \in Nat /\ ~(k > n)
          BY <3>3, <4>2, <5>1
        <5> QED BY <1>3, <5>2
      <4> QED BY <4>3, <4>4
    <3>5. \A k \in Told(s)' : (\A j \in Told(s)' : j <= k) => k = n
      BY <1>3, <3>2, <3>4
    <3> QED BY <1>1, <3>1, <3>2, <3>5 DEF Says
  <2>3. CASE events[n].sub # s
    <3>1. row'[l] = row[l]
      BY <1>1, <2>1, <2>3
    <3>2. Told(s)' = Told(s)
      BY <1>1, <2>3 DEF Told, EventsOf
    <3>3. /\ EventsOf(s) = {} => Says(l, s, stripe[s].status)
          /\ \A k \in Told(s) : (\A j \in Told(s) : j <= k) => Says(l, s, events[k].status)
      BY <2>1 DEF AgreeInv, Follows
    <3> QED BY <1>1, <3>1, <3>2, <3>3 DEF Says
  <2> QED BY <2>2, <2>3
<1> QED BY <1>4, <1>6 DEF AgreeInv

LEMMA CreatesAgree ==
  ASSUME PlanFacts, AgreeInv, NEW t \in Tabs, StripeCreates(t)
  PROVE  AgreeInv'
<1> DEFINE n == subs + 1
<1>1. /\ subs' = n /\ UNCHANGED <<row, events, handled, touched, reordered>>
      /\ stripe' = [s \in 1..n |-> IF s = n THEN
           [owner |-> tab[t].who, status |-> "trialing", atEnd |-> FALSE, price |-> tab[t].tier] ELSE stripe[s]]
  BY DEF StripeCreates, ghost
<1>2. subs \in Nat
  BY BillingAssumption DEF PlanFacts, PlanTypes
<1>3. \A s \in 1..subs : stripe'[s] = stripe[s]
  BY <1>1, <1>2
<1>4. \A u : EventsOf(u)' = EventsOf(u)
  BY <1>1 DEF EventsOf
<1>5. LastTold'
  <2> SUFFICES ASSUME NEW s \in 1..n, NEW k \in EventsOf(s), \A j \in EventsOf(s) : j <= k
               PROVE  events[k].status = stripe'[s].status
    BY <1>1, <1>4 DEF LastTold
  <2>1. s \in 1..subs
    BY DEF EventsOf, PlanFacts, PlanTypes
  <2> QED BY <1>3, <2>1 DEF AgreeInv, LastTold
<1>6. ASSUME NEW l \in Landlords PROVE Undisturbed(l)
  <2>1. ASSUME NEW s \in SubIds, row[l].stripe = s PROVE s \in 1..subs
    <3>1. s # 0
      BY BillingAssumption DEF SubIds
    <3> QED BY <2>1, <3>1, RowStripe
  <2> QED BY <1>1, <1>3, <1>4, <2>1 DEF Undisturbed
<1> QED BY <1>1, <1>5, <1>6, FollowsOn DEF AgreeInv

LEMMA StepAgree ==
  ASSUME PlanFacts, AgreeInv, [BillingNext]_billingVars
  PROVE  AgreeInv'
<1>1. CASE \E s \in SubIds : StripeCourse(s)
  BY <1>1, MovesAgree
<1>2. CASE \E n \in 1..MaxEvents : Webhook(n)
  BY <1>2, WebhookAgree
<1>3. ASSUME NEW t \in Tabs, NEW r, Begin(t, r) PROVE AgreeInv'
  <2>1. UNCHANGED <<row, subs, stripe, events, handled, touched, reordered>>
    BY <1>3 DEF Begin, plan
  <2> QED BY <2>1, AgreeKept
<1>4. CASE \E t \in Tabs, l \in Landlords : (\E x \in Tiers : Subscribe(t, l, x) \/ ChangePlan(t, l, x)) \/ Cancel(t, l)
  BY <1>3, <1>4 DEF Subscribe, ChangePlan, Cancel
<1>5. ASSUME NEW t \in Tabs, RequestDies(t) PROVE AgreeInv'
  <2>1. UNCHANGED <<row, subs, stripe, events, handled, touched, reordered>>
    BY <1>5 DEF RequestDies, plan
  <2> QED BY <2>1, AgreeKept
<1>6. CASE \E t \in Tabs : StripeCreates(t) \/ InsertRow(t) \/ StripeChanges(t) \/ UpdateRow(t) \/ RequestDies(t)
  BY <1>5, <1>6, CreatesAgree, InsertAgree, ChangesAgree, UpdateAgree
<1>7. CASE \E l \in Landlords, x \in {"active", "suspended", "canceled"} : AdminSetsStatus(l, x)
  <2>1. PICK l \in Landlords, x \in {"active", "suspended", "canceled"} : AdminSetsStatus(l, x)
    BY <1>7
  <2>2. /\ row' = [row EXCEPT ![l] = [row[l] EXCEPT !.status = x]] /\ touched' = touched \cup {l}
        /\ UNCHANGED <<subs, stripe, events, handled, reordered>>
    BY <2>1 DEF AdminSetsStatus
  <2>3. \A k \in Landlords : k \notin touched' => row'[k] = row[k]
    BY <2>2 DEF PlanFacts, PlanTypes
  <2> QED BY <2>2, <2>3, AgreeKept
<1>8. CASE Metering \/ UNCHANGED billingVars
  <2>1. UNCHANGED <<row, subs, stripe, events, handled, touched, reordered>>
    BY <1>8, MeterKeepsPlan
  <2> QED BY <2>1, AgreeKept
<1> QED BY <1>1, <1>2, <1>4, <1>6, <1>7, <1>8 DEF BillingNext, Metering

LEMMA InitAgree == BillingInit => PriceInv /\ NoStraySubscription /\ AgreeInv
<1> SUFFICES ASSUME BillingInit PROVE PriceInv /\ NoStraySubscription /\ AgreeInv
  OBVIOUS
<1> DEFINE n == Cardinality(Subscribed)
<1>1. /\ subs = n /\ tab = [t \in Tabs |-> NoTab] /\ DOMAIN events = {} /\ handled = {}
      /\ row = [l \in Landlords |->
           IF l \in Subscribed THEN [status |-> "active", tier |-> FirstTier, stripe |-> Started[l]] ELSE NoRow]
      /\ stripe = [s \in 1..n |->
           [owner |-> CHOOSE l \in Subscribed : Started[l] = s, status |-> "active", atEnd |-> FALSE,
            price |-> FirstTier]]
  BY DEF BillingInit
<1>2. \A l \in Subscribed : Started[l] \in 1..n /\ l \in Landlords
  BY StartedFacts, BillingAssumption
<1>3. \A s \in 1..n : /\ stripe[s].owner \in Subscribed /\ Started[stripe[s].owner] = s
                      /\ stripe[s].status = "active" /\ stripe[s].price = FirstTier
  BY <1>1, StartedFacts
<1> HIDE DEF n
<1>4. \A t \in Tabs : tab[t].pc = "idle"
  BY <1>1, NoRowFacts
<1>5. \A l \in Landlords : \/ row[l].stripe = 0
                           \/ row[l].stripe \in 1..n /\ row[l].status = "active" /\ row[l].tier = FirstTier
  BY <1>1, <1>2, NoRowFacts
<1>6. PriceInv
  BY <1>3, <1>4, <1>5 DEF PriceInv, Repricing
<1>7. NoStraySubscription
  BY <1>1, <1>2, <1>3 DEF NoStraySubscription
<1>8. \A u : EventsOf(u) = {} /\ Told(u) = {}
  BY <1>1 DEF EventsOf, Told
<1>9. AgreeInv
  <2>1. ASSUME NEW l \in Landlords, NEW s \in SubIds, row[l].stripe = s PROVE Says(l, s, stripe[s].status)
    <3>1. s # 0
      BY BillingAssumption DEF SubIds
    <3> QED BY <1>3, <1>5, <2>1, <3>1 DEF Says
  <2> QED BY <1>8, <2>1 DEF AgreeInv, LastTold, Follows
<1> QED BY <1>6, <1>7, <1>9

-----------------------------------------------------------------------------
(* Usage and the monthly job                                               *)

Bills == [tier : Tiers \cup {"none"}, usage : Nat]
Jobs == [pc : {"idle", "read", "sum", "insert", "done", "failed"},
         subs : SUBSET Landlords, tiers : [Landlords -> Tiers \cup {"none"}],
         todo : SUBSET Landlords, at : Landlords \cup {"none"}, sum : Nat, tries : 0..MaxRetries]

MeterTypes ==
  /\ month \in Months
  /\ DOMAIN metered = Landlords /\ \A l \in Landlords : metered[l] \in [1..month -> Nat]
  /\ DOMAIN invoice = Landlords /\ \A l \in Landlords : invoice[l] \in [1..month -> Bills]
  /\ pending \in [Landlords -> 0..month]
  /\ job \in Jobs
  /\ admin \in 0..MaxAdmin /\ breaks \in 0..MaxBreaks

\* a run bills the month before, and whom it is through with is invoiced
JobInv ==
  /\ \A l \in Landlords : invoice[l][month] = NoInvoice
  /\ job.pc # "idle" => month > 1
  /\ job.todo \subseteq job.subs /\ \A l \in job.subs : job.tiers[l] \in Tiers
  /\ job.pc = "insert" => job.at \in job.todo
  /\ job.pc \in {"sum", "insert", "done"} => \A l \in job.subs \ job.todo : invoice[l][month - 1] # NoInvoice
  /\ job.pc = "done" => job.todo = {}

\* the sum in the run's hands is the month's
SumInv == job.pc = "insert" =>
  job.sum = metered[job.at][month - 1] \/ <<job.at, month - 1>> \in late

MeterFacts == MeterTypes /\ JobInv

LEMMA NoBill == NoInvoice \in Bills /\ NoInvoice.tier = "none" /\ NoJob \in Jobs
                /\ NoJob.subs = {} /\ NoJob.todo = {} /\ NoJob.pc = "idle"
BY BillingAssumption DEF NoInvoice, Bills, NoJob, Jobs

LEMMA MonthBefore ==
  ASSUME MeterFacts, job.pc # "idle"
  PROVE  month - 1 \in 1..month /\ month \in 1..month /\ month - 1 # month
BY DEF MeterFacts, MeterTypes, JobInv, Months

\* what the query for usage adds up
LEMMA RecordedIs ==
  ASSUME MeterFacts, NEW l \in Landlords, NEW m \in 1..month
  PROVE  /\ Recorded(l, UtcStamp(m)) \in Nat
         /\ ZoneOffset = 0 => Recorded(l, UtcStamp(m)) = metered[l][m]
<1>1. metered[l] \in [1..month -> Nat] /\ month \in Nat
  BY DEF MeterFacts, MeterTypes, Months
<1> DEFINE D == {k \in 1..month : LocalStamp(k) = UtcStamp(m)}
           c == CHOOSE k \in 1..month : LocalStamp(k) = UtcStamp(m)
<1>2. Recorded(l, UtcStamp(m)) = IF \E k \in 1..month : LocalStamp(k) = UtcStamp(m) THEN metered[l][c] ELSE 0
  BY <1>1 DEF Recorded
<1>3. (\E k \in 1..month : LocalStamp(k) = UtcStamp(m)) => c \in 1..month /\ LocalStamp(c) = UtcStamp(m)
  OBVIOUS
<1> HIDE DEF c
<1>4. Recorded(l, UtcStamp(m)) \in Nat
  BY <1>1, <1>2, <1>3
<1>5. ASSUME ZoneOffset = 0 PROVE Recorded(l, UtcStamp(m)) = metered[l][m]
  <2>1. \A k \in 1..month : LocalStamp(k) = UtcStamp(m) <=> k = m
    BY <1>1, <1>5 DEF LocalStamp, UtcStamp
  <2>2. c = m
    BY <1>3, <2>1
  <2> QED BY <1>2, <2>1, <2>2
<1> QED BY <1>4, <1>5

\* the requests leave the meter alone
LEMMA PlanKeepsMeter ==
  ASSUME MeterFacts, [BillingNext]_billingVars, ~Metering
  PROVE  /\ UNCHANGED <<month, metered, pending, invoice, job, late>>
         /\ admin' \in 0..MaxAdmin /\ breaks' \in 0..MaxBreaks
<1>0. admin \in 0..MaxAdmin /\ breaks \in 0..MaxBreaks /\ MaxAdmin \in Nat /\ MaxBreaks \in Nat
  BY BillingAssumption DEF MeterFacts, MeterTypes
<1>1. ASSUME UNCHANGED <<meter, late, admin, breaks>> 
      PROVE  /\ UNCHANGED <<month, metered, pending, invoice, job, late>>
             /\ admin' \in 0..MaxAdmin /\ breaks' \in 0..MaxBreaks
  BY <1>0, <1>1 DEF meter
<1>2. CASE \E s \in SubIds : StripeCourse(s)
  BY <1>1, <1>2 DEF StripeCourse, StripeMoves, ghost
<1>3. CASE \E n \in 1..MaxEvents : Webhook(n)
  BY <1>1, <1>3 DEF Webhook
<1>4. ASSUME NEW t, NEW r, Begin(t, r)
      PROVE  /\ UNCHANGED <<month, metered, pending, invoice, job, late>>
             /\ admin' \in 0..MaxAdmin /\ breaks' \in 0..MaxBreaks
  BY <1>1, <1>4 DEF Begin
<1>5. CASE \E t \in Tabs, l \in Landlords : (\E x \in Tiers : Subscribe(t, l, x) \/ ChangePlan(t, l, x)) \/ Cancel(t, l)
  BY <1>4, <1>5 DEF Subscribe, ChangePlan, Cancel
<1>6. CASE \E t \in Tabs : StripeCreates(t) \/ InsertRow(t) \/ StripeChanges(t) \/ UpdateRow(t)
  BY <1>1, <1>6 DEF StripeCreates, InsertRow, StripeChanges, UpdateRow, ghost
<1>7. CASE \E t \in Tabs : RequestDies(t)
  <2>1. /\ breaks < MaxBreaks /\ breaks' = breaks + 1 /\ UNCHANGED <<meter, admin, late>>
    BY <1>7 DEF RequestDies
  <2> QED BY <1>0, <2>1 DEF meter
<1>8. CASE \E l \in Landlords, x \in {"active", "suspended", "canceled"} : AdminSetsStatus(l, x)
  <2>1. admin < MaxAdmin /\ admin' = admin + 1 /\ UNCHANGED <<meter, breaks, late>>
    BY <1>8 DEF AdminSetsStatus
  <2> QED BY <1>0, <2>1 DEF meter
<1>9. CASE UNCHANGED billingVars
  BY <1>1, <1>9 DEF billingVars, ghost
<1> QED BY <1>2, <1>3, <1>5, <1>6, <1>7, <1>8, <1>9 DEF BillingNext, Metering

LEMMA StampMeter ==
  ASSUME MeterFacts, NEW l \in Landlords, Stamp(l)
  PROVE  MeterFacts' /\ (SumInv => SumInv') /\ (InvoicedInFull => InvoicedInFull')
<1>1. /\ pending' = [pending EXCEPT ![l] = month]
      /\ UNCHANGED <<month, metered, invoice, job, admin, breaks, late>>
  BY DEF Stamp, ghost
<1>2. month \in 0..month /\ pending' \in [Landlords -> 0..month]
  BY <1>1 DEF MeterFacts, MeterTypes, Months
<1> QED BY <1>1, <1>2 DEF MeterFacts, MeterTypes, JobInv, SumInv, InvoicedInFull

LEMMA WriteMeter ==
  ASSUME MeterFacts, NEW l \in Landlords, WriteUsage(l)
  PROVE  MeterFacts' /\ (SumInv => SumInv') /\ (InvoicedInFull => InvoicedInFull')
<1>1. PICK m \in 0..month : m = pending[l]
  BY DEF MeterFacts, MeterTypes
<1>2. /\ m # 0
      /\ metered' = [metered EXCEPT ![l] = [metered[l] EXCEPT ![m] = metered[l][m] + 1]]
      /\ pending' = [pending EXCEPT ![l] = 0]
      /\ late' = IF m < month THEN late \cup {<<l, m>>} ELSE late
      /\ UNCHANGED <<month, invoice, job, admin, breaks>>
  BY <1>1 DEF WriteUsage
<1>3. /\ month \in Nat /\ m \in 1..month /\ 0 \in 0..month /\ DOMAIN metered = Landlords
      /\ \A k \in Landlords : metered[k] \in [1..month -> Nat]
  BY <1>1, <1>2 DEF MeterFacts, MeterTypes, Months
<1>4. metered[l][m] \in Nat /\ metered[l][m] + 1 \in Nat
  BY <1>3
<1>5. [metered[l] EXCEPT ![m] = metered[l][m] + 1] \in [1..month -> Nat]
  BY <1>3, <1>4
<1>6. /\ DOMAIN metered' = Landlords
      /\ \A k \in Landlords : metered'[k] = IF k = l THEN [metered[l] EXCEPT ![m] = metered[l][m] + 1] ELSE metered[k]
  BY <1>2, <1>3
<1>7. MeterTypes'
  BY <1>2, <1>3, <1>5, <1>6 DEF MeterFacts, MeterTypes
<1>8. JobInv'
  BY <1>2 DEF MeterFacts, JobInv
<1>9. \A k \in Landlords, j \in 1..month : metered'[k][j] = metered[k][j] \/ (k = l /\ j = m)
  BY <1>3, <1>5, <1>6
<1>10. late \subseteq late' /\ (m # month => <<l, m>> \in late')
  BY <1>2, <1>3
<1>11. ASSUME SumInv PROVE SumInv'
  <2> SUFFICES ASSUME job.pc = "insert"
               PROVE  job.sum = metered'[job.at][month - 1] \/ <<job.at, month - 1>> \in late'
    BY <1>2 DEF SumInv
  <2>1. job.at \in Landlords /\ month - 1 \in 1..month /\ month - 1 # month
    BY MonthBefore DEF MeterFacts, MeterTypes, JobInv, Jobs
  <2> QED BY <1>9, <1>10, <1>11, <2>1 DEF SumInv
<1>12. ASSUME InvoicedInFull PROVE InvoicedInFull'
  <2> SUFFICES ASSUME NEW k \in Landlords, NEW j \in DOMAIN invoice[k], invoice[k][j] # NoInvoice, <<k, j>> \notin late'
               PROVE  invoice[k][j].usage = metered'[k][j]
    BY <1>2 DEF InvoicedInFull
  <2>1. j \in 1..month /\ j # month
    BY DEF MeterFacts, MeterTypes, JobInv
  <2>2. invoice[k][j].usage = metered[k][j]
    BY <1>10, <1>12 DEF InvoicedInFull
  <2> QED BY <1>9, <1>10, <2>1, <2>2
<1> QED BY <1>7, <1>8, <1>11, <1>12 DEF MeterFacts

LEMMA MonthMeter ==
  ASSUME MeterFacts, PlanFacts, MonthEnds
  PROVE  MeterFacts' /\ SumInv' /\ (InvoicedInFull => InvoicedInFull')
<1> DEFINE n == month + 1
<1>1. /\ month' = n /\ job' = [NoJob EXCEPT !.pc = "read"] /\ UNCHANGED <<pending, admin, breaks, late>>
      /\ metered' = [l \in Landlords |-> [m \in 1..n |-> IF m \in 1..month THEN metered[l][m] ELSE 0]]
      /\ invoice' = [l \in Landlords |-> [m \in 1..n |-> IF m \in 1..month THEN invoice[l][m] ELSE NoInvoice]]
  BY DEF MonthEnds, ghost
<1>2. /\ month \in Nat /\ n \in Months /\ n > 1 /\ n \in 1..n /\ n \notin 1..month /\ 0..month \subseteq 0..n
      /\ 1..month \subseteq 1..n /\ (0 \in Nat) /\ \A m \in 1..n : m = n \/ m \in 1..month
  BY DEF MeterFacts, MeterTypes, Months
<1>3. /\ \A l \in Landlords : metered[l] \in [1..month -> Nat] /\ invoice[l] \in [1..month -> Bills]
      /\ pending \in [Landlords -> 0..month]
  BY DEF MeterFacts, MeterTypes
<1> HIDE DEF n
<1>4. /\ job'.pc = "read" /\ job'.subs = {} /\ job'.todo = {} /\ job' \in Jobs
  BY <1>1, NoBill DEF Jobs, NoJob
<1>5. \A l \in Landlords : /\ metered'[l] \in [1..n -> Nat] /\ invoice'[l] \in [1..n -> Bills]
                           /\ invoice'[l][n] = NoInvoice
                           /\ \A m \in 1..month : metered'[l][m] = metered[l][m] /\ invoice'[l][m] = invoice[l][m]
  BY <1>1, <1>2, <1>3, NoBill
<1>6. MeterTypes'
  BY <1>1, <1>2, <1>3, <1>4, <1>5 DEF MeterFacts, MeterTypes
<1>7. JobInv' /\ SumInv'
  BY <1>1, <1>2, <1>4, <1>5 DEF JobInv, SumInv
<1>8. ASSUME InvoicedInFull PROVE InvoicedInFull'
  <2> SUFFICES ASSUME NEW l \in Landlords, NEW m \in DOMAIN invoice'[l], invoice'[l][m] # NoInvoice, <<l, m>> \notin late
               PROVE  invoice'[l][m].usage = metered'[l][m]
    BY <1>1 DEF InvoicedInFull
  <2>1. m \in 1..month
    BY <1>2, <1>5
  <2>2. m \in DOMAIN invoice[l] /\ invoice'[l][m] = invoice[l][m] /\ metered'[l][m] = metered[l][m]
    BY <1>3, <1>5, <2>1
  <2>3. invoice[l][m].usage = metered[l][m]
    BY <1>8, <2>2 DEF InvoicedInFull
  <2> QED BY <2>2, <2>3
<1> QED BY <1>6, <1>7, <1>8 DEF MeterFacts

LEMMA ReadsMeter ==
  ASSUME MeterFacts, PlanFacts, JobReads
  PROVE  MeterFacts' /\ SumInv' /\ (InvoicedInFull => InvoicedInFull')
<1> DEFINE L == {l \in Landlords : row[l].status = "active"}
           tiers == [l \in Landlords |-> IF l \in L THEN row[l].tier ELSE "none"]
<1>1. /\ job.pc = "read"
      /\ job' = [job EXCEPT !.pc = IF L = {} THEN "done" ELSE "sum", !.subs = L, !.todo = L, !.tiers = tiers]
      /\ UNCHANGED <<month, metered, pending, invoice, admin, breaks, late>>
  BY DEF JobReads, ghost
<1>2. \A l \in L : row[l] # NoRow
  BY DEF NoRow
<1>3. \A l \in L : row[l].tier \in Tiers
  BY <1>2, RowStripe
<1>4. tiers \in [Landlords -> Tiers \cup {"none"}] /\ \A l \in L : tiers[l] \in Tiers
  BY <1>3
<1>5. job \in Jobs /\ L \in SUBSET Landlords
  BY DEF MeterFacts, MeterTypes
<1> HIDE DEF L, tiers
<1>6. /\ job' \in Jobs /\ job'.subs = L /\ job'.todo = L /\ job'.tiers = tiers
      /\ job'.pc = "sum" \/ (job'.pc = "done" /\ L = {})
  BY <1>1, <1>4, <1>5 DEF Jobs
<1>7. MeterTypes'
  BY <1>1, <1>6 DEF MeterFacts, MeterTypes
<1>8. JobInv' /\ SumInv'
  BY <1>1, <1>4, <1>6 DEF MeterFacts, JobInv, SumInv
<1>9. InvoicedInFull => InvoicedInFull'
  BY <1>1 DEF InvoicedInFull
<1> QED BY <1>7, <1>8, <1>9 DEF MeterFacts

LEMMA SumsMeter ==
  ASSUME MeterFacts, NEW l \in Landlords, JobSums(l)
  PROVE  MeterFacts' /\ (ZoneOffset = 0 => SumInv') /\ (InvoicedInFull => InvoicedInFull')
<1> DEFINE v == Recorded(l, UtcStamp(month - 1))
<1>1. /\ job.pc = "sum" /\ l \in job.todo /\ job' = [job EXCEPT !.pc = "insert", !.at = l, !.sum = v]
      /\ UNCHANGED <<month, metered, pending, invoice, admin, breaks, late>>
  BY DEF JobSums, ghost
<1>2. v \in Nat /\ (ZoneOffset = 0 => v = metered[l][month - 1])
  BY <1>1, MonthBefore, RecordedIs
<1> HIDE DEF v
<1>3. /\ job' \in Jobs /\ job'.pc = "insert" /\ job'.at = l /\ job'.sum = v
      /\ job'.subs = job.subs /\ job'.todo = job.todo /\ job'.tiers = job.tiers
  BY <1>1, <1>2 DEF MeterFacts, MeterTypes, Jobs
<1>4. MeterTypes'
  BY <1>1, <1>3 DEF MeterFacts, MeterTypes
<1>5. JobInv'
  BY <1>1, <1>3 DEF MeterFacts, JobInv
<1>6. ZoneOffset = 0 => SumInv'
  BY <1>1, <1>2, <1>3 DEF SumInv
<1>7. InvoicedInFull => InvoicedInFull'
  BY <1>1 DEF InvoicedInFull
<1> QED BY <1>4, <1>5, <1>6, <1>7 DEF MeterFacts

LEMMA InvoicesMeter ==
  ASSUME MeterFacts, JobInvoices
  PROVE  MeterFacts' /\ SumInv' /\ (SumInv /\ InvoicedInFull => InvoicedInFull')
<1> DEFINE l == job.at
           m == month - 1
           b == [tier |-> job.tiers[l], usage |-> job.sum]
           rest == job.todo \ {l}
<1>1. /\ job.pc = "insert" /\ JobGoesOn(rest)
      /\ IF invoice[l][m] # NoInvoice THEN UNCHANGED invoice
         ELSE invoice' = [invoice EXCEPT ![l] = [invoice[l] EXCEPT ![m] = b]]
      /\ UNCHANGED <<month, metered, pending, admin, breaks, late>>
  BY DEF JobInvoices, AddInvoice, ghost
<1>2. /\ job \in Jobs /\ l \in job.todo /\ l \in job.subs /\ l \in Landlords /\ job.tiers[l] \in Tiers
      /\ job.sum \in Nat
  BY <1>1 DEF MeterFacts, MeterTypes, JobInv, Jobs
<1>3. m \in 1..month /\ m # month /\ month \in 1..month
  BY <1>1, MonthBefore
<1>4. b \in Bills /\ b.tier # "none" /\ b.usage = job.sum
  BY <1>2, BillingAssumption DEF Bills
<1>5. b # NoInvoice
  BY <1>4, NoBill
<1>6. DOMAIN invoice = Landlords /\ \A k \in Landlords : invoice[k] \in [1..month -> Bills]
  BY DEF MeterFacts, MeterTypes
<1> HIDE DEF b, m, l
<1>7. /\ job' \in Jobs /\ job'.subs = job.subs /\ job'.tiers = job.tiers /\ job'.todo = rest
      /\ job'.pc = "sum" \/ (job'.pc = "done" /\ rest = {})
  <2>1. CASE rest = {}
    <3>1. job' = [job EXCEPT !.pc = "done", !.todo = {}, !.at = "none", !.sum = 0]
      BY <1>1, <2>1 DEF JobGoesOn
    <3> QED BY <1>2, <2>1, <3>1 DEF Jobs
  <2>2. CASE rest # {}
    <3>1. job' = [job EXCEPT !.pc = "sum", !.todo = rest, !.at = "none", !.sum = 0]
      BY <1>1, <2>2 DEF JobGoesOn
    <3>2. rest \in SUBSET Landlords
      BY <1>2 DEF Jobs
    <3> QED BY <1>2, <3>1, <3>2 DEF Jobs
  <2> QED BY <2>1, <2>2
<1>8. /\ DOMAIN invoice' = Landlords
      /\ \A k \in Landlords : invoice'[k] \in [1..month -> Bills]
      /\ \A k \in Landlords, j \in 1..month :
           \/ invoice'[k][j] = invoice[k][j]
           \/ k = l /\ j = m /\ invoice'[k][j] = b
      /\ invoice'[l][m] # NoInvoice
      /\ \A k \in Landlords, j \in 1..month : invoice[k][j] # NoInvoice => invoice'[k][j] = invoice[k][j]
  <2>1. CASE invoice[l][m] # NoInvoice
    BY <1>1, <1>6, <2>1
  <2>2. CASE invoice[l][m] = NoInvoice
    <3>1. [invoice[l] EXCEPT ![m] = b] \in [1..month -> Bills]
      BY <1>2, <1>4, <1>6
    <3>2. /\ DOMAIN invoice' = Landlords
          /\ \A k \in Landlords : invoice'[k] = IF k = l THEN [invoice[l] EXCEPT ![m] = b] ELSE invoice[k]
      BY <1>1, <1>6, <2>2
    <3>3. \A j \in 1..month : [invoice[l] EXCEPT ![m] = b][j] = IF j = m THEN b ELSE invoice[l][j]
      BY <1>2, <1>6
    <3> HIDE DEF rest
    <3>4. \A k \in Landlords : invoice'[k] \in [1..month -> Bills]
      BY <1>6, <3>1, <3>2
    <3>5. \A k \in Landlords, j \in 1..month : invoice'[k][j] = IF k = l /\ j = m THEN b ELSE invoice[k][j]
      BY <3>2, <3>3
    <3> QED BY <1>2, <1>3, <1>5, <2>2, <3>2, <3>4, <3>5
  <2> QED BY <2>1, <2>2
<1>9. MeterTypes'
  BY <1>1, <1>7, <1>8 DEF MeterFacts, MeterTypes
<1>10. JobInv'
  <2>1. \A k \in Landlords : invoice'[k][month] = NoInvoice
    BY <1>3, <1>8 DEF MeterFacts, JobInv
  <2>2. \A k \in job.subs \ rest : invoice'[k][m] # NoInvoice
    <3> SUFFICES ASSUME NEW k \in job.subs, k \notin rest PROVE invoice'[k][m] # NoInvoice
      OBVIOUS
    <3>1. k = l \/ (k \notin job.todo /\ k \in Landlords)
      BY <1>2 DEF Jobs
    <3>2. k \notin job.todo => invoice[k][m] # NoInvoice
      BY <1>1 DEF MeterFacts, JobInv, m
    <3> QED BY <1>3, <1>8, <3>1, <3>2
  <2>3. job.todo \subseteq job.subs /\ (\A k \in job.subs : job.tiers[k] \in Tiers) /\ month > 1
    BY <1>1 DEF MeterFacts, JobInv
  <2> QED BY <1>1, <1>7, <2>1, <2>2, <2>3 DEF JobInv, m
<1>11. SumInv'
  BY <1>7 DEF SumInv
<1>12. ASSUME SumInv, InvoicedInFull PROVE InvoicedInFull'
  <2> SUFFICES ASSUME NEW k \in Landlords, NEW j \in DOMAIN invoice'[k], invoice'[k][j] # NoInvoice, <<k, j>> \notin late
               PROVE  invoice'[k][j].usage = metered[k][j]
    BY <1>1 DEF InvoicedInFull
  <2>1. j \in 1..month /\ j \in DOMAIN invoice[k]
    BY <1>6, <1>8
  <2>2. CASE invoice'[k][j] = invoice[k][j]
    BY <1>12, <2>1, <2>2 DEF InvoicedInFull
  <2>3. CASE k = l /\ j = m /\ invoice'[k][j] = b
    BY <1>1, <1>4, <1>12, <2>3 DEF SumInv, l, m
  <2> QED BY <1>8, <2>1, <2>2, <2>3
<1> QED BY <1>9, <1>10, <1>11, <1>12 DEF MeterFacts

LEMMA ThrowsMeter ==
  ASSUME MeterFacts, JobThrows
  PROVE  MeterFacts' /\ SumInv' /\ (InvoicedInFull => InvoicedInFull')
<1>1. /\ job.pc \in {"read", "sum", "insert"} /\ breaks < MaxBreaks /\ breaks' = breaks + 1
      /\ job' = IF job.tries < MaxRetries THEN [NoJob EXCEPT !.pc = "read", !.tries = job.tries + 1]
                ELSE [job EXCEPT !.pc = "failed"]
      /\ UNCHANGED <<month, metered, pending, invoice, admin, late>>
  BY DEF JobThrows, ghost
<1>2. breaks' \in 0..MaxBreaks
  BY <1>1, BillingAssumption DEF MeterFacts, MeterTypes
<1>3. job \in Jobs /\ job.tries \in 0..MaxRetries /\ MaxRetries \in Nat
  BY BillingAssumption DEF MeterFacts, MeterTypes, Jobs
<1>4. CASE job.tries < MaxRetries
  <2>1. job.tries + 1 \in 0..MaxRetries /\ job' = [NoJob EXCEPT !.pc = "read", !.tries = job.tries + 1]
    BY <1>1, <1>3, <1>4
  <2>2. job' \in Jobs /\ job'.pc = "read" /\ job'.subs = {} /\ job'.todo = {}
    BY <2>1, NoBill DEF Jobs, NoJob
  <2> QED BY <1>1, <1>2, <2>2 DEF MeterFacts, MeterTypes, JobInv, SumInv, InvoicedInFull
<1>5. CASE ~(job.tries < MaxRetries)
  <2>1. job' = [job EXCEPT !.pc = "failed"]
    BY <1>1, <1>5
  <2>2. job' \in Jobs /\ job'.pc = "failed" /\ job'.subs = job.subs /\ job'.todo = job.todo /\ job'.tiers = job.tiers
    BY <1>3, <2>1 DEF Jobs
  <2> QED BY <1>1, <1>2, <2>2 DEF MeterFacts, MeterTypes, JobInv, SumInv, InvoicedInFull
<1> QED BY <1>4, <1>5

LEMMA StepMeter ==
  ASSUME PlanFacts, MeterFacts, [BillingNext]_billingVars
  PROVE  MeterFacts' /\ (ZoneOffset = 0 /\ SumInv /\ InvoicedInFull => SumInv' /\ InvoicedInFull')
<1>1. CASE Metering
  BY <1>1, StampMeter, WriteMeter, SumsMeter, MonthMeter, ReadsMeter, InvoicesMeter, ThrowsMeter DEF Metering
<1>2. CASE ~Metering
  <2>1. /\ UNCHANGED <<month, metered, pending, invoice, job, late>>
        /\ admin' \in 0..MaxAdmin /\ breaks' \in 0..MaxBreaks
    BY <1>2, PlanKeepsMeter
  <2> QED BY <2>1 DEF MeterFacts, MeterTypes, JobInv, SumInv, InvoicedInFull
<1> QED BY <1>1, <1>2

LEMMA InitMeter == BillingInit => MeterFacts /\ SumInv /\ InvoicedInFull
<1> SUFFICES ASSUME BillingInit PROVE MeterFacts /\ SumInv /\ InvoicedInFull
  OBVIOUS
<1>1. /\ month = 1 /\ metered = [l \in Landlords |-> [m \in {1} |-> 0]] /\ pending = [l \in Landlords |-> 0]
      /\ invoice = [l \in Landlords |-> [m \in {1} |-> NoInvoice]] /\ job = NoJob /\ admin = 0 /\ breaks = 0
  BY DEF BillingInit
<1>2. 1..1 = {1} /\ 0 \in Nat /\ 0 \in 0..1 /\ 1 \in Months
  BY DEF Months
<1>3. \A l \in Landlords : /\ metered[l] \in [1..1 -> Nat] /\ invoice[l] \in [1..1 -> Bills]
                           /\ invoice[l][1] = NoInvoice /\ DOMAIN invoice[l] = {1}
  BY <1>1, <1>2, NoBill
<1>4. 0 \in 0..MaxAdmin /\ 0 \in 0..MaxBreaks
  BY BillingAssumption
<1>5. MeterTypes
  BY <1>1, <1>2, <1>3, <1>4, NoBill DEF MeterTypes
<1>6. JobInv /\ SumInv
  BY <1>1, <1>3, NoBill DEF JobInv, SumInv
<1>7. InvoicedInFull
  BY <1>3 DEF InvoicedInFull
<1> QED BY <1>5, <1>6, <1>7 DEF MeterFacts

\* PROPERTIES of services/billing-cycle.ts and of the subscription routes

\* Stripe and the row tell one story of a landlord's plan (PlanKept).
THEOREM PlanIsKept == BillingSpec => []PlanKept
<1> DEFINE I == PlanFacts /\ MeterFacts /\ PriceInv /\ NoStraySubscription /\ AgreeInv
<1>1. BillingInit => I
  BY InitPlanFacts, InitAgree, InitMeter
<1>2. I /\ [BillingNext]_billingVars => I'
  BY StepPlanFacts, StepPrice, StepStray, StepAgree, StepMeter
<1>3. I => PlanKept
  <2> SUFFICES ASSUME I PROVE PlanKept
    OBVIOUS
  <2>1. BillingTypes
    BY DEF BillingTypes, PlanFacts, PlanTypes, PlanRows, StripeSubs, TabSet, MeterFacts, MeterTypes, Bills, Jobs
  <2>2. PriceFollowsPlan /\ RowAgrees
    BY PriceShows, AgreeShows
  <2> QED BY <2>1, <2>2 DEF PlanKept
<1> QED BY <1>1, <1>2, <1>3, PTL DEF BillingSpec

\* A run of the job that ends well leaves nobody without an invoice, on a server of
\* any time zone (EveryoneInvoiced).
THEOREM EveryoneIsInvoiced == BillingSpec => []EveryoneInvoiced
<1>1. BillingInit => PlanFacts /\ MeterFacts
  BY InitPlanFacts, InitMeter
<1>2. PlanFacts /\ MeterFacts /\ [BillingNext]_billingVars => PlanFacts' /\ MeterFacts'
  BY StepPlanFacts, StepMeter
<1>3. PlanFacts /\ MeterFacts => EveryoneInvoiced
  BY DEF EveryoneInvoiced, MeterFacts, JobInv
<1> QED BY <1>1, <1>2, <1>3, PTL DEF BillingSpec

\* On a server whose clock is on UTC the invoices bill everybody for everything
\* (InvoicesComplete).
THEOREM InvoicesAreComplete ==
  ASSUME ZoneOffset = 0
  PROVE  BillingSpec => []InvoicesComplete
<1> DEFINE I == PlanFacts /\ MeterFacts /\ SumInv /\ InvoicedInFull
<1>1. BillingInit => I
  BY InitPlanFacts, InitMeter
<1>2. I /\ [BillingNext]_billingVars => I'
  BY StepPlanFacts, StepMeter
<1>3. I => InvoicesComplete
  BY DEF InvoicesComplete, EveryoneInvoiced, MeterFacts, JobInv
<1> QED BY <1>1, <1>2, <1>3, PTL DEF BillingSpec
=============================================================================
