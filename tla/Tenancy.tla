------------------------------ MODULE Tenancy ------------------------------
(***************************************************************************)
(* Leases and units: the tenant page of the dashboard and the lease and    *)
(* unit routes behind it (apps/dashboard), the nightly lease-expiration    *)
(* and deposit-reminders jobs (apps/server).                               *)
(*                                                                         *)
(* A request is a slot <<c, op>>: the page of client c has one "submitting"*)
(* flag per form, so at most one request per form is under way, and two    *)
(* forms of one page, or two open pages, do overlap.  The routes read and  *)
(* write without a transaction: each write is a step of its own.           *)
(***************************************************************************)
EXTENDS Integers, FiniteSets

CONSTANTS
  Units,          \* the units of one landlord
  Tenants,
  Pages,          \* open tenant pages of the dashboard
  Depositors,     \* tenants who pay a security deposit
  Scripts,        \* clients of PUT /api/leases/[id] that are not that page
  TenantOf,       \* [Pages -> Tenants]: whose page it is
  MaxLeases,      \* bound: lease rows ever made
  MaxDay,         \* bound: the last day
  MaxDeaths,      \* bound: requests and job runs that die half-way
  MaxActs,        \* bound: requests sent and unit forms opened, for each mode
  StatementDays, ReturnDays,  \* 30 and 45 in the code
  None

Modes == {"calm", "busy"}

ASSUME TenancyAssumption ==
  /\ IsFiniteSet(Pages)
  /\ TenantOf \in [Pages -> Tenants] /\ Depositors \subseteq Tenants
  /\ MaxLeases \in Nat /\ MaxDay \in Nat /\ MaxDeaths \in Nat /\ MaxActs \in [Modes -> Nat]
  /\ StatementDays \in Nat /\ ReturnDays \in Nat /\ StatementDays <= ReturnDays
  /\ None \notin Units \cup Tenants \cup Nat
  /\ Pages \cap Scripts = {}

LeaseIds == 1..MaxLeases
Days == 0..MaxDay
EndDays == 0..(MaxDay + 1)   \* a term may end after the last day
LeaseForms == {"create", "renew", "convert", "terminate", "return"}
Slots == (Pages \X LeaseForms) \cup (Scripts \X {"put"})

VARIABLES
  mode,      \* "calm": one fresh page at a time and nothing dies; "busy": anything
  leases,    \* lease rows made so far; row i is the i-th by createdAt
  lease,     \* [LeaseIds -> Lease row]
  unit,      \* [Units -> status of the unit row, "deleted" when it is gone]
  page,      \* [Pages -> what the page shows]
  req,       \* [Slots -> the request]
  unitForm,  \* the unit form of the units page
  job,       \* the run of checkLeaseExpirations
  today, deaths, acts,
  sent,      \* history: deposit reminders ever sent
  revived,   \* history: ended leases of a unit that were made active again
  lostTerm,  \* history: leases the job converted although their term had not ended
  renewedMid \* history: leases renewed while a run of the job held them

rows  == <<leases, lease, unit>>
history == <<sent, revived, lostTerm, renewedMid>>
leaseVars  == <<mode, rows, page, req, unitForm, job, today, deaths, acts, history>>

-----------------------------------------------------------------------------
(* Rows and queries *)

LeaseRow ==
  [unit : Units, tenant : Tenants, status : {"active", "expired", "terminated"},
   type : {"fixed", "month_to_month"}, end : EndDays \cup {None},
   deposit : BOOLEAN, moveOut : Days \cup {None}, returned : Days \cup {None}]

Leases == 1..leases
ActiveOn(u) == {l \in Leases : lease[l].unit = u /\ lease[l].status = "active"}
NewLease(u, t, e) ==
  [unit |-> u, tenant |-> t, status |-> "active",
   type |-> IF e = None THEN "month_to_month" ELSE "fixed", end |-> e,
   deposit |-> t \in Depositors, moveOut |-> None, returned |-> None]

\* the newest lease of tenant t with status s, 0 when there is none
Newest(t, s) ==
  LET L == {l \in Leases : lease[l].tenant = t /\ lease[l].status = s}
  IN IF L = {} THEN 0 ELSE CHOOSE l \in L : \A k \in L : k <= l

\* what GET /api/tenants/[id] lets the page show
Loaded(t) ==
  LET a == Newest(t, "active")
      e == IF a # 0 /\ lease[a].moveOut # None THEN a ELSE Newest(t, "terminated")
  IN [active |-> a,
      m2m    |-> a # 0 /\ lease[a].type = "month_to_month",
      refund |-> IF e # 0 /\ lease[e].deposit /\ lease[e].returned = None THEN e ELSE 0]

NoPage == [active |-> 0, m2m |-> FALSE, refund |-> 0]
NoReq  == [pc |-> "idle", lease |-> 0, unit |-> None, day |-> None, what |-> "none"]
NoForm == [unit |-> None, status |-> "vacant"]

-----------------------------------------------------------------------------
LeaseTypes ==
  /\ mode \in Modes
  /\ leases \in 0..MaxLeases
  /\ DOMAIN lease = Leases /\ \A l \in Leases : lease[l] \in LeaseRow
  /\ unit \in [Units -> {"vacant", "occupied", "maintenance", "deleted"}]
  /\ page \in [Pages -> [active : 0..MaxLeases, m2m : BOOLEAN, refund : 0..MaxLeases]]
  /\ req \in [Slots -> [pc : {"idle", "sent", "checked", "inserted", "vacated", "answered"},
                        lease : 0..MaxLeases, unit : Units \cup {None},
                        day : EndDays \cup {None},
                        what : {"none", "active", "expired", "terminated", "moveOut"}]]
  /\ unitForm \in [unit : Units \cup {None}, status : {"vacant", "occupied", "maintenance"}]
  /\ job \in [pc : {"idle", "remind", "convert"}, now : Days, due : SUBSET LeaseIds]
  /\ today \in Days /\ deaths \in 0..MaxDeaths /\ acts \in 0..MaxActs[mode]
  /\ sent \in SUBSET (LeaseIds \X {"statement_due", "return_due"})
  /\ revived \in [Units -> Nat]
  /\ lostTerm \in SUBSET LeaseIds /\ renewedMid \in SUBSET LeaseIds

LeaseInit ==
  /\ mode \in Modes
  /\ leases = 0 /\ lease = [l \in {} |-> None]
  /\ unit = [u \in Units |-> "vacant"]
  /\ page = [c \in Pages |-> NoPage]
  /\ req = [s \in Slots |-> NoReq]
  /\ unitForm = NoForm
  /\ job = [pc |-> "idle", now |-> 0, due |-> {}]
  /\ today = 0 /\ deaths = 0 /\ acts = 0
  /\ sent = {} /\ lostTerm = {} /\ renewedMid = {}
  /\ revived = [u \in Units |-> 0]

-----------------------------------------------------------------------------
(* The tenant page *)

NoneUnderWay == \A s \in Slots : req[s].pc = "idle"
\* in calm mode the landlord acts on what is stored and on one thing at a time
MayAct(c) ==
  mode = "calm" => NoneUnderWay /\ unitForm = NoForm /\ page[c] = Loaded(TenantOf[c])

PageIdle(c) == \A o \in LeaseForms : req[<<c, o>>].pc = "idle"

LoadTenant(c) ==
  /\ PageIdle(c)
  /\ page' = [page EXCEPT ![c] = Loaded(TenantOf[c])]
  /\ UNCHANGED <<mode, rows, req, unitForm, job, today, deaths, acts, history>>

Send(s, r) ==
  /\ req[s].pc = "idle"
  /\ req' = [req EXCEPT ![s] = r]
  /\ acts < MaxActs[mode] /\ acts' = acts + 1
  /\ UNCHANGED <<mode, rows, page, unitForm, job, today, deaths, history>>

(* what the page offers, decided by what it shows and not by what is stored *)
LeaseFormShown(c)  == page[c].active = 0
ActionsShown(c)    == page[c].active # 0
ReturnFormShown(c) == page[c].refund # 0

SubmitLease(c, u, e) ==
  /\ MayAct(c) /\ LeaseFormShown(c)
  /\ unit[u] # "deleted"
  /\ Send(<<c, "create">>, [pc |-> "sent", lease |-> 0, unit |-> u, day |-> e, what |-> "none"])

SubmitRenew(c, e) ==
  /\ MayAct(c) /\ ActionsShown(c)
  /\ Send(<<c, "renew">>,
          [pc |-> "sent", lease |-> page[c].active, unit |-> None, day |-> e, what |-> "none"])

SubmitConvert(c) ==
  /\ MayAct(c) /\ ActionsShown(c) /\ ~page[c].m2m
  /\ Send(<<c, "convert">>,
          [pc |-> "sent", lease |-> page[c].active, unit |-> None, day |-> None, what |-> "none"])

SubmitTerminate(c) ==
  /\ MayAct(c) /\ ActionsShown(c)
  /\ Send(<<c, "terminate">>,
          [pc |-> "sent", lease |-> page[c].active, unit |-> None, day |-> None,
           what |-> "terminated"])

SubmitReturn(c) ==
  /\ MayAct(c) /\ ReturnFormShown(c)
  /\ Send(<<c, "return">>,
          [pc |-> "sent", lease |-> page[c].refund, unit |-> None, day |-> today, what |-> "none"])

\* PUT /api/leases/[id] takes a status and a move-out date that no page sends
SubmitPut(c, l, w) ==
  /\ mode = "busy" /\ c \in Scripts /\ l \in Leases
  /\ Send(<<c, "put">>, [pc |-> "sent", lease |-> l, unit |-> None, day |-> today, what |-> w])

\* the answer arrives: the page loads the tenant again and clears the flag
Reload(s) ==
  /\ req[s].pc = "answered"
  /\ req' = [req EXCEPT ![s] = NoReq]
  /\ page' = IF s[1] \in Pages THEN [page EXCEPT ![s[1]] = Loaded(TenantOf[s[1]])] ELSE page
  /\ UNCHANGED <<mode, rows, unitForm, job, today, deaths, acts, history>>

\* the route throws, the server dies or the answer is lost: no reload
RequestFails(s) ==
  /\ mode = "busy" /\ deaths < MaxDeaths
  /\ req[s].pc # "idle"
  /\ req' = [req EXCEPT ![s] = NoReq]
  /\ deaths' = deaths + 1
  /\ UNCHANGED <<mode, rows, page, unitForm, job, today, acts, history>>

-----------------------------------------------------------------------------
(* POST /api/leases *)

Refused(s) == req' = [req EXCEPT ![s] = NoReq]

\* mutant: the query for an active lease is gone
CreateCheckUnit(c) ==
  LET s == <<c, "create">> IN
  /\ req[s].pc = "sent"
  /\ req' = [req EXCEPT ![s] = [@ EXCEPT !.pc = "checked"]]
  /\ UNCHANGED <<mode, rows, page, unitForm, job, today, deaths, acts, history>>

CreateCheck(c) ==
  LET s == <<c, "create">> IN
  /\ req[s].pc = "sent"
  /\ IF unit[req[s].unit] = "deleted" \/ ActiveOn(req[s].unit) # {}
       THEN Refused(s)
       ELSE req' = [req EXCEPT ![s] = [@ EXCEPT !.pc = "checked"]]
  /\ UNCHANGED <<mode, rows, page, unitForm, job, today, deaths, acts, history>>

CreateInsert(c) ==
  LET s == <<c, "create">>
      r == req[s] IN
  /\ r.pc = "checked" /\ leases < MaxLeases
  /\ unit[r.unit] # "deleted"       \* foreign key
  /\ leases' = leases + 1
  /\ lease' = [l \in 1..(leases + 1) |->
               IF l = leases + 1 THEN NewLease(r.unit, TenantOf[c], r.day) ELSE lease[l]]
  /\ req' = [req EXCEPT ![s] = [r EXCEPT !.pc = "inserted"]]
  /\ UNCHANGED <<mode, unit, page, unitForm, job, today, deaths, acts, history>>

CreateOccupy(c) ==
  LET s == <<c, "create">> IN
  /\ req[s].pc = "inserted"
  /\ unit' = [unit EXCEPT ![req[s].unit] = "occupied"]
  /\ req' = [req EXCEPT ![s] = [@ EXCEPT !.pc = "answered"]]
  /\ UNCHANGED <<mode, leases, lease, page, unitForm, job, today, deaths, acts, history>>

(* PUT /api/leases/[id] *)

Ends(r) == r.what \in {"expired", "terminated"}
\* ending a lease marks its unit vacant before the lease itself is written
PutVacate(s) ==
  /\ req[s].pc = "sent" /\ Ends(req[s])
  /\ unit' = [unit EXCEPT ![lease[req[s].lease].unit] = "vacant"]
  /\ req' = [req EXCEPT ![s] = [@ EXCEPT !.pc = "vacated"]]
  /\ UNCHANGED <<mode, leases, lease, page, unitForm, job, today, deaths, acts, history>>

Updated(r, o, l) ==
  CASE o = "renew"   -> [l EXCEPT !.end = r.day]
    [] o = "convert" -> [l EXCEPT !.type = "month_to_month", !.end = None]
    [] o = "return"  -> [l EXCEPT !.returned = r.day]
    [] OTHER -> IF r.what = "moveOut" THEN [l EXCEPT !.moveOut = r.day]
                                      ELSE [l EXCEPT !.status = r.what]

PutUpdate(s) ==
  LET r == req[s]
      l == r.lease IN
  /\ s[2] # "create"
  /\ r.pc = IF Ends(r) THEN "vacated" ELSE "sent"
  /\ lease' = [lease EXCEPT ![l] = Updated(r, s[2], lease[l])]
  /\ req' = [req EXCEPT ![s] = [r EXCEPT !.pc = "answered"]]
  /\ revived' = IF r.what = "active" /\ lease[l].status # "active"
                  THEN [revived EXCEPT ![lease[l].unit] = @ + 1] ELSE revived
  /\ renewedMid' = IF s[2] = "renew" /\ l \in job.due THEN renewedMid \cup {l} ELSE renewedMid
  /\ UNCHANGED <<mode, leases, unit, page, unitForm, job, today, deaths, acts, sent, lostTerm>>

(* The units page: the form keeps the status it was opened with and saves it *)

OpenUnitForm(u) ==
  /\ unitForm = NoForm /\ unit[u] # "deleted"
  /\ mode = "calm" => NoneUnderWay
  /\ unitForm' = [unit |-> u, status |-> unit[u]]
  /\ acts < MaxActs[mode] /\ acts' = acts + 1
  /\ UNCHANGED <<mode, rows, page, req, job, today, deaths, history>>

SaveUnitForm ==
  /\ unitForm # NoForm
  /\ unit' = IF unit[unitForm.unit] = "deleted" THEN unit
             ELSE [unit EXCEPT ![unitForm.unit] = unitForm.status]
  /\ unitForm' = NoForm
  /\ UNCHANGED <<mode, leases, lease, page, req, job, today, deaths, acts, history>>

\* the foreign key of the lease refuses what the check for active leases lets through
DeleteUnit(u) ==
  /\ unit[u] # "deleted"
  /\ \A l \in Leases : lease[l].unit # u
  /\ mode = "calm" => NoneUnderWay
  /\ unit' = [unit EXCEPT ![u] = "deleted"]
  /\ UNCHANGED <<mode, leases, lease, page, req, unitForm, job, today, deaths, acts, history>>

-----------------------------------------------------------------------------
(* checkLeaseExpirations, daily *)

\* a run that starts when no lease has a term finds nothing and is left out
JobStart ==
  /\ job.pc = "idle"
  /\ \E l \in Leases : lease[l].status = "active" /\ lease[l].type = "fixed" /\ lease[l].end # None
  /\ job' = [pc |-> "remind", now |-> today, due |-> {}]
  /\ UNCHANGED <<mode, rows, page, req, unitForm, today, deaths, acts, history>>

\* mutant: the query of the reminders is used for the conversions too
DueSoon(now) ==
  {l \in Leases : /\ lease[l].status = "active" /\ lease[l].type = "fixed"
                  /\ lease[l].end # None /\ lease[l].end <= now + 1}

Due(now) ==
  {l \in Leases : /\ lease[l].status = "active" /\ lease[l].type = "fixed"
                  /\ lease[l].end # None /\ lease[l].end <= now}

\* the reminders of the leases about to expire are sent, then the expired are read
JobRemind ==
  /\ job.pc = "remind"
  /\ job' = [job EXCEPT !.pc = "convert", !.due = Due(job.now)]
  /\ UNCHANGED <<mode, rows, page, req, unitForm, today, deaths, acts, history>>

\* the row is not read again: what it says by now does not matter
JobConvert(l) ==
  /\ job.pc = "convert" /\ l \in job.due
  /\ lease' = [lease EXCEPT ![l] = [lease[l] EXCEPT !.type = "month_to_month", !.end = None]]
  /\ job' = [job EXCEPT !.due = job.due \ {l}]
  /\ lostTerm' = IF lease[l].end # None /\ lease[l].end > job.now
                   THEN lostTerm \cup {l} ELSE lostTerm
  /\ UNCHANGED <<mode, leases, unit, page, req, unitForm, today, deaths, acts, sent, revived,
                 renewedMid>>

JobDone ==
  /\ job.pc = "convert" /\ job.due = {}
  /\ job' = [job EXCEPT !.pc = "idle"]
  /\ UNCHANGED <<mode, rows, page, req, unitForm, today, deaths, acts, history>>

\* a run that dies is run again from the start
JobFails ==
  /\ mode = "busy" /\ deaths < MaxDeaths /\ job.pc # "idle"
  /\ job' = [pc |-> "idle", now |-> job.now, due |-> {}]
  /\ deaths' = deaths + 1
  /\ UNCHANGED <<mode, rows, page, req, unitForm, today, acts, history>>

(* sendDepositReminders, daily *)

Unreturned == {l \in Leases : lease[l].deposit /\ lease[l].moveOut # None /\ lease[l].returned = None}

\* mutant: the last day of a window does not count
DepositRunStrict ==
  /\ sent' = sent \cup {<<l, "return_due">> : l \in
                              {k \in Unreturned : today < lease[k].moveOut + ReturnDays}}
  /\ UNCHANGED <<mode, rows, page, req, unitForm, job, today, deaths, acts, revived, lostTerm,
                 renewedMid>>

\* one run: its mails go to the landlords one after the other
DepositRun ==
  /\ sent' = sent \cup {<<l, "statement_due">> : l \in
                              {k \in Unreturned : today <= lease[k].moveOut + StatementDays}}
                  \cup {<<l, "return_due">> : l \in
                              {k \in Unreturned : today <= lease[k].moveOut + ReturnDays}}
  /\ UNCHANGED <<mode, rows, page, req, unitForm, job, today, deaths, acts, revived, lostTerm, renewedMid>>

NextDay ==
  /\ today < MaxDay /\ today' = today + 1
  /\ UNCHANGED <<mode, rows, page, req, unitForm, job, deaths, acts, history>>

-----------------------------------------------------------------------------
Expiry == JobStart \/ JobRemind \/ (\E l \in LeaseIds : JobConvert(l)) \/ JobDone

LeaseNext ==
  \/ \E c \in Pages :
       \/ LoadTenant(c)
       \/ \E u \in Units, e \in {today + 1, None} : SubmitLease(c, u, e)
       \/ SubmitRenew(c, MaxDay + 1)
       \/ SubmitConvert(c) \/ SubmitTerminate(c) \/ SubmitReturn(c)
       \/ CreateCheck(c) \/ CreateInsert(c) \/ CreateOccupy(c)
  \/ \E c \in Scripts, l \in LeaseIds, w \in {"active", "expired", "moveOut"} : SubmitPut(c, l, w)
  \/ \E s \in Slots : PutVacate(s) \/ PutUpdate(s) \/ Reload(s) \/ RequestFails(s)
  \/ \E u \in Units : OpenUnitForm(u) \/ DeleteUnit(u)
  \/ SaveUnitForm
  \/ Expiry \/ JobFails \/ DepositRun \/ NextDay

LeaseSpec == LeaseInit /\ [][LeaseNext]_leaseVars

\* the scheduler starts the expiration job every day, and a run in progress goes on
Fairness == WF_leaseVars(Expiry) /\ WF_leaseVars(DepositRun)
FairLeaseSpec == LeaseSpec /\ Fairness

-----------------------------------------------------------------------------
(* Properties *)

\* Two active leases of one unit.  The check of POST /api/leases is not part of
\* the insert, and no unique index stands behind it: overlapping requests each
\* add a lease, so a unit can have as many as pages sent requests at once, plus
\* the ended leases somebody made active again, and never more.
ActiveBounded ==
  \A u \in Units : Cardinality(ActiveOn(u)) <= Cardinality(Pages) + revived[u]

\* When the landlord does one thing at a time on fresh pages and nothing fails, a
\* unit is marked occupied exactly while it has an active lease, unless it was
\* set to maintenance by hand: creating, ending, the unit form and the nightly
\* job agree.
OccupancyMatches ==
  mode = "calm" /\ NoneUnderWay =>
    \A u \in Units : /\ unit[u] = "occupied" <=> ActiveOn(u) # {}
                     /\ Cardinality(ActiveOn(u)) <= 1

\* The nightly job takes a term that has not ended from a lease only when the
\* landlord renewed it between the job's query and the job's update: the query
\* itself never picks one, however many runs die and are run again.
TermLostOnlyMidRun == lostTerm \subseteq renewedMid

\* A lease of a fixed term that has ended and is still active is made
\* month-to-month, or ended or renewed by the landlord, in the end.
ExpiredConverts == Due(today) # {} ~> Due(today) = {}

\* A deposit still kept after the move-out day that was recorded is announced to
\* the landlord while the 45 days run, unless it is returned or they pass first.
Unannounced == {l \in Unreturned : /\ today <= lease[l].moveOut + ReturnDays
                                   /\ <<l, "return_due">> \notin sent}
DepositAnnounced == Unannounced # {} ~> Unannounced = {}

\* The two facts about a unit's leases that no database constraint keeps.
UnitKept == LeaseTypes /\ ActiveBounded /\ OccupancyMatches

\* What the two nightly jobs owe the landlord, whichever runs die on the way.
JobsCatchUp == ExpiredConverts /\ DepositAnnounced
=============================================================================
