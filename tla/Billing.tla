------------------------------ MODULE Billing ------------------------------
(***************************************************************************)
(* A landlord's subscription: the plan pages and /api/billing/subscription *)
(* (start, change, cancel), Stripe's own course and the webhook that       *)
(* mirrors it, the admin's status buttons, the usage records and the       *)
(* monthly billing job with its retries.                                   *)
(*                                                                         *)
(* Stripe is external: what it keeps of a subscription, and events that    *)
(* come late, in any order, and more than once.  The webhook always        *)
(* answers 200, so an event it could not use is gone.                      *)
(*                                                                         *)
(* The webhook's invoice handlers look for a stripeInvoiceId that nothing  *)
(* writes: they never find a row and are left out.                         *)
(***************************************************************************)
EXTENDS Integers, FiniteSets

CONSTANTS
  Landlords, Tiers, Tabs,
  FirstTier,      \* the plan of those who are subscribed to start with
  ZoneOffset,     \* the server's clock: hours from local midnight to UTC midnight
  MaxRetries,     \* of the billing job
  Casts,          \* bound: who takes part together, how many months pass and events come
  Subscribed,     \* bound: landlords that are subscribed to start with
  MaxSubs,        \* bound: Stripe subscriptions
  MaxEvents,      \* bound: Stripe events
  MaxUsage,       \* bound: usage records of a landlord and month
  MaxAdmin,       \* bound: status changes by the admin
  MaxBreaks       \* bound: requests that die, runs of the job that throw

ASSUME BillingAssumption ==
  /\ FirstTier \in Tiers /\ ZoneOffset \in Int
  /\ "none" \notin Tiers \cup Landlords
  /\ Subscribed \subseteq Landlords /\ IsFiniteSet(Landlords) /\ Cardinality(Subscribed) <= MaxSubs
  /\ MaxRetries \in Nat /\ MaxSubs \in Nat /\ MaxEvents \in Nat /\ MaxUsage \in Nat
  /\ MaxAdmin \in Nat /\ MaxBreaks \in Nat
  /\ Casts \subseteq [who : SUBSET Landlords, tabs : SUBSET Tabs, months : Nat,
                events : 0..MaxEvents]

Statuses == {"trialing", "active", "past_due", "canceled"}
SubIds == 1..MaxSubs
Months == Nat \ {0}

VARIABLES
  cast,
  row,       \* [Landlords -> Subscription row]; status "none": there is no row
  subs,      \* Stripe subscriptions ever made
  stripe,    \* [1..subs -> what Stripe keeps]
  events,    \* events Stripe has sent, in the order they happened
  handled,   \* those the webhook has had
  tab,       \* [Tabs -> request in flight]
  month,
  metered,   \* [Landlords -> [months so far -> cents recorded]]
  pending,   \* [Landlords -> month stamped on a record that is not written yet, 0: none]
  invoice,   \* [Landlords -> [months closed -> invoice]]; tier "none": there is none
  job,       \* the billing job
  admin, breaks,
  raced,     \* history: landlords with two requests at once, or one that died
  reordered, \* history: subscriptions with an event handled after a later one
  touched,   \* history: landlords whose status the admin has set
  late       \* history: <<landlord, month>> with usage written after the month

plan  == <<row, subs, stripe, events, handled>>
meter == <<month, metered, pending, invoice, job>>
ghost == <<raced, reordered, touched, late>>
billingVars  == <<cast, plan, tab, meter, admin, breaks, ghost>>

NoRow == [status |-> "none", tier |-> "none", stripe |-> 0]
NoTab == [pc |-> "idle", op |-> "none", who |-> "none", tier |-> "none", stripe |-> 0]
NoInvoice == [tier |-> "none", usage |-> 0]
NoJob == [pc |-> "idle", subs |-> {}, tiers |-> [l \in Landlords |-> "none"],
          todo |-> {}, at |-> "none", sum |-> 0, tries |-> 0]

BillingTypes ==
  /\ cast \in Casts
  /\ row \in [Landlords -> [status : Statuses \cup {"none", "suspended"},
                            tier : Tiers \cup {"none"}, stripe : 0..MaxSubs]]
  /\ subs \in 0..MaxSubs /\ DOMAIN stripe = 1..subs
  /\ \A s \in 1..subs :
       stripe[s] \in [owner : Landlords, status : Statuses, atEnd : BOOLEAN, price : Tiers]
  /\ DOMAIN events \in {1..n : n \in 0..MaxEvents} /\ handled \subseteq DOMAIN events
  /\ \A n \in DOMAIN events :
       events[n] \in [sub : 1..subs, status : Statuses]
  /\ tab \in [Tabs -> [pc : {"idle", "stripe", "row"},
                       op : {"none", "subscribe", "change", "cancel"},
                       who : Landlords \cup {"none"}, tier : Tiers \cup {"none"},
                       stripe : 0..MaxSubs]]
  /\ month \in Months
  /\ \A l \in Landlords :
       /\ metered[l] \in [1..month -> Nat]
       /\ invoice[l] \in [1..month -> [tier : Tiers \cup {"none"}, usage : Nat]]
  /\ pending \in [Landlords -> 0..month]
  /\ job \in [pc : {"idle", "read", "sum", "insert", "done", "failed"},
              subs : SUBSET Landlords, tiers : [Landlords -> Tiers \cup {"none"}],
              todo : SUBSET Landlords, at : Landlords \cup {"none"}, sum : Nat,
              tries : 0..MaxRetries]
  /\ admin \in 0..MaxAdmin /\ breaks \in 0..MaxBreaks

Started == CHOOSE f \in [Subscribed -> 1..Cardinality(Subscribed)] :
             \A k, l \in Subscribed : f[k] = f[l] => k = l

BillingInit ==
  /\ cast \in Casts
  /\ row = [l \in Landlords |->
       IF l \in Subscribed THEN [status |-> "active", tier |-> FirstTier, stripe |-> Started[l]]
       ELSE NoRow]
  /\ subs = Cardinality(Subscribed)
  /\ stripe = [s \in 1..Cardinality(Subscribed) |->
       [owner |-> CHOOSE l \in Subscribed : Started[l] = s, status |-> "active",
        atEnd |-> FALSE, price |-> FirstTier]]
  /\ events = [n \in {} |-> 0] /\ handled = {}
  /\ tab = [t \in Tabs |-> NoTab]
  /\ month = 1
  /\ metered = [l \in Landlords |-> [m \in {1} |-> 0]]
  /\ pending = [l \in Landlords |-> 0]
  /\ invoice = [l \in Landlords |-> [m \in {1} |-> NoInvoice]]
  /\ job = NoJob
  /\ admin = 0 /\ breaks = 0
  /\ raced = {} /\ reordered = {} /\ touched = {} /\ late = {}

-----------------------------------------------------------------------------
(* Stripe *)

Busy(l) == {t \in Tabs : tab[t].who = l}

\* nothing of Stripe's own moves within the seconds a request takes
Settled(s) == \A t \in Tabs : tab[t].pc = "row" => tab[t].stripe # s

Emit(s, status) ==
  LET n == Cardinality(DOMAIN events) IN
  /\ n < cast.events
  /\ events' = [k \in 1..(n + 1) |->
       IF k = n + 1 THEN [sub |-> s, status |-> status] ELSE events[k]]

StripeMoves(s, status) ==
  /\ Emit(s, status)
  /\ stripe' = [stripe EXCEPT ![s] = [stripe[s] EXCEPT !.status = status]]
  /\ UNCHANGED <<cast, row, subs, handled, tab, meter, admin, breaks, ghost>>

\* a trial ends paid or not, a charge fails, a card is renewed; at its end a
\* subscription that was canceled goes
StripeCourse(s) ==
  /\ s \in 1..subs /\ Settled(s) /\ stripe[s].owner \in cast.who
  /\ \/ stripe[s].status = "trialing" /\ StripeMoves(s, "active")
     \/ stripe[s].status \in {"trialing", "active"} /\ StripeMoves(s, "past_due")
     \/ stripe[s].status = "past_due" /\ StripeMoves(s, "active")
     \/ stripe[s].status = "past_due" /\ StripeMoves(s, "canceled")
     \/ stripe[s].atEnd /\ stripe[s].status # "canceled" /\ StripeMoves(s, "canceled")

-----------------------------------------------------------------------------
(* handleSubscriptionUpdated and handleSubscriptionDeleted *)
\* statusMap
Status(n, old) == events[n].status

Webhook(n) ==
  LET s == events[n].sub
      L == {l \in Landlords : row[l].stripe = s} IN
  /\ n \in DOMAIN events
  /\ handled' = handled \cup {n}
  /\ reordered' = IF \E k \in handled : k > n /\ events[k].sub = s
                    THEN reordered \cup {s} ELSE reordered
  /\ row' = [l \in Landlords |->
       IF l \in L THEN [row[l] EXCEPT !.status = Status(n, row[l].status)] ELSE row[l]]
  /\ UNCHANGED <<cast, subs, stripe, events, tab, meter, admin, breaks, raced, touched, late>>

-----------------------------------------------------------------------------
(* /api/billing/subscription *)

Begin(t, r) ==
  /\ t \in cast.tabs /\ tab[t].pc = "idle" /\ r.who \in cast.who
  /\ tab' = [tab EXCEPT ![t] = r]
  /\ raced' = IF Busy(r.who) # {} THEN raced \cup {r.who} ELSE raced
  /\ UNCHANGED <<cast, plan, meter, admin, breaks, reordered, touched, late>>

Request(op, l, tier) ==
  [pc |-> "stripe", op |-> op, who |-> l, tier |-> tier, stripe |-> row[l].stripe]

\* mutant: a second choice of a plan does not find the first
SubscribeAlways(t, l, tier) == Begin(t, Request("subscribe", l, tier))

\* PlanSelector; a landlord who has a row gets it back and nothing happens
Subscribe(t, l, tier) == row[l] = NoRow /\ Begin(t, Request("subscribe", l, tier))

\* ChangePlanModal offers the other plans; the route looks at no status
ChangePlan(t, l, tier) ==
  row[l] # NoRow /\ tier # row[l].tier /\ Begin(t, Request("change", l, tier))

\* CancelSubscriptionSection has no button when it is canceled
Cancel(t, l) ==
  /\ row[l].status \notin {"none", "canceled"}
  /\ Begin(t, Request("cancel", l, row[l].tier))

Goes(t, pc) == tab' = [tab EXCEPT ![t] = [tab[t] EXCEPT !.pc = pc]]
Ends(t)     == tab' = [tab EXCEPT ![t] = NoTab]

StripeCreates(t) ==
  LET new == [owner |-> tab[t].who, status |-> "trialing", atEnd |-> FALSE, price |-> tab[t].tier]
  IN
  /\ tab[t].pc = "stripe" /\ tab[t].op = "subscribe" /\ subs < MaxSubs
  /\ subs' = subs + 1
  /\ stripe' = [s \in 1..(subs + 1) |-> IF s = subs + 1 THEN new ELSE stripe[s]]
  /\ tab' = [tab EXCEPT ![t] = [tab[t] EXCEPT !.pc = "row", !.stripe = subs + 1]]
  /\ UNCHANGED <<cast, row, events, handled, meter, admin, breaks, ghost>>

\* a user has one row: the second of two inserts throws
InsertRow(t) ==
  LET l == tab[t].who IN
  /\ tab[t].pc = "row" /\ tab[t].op = "subscribe"
  /\ row' = IF row[l] # NoRow THEN row
            ELSE [row EXCEPT ![l] =
              [status |-> "trialing", tier |-> tab[t].tier, stripe |-> tab[t].stripe]]
  /\ Ends(t)
  /\ UNCHANGED <<cast, subs, stripe, events, handled, meter, admin, breaks, ghost>>

\* Stripe refuses to change what is canceled, and the request throws
StripeChanges(t) ==
  LET s == tab[t].stripe
      new == IF tab[t].op = "cancel" THEN [stripe[s] EXCEPT !.atEnd = TRUE]
             ELSE [stripe[s] EXCEPT !.price = tab[t].tier] IN
  /\ tab[t].pc = "stripe" /\ tab[t].op \in {"change", "cancel"}
  /\ IF stripe[s].status = "canceled"
       THEN Ends(t) /\ UNCHANGED <<stripe, events>>
       ELSE stripe' = [stripe EXCEPT ![s] = new] /\ Emit(s, stripe[s].status) /\ Goes(t, "row")
  /\ UNCHANGED <<cast, row, subs, handled, meter, admin, breaks, ghost>>

UpdateRow(t) ==
  LET l == tab[t].who IN
  /\ tab[t].pc = "row" /\ tab[t].op \in {"change", "cancel"}
  /\ row' = [row EXCEPT ![l] = IF tab[t].op = "cancel" THEN [row[l] EXCEPT !.status = "canceled"]
                               ELSE [row[l] EXCEPT !.tier = tab[t].tier]]
  /\ Ends(t)
  /\ UNCHANGED <<cast, subs, stripe, events, handled, meter, admin, breaks, ghost>>

RequestDies(t) ==
  /\ tab[t].pc # "idle" /\ Ends(t)
  /\ breaks < MaxBreaks /\ breaks' = breaks + 1
  /\ raced' = raced \cup {tab[t].who}
  /\ UNCHANGED <<cast, plan, meter, admin, reordered, touched, late>>

\* the buttons of the admin's subscription page
AdminSetsStatus(l, status) ==
  /\ l \in cast.who /\ row[l] # NoRow /\ admin < MaxAdmin /\ admin' = admin + 1
  /\ \/ status = "suspended" /\ row[l].status # "suspended"
     \/ status = "active" /\ row[l].status = "suspended"
     \/ status = "canceled" /\ row[l].status # "canceled"
  /\ row' = [row EXCEPT ![l] = [row[l] EXCEPT !.status = status]]
  /\ touched' = touched \cup {l}
  /\ UNCHANGED <<cast, subs, stripe, events, handled, tab, meter, breaks, raced, reordered, late>>

-----------------------------------------------------------------------------
(* recordUsage, and the months *)

\* getBillingMonth: local midnight of the month's first day
Stamp(l) ==
  /\ l \in cast.who /\ month <= cast.months /\ pending[l] = 0 /\ metered[l][month] < MaxUsage
  /\ pending' = [pending EXCEPT ![l] = month]
  /\ UNCHANGED <<cast, plan, tab, month, metered, invoice, job, admin, breaks, ghost>>

WriteUsage(l) ==
  LET m == pending[l] IN
  /\ m # 0
  /\ metered' = [metered EXCEPT ![l] = [metered[l] EXCEPT ![m] = metered[l][m] + 1]]
  /\ pending' = [pending EXCEPT ![l] = 0]
  /\ late' = IF m < month THEN late \cup {<<l, m>>} ELSE late
  /\ UNCHANGED <<cast, plan, tab, month, invoice, job, admin, breaks, raced, reordered, touched>>

\* midnight of the first: the job's schedule fires
MonthEnds ==
  /\ month <= cast.months /\ job.pc \in {"idle", "done", "failed"}
  /\ month' = month + 1
  /\ metered' = [l \in Landlords |-> [m \in 1..(month + 1) |->
       IF m \in 1..month THEN metered[l][m] ELSE 0]]
  /\ invoice' = [l \in Landlords |-> [m \in 1..(month + 1) |->
       IF m \in 1..month THEN invoice[l][m] ELSE NoInvoice]]
  /\ job' = [NoJob EXCEPT !.pc = "read"]
  /\ UNCHANGED <<cast, plan, tab, pending, admin, breaks, ghost>>

-----------------------------------------------------------------------------
(* runBillingCycle, for the month before *)

LocalStamp(m) == m * 720 + ZoneOffset   \* of a usage record
UtcStamp(m)   == m * 720                \* what the job asks for

Recorded(l, stamp) ==
  IF \E m \in DOMAIN metered[l] : LocalStamp(m) = stamp
    THEN metered[l][CHOOSE m \in DOMAIN metered[l] : LocalStamp(m) = stamp] ELSE 0

JobReads ==
  LET L == {l \in Landlords : row[l].status = "active"} IN
  /\ job.pc = "read"
  /\ job' = [job EXCEPT !.pc = IF L = {} THEN "done" ELSE "sum", !.subs = L, !.todo = L,
               !.tiers = [l \in Landlords |-> IF l \in L THEN row[l].tier ELSE "none"]]
  /\ UNCHANGED <<cast, plan, tab, month, metered, pending, invoice, admin, breaks, ghost>>
JobSums(l) ==
  /\ job.pc = "sum" /\ l \in job.todo
  /\ job' = [job EXCEPT !.pc = "insert", !.at = l, !.sum = Recorded(l, UtcStamp(month - 1))]
  /\ UNCHANGED <<cast, plan, tab, month, metered, pending, invoice, admin, breaks, ghost>>

JobGoesOn(todo) ==
  job' = IF todo = {} THEN [job EXCEPT !.pc = "done", !.todo = {}, !.at = "none", !.sum = 0]
         ELSE [job EXCEPT !.pc = "sum", !.todo = todo, !.at = "none", !.sum = 0]

AddInvoice(l) ==
  invoice' = [invoice EXCEPT ![l] =
    [invoice[l] EXCEPT ![month - 1] = [tier |-> job.tiers[l], usage |-> job.sum]]]

\* mutant: an invoice that is there ends the run
JobInvoicesOnce ==
  LET l == job.at IN
  /\ job.pc = "insert"
  /\ IF invoice[l][month - 1] # NoInvoice THEN JobGoesOn({}) /\ UNCHANGED invoice
       ELSE JobGoesOn(job.todo \ {l}) /\ AddInvoice(l)
  /\ UNCHANGED <<cast, plan, tab, month, metered, pending, admin, breaks, ghost>>

\* mutant: one that is there is tried again
JobInvoicesAgain ==
  LET l == job.at IN
  /\ job.pc = "insert"
  /\ IF invoice[l][month - 1] # NoInvoice THEN JobGoesOn(job.todo) /\ UNCHANGED invoice
       ELSE JobGoesOn(job.todo \ {l}) /\ AddInvoice(l)
  /\ UNCHANGED <<cast, plan, tab, month, metered, pending, admin, breaks, ghost>>

\* subscription and month are unique: an invoice that is there is skipped
JobInvoices ==
  LET l == job.at IN
  /\ job.pc = "insert"
  /\ JobGoesOn(job.todo \ {l})
  /\ IF invoice[l][month - 1] # NoInvoice THEN UNCHANGED invoice ELSE AddInvoice(l)
  /\ UNCHANGED <<cast, plan, tab, month, metered, pending, admin, breaks, ghost>>

\* a query throws, or the server goes down: BullMQ runs the handler again
JobThrows ==
  /\ job.pc \in {"read", "sum", "insert"}
  /\ breaks < MaxBreaks /\ breaks' = breaks + 1
  /\ job' = IF job.tries < MaxRetries THEN [NoJob EXCEPT !.pc = "read", !.tries = job.tries + 1]
            ELSE [job EXCEPT !.pc = "failed"]
  /\ UNCHANGED <<cast, plan, tab, month, metered, pending, invoice, admin, ghost>>

-----------------------------------------------------------------------------
BillingNext ==
  \/ \E s \in SubIds : StripeCourse(s)
  \/ \E n \in 1..MaxEvents : Webhook(n)
  \/ \E t \in Tabs :
       \/ \E l \in Landlords, tier \in Tiers : Subscribe(t, l, tier) \/ ChangePlan(t, l, tier)
       \/ \E l \in Landlords : Cancel(t, l)
       \/ StripeCreates(t) \/ InsertRow(t) \/ StripeChanges(t) \/ UpdateRow(t)
       \/ RequestDies(t)
  \/ \E l \in Landlords :
       \/ \E s \in {"active", "suspended", "canceled"} : AdminSetsStatus(l, s)
       \/ Stamp(l) \/ WriteUsage(l) \/ JobSums(l)
  \/ MonthEnds \/ JobReads \/ JobInvoices \/ JobThrows

BillingSpec == BillingInit /\ [][BillingNext]_billingVars

\* a job that has started goes on
BillingFairness ==
  /\ WF_billingVars(JobReads) /\ WF_billingVars(\E l \in Landlords : JobSums(l))
  /\ WF_billingVars(JobInvoices)
FairBillingSpec == BillingSpec /\ BillingFairness

-----------------------------------------------------------------------------
(* Properties *)

\* A landlord has no Stripe subscription beside the one in the row, which would
\* be charged and could not be canceled, unless two requests of the landlord
\* overlapped or one died between Stripe and the row.
NoStraySubscription ==
  \A s \in 1..subs :
    \/ row[stripe[s].owner].stripe = s \/ stripe[s].owner \in raced
    \/ \E t \in Tabs : tab[t].pc = "row" /\ tab[t].stripe = s

\* Stripe charges the plan the row names, unless two requests overlapped or one
\* died in between.
PriceFollowsPlan ==
  \A l \in Landlords :
    row[l] # NoRow /\ l \notin raced /\ Busy(l) = {} => stripe[row[l].stripe].price = row[l].tier

\* When every event has been handled, in order, and no request is under way, the
\* row says what Stripe says, or that it is canceled when Stripe will end it: a
\* landlord who is shown a cancellation is not charged another period.
RowAgrees ==
  \A l \in Landlords \ touched :
    LET s == row[l].stripe IN
    /\ s # 0 /\ s \notin reordered /\ Busy(l) = {}
    /\ \A n \in DOMAIN events : events[n].sub = s => n \in handled
    => \/ row[l].status = stripe[s].status
       \/ row[l].status = "canceled" /\ stripe[s].atEnd

\* An invoice holds all the usage of its month, whatever was retried and whenever
\* the calls ended, but for usage stamped before midnight and written after it.
InvoicedInFull ==
  \A l \in Landlords : \A m \in DOMAIN invoice[l] :
    invoice[l][m] # NoInvoice /\ <<l, m>> \notin late => invoice[l][m].usage = metered[l][m]

\* A run of the job that ends well leaves nobody it read without an invoice, runs
\* that broke off half-way before it included.
EveryoneInvoiced ==
  job.pc = "done" => \A l \in job.subs : invoice[l][month - 1] # NoInvoice

\* The month's job comes to an end.
JobEnds == job.pc = "read" ~> job.pc \in {"done", "failed"}

\* Stripe and the row tell one story of a landlord's plan (subscription/route.ts
\* and the webhook, which write both without a transaction).
PlanKept == BillingTypes /\ NoStraySubscription /\ PriceFollowsPlan /\ RowAgrees

\* The month's invoices bill everybody for everything (services/billing-cycle.ts).
InvoicesComplete == InvoicedInFull /\ EveryoneInvoiced
=============================================================================
