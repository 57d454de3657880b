----------------------------- MODULE RentLedger -----------------------------
(***************************************************************************)
(* The rent ledger of one active lease: the RentCharge and Payment rows,   *)
(* and every handler that writes them.                                     *)
(*                                                                         *)
(*   - the rent-posting and late-fee jobs of apps/server;                  *)
(*   - the portal's create-intent route, which opens an ACH payment;       *)
(*   - the dashboard's Stripe webhook, which settles it;                   *)
(*   - the dashboard's offline-payment and refund routes.                  *)
(*                                                                         *)
(* A handler that allocates money over charges is a process in Handlers.   *)
(* It takes one step per database call: it reads the charges, then visits  *)
(* them one at a time.  The webhook writes each row as it goes; the two    *)
(* $transaction routes keep their writes private and publish them at the   *)
(* commit, without having locked what they read (READ COMMITTED).          *)
(***************************************************************************)
EXTENDS Integers, FiniteSetsExt

CONSTANTS
    Months,        \* the months rent is charged for, 1..n
    Rent,          \* lease.monthlyRent
    LateFee,       \* lease.lateFeeAmount after the Cook County cap; 0: none
    GraceDays,     \* max(lease.lateFeeGraceDays, IL_GRACE_PERIOD_MIN)
    MonthDays,     \* days from one due date to the next
    MaxDay,        \* bound on the clock
    Online,        \* payments the tenant opens in the portal
    Offline,       \* cash and check payments the landlord records
    Amount,        \* payment.amount
    Handlers,      \* request handlers that can run at the same time
    Faults         \* the worlds considered, see FaultModel

Payments == Online \union Offline
Charges  == Months \X {"rent", "late_fee"}   \* @@unique([leaseId, forMonth, type])
Events   == {"processing", "succeeded", "failed"}

(* What may go wrong: an event is delivered up to so often, out of order;  *)
(* a request or a handler stops at any await; two handlers overlap.        *)
FaultModel == [deliveries : Nat, inOrder : BOOLEAN, crashes : BOOLEAN, overlap : BOOLEAN]

ASSUME LedgerAssumption ==
    /\ Months \subseteq Nat \ {0} /\ IsFiniteSet(Months)
    /\ Rent \in Nat \ {0} /\ LateFee \in Nat
    /\ GraceDays \in Nat /\ MonthDays \in Nat \ {0} /\ MaxDay \in Nat
    /\ Online \intersect Offline = {}
    /\ Amount \in [Payments -> Nat \ {0}]
    /\ Faults \subseteq FaultModel

VARIABLES
    now,       \* the day
    charge,    \* the RentCharge rows; status "none": no such row
    pay,       \* Payment.status; "none": no such row
    linked,    \* payments whose stripePaymentId is stored
    request,   \* progress of the create-intent request of a payment
    intent,    \* Stripe: state of the PaymentIntent
    returned,  \* Stripe: intents already refunded
    deliveries,\* Stripe: how often each event was delivered
    faults,    \* the world this behaviour is in; it never changes
    hs,        \* the allocating handlers
    feeJob     \* the late-fee job: date it runs for, months left to charge

vars == <<now, charge, pay, linked, request, intent, returned, deliveries, faults, hs, feeJob>>
stripeVars == <<intent, returned, deliveries, faults>>

PayStatus == {"none", "pending", "processing", "completed", "failed", "refunded"}
NoRow  == [amount |-> 0, due |-> 0, paid |-> 0, status |-> "none"]
Row    == [amount : Nat, due : Nat, paid : Nat,
           status : {"none", "unpaid", "partial", "paid"}]
NoJob  == [date |-> 0, months |-> {}]

(***************************************************************************)
(* A handler: what it does (kind), for which payment, where it is (pc),    *)
(* the rows it read or means to write (seen), their places in the list the *)
(* query returned, the ones it has to visit (todo) or has written in its   *)
(* transaction (dirty), the money left.                                    *)
(***************************************************************************)
Memory(kind, p, pc, seen, place, todo, dirty, remaining) ==
    [kind |-> kind, p |-> p, pc |-> pc, seen |-> seen, place |-> place, todo |-> todo,
     dirty |-> dirty, remaining |-> remaining]
Fresh(kind, p, pc) ==
    Memory(kind, p, pc, [c \in Charges |-> NoRow], [c \in {} |-> 0], {}, {}, 0)
Idle == Fresh("none", "none", "idle")
HandlerState ==
    [kind : {"none", "succeeded", "offline", "refund"}, p : Payments \union {"none"},
     pc : {"idle", "stripe", "read", "loop"}, seen : [Charges -> Row],
     place : UNION {[S -> Nat] : S \in SUBSET Charges},
     todo : SUBSET Charges, dirty : SUBSET Charges, remaining : Int]

TypeOK ==
    /\ now \in Nat
    /\ charge \in [Charges -> Row]
    /\ pay \in [Payments -> PayStatus]
    /\ linked \subseteq Online
    /\ request \in [Online -> {"none", "confirming", "storing", "done"}]
    /\ intent \in [Online -> {"none", "processing", "succeeded", "failed"}]
    /\ returned \subseteq Online
    /\ deliveries \in [Online \X Events -> Nat]
    /\ faults \in Faults
    /\ hs \in [Handlers -> HandlerState]
    /\ feeJob \in [date : Nat, months : SUBSET Months]

Init ==
    /\ now = 0
    /\ charge = [c \in Charges |-> NoRow]
    /\ pay = [p \in Payments |-> "none"]
    /\ linked = {}
    /\ request = [p \in Online |-> "none"]
    /\ intent = [p \in Online |-> "none"]
    /\ returned = {}
    /\ deliveries = [pe \in Online \X Events |-> 0]
    /\ faults \in Faults
    /\ hs = [h \in Handlers |-> Idle]
    /\ feeJob = NoJob

-----------------------------------------------------------------------------
(* The clock and the two nightly jobs.                                     *)

(* Instants are counted in half days: rent falls due at UTC midnight; the   *)
(* nightly jobs run at the server's own midnight, which comes after it.    *)
DueDay(m)   == m * MonthDays
Midnight(d) == 2 * d
JobTime(d)  == 2 * d + 1

Tick ==
    /\ now < MaxDay
    /\ feeJob = NoJob
    /\ now' = now + 1
    /\ UNCHANGED <<charge, pay, linked, request, stripeVars, hs, feeJob>>

NewCharge(amount, due) == [amount |-> amount, due |-> due, paid |-> 0, status |-> "unpaid"]

(* postRentCharges: only on the due day itself; an existing row is P2002.  *)
PostRent(m) ==
    /\ now = DueDay(m)
    /\ charge[<<m, "rent">>].status = "none"
    /\ charge' = [charge EXCEPT ![<<m, "rent">>] = NewCharge(Rent, Midnight(now))]
    /\ UNCHANGED <<now, pay, linked, request, stripeVars, hs, feeJob>>

Overdue(m) == /\ charge[<<m, "rent">>].status \in {"unpaid", "partial"}
              /\ JobTime(now) > charge[<<m, "rent">>].due + Midnight(GraceDays)

(* calculateLateFees reads the overdue rows once, then creates fee after fee. *)
LateFeeScan ==
    /\ feeJob = NoJob
    /\ LateFee > 0
    /\ feeJob' = [date |-> JobTime(now), months |-> {m \in Months : Overdue(m)}]
    /\ feeJob'.months # {}
    /\ UNCHANGED <<now, charge, pay, linked, request, stripeVars, hs>>

LateFeePost(m) ==
    /\ m \in feeJob.months
    /\ charge' = IF charge[<<m, "late_fee">>].status = "none"
                 THEN [charge EXCEPT ![<<m, "late_fee">>] = NewCharge(LateFee, feeJob.date)]
                 ELSE charge                                           \* P2002
    /\ feeJob' = IF feeJob.months = {m} THEN NoJob
                 ELSE [feeJob EXCEPT !.months = @ \ {m}]
    /\ UNCHANGED <<now, pay, linked, request, stripeVars, hs>>

-----------------------------------------------------------------------------
(* The portal: create-intent.                                              *)

OpenAch(p) ==
    /\ pay[p] = "none"
    /\ pay' = [pay EXCEPT ![p] = "pending"]
    /\ request' = [request EXCEPT ![p] = "confirming"]
    /\ UNCHANGED <<now, charge, linked, stripeVars, hs, feeJob>>

(* The card path stores a pending row and calls nobody.                    *)
OpenCard(p) ==
    /\ pay[p] = "none"
    /\ pay' = [pay EXCEPT ![p] = "pending"]
    /\ request' = [request EXCEPT ![p] = "done"]
    /\ UNCHANGED <<now, charge, linked, stripeVars, hs, feeJob>>

(* stripe.paymentIntents.create with confirm: true.                        *)
ConfirmIntent(p) ==
    /\ request[p] = "confirming"
    /\ intent' = [intent EXCEPT ![p] = "processing"]
    /\ request' = [request EXCEPT ![p] = "storing"]
    /\ UNCHANGED <<now, charge, pay, linked, returned, deliveries, faults, hs, feeJob>>

(* No Stripe client: createAchPaymentIntent returns null.                  *)
IntentUnavailable(p) ==
    /\ request[p] = "confirming"
    /\ pay' = [pay EXCEPT ![p] = "failed"]
    /\ request' = [request EXCEPT ![p] = "done"]
    /\ UNCHANGED <<now, charge, linked, stripeVars, hs, feeJob>>

StoreIntentId(p) ==
    /\ request[p] = "storing"
    /\ linked' = linked \union {p}
    /\ request' = [request EXCEPT ![p] = "done"]
    /\ UNCHANGED <<now, charge, pay, stripeVars, hs, feeJob>>

(* A throw or a crash: the row stays pending, the id may never be stored.  *)
RequestDies(p) ==
    /\ faults.crashes
    /\ request[p] \in {"confirming", "storing"}
    /\ request' = [request EXCEPT ![p] = "done"]
    /\ UNCHANGED <<now, charge, pay, linked, stripeVars, hs, feeJob>>

-----------------------------------------------------------------------------
(* Stripe.  ACH stays in processing for 3-5 days, so it settles after the  *)
(* create-intent request is over.                                          *)

Settle(p, outcome) ==
    /\ intent[p] = "processing"
    /\ request[p] = "done"
    /\ intent' = [intent EXCEPT ![p] = outcome]
    /\ UNCHANGED <<now, charge, pay, linked, request, returned, deliveries, faults, hs, feeJob>>

Emitted(p, e) == IF e = "processing" THEN intent[p] # "none" ELSE intent[p] = e

Deliverable(p, e) ==
    /\ Emitted(p, e)
    /\ deliveries[<<p, e>>] < faults.deliveries
    /\ faults.inOrder => IF e = "processing"
                  THEN \A d \in Events \ {e} : deliveries[<<p, d>>] = 0
                  ELSE deliveries[<<p, "processing">>] > 0

Deliver(p, e) ==
    /\ Deliverable(p, e)
    /\ deliveries' = [deliveries EXCEPT ![<<p, e>>] = @ + 1]

-----------------------------------------------------------------------------
(* The webhook.  findFirst by stripePaymentId: an event whose id is not    *)
(* stored yet is answered 200 and forgotten.                               *)

SomeoneIdle == \E h \in Handlers : hs[h].pc = "idle"

EventUnmatched(p, e) ==
    /\ SomeoneIdle
    /\ p \notin linked
    /\ Deliver(p, e)
    /\ UNCHANGED <<now, charge, pay, linked, request, intent, returned, faults, hs, feeJob>>

(* handlePaymentProcessing and handlePaymentFailed set the status.         *)
EventSetsStatus(p, e) ==
    /\ SomeoneIdle
    /\ p \in linked
    /\ e \in {"processing", "failed"}
    /\ Deliver(p, e)
    /\ pay' = [pay EXCEPT ![p] = e]
    /\ UNCHANGED <<now, charge, linked, request, intent, returned, faults, hs, feeJob>>

Free(h) == /\ hs[h].pc = "idle"
           /\ faults.overlap \/ \A g \in Handlers : hs[g].pc = "idle"

Enter(h, kind, p, pc) == hs' = [hs EXCEPT ![h] = Fresh(kind, p, pc)]

Loop(h, seen, place, todo, dirty, remaining) ==
    hs' = [hs EXCEPT ![h] =
              Memory(hs[h].kind, hs[h].p, "loop", seen, place, todo, dirty, remaining)]

(* handlePaymentSucceeded first marks the payment completed ...            *)
EventSucceeded(h, p) ==
    /\ Free(h)
    /\ p \in linked
    /\ Deliver(p, "succeeded")
    /\ pay' = [pay EXCEPT ![p] = "completed"]
    /\ Enter(h, "succeeded", p, "read")
    /\ UNCHANGED <<now, charge, linked, request, intent, returned, faults, feeJob>>

(* Mutant: the status filter forgets the partially paid charges.           *)
OutstandingUnpaid == {c \in Charges : charge[c].status = "unpaid"}

Outstanding == {c \in Charges : charge[c].status \in {"unpaid", "partial"}}
Credited    == {c \in Charges : charge[c].status \in {"paid", "partial"} /\ charge[c].paid > 0}

(* orderBy dueDate: rows due at the same instant come in any order.        *)
Lists(S) == {f \in [S -> 1..Cardinality(S)] : \A c, d \in S : f[c] = f[d] => c = d}
NewestFirst(S) == {f \in Lists(S) : \A c, d \in S : charge[c].due > charge[d].due => f[c] < f[d]}
OldestFirst(S) == {f \in Lists(S) : \A c, d \in S : charge[c].due < charge[d].due => f[c] < f[d]}

(* ... then, like the routes, reads the charges it may touch ...           *)
ReadCharges(h) ==
    /\ hs[h].pc = "read"
    /\ \/ /\ hs[h].kind = "refund"
          /\ \E place \in NewestFirst(Credited) :
                Loop(h, charge, place, Credited, {}, Amount[hs[h].p])
       \/ /\ hs[h].kind # "refund"
          /\ \E place \in OldestFirst(Outstanding) :
                Loop(h, charge, place, Outstanding, {}, Amount[hs[h].p])
    /\ UNCHANGED <<now, charge, pay, linked, request, stripeVars, feeJob>>

Working(h) == hs[h].pc = "loop" /\ hs[h].remaining > 0 /\ hs[h].todo # {}

First(h, c) == c \in hs[h].todo /\ \A d \in hs[h].todo : hs[h].place[c] <= hs[h].place[d]

(* Mutants: Math.min left out, of Apply and of Reverse.                    *)
LesserFirst(a, b)  == a
LesserSecond(a, b) == b

Lesser(a, b) == IF a <= b THEN a ELSE b

Allocated(row, paid, status) ==
    [amount |-> row.amount, due |-> row.due, paid |-> paid, status |-> status]

Apply(row, money) ==
    LET paid == row.paid + Lesser(money, row.amount - row.paid)
    IN  Allocated(row, paid, IF paid >= row.amount THEN "paid" ELSE "partial")

Reverse(row, money) ==
    LET paid == row.paid - Lesser(row.paid, money)
    IN  Allocated(row, paid, IF paid <= 0 THEN "unpaid"
                             ELSE IF paid < row.amount THEN "partial" ELSE "paid")

(* Mutant: the update leaves paidAmount out.                               *)
WrittenStatusOnly(old, new) == Allocated(old, old.paid, new.status)

(* update({ paidAmount, status }): an absolute write computed from seen.   *)
Written(old, new) == Allocated(old, new.paid, new.status)

(* ... in the list's order, writing each row at once: the webhook ...      *)
WebhookApply(h, c) ==
    /\ Working(h) /\ hs[h].kind = "succeeded"
    /\ First(h, c)
    /\ LET new == Apply(hs[h].seen[c], hs[h].remaining)
       IN  /\ charge' = [charge EXCEPT ![c] = Written(@, new)]
           /\ Loop(h, hs[h].seen, hs[h].place, hs[h].todo \ {c}, {},
                   hs[h].remaining - (new.paid - hs[h].seen[c].paid))
    /\ UNCHANGED <<now, pay, linked, request, stripeVars, feeJob>>

(* ... or inside the transaction: the offline route and the refund.        *)
TxVisit(h, c, new, moved) ==
    /\ Loop(h, [hs[h].seen EXCEPT ![c] = new], hs[h].place, hs[h].todo \ {c},
            hs[h].dirty \union {c}, hs[h].remaining - moved)
    /\ UNCHANGED <<now, charge, pay, linked, request, stripeVars, feeJob>>

OfflineApply(h, c) ==
    /\ Working(h) /\ hs[h].kind = "offline"
    /\ First(h, c)
    /\ LET new == Apply(hs[h].seen[c], hs[h].remaining)
       IN  TxVisit(h, c, new, new.paid - hs[h].seen[c].paid)

RefundReverse(h, c) ==
    /\ Working(h) /\ hs[h].kind = "refund"
    /\ First(h, c)
    /\ LET new == Reverse(hs[h].seen[c], hs[h].remaining)
       IN  TxVisit(h, c, new, hs[h].seen[c].paid - new.paid)

LoopOver(h) == hs[h].pc = "loop" /\ ~Working(h)

WebhookDone(h) ==
    /\ LoopOver(h) /\ hs[h].kind = "succeeded"
    /\ hs' = [hs EXCEPT ![h] = Idle]
    /\ UNCHANGED <<now, charge, pay, linked, request, stripeVars, feeJob>>

Commit(h, status) ==
    /\ LoopOver(h)
    /\ charge' = [c \in Charges |-> IF c \in hs[h].dirty THEN Written(charge[c], hs[h].seen[c])
                                    ELSE charge[c]]
    /\ pay' = [pay EXCEPT ![hs[h].p] = status]
    /\ hs' = [hs EXCEPT ![h] = Idle]
    /\ UNCHANGED <<now, linked, request, stripeVars, feeJob>>

(* A throw, a lost connection or a crash: a transaction is rolled back, the *)
(* webhook keeps what it wrote (and answers 200: no retry is asked for).   *)
HandlerDies(h) ==
    /\ faults.crashes
    /\ hs[h].pc # "idle"
    /\ hs' = [hs EXCEPT ![h] = Idle]
    /\ UNCHANGED <<now, charge, pay, linked, request, stripeVars, feeJob>>

-----------------------------------------------------------------------------
(* The landlord: record an offline payment, refund a completed one.        *)

RecordOffline(h, p) ==
    /\ Free(h)
    /\ pay[p] = "none"
    /\ \A g \in Handlers : hs[g].p # p         \* p names one request
    /\ Enter(h, "offline", p, "read")
    /\ UNCHANGED <<now, charge, pay, linked, request, stripeVars, feeJob>>

OfflineCommit(h) == hs[h].kind = "offline" /\ Commit(h, "completed")

RequestRefund(h, p) ==
    /\ Free(h)
    /\ pay[p] = "completed"
    /\ Enter(h, "refund", p, IF p \in linked THEN "stripe" ELSE "read")
    /\ UNCHANGED <<now, charge, pay, linked, request, stripeVars, feeJob>>

(* stripe.refunds.create: Stripe refuses to refund an intent twice.        *)
StripeRefund(h) ==
    /\ hs[h].pc = "stripe"
    /\ returned' = returned \union {hs[h].p}
    /\ IF hs[h].p \in returned THEN hs' = [hs EXCEPT ![h] = Idle]
       ELSE Enter(h, "refund", hs[h].p, "read")
    /\ UNCHANGED <<now, charge, pay, linked, request, intent, deliveries, faults, feeJob>>

RefundCommit(h) == hs[h].kind = "refund" /\ Commit(h, "refunded")

-----------------------------------------------------------------------------
Portal(p) == \/ OpenAch(p) \/ OpenCard(p) \/ ConfirmIntent(p)
             \/ IntentUnavailable(p) \/ StoreIntentId(p) \/ RequestDies(p)

Stripe(p) == \/ Settle(p, "succeeded") \/ Settle(p, "failed")
             \/ \E e \in Events : EventUnmatched(p, e) \/ EventSetsStatus(p, e)

Progress(h) == \/ ReadCharges(h) \/ StripeRefund(h)
               \/ \E c \in Charges : WebhookApply(h, c) \/ OfflineApply(h, c) \/ RefundReverse(h, c)
               \/ WebhookDone(h) \/ OfflineCommit(h) \/ RefundCommit(h)

Handler(h) == \/ Progress(h) \/ HandlerDies(h)
              \/ \E p \in Online : EventSucceeded(h, p)
              \/ \E p \in Offline : RecordOffline(h, p)
              \/ \E p \in Payments : RequestRefund(h, p)

Next == \/ Tick \/ LateFeeScan
        \/ \E m \in Months : PostRent(m) \/ LateFeePost(m)
        \/ \E p \in Online : Portal(p) \/ Stripe(p)
        \/ \E h \in Handlers : Handler(h)

Spec == Init /\ [][Next]_vars

-----------------------------------------------------------------------------
(* Properties.                                                             *)

Consistent(r) ==
    /\ r.paid <= r.amount
    /\ r.status = "none" => r.amount = 0
    /\ r.status # "none" => /\ r.amount > 0
                            /\ r.status = "paid" <=> r.paid = r.amount
                            /\ r.status = "unpaid" <=> r.paid = 0

(* Whatever handlers race, die or run twice, a charge is never paid beyond *)
(* its amount or below zero, and its status says what its paidAmount says: *)
(* every write is absolute and computed from one consistent row.           *)
ChargeConsistent ==
    \A c \in Charges : Consistent(charge[c])

(* Money sits on a prefix of the charges in the order of their due days:   *)
(* unless handlers overlap, no crash in the middle of the webhook's        *)
(* writes, no duplicate and no refund leaves an older charge short while a *)
(* newer one holds money.  (Charges of the same day can be   *)
(* out of order: the two jobs that post them start at the same midnight.)  *)
Day(instant) == instant \div 2

FifoPrefix ==
    ~faults.overlap => \A c, d \in Charges :
        /\ charge[c].status # "none"
        /\ Day(charge[c].due) < Day(charge[d].due)
        /\ charge[d].paid > 0
        => charge[c].status = "paid"

SumOf(f, S) == MapThenSumSet(LAMBDA c : f[c], S)
Completed == {p \in Payments : pay[p] = "completed"}
TotalPaid == SumOf([c \in Charges |-> charge[c].paid], Charges)

(* What a transaction says it applied or reversed is what the lease's      *)
(* charges gained or lost, unless handlers overlap: no commit overwrites   *)
(* the money a webhook that died half way had already written.             *)
AllocationIsAtomic ==
    [][~faults.overlap => \A h \in Handlers :
          LET moved == Amount[hs[h].p] - hs[h].remaining
          IN  /\ OfflineCommit(h) => TotalPaid' = TotalPaid + moved
              /\ RefundCommit(h) => TotalPaid' = TotalPaid - moved]_vars

(* The ledger seen whole.  A handler takes effect when it has read the     *)
(* charges: what its loop will leave on c follows from what it read.       *)
Looping(kinds) == {h \in Handlers : hs[h].pc = "loop" /\ hs[h].kind \in kinds}

Clamp(x, top) == Max({0, Min({x, top})})

(* What can still be moved on c, and what comes before it in the list.     *)
Room(h) == [c \in Charges |-> IF hs[h].kind = "refund" THEN hs[h].seen[c].paid
                              ELSE hs[h].seen[c].amount - hs[h].seen[c].paid]
Ahead(h, c) == {d \in hs[h].todo : hs[h].place[d] < hs[h].place[c]}
Share(h, c) == Clamp(hs[h].remaining - SumOf(Room(h), Ahead(h, c)), Room(h)[c])

Outcome(h, c) ==
    IF c \in hs[h].todo
    THEN IF hs[h].kind = "refund" THEN hs[h].seen[c].paid - Share(h, c)
         ELSE hs[h].seen[c].paid + Share(h, c)
    ELSE IF c \in hs[h].dirty THEN hs[h].seen[c].paid ELSE charge[c].paid

PaidBar(c) == IF Looping({"succeeded", "offline", "refund"}) = {} THEN charge[c].paid
              ELSE Outcome(CHOOSE h \in Handlers : hs[h].pc = "loop", c)
PaymentsOf(H) == {hs[h].p : h \in H}

Account == INSTANCE RentAccount WITH
    amount  <- [c \in Charges |-> charge[c].amount],
    due     <- [c \in Charges |-> charge[c].due],
    paid    <- [c \in Charges |-> PaidBar(c)],
    settled <- ((Completed \ PaymentsOf({h \in Handlers : hs[h].kind = "succeeded" /\ hs[h].pc = "read"}))
                  \union PaymentsOf(Looping({"offline"}))) \ PaymentsOf(Looping({"refund"}))

Calm == faults = [deliveries |-> 1, inOrder |-> TRUE, crashes |-> FALSE, overlap |-> FALSE]

(* One handler at a time, never cut off, each event delivered once and in  *)
(* order: the row-by-row handlers implement RentAccount.                   *)
ImplementsAccount == Account!AInit /\ [][Calm => Account!ANext]_(Account!account)
=============================================================================
