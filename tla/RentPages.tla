----------------------------- MODULE RentPages -----------------------------
(***************************************************************************)
(* The pages through which rent is paid and the requests they send: the    *)
(* tenant's pay page and settings page (bank link through Plaid, profile   *)
(* and password), the landlord's payments page (cash and checks, refunds), *)
(* and the routes behind them. RentLedger has the charges one by one; here *)
(* the lease's debt is one sum, and what counts is who pressed what.       *)
(*                                                                         *)
(* Four stores change one after the other: the database, Stripe, Plaid and *)
(* what a page shows. A page is one browser tab; its request may outlive   *)
(* its interest in the answer.                                             *)
(***************************************************************************)
EXTENDS Integers, FiniteSets, Sequences

CONSTANTS
  Tabs,      \* the tenant's browser tabs
  Desks,     \* the landlord's browser tabs
  Reqs,      \* requests the two sites may be serving at once
  Due,       \* what the charges of the lease sum up to, all of it overdue
  Amounts,   \* amounts a form may hold
  Casts      \* bound: which operations meet, how many presses, visits and mishaps there are

Screens == Tabs \cup Desks
TabOp  == {"pay", "link", "unlink", "profile", "password"}
DeskOp == {"record", "refund"}
Op == TabOp \cup DeskOp

ASSUME RentPagesAssumption ==
  /\ IsFiniteSet(Screens) /\ IsFiniteSet(Reqs) /\ Tabs \cap Desks = {}
  /\ Due \in Nat /\ Amounts \subseteq Nat \ {0}
  /\ Casts \subseteq [ops : SUBSET Op, ends : BOOLEAN, connect : BOOLEAN, linked : BOOLEAN,
                      presses : Nat, visits : Nat, haps : Nat]

Nobody == "nobody"   \* the page no longer waits for the answer

VARIABLES
  cast,
  lease,    \* is the lease active
  paid,     \* the part of Due the charges count as paid
  pays,     \* the payment rows, in order
  debits,   \* Stripe: the intents of bank payments, in order
  bank,     \* the bank columns of the tenant's row; 0 is null
  items,    \* Plaid: is each item ever linked still live
  sources,  \* Stripe: the customer each bank source is attached to
  custs,    \* Stripe: customers made for the tenant
  login,    \* the tenant's profile and password, told apart by numbers
  page,     \* [Screens -> what a page shows and waits for]
  req,      \* [Reqs -> a request]
  budget,   \* presses, visits and mishaps so far
  wishes,   \* history: payments somebody meant to make
  strays    \* history: events after which Plaid and the row may disagree

money == <<paid, pays, debits>>
link  == <<bank, items, sources, custs>>
rentVars == <<cast, lease, money, link, login, page, req, budget, wishes, strays>>

-----------------------------------------------------------------------------
(* Records *)

NoBank == [item |-> 0, cust |-> 0, pm |-> 0]
Closed == [at |-> "none", need |-> {}, lease |-> FALSE, bank |-> FALSE, prof |-> 0, owes |-> FALSE,
           done |-> {}, busy |-> {}, again |-> {}, widget |-> FALSE, claim |-> 0]
Idle == [op |-> "none", scr |-> Nobody, pc |-> "idle", meth |-> "none", amt |-> 0, pid |-> 0,
         item |-> 0, fresh |-> 0, cust |-> 0, pm |-> 0, debit |-> 0, val |-> 0]
Payment == [meth : {"bank", "card", "cash"}, amt : Amounts, debit : Nat,
            status : {"pending", "completed", "failed", "refunded"}]

Lesser(a, b) == IF a < b THEN a ELSE b
Greater(a, b) == IF a > b THEN a ELSE b
Pays == 1..Len(pays)
Debits == 1..Len(debits)
Items == 1..Len(items)

RentInit ==
  /\ cast \in Casts
  /\ lease = TRUE /\ paid = 0 /\ pays = <<>> /\ debits = <<>>
  /\ IF cast.linked
       THEN bank = [item |-> 1, cust |-> 1, pm |-> 1] /\ items = <<TRUE>> /\ sources = <<1>> /\ custs = 1
       ELSE bank = NoBank /\ items = <<>> /\ sources = <<>> /\ custs = 0
  /\ login = [prof |-> 1, pw |-> 1]
  /\ page = [s \in Screens |-> Closed] /\ req = [r \in Reqs |-> Idle]
  /\ budget = [presses |-> 0, visits |-> 0, haps |-> 0]
  /\ wishes = 0 /\ strays = 0

Spend(k, most) == budget[k] < most /\ budget' = [budget EXCEPT ![k] = @ + 1]
Goes(r, q) == req' = [req EXCEPT ![r] = q]

-----------------------------------------------------------------------------
(* Pages *)

Wants(at) ==
  CASE at = "pay" -> {"lease", "bank"} [] at = "settings" -> {"profile"}
    [] at = "history" -> {"rows", "balance"} [] at = "desk" -> {"list", "owes"}

\* what a read of the database says now
Overdue == lease /\ paid < Due
Completed == {i \in Pays : pays[i].status = "completed"}

\* a page is opened or reloaded; what it waited for it no longer hears of
Open(s, at) ==
  /\ (s \in Desks) = (at = "desk")
  /\ at \in {"pay", "history"} => "pay" \in cast.ops
  /\ at = "settings" => cast.ops \cap (TabOp \ {"pay"}) # {}
  /\ at = "desk" => cast.ops \cap DeskOp # {}
  /\ Spend("visits", cast.visits)
  /\ page' = [page EXCEPT ![s] = [Closed EXCEPT !.at = at, !.need = Wants(at)]]
  /\ req' = [r \in Reqs |-> IF req[r].scr = s THEN [req[r] EXCEPT !.scr = Nobody] ELSE req[r]]
  /\ UNCHANGED <<cast, lease, money, link, login, wishes, strays>>

\* the settings page fills its forms from the tenant's row
Profiled(p) == [p EXCEPT !.prof = login.prof, !.bank = bank.item # 0]

\* one of its reads is answered
Loaded(page0, k) ==
  LET p == [page0 EXCEPT !.need = @ \ {k}] IN
  CASE k = "lease"   -> [p EXCEPT !.lease = lease]
    [] k = "bank"    -> [p EXCEPT !.bank = bank.item # 0]
    [] k = "profile" -> Profiled(p)
    [] k \in {"list", "rows"} -> [p EXCEPT !.done = Completed]      \* receipts, refunds
    [] k \in {"owes", "balance"} -> [p EXCEPT !.owes = Overdue]

Load(s, k) ==
  /\ k \in page[s].need
  /\ page' = [page EXCEPT ![s] = Loaded(@, k)]
  /\ UNCHANGED <<cast, lease, money, link, login, req, budget, wishes, strays>>

\* or is not: the page goes on with what it has, the tenant's with made-up data
LoadFails(s, k) ==
  /\ k \in page[s].need
  /\ Spend("haps", cast.haps)
  /\ page' = [page EXCEPT ![s].need = @ \ {k}]
  /\ UNCHANGED <<cast, lease, money, link, login, req, wishes, strays>>

\* the buttons each page offers
PayOffered(p) == p.at = "pay" /\ p.need = {} /\ p.claim = 0 /\ p.lease
BankOffered(p) == p.bank
LinkOffered(p) == p.at = "settings" /\ p.need = {}
UnlinkOffered(p) == LinkOffered(p) /\ p.bank
ProfileOffered(p) == LinkOffered(p) /\ p.prof # 0     \* not in a demonstration
PasswordOffered(p) == LinkOffered(p) /\ p.prof # 0
RecordOffered(p) == p.at = "desk" /\ p.owes
RefundOffered(p) == p.at = "desk" /\ p.done # {}

Offered(p, op) ==
  CASE op = "pay" -> PayOffered(p) [] op = "link" -> LinkOffered(p) [] op = "unlink" -> UnlinkOffered(p)
    [] op = "profile" -> ProfileOffered(p) [] op = "password" -> PasswordOffered(p)
    [] op = "record" -> RecordOffered(p) [] op = "refund" -> RefundOffered(p)

\* mutant: a button stays enabled while its request runs
EnabledTwice(s, op) == Offered(page[s], op)

Enabled(s, op) == op \notin page[s].busy /\ Offered(page[s], op)

\* the same wish after an error, another one otherwise
Wish(s, op) == wishes' = IF op \in page[s].again THEN wishes ELSE wishes + 1

Sends(s, r, q) ==
  /\ req[r].pc = "idle"
  /\ Goes(r, [q EXCEPT !.scr = s])
  /\ page' = [page EXCEPT ![s].busy = @ \cup {q.op}]

Press(s, op) == op \in cast.ops /\ Enabled(s, op) /\ Spend("presses", cast.presses)

PressPay(s, r) ==
  /\ Press(s, "pay") /\ Wish(s, "pay")
  /\ \E meth \in {"card"} \cup {m \in {"bank"} : BankOffered(page[s])}, a \in Amounts :
       Sends(s, r, [Idle EXCEPT !.op = "pay", !.pc = "lease", !.meth = meth, !.amt = a])
  /\ UNCHANGED <<cast, lease, money, link, login, strays>>

\* a token is fetched and Plaid's widget opens
PressLink(s) ==
  /\ Press(s, "link")
  /\ page' = [page EXCEPT ![s].busy = @ \cup {"link"}, ![s].widget = TRUE]
  /\ UNCHANGED <<cast, lease, money, link, login, req, wishes, strays>>

WidgetExit(s) ==
  /\ page[s].widget
  /\ page' = [page EXCEPT ![s].busy = @ \ {"link"}, ![s].widget = FALSE]
  /\ UNCHANGED <<cast, lease, money, link, login, req, budget, wishes, strays>>

WidgetSuccess(s, r) ==
  /\ page[s].widget /\ req[r].pc = "idle"
  /\ Goes(r, [Idle EXCEPT !.op = "link", !.pc = "read", !.scr = s])
  /\ page' = [page EXCEPT ![s].widget = FALSE]
  /\ UNCHANGED <<cast, lease, money, link, login, budget, wishes, strays>>

PressUnlink(s, r) ==
  /\ Press(s, "unlink") /\ Sends(s, r, [Idle EXCEPT !.op = "unlink", !.pc = "read"])
  /\ UNCHANGED <<cast, lease, money, link, login, wishes, strays>>

\* the whole profile as the form has it, one field of it perhaps new
PressProfile(s, r) ==
  /\ Press(s, "profile")
  /\ \E v \in {page[s].prof, 2, 3} : Sends(s, r, [Idle EXCEPT !.op = "profile", !.pc = "put", !.val = v])
  /\ UNCHANGED <<cast, lease, money, link, login, wishes, strays>>

PressPassword(s, r) ==
  /\ Press(s, "password")
  /\ \E v \in {2, 3} : Sends(s, r, [Idle EXCEPT !.op = "password", !.pc = "check", !.val = v])
  /\ UNCHANGED <<cast, lease, money, link, login, wishes, strays>>

\* cash or a check, for a tenant the page lists as overdue
PressRecord(s, r) ==
  /\ Press(s, "record") /\ Wish(s, "record")
  /\ \E a \in Amounts : Sends(s, r, [Idle EXCEPT !.op = "record", !.pc = "write", !.amt = a])
  /\ UNCHANGED <<cast, lease, money, link, login, strays>>

PressRefund(s, r) ==
  /\ Press(s, "refund")
  /\ \E i \in page[s].done : Sends(s, r, [Idle EXCEPT !.op = "refund", !.pc = "check", !.pid = i])
  /\ UNCHANGED <<cast, lease, money, link, login, wishes, strays>>

-----------------------------------------------------------------------------
(* Answers *)

\* the pay page says "Payment Submitted" and has no form any more
Submitted(p, q) == [p EXCEPT !.claim = q.pid]

\* the landlord's page closes its form and reads both lists again
Recorded(p, op) == [p EXCEPT !.need = Wants("desk"), !.again = @ \ {op}]

\* what a page does with an answer
Hears(page0, q, ok) ==
  LET p == [page0 EXCEPT !.busy = @ \ {q.op}] IN
  IF ~ok THEN [p EXCEPT !.again = @ \cup {q.op}]
  ELSE CASE q.op = "pay" -> Submitted(p, q)
         [] q.op = "link" -> [p EXCEPT !.bank = TRUE]
         [] q.op = "unlink" -> [p EXCEPT !.bank = FALSE]
         [] q.op = "profile" -> [p EXCEPT !.prof = q.val]
         [] q.op = "password" -> p
         [] q.op \in DeskOp -> Recorded(p, q.op)

Heard(q, ok) == IF q.scr = Nobody THEN page ELSE [page EXCEPT ![q.scr] = Hears(@, q, ok)]

Ends(r, ok) == Goes(r, Idle) /\ page' = Heard(req[r], ok)

\* the network fails the page while the request goes on
AnswerLost(r) ==
  /\ req[r].pc # "idle" /\ req[r].scr # Nobody
  /\ Spend("haps", cast.haps)
  /\ page' = Heard(req[r], FALSE) /\ Goes(r, [req[r] EXCEPT !.scr = Nobody])
  /\ UNCHANGED <<cast, lease, money, link, login, wishes, strays>>

-----------------------------------------------------------------------------
(* POST api/portal/payments/create-intent *)

Stands(r, op, pc) == req[r].op = op /\ req[r].pc = pc

PayLease(r) ==
  /\ Stands(r, "pay", "lease")
  /\ \/ /\ lease
        /\ Goes(r, [req[r] EXCEPT !.pc = IF req[r].meth = "bank" THEN "bank" ELSE "row"])
        /\ UNCHANGED page
     \/ ~lease /\ Ends(r, FALSE)
  /\ UNCHANGED <<cast, lease, money, link, login, budget, wishes, strays>>

\* the tenant's bank, and the landlord's account (read with the lease)
PayBank(r) ==
  /\ Stands(r, "pay", "bank")
  /\ IF bank.pm # 0 /\ bank.cust # 0 /\ cast.connect
       THEN Goes(r, [req[r] EXCEPT !.pc = "row", !.pm = bank.pm, !.cust = bank.cust]) /\ UNCHANGED page
       ELSE Ends(r, FALSE)
  /\ UNCHANGED <<cast, lease, money, link, login, budget, wishes, strays>>

\* a pending row; of a card payment nothing else is ever made
PayRow(r) ==
  LET q == [req[r] EXCEPT !.pid = Len(pays) + 1] IN
  /\ Stands(r, "pay", "row")
  /\ pays' = Append(pays, [meth |-> q.meth, amt |-> q.amt, debit |-> 0, status |-> "pending"])
  /\ IF q.meth = "bank"
       THEN Goes(r, [q EXCEPT !.pc = "stripe"]) /\ UNCHANGED page
       ELSE Goes(r, Idle) /\ page' = Heard(q, TRUE)
  /\ UNCHANGED <<cast, lease, paid, debits, link, login, budget, wishes, strays>>

\* createAchPaymentIntent: one debit for each payment row, its idempotency key
Debited(amt) == Append(debits, [amt |-> amt, st |-> "processing"])

\* Stripe debits, refuses (the row stays pending), or is not configured
PayStripe(r) ==
  /\ Stands(r, "pay", "stripe")
  /\ \/ /\ debits' = Debited(req[r].amt)
        /\ Goes(r, [req[r] EXCEPT !.pc = "store", !.debit = Len(debits) + 1])
        /\ UNCHANGED <<page, pays>>
     \/ Ends(r, FALSE) /\ UNCHANGED <<debits, pays>>
     \/ Ends(r, FALSE) /\ pays' = [pays EXCEPT ![req[r].pid].status = "failed"] /\ UNCHANGED debits
  /\ UNCHANGED <<cast, lease, paid, link, login, budget, wishes, strays>>

PayStore(r) ==
  /\ Stands(r, "pay", "store")
  /\ pays' = [pays EXCEPT ![req[r].pid].debit = req[r].debit]
  /\ Ends(r, TRUE)
  /\ UNCHANGED <<cast, lease, paid, debits, link, login, budget, wishes, strays>>

\* days later Stripe reports the bank's answer: a row that stores the intent follows it.
\* A debit takes longer than a request; a refusal may be reported at once.
Settle(i, ok) ==
  /\ i \in Debits /\ debits[i].st = "processing"
  /\ ok => \A r \in Reqs : req[r].debit # i
  /\ debits' = [debits EXCEPT ![i].st = IF ok THEN "succeeded" ELSE "failed"]
  /\ pays' = [p \in Pays |->
       IF pays[p].debit = i THEN [pays[p] EXCEPT !.status = IF ok THEN "completed" ELSE "failed"] ELSE pays[p]]
  /\ paid' = IF ok /\ \E p \in Pays : pays[p].debit = i THEN Lesser(Due, paid + debits[i].amt) ELSE paid
  /\ UNCHANGED <<cast, lease, link, login, page, req, budget, wishes, strays>>

-----------------------------------------------------------------------------
(* POST api/portal/plaid/exchange-token and DELETE api/portal/plaid/unlink *)

Overlapping(r) == {q \in Reqs \ {r} : req[q].op \in {"link", "unlink"} /\ req[q].pc # "read"}

BankRead(r) ==
  /\ req[r].op \in {"link", "unlink"} /\ req[r].pc = "read"
  /\ IF req[r].op = "unlink" /\ bank.item = 0
       THEN Ends(r, FALSE) /\ UNCHANGED strays
       ELSE /\ Goes(r, [req[r] EXCEPT !.item = bank.item, !.cust = bank.cust,
                                      !.pc = IF bank.item = 0 THEN "obtain" ELSE "remove"])
            /\ strays' = IF Overlapping(r) # {} THEN strays + 1 ELSE strays
            /\ UNCHANGED page
  /\ UNCHANGED <<cast, lease, money, link, login, budget, wishes>>

\* the item the row names is removed at Plaid; an error is only logged
BankRemove(r) ==
  LET q == req[r] IN
  /\ q.pc = "remove"
  /\ Goes(r, [q EXCEPT !.pc = IF q.op = "link" THEN "obtain" ELSE "clear"])
  /\ \/ items' = [items EXCEPT ![q.item] = FALSE] /\ UNCHANGED strays
     \/ items[q.item] /\ strays' = strays + 1 /\ UNCHANGED items
  /\ UNCHANGED <<cast, lease, money, bank, sources, custs, login, page, budget, wishes>>

\* a failed link leaves the row with the item that was removed for it
Spoilt(q) == IF q.item # 0 THEN 1 ELSE 0

\* exchangePublicToken; getOrCreateCustomer, which makes a customer anew when Stripe does not
\* find it, for whatever reason; attachBankSource
Exchanged == Append(items, TRUE)
Customer(known) == {known, custs + 1} \ {0}
Attached(c) == Append(sources, c)

\* nothing here touches the row; an error leaves what was made so far
BankObtain(r) ==
  LET q == req[r]  n == Len(items) + 1 IN
  /\ Stands(r, "link", "obtain")
  /\ \/ /\ Ends(r, FALSE) /\ strays' = strays + Spoilt(q)
        /\ UNCHANGED <<items, sources, custs>>
     \/ /\ Ends(r, FALSE) /\ strays' = strays + 1 + Spoilt(q)
        /\ items' = Exchanged
        /\ UNCHANGED <<sources, custs>>
     \/ \E c \in Customer(q.cust) :
          /\ items' = Exchanged /\ custs' = Greater(custs, c)
          /\ sources' = Attached(c)
          /\ Goes(r, [q EXCEPT !.pc = "save", !.fresh = n, !.cust = c, !.pm = Len(sources) + 1])
          /\ UNCHANGED <<page, strays>>
  /\ UNCHANGED <<cast, lease, money, bank, login, budget, wishes>>

BankSave(r) ==
  /\ Stands(r, "link", "save")
  /\ bank' = [item |-> req[r].fresh, cust |-> req[r].cust, pm |-> req[r].pm]
  /\ Ends(r, TRUE)
  /\ UNCHANGED <<cast, lease, money, items, sources, custs, login, budget, wishes, strays>>

\* the customer is kept for the next link, and its source stays attached
BankClear(r) ==
  /\ Stands(r, "unlink", "clear")
  /\ bank' = [NoBank EXCEPT !.cust = bank.cust]
  /\ Ends(r, TRUE)
  /\ UNCHANGED <<cast, lease, money, items, sources, custs, login, budget, wishes, strays>>

-----------------------------------------------------------------------------
(* PUT api/portal/settings *)

ProfilePut(r) ==
  /\ Stands(r, "profile", "put")
  /\ login' = [login EXCEPT !.prof = req[r].val]
  /\ Ends(r, TRUE)
  /\ UNCHANGED <<cast, lease, money, link, budget, wishes, strays>>

\* the current password is compared, the new one hashed and stored
PasswordCheck(r) ==
  /\ Stands(r, "password", "check")
  /\ \E claimed \in {1, 2} :
       IF claimed = login.pw
         THEN Goes(r, [req[r] EXCEPT !.pc = "put"]) /\ UNCHANGED page
         ELSE Ends(r, FALSE)
  /\ UNCHANGED <<cast, lease, money, link, login, budget, wishes, strays>>

PasswordPut(r) ==
  /\ Stands(r, "password", "put")
  /\ login' = [login EXCEPT !.pw = req[r].val]
  /\ Ends(r, TRUE)
  /\ UNCHANGED <<cast, lease, money, link, budget, wishes, strays>>

-----------------------------------------------------------------------------
(* The landlord: POST api/payments/offline and api/payments/[id]/refund *)

\* one transaction: the payment is completed and applied, whatever is owed by now
RecordWrite(r) ==
  /\ Stands(r, "record", "write")
  /\ pays' = Append(pays, [meth |-> "cash", amt |-> req[r].amt, debit |-> 0, status |-> "completed"])
  /\ paid' = Lesser(Due, paid + req[r].amt)
  /\ Ends(r, TRUE)
  /\ UNCHANGED <<cast, lease, debits, link, login, budget, wishes, strays>>

RefundCheck(r) ==
  /\ Stands(r, "refund", "check")
  /\ IF pays[req[r].pid].status = "completed"
       THEN /\ Goes(r, [req[r] EXCEPT !.pc = IF pays[req[r].pid].debit # 0 THEN "stripe" ELSE "reverse",
                                      !.debit = pays[req[r].pid].debit])
            /\ UNCHANGED page
       ELSE Ends(r, FALSE)
  /\ UNCHANGED <<cast, lease, money, link, login, budget, wishes, strays>>

\* mutant: the row is marked before Stripe is asked, and stays so when it refuses
RefundStripeLate(r) ==
  /\ Stands(r, "refund", "stripe")
  /\ \/ /\ Goes(r, [req[r] EXCEPT !.pc = "reverse"])
        /\ UNCHANGED <<debits, page>>
     \/ Ends(r, FALSE) /\ UNCHANGED debits
  /\ UNCHANGED <<cast, lease, paid, pays, link, login, budget, wishes, strays>>

\* Stripe gives the money back, once, or refuses
RefundStripe(r) ==
  LET i == req[r].debit IN
  /\ Stands(r, "refund", "stripe")
  /\ \/ /\ debits[i].st = "succeeded"
        /\ debits' = [debits EXCEPT ![i].st = "refunded"]
        /\ Goes(r, [req[r] EXCEPT !.pc = "reverse"]) /\ UNCHANGED page
     \/ Ends(r, FALSE) /\ UNCHANGED debits
  /\ UNCHANGED <<cast, lease, paid, pays, link, login, budget, wishes, strays>>

RefundReverse(r) ==
  /\ Stands(r, "refund", "reverse")
  /\ pays' = [pays EXCEPT ![req[r].pid].status = "refunded"]
  /\ paid' = Greater(0, paid - pays[req[r].pid].amt)
  /\ Ends(r, TRUE)
  /\ UNCHANGED <<cast, lease, debits, link, login, budget, wishes, strays>>

-----------------------------------------------------------------------------
(* Mishaps *)

\* what a request that dies here leaves between Plaid and the row
Left(q) ==
  CASE q.op = "link" /\ q.pc = "obtain" -> Spoilt(q)
    [] q.op = "link" /\ q.pc = "save" -> 1 + Spoilt(q)
    [] q.op = "unlink" /\ q.pc = "clear" -> 1
    [] OTHER -> 0

\* an error or a restart between two steps of a request: the page hears of an error
Die(r) ==
  /\ req[r].pc # "idle"
  /\ Spend("haps", cast.haps)
  /\ Ends(r, FALSE)
  /\ strays' = strays + Left(req[r])
  /\ UNCHANGED <<cast, lease, money, link, login, wishes>>

LeaseEnds ==
  /\ lease /\ cast.ends
  /\ lease' = FALSE
  /\ UNCHANGED <<cast, money, link, login, page, req, budget, wishes, strays>>

-----------------------------------------------------------------------------

PageStep(s) ==
  \/ \E at \in {"pay", "settings", "history", "desk"} : Open(s, at)
  \/ \E k \in page[s].need : Load(s, k) \/ LoadFails(s, k)
  \/ PressLink(s) \/ WidgetExit(s)
  \/ \E r \in Reqs :
       \/ PressPay(s, r) \/ WidgetSuccess(s, r) \/ PressUnlink(s, r)
       \/ PressProfile(s, r) \/ PressPassword(s, r)
       \/ PressRecord(s, r) \/ PressRefund(s, r)

ServerStep(r) ==
  \/ PayLease(r) \/ PayBank(r) \/ PayRow(r) \/ PayStripe(r) \/ PayStore(r)
  \/ BankRead(r) \/ BankRemove(r) \/ BankObtain(r) \/ BankSave(r) \/ BankClear(r)
  \/ ProfilePut(r) \/ PasswordCheck(r) \/ PasswordPut(r)
  \/ RecordWrite(r) \/ RefundCheck(r) \/ RefundStripe(r) \/ RefundReverse(r)

RentNext ==
  \/ \E s \in Screens : PageStep(s)
  \/ \E r \in Reqs : ServerStep(r) \/ AnswerLost(r) \/ Die(r)
  \/ \E i \in Debits, ok \in BOOLEAN : Settle(i, ok)
  \/ LeaseEnds

RentSpec == RentInit /\ [][RentNext]_rentVars

-----------------------------------------------------------------------------
(* Properties *)

RentTypeOK ==
  /\ lease \in BOOLEAN /\ paid \in 0..Due
  /\ \A i \in Pays : pays[i] \in Payment
  /\ \A i \in Debits : debits[i].amt \in Amounts
                         /\ debits[i].st \in {"processing", "succeeded", "failed", "refunded"}
  /\ bank \in [item : 0..Len(items), cust : 0..custs, pm : 0..Len(sources)]
  /\ \A s \in Screens : page[s].busy \subseteq Op /\ page[s].claim \in 0..Len(pays)
  /\ wishes \in Nat /\ strays \in Nat

\* A payment is made as often as somebody meant it, except that after each lost answer or died
\* request a page asks to try again what may have been done: the pages' disabled buttons are all
\* that stands between a second press and a second debit, a form carries no key of its own
\* (pay/page.tsx handleSubmit, RecordPaymentModal).
MeantOnce ==
  /\ RentTypeOK
  /\ Len(debits) + Cardinality({i \in Pays : pays[i].meth \in {"card", "cash"}}) <= wishes + budget.haps

\* debits no row stores, and money given back for rows that do not say so
HeldDebits == {req[r].debit : r \in {q \in Reqs : req[q].debit # 0}}
Unknown ==
  {i \in Debits \ HeldDebits :
     \/ \A p \in Pays : pays[p].debit # i
     \/ debits[i].st = "refunded" /\ \E p \in Pays : pays[p].debit = i /\ pays[p].status # "refunded"}

\* What Stripe took or gave back, a payment row tells, but for one exception for each request
\* that died between Stripe and the row; no row is refunded whose money Stripe kept; and a page
\* that says a bank payment was submitted speaks of a payment with its debit.
StripeAgrees ==
  /\ Cardinality(Unknown) <= budget.haps
  /\ \A p \in Pays : (pays[p].debit # 0 /\ pays[p].status = "refunded") => debits[pays[p].debit].st = "refunded"
  /\ \A s \in Screens :
       (page[s].claim # 0 /\ pays[page[s].claim].meth = "bank") => pays[page[s].claim].debit # 0

Holding == {q \in {req[r] : r \in Reqs} : q.op \in {"link", "unlink"} /\ q.pc \notin {"idle", "read"}}
HeldItems == {q.item : q \in Holding} \cup {q.fresh : q \in Holding}
Orphans == {i \in Items \ HeldItems : items[i] /\ bank.item # i}
Dangling == {i \in Items \ HeldItems : ~items[i] /\ bank.item = i}

\* The tenant's row names a live Plaid item, Plaid keeps no other one, and the source a payment
\* would debit is attached to the customer it is debited through; each exception stands for a
\* removal Plaid refused, a link that failed half-way, or two requests that overlapped.
BankKept ==
  /\ Cardinality(Orphans) + Cardinality(Dangling) <= strays
  /\ bank.pm # 0 => sources[bank.pm] = bank.cust
=============================================================================
