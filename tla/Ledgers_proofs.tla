-------------------------- MODULE Ledgers_proofs --------------------------
(***************************************************************************)
(* Proofs about the two ledgers: RentLedger, and SmsRelay after it.        *)
(*                                                                         *)
(* RentLedger, for every number of months, payments and handlers, every    *)
(* delivery policy of Stripe and crashes at any await.  ChargeConsistent   *)
(* is not inductive: a handler writes what it computed from rows it read   *)
(* earlier.  The strengthening says that those rows are consistent too and *)
(* still have the amount of the stored ones.  For the order of the money   *)
(* it says what a loop has left behind it, and that the table would be in  *)
(* order if the handler committed now.  For the account the ledger         *)
(* implements it says who can be at work in a calm world, and for which    *)
(* payment; the sums are compared row by row over finite sets.             *)
(*                                                                         *)
(* SmsRelay, for every number of rows, callers, phones, caps and crashes:  *)
(* typing, that opted-out phones are left alone, by how much runs that     *)
(* race past the caps can exceed them, and that a text goes out once in    *)
(* each life of the server.                                                *)
(***************************************************************************)
EXTENDS RentLedger, SmsRelay, FiniteSetTheorems, WellFoundedInduction, TLAPS

(* Where the rows of a query may stand in its list.                        *)
Places == UNION {[S -> Nat] : S \in SUBSET Charges}

(* What a handler holds in memory.                                         *)
HandlerInv ==
    \A h \in Handlers :
        /\ hs[h].pc # "idle" => hs[h].p \in Payments
        /\ hs[h].pc = "stripe" => hs[h].p \in Online
        /\ \A c \in hs[h].todo \union hs[h].dirty :
              /\ Consistent(hs[h].seen[c])
              /\ hs[h].seen[c].status # "none" /\ charge[c].status # "none"
              /\ hs[h].seen[c].amount = charge[c].amount

(* The late-fee job holds months only when the lease has a late fee.       *)
FeeJobInv == feeJob.months # {} => LateFee > 0

Inv == TypeOK /\ FeeJobInv /\ ChargeConsistent /\ HandlerInv

-----------------------------------------------------------------------------
(* The three ways a row is computed keep it consistent.                    *)

LEMMA ApplyConsistent ==
    ASSUME NEW r \in Row, Consistent(r), r.status # "none",
           NEW m \in Nat \ {0}
    PROVE  /\ Apply(r, m) \in Row
           /\ Consistent(Apply(r, m))
           /\ Apply(r, m).amount = r.amount /\ Apply(r, m).status # "none"
  <1> DEFINE paid == r.paid + Lesser(m, r.amount - r.paid)
             newStatus == IF paid >= r.amount THEN "paid" ELSE "partial"
  <1>1. /\ r.amount \in Nat /\ r.due \in Nat /\ r.paid \in Nat
        /\ r.amount > 0 /\ r.paid <= r.amount
    BY DEF Row, Consistent
  <1>2. paid \in Nat /\ 0 < paid /\ paid <= r.amount
    BY <1>1 DEF Lesser
  <1>3. Apply(r, m) = [amount |-> r.amount, due |-> r.due, paid |-> paid, status |-> newStatus]
    BY DEF Apply, Allocated
  <1> HIDE DEF paid
  <1>4. QED
    BY <1>1, <1>2, <1>3 DEF Row, Consistent

LEMMA ReverseConsistent ==
    ASSUME NEW r \in Row, Consistent(r), r.status # "none",
           NEW m \in Nat \ {0}
    PROVE  /\ Reverse(r, m) \in Row
           /\ Consistent(Reverse(r, m))
           /\ Reverse(r, m).amount = r.amount /\ Reverse(r, m).status # "none"
  <1> DEFINE paid == r.paid - Lesser(r.paid, m)
             newStatus == IF paid <= 0 THEN "unpaid"
                       ELSE IF paid < r.amount THEN "partial" ELSE "paid"
  <1>1. /\ r.amount \in Nat /\ r.due \in Nat /\ r.paid \in Nat
        /\ r.amount > 0 /\ r.paid <= r.amount
    BY DEF Row, Consistent
  <1>2. paid \in Nat /\ paid <= r.amount
    BY <1>1 DEF Lesser
  <1>3. Reverse(r, m) = [amount |-> r.amount, due |-> r.due, paid |-> paid, status |-> newStatus]
    BY DEF Reverse, Allocated
  <1> HIDE DEF paid
  <1>4. QED
    BY <1>1, <1>2, <1>3 DEF Row, Consistent

LEMMA WrittenConsistent ==
    ASSUME NEW r \in Row, r.status # "none",
           NEW s \in Row, Consistent(s), s.status # "none", s.amount = r.amount
    PROVE  /\ Written(r, s) \in Row
           /\ Consistent(Written(r, s))
           /\ Written(r, s).amount = r.amount /\ Written(r, s).status # "none"
  BY DEF Written, Allocated, Consistent, Row

LEMMA NewChargeConsistent ==
    ASSUME NEW a \in Nat \ {0}, NEW d \in Nat
    PROVE  /\ NewCharge(a, d) \in Row
           /\ Consistent(NewCharge(a, d)) /\ NewCharge(a, d).status # "none"
  BY DEF NewCharge, Consistent, Row

LEMMA FreshOK ==
    ASSUME NEW kind \in {"none", "succeeded", "offline", "refund"},
           NEW p \in Payments \union {"none"}, NEW pc \in {"idle", "stripe", "read"}
    PROVE  /\ Fresh(kind, p, pc) \in HandlerState
           /\ Fresh(kind, p, pc).todo \union Fresh(kind, p, pc).dirty = {}
           /\ Fresh(kind, p, pc).pc = pc /\ Fresh(kind, p, pc).p = p
  <1>1. [c \in {} |-> 0] \in Places
    <2>1. [c \in {} |-> 0] \in [{} -> Nat]
      OBVIOUS
    <2> QED BY <2>1 DEF Places
  <1> DEFINE place == [c \in {} |-> 0]
  <1> HIDE DEF place
  <1>2. place \in Places
    BY <1>1 DEF place
  <1>3. Fresh(kind, p, pc) = Memory(kind, p, pc, [c \in Charges |-> NoRow], place, {}, {}, 0)
    BY DEF Fresh, place
  <1> QED BY <1>2, <1>3 DEF Memory, HandlerState, NoRow, Row, Places

LEMMA IdleOK == Idle \in HandlerState /\ Idle.todo \union Idle.dirty = {} /\ Idle.pc = "idle"
  BY FreshOK DEF Idle

LEMMA InitInv == Init => Inv
  <1> SUFFICES ASSUME Init PROVE Inv
    OBVIOUS
  <1>1. TypeOK
    BY IdleOK, LedgerAssumption DEF Init, TypeOK, NoRow, Row, NoJob, PayStatus
  <1>2. ChargeConsistent
    BY DEF Init, ChargeConsistent, Consistent, NoRow
  <1>3. HandlerInv
    BY IdleOK DEF Init, HandlerInv
  <1>4. QED
    BY <1>1, <1>2, <1>3 DEF Inv, Init, FeeJobInv, NoJob

-----------------------------------------------------------------------------
(* Steps that write neither a charge nor a handler's memory.               *)
LEMMA QuietStep ==
    ASSUME Inv, UNCHANGED <<charge, hs>>, TypeOK', FeeJobInv'
    PROVE  Inv'
  BY DEF Inv, ChargeConsistent, HandlerInv

(* A step of one handler that leaves it idle or about to read.             *)
LEMMA EmptyHands ==
    ASSUME Inv, TypeOK', FeeJobInv', UNCHANGED charge, NEW h \in Handlers, NEW s,
           hs' = [hs EXCEPT ![h] = s], s.todo \union s.dirty = {},
           s.pc # "idle" => s.p \in Payments, s.pc = "stripe" => s.p \in Online
    PROVE  Inv'
  BY DEF Inv, TypeOK, ChargeConsistent, HandlerInv

(* Two jobs create a row where there was none.                             *)
LEMMA NewRowStep ==
    ASSUME Inv, TypeOK', FeeJobInv', UNCHANGED hs, NEW k \in Charges, charge[k].status = "none",
           NEW a \in Nat \ {0}, NEW d \in Nat,
           charge' = [charge EXCEPT ![k] = NewCharge(a, d)]
    PROVE  Inv'
  <1>1. ChargeConsistent'
    BY NewChargeConsistent DEF Inv, TypeOK, ChargeConsistent
  <1>2. HandlerInv'
    BY NewChargeConsistent DEF Inv, TypeOK, HandlerInv
  <1>3. QED
    BY <1>1, <1>2 DEF Inv

-----------------------------------------------------------------------------
(* One lemma per kind of step.                                             *)

LEMMA TickStep == Inv /\ (Tick \/ LateFeeScan) => Inv'
  <1> SUFFICES ASSUME Inv, Tick \/ LateFeeScan PROVE Inv'
    OBVIOUS
  <1>1. TypeOK' /\ FeeJobInv' /\ UNCHANGED <<charge, hs>>
    <2>1. CASE Tick
      BY <2>1 DEF Inv, Tick, TypeOK, stripeVars, FeeJobInv
    <2>2. CASE LateFeeScan
      BY <2>2, LedgerAssumption DEF Inv, LateFeeScan, TypeOK, stripeVars, JobTime, FeeJobInv
    <2>3. QED
      BY <2>1, <2>2
  <1>2. QED
    BY <1>1, QuietStep

LEMMA PostStep == ASSUME NEW m \in Months PROVE Inv /\ (PostRent(m) \/ LateFeePost(m)) => Inv'
  <1> SUFFICES ASSUME Inv, PostRent(m) \/ LateFeePost(m) PROVE Inv'
    OBVIOUS
  <1>1. <<m, "rent">> \in Charges /\ <<m, "late_fee">> \in Charges
    BY DEF Charges
  <1>2. CASE PostRent(m)
    <2>1. Midnight(now) \in Nat
      BY DEF Inv, TypeOK, Midnight
    <2>2. charge' \in [Charges -> Row]
      BY <1>1, <1>2, <2>1, NewChargeConsistent, LedgerAssumption DEF Inv, TypeOK, PostRent
    <2>3. TypeOK' /\ FeeJobInv'
      BY <1>2, <2>2 DEF Inv, TypeOK, FeeJobInv, PostRent, stripeVars
    <2>4. QED
      BY <1>1, <1>2, <2>1, <2>3, NewRowStep, LedgerAssumption DEF PostRent
  <1>3. CASE LateFeePost(m)
    <2>1. feeJob.date \in Nat /\ feeJob' \in [date : Nat, months : SUBSET Months]
      BY <1>3 DEF Inv, TypeOK, LateFeePost, NoJob
    <2>2. LateFee \in Nat \ {0} /\ FeeJobInv'
      BY <1>3, LedgerAssumption DEF Inv, FeeJobInv, LateFeePost
    <2>3. CASE charge[<<m, "late_fee">>].status = "none"
      <3>1. charge' = [charge EXCEPT ![<<m, "late_fee">>] = NewCharge(LateFee, feeJob.date)]
        BY <1>3, <2>3 DEF LateFeePost
      <3>2. charge' \in [Charges -> Row]
        BY <1>1, <2>1, <2>2, <3>1, NewChargeConsistent DEF Inv, TypeOK
      <3>3. TypeOK' /\ UNCHANGED hs
        BY <1>3, <2>1, <3>2 DEF Inv, TypeOK, LateFeePost, stripeVars
      <3>4. QED
        BY <1>1, <2>1, <2>2, <2>3, <3>1, <3>3, NewRowStep
    <2>4. CASE charge[<<m, "late_fee">>].status # "none"
      <3>1. TypeOK' /\ UNCHANGED <<charge, hs>>
        BY <1>3, <2>1, <2>4 DEF Inv, TypeOK, LateFeePost, stripeVars
      <3>2. QED
        BY <2>2, <3>1, QuietStep
    <2>5. QED
      BY <2>3, <2>4
  <1>4. QED
    BY <1>2, <1>3

LEMMA PortalStep == ASSUME NEW p \in Online PROVE Inv /\ Portal(p) => Inv'
  <1> SUFFICES ASSUME Inv, Portal(p) PROVE Inv'
    OBVIOUS
  <1>1. TypeOK' /\ FeeJobInv' /\ UNCHANGED <<charge, hs>>
    BY DEF Inv, TypeOK, Portal, OpenAch, OpenCard, ConfirmIntent, IntentUnavailable,
           StoreIntentId, RequestDies, stripeVars, PayStatus, FeeJobInv
  <1>2. QED
    BY <1>1, QuietStep

LEMMA StripeStep == ASSUME NEW p \in Online PROVE Inv /\ Stripe(p) => Inv'
  <1> SUFFICES ASSUME Inv, Stripe(p) PROVE Inv'
    OBVIOUS
  <1>1. TypeOK' /\ FeeJobInv' /\ UNCHANGED <<charge, hs>>
    <2>1. CASE Settle(p, "succeeded") \/ Settle(p, "failed")
      BY <2>1 DEF Inv, TypeOK, Settle, FeeJobInv
    <2>2. ASSUME NEW e \in Events, EventUnmatched(p, e) \/ EventSetsStatus(p, e)
          PROVE TypeOK' /\ FeeJobInv' /\ UNCHANGED <<charge, hs>>
      BY <2>2 DEF Inv, TypeOK, EventUnmatched, EventSetsStatus, Deliver, PayStatus, FeeJobInv
    <2>3. QED
      BY <2>1, <2>2 DEF Stripe
  <1>2. QED
    BY <1>1, QuietStep

-----------------------------------------------------------------------------
(* Steps of a handler.                                                     *)

LEMMA EnterStep ==
    ASSUME NEW h \in Handlers, NEW p \in Payments
    PROVE  Inv /\ ((p \in Online /\ EventSucceeded(h, p)) \/ (p \in Offline /\ RecordOffline(h, p))
                   \/ RequestRefund(h, p)) => Inv'
  <1> SUFFICES ASSUME Inv, (p \in Online /\ EventSucceeded(h, p)) \/ (p \in Offline /\ RecordOffline(h, p))
                           \/ RequestRefund(h, p)
               PROVE Inv'
    OBVIOUS
  <1>1. PICK kind \in {"succeeded", "offline", "refund"}, pc \in {"stripe", "read"} :
           hs' = [hs EXCEPT ![h] = Fresh(kind, p, pc)] /\ (pc = "stripe" => p \in Online)
    BY DEF Inv, TypeOK, EventSucceeded, RecordOffline, RequestRefund, Enter
  <1>2. UNCHANGED charge /\ FeeJobInv'
    BY DEF Inv, FeeJobInv, EventSucceeded, RecordOffline, RequestRefund, stripeVars
  <1>3. hs' \in [Handlers -> HandlerState]
    BY <1>1, FreshOK DEF Inv, TypeOK
  <1>4. TypeOK'
    BY <1>3 DEF Inv, TypeOK, EventSucceeded, RecordOffline, RequestRefund, Deliver,
                Events, PayStatus, stripeVars
  <1>5. /\ Fresh(kind, p, pc).todo \union Fresh(kind, p, pc).dirty = {}
        /\ Fresh(kind, p, pc).pc = pc /\ Fresh(kind, p, pc).p = p
    BY FreshOK
  <1>6. QED
    BY <1>1, <1>2, <1>4, <1>5, EmptyHands

LEMMA LeaveStep ==
    ASSUME NEW h \in Handlers
    PROVE  Inv /\ (WebhookDone(h) \/ HandlerDies(h) \/ StripeRefund(h)) => Inv'
  <1> SUFFICES ASSUME Inv, WebhookDone(h) \/ HandlerDies(h) \/ StripeRefund(h) PROVE Inv'
    OBVIOUS
  <1>1. UNCHANGED charge /\ FeeJobInv'
    BY DEF Inv, FeeJobInv, WebhookDone, HandlerDies, StripeRefund, stripeVars
  <1>2. CASE hs' = [hs EXCEPT ![h] = Idle]
    <2>1. TypeOK'
      BY <1>2, IdleOK DEF Inv, TypeOK, HandlerInv, WebhookDone, HandlerDies, StripeRefund, stripeVars
    <2>2. QED
      BY <1>1, <1>2, <2>1, IdleOK, EmptyHands
  <1>3. CASE StripeRefund(h) /\ Enter(h, "refund", hs[h].p, "read")
    <2>1. hs[h].p \in Online /\ hs' = [hs EXCEPT ![h] = Fresh("refund", hs[h].p, "read")]
      BY <1>3 DEF Inv, HandlerInv, StripeRefund, Enter
    <2>2. TypeOK'
      BY <1>3, <2>1, FreshOK DEF Inv, TypeOK, StripeRefund, Payments
    <2>3. /\ Fresh("refund", hs[h].p, "read").todo \union Fresh("refund", hs[h].p, "read").dirty = {}
          /\ Fresh("refund", hs[h].p, "read").pc = "read"
          /\ Fresh("refund", hs[h].p, "read").p = hs[h].p
      BY <2>1, FreshOK DEF Payments
    <2>4. hs[h].p \in Payments
      BY <2>1 DEF Payments
    <2>5. QED
      BY <1>1, <2>1, <2>2, <2>3, <2>4, EmptyHands
  <1>4. QED
    BY <1>2, <1>3 DEF WebhookDone, HandlerDies, StripeRefund

(* A turn of the loop: the memory it leaves is as sound as it was.         *)
LEMMA LoopStep ==
    ASSUME Inv, FeeJobInv', NEW h \in Handlers, hs[h].p \in Payments,
           NEW seen \in [Charges -> Row], NEW place \in Places, NEW todo \in SUBSET Charges,
           NEW dirty \in SUBSET Charges, NEW remaining \in Int,
           Loop(h, seen, place, todo, dirty, remaining),
           charge' \in [Charges -> Row], ChargeConsistent',
           \A c \in Charges : charge[c].status # "none" =>
               charge'[c].status # "none" /\ charge'[c].amount = charge[c].amount,
           \A c \in todo \union dirty :
               /\ Consistent(seen[c]) /\ seen[c].status # "none"
               /\ charge'[c].status # "none" /\ seen[c].amount = charge'[c].amount,
           UNCHANGED <<now, pay, linked, request, stripeVars, feeJob>>
    PROVE  Inv'
  <1> DEFINE new == Memory(hs[h].kind, hs[h].p, "loop", seen, place, todo, dirty, remaining)
  <1>1. /\ new \in HandlerState /\ new.pc = "loop" /\ new.p = hs[h].p
        /\ new.seen = seen /\ new.todo = todo /\ new.dirty = dirty
    BY DEF Inv, TypeOK, HandlerState, Memory, Places
  <1>2. hs' = [hs EXCEPT ![h] = new]
    BY DEF Loop
  <1> HIDE DEF new
  <1>3. TypeOK'
    BY <1>1, <1>2 DEF Inv, TypeOK, stripeVars
  <1>4. ASSUME NEW g \in Handlers, g # h
        PROVE  /\ hs'[g] = hs[g] /\ hs[g].todo \in SUBSET Charges
               /\ hs[g].dirty \in SUBSET Charges
    BY <1>2, <1>4 DEF Inv, TypeOK, HandlerState
  <1>5. hs'[h] = new
    BY <1>2 DEF Inv, TypeOK
  <1>6. HandlerInv'
    BY <1>1, <1>4, <1>5 DEF Inv, HandlerInv
  <1>7. QED
    BY <1>3, <1>6 DEF Inv

(* The list a query returns.                                               *)
Sorted(kind, seen, place, todo) ==
    \A c, d \in todo :
        /\ place[c] \in Nat
        /\ place[c] = place[d] => c = d
        /\ kind = "refund" => (seen[c].due > seen[d].due => place[c] < place[d])
        /\ kind # "refund" => (seen[c].due < seen[d].due => place[c] < place[d])

LEMMA ReadList ==
    ASSUME NEW h \in Handlers, ReadCharges(h)
    PROVE  LET S == IF hs[h].kind = "refund" THEN Credited ELSE Outstanding
           IN  \E place \in Places : /\ Loop(h, charge, place, S, {}, Amount[hs[h].p])
                                     /\ Sorted(hs[h].kind, charge, place, S)
  <1>1. ASSUME NEW S \in SUBSET Charges, NEW place \in Lists(S)
        PROVE  place \in Places /\ \A c \in S : place[c] \in Nat
    <2>1. place \in [S -> 1..Cardinality(S)]
      BY DEF Lists
    <2>2. 1..Cardinality(S) \subseteq Nat
      OBVIOUS
    <2>3. place \in [S -> Nat]
      BY <2>1, <2>2
    <2> QED BY <2>3 DEF Places
  <1>2. CASE hs[h].kind = "refund"
    <2>1. PICK place \in NewestFirst(Credited) :
             Loop(h, charge, place, Credited, {}, Amount[hs[h].p])
      BY <1>2 DEF ReadCharges
    <2>2. Credited \in SUBSET Charges /\ place \in Lists(Credited)
      BY DEF Credited, NewestFirst
    <2>3. place \in Places /\ \A c \in Credited : place[c] \in Nat
      BY <1>1, <2>2
    <2>4. Sorted(hs[h].kind, charge, place, Credited)
      BY <1>2, <2>3 DEF Sorted, NewestFirst, Lists
    <2> QED BY <1>2, <2>1, <2>3, <2>4
  <1>3. CASE hs[h].kind # "refund"
    <2>1. PICK place \in OldestFirst(Outstanding) :
             Loop(h, charge, place, Outstanding, {}, Amount[hs[h].p])
      BY <1>3 DEF ReadCharges
    <2>2. Outstanding \in SUBSET Charges /\ place \in Lists(Outstanding)
      BY DEF Outstanding, OldestFirst
    <2>3. place \in Places /\ \A c \in Outstanding : place[c] \in Nat
      BY <1>1, <2>2
    <2>4. Sorted(hs[h].kind, charge, place, Outstanding)
      BY <1>3, <2>3 DEF Sorted, OldestFirst, Lists
    <2> QED BY <1>3, <2>1, <2>3, <2>4
  <1> QED BY <1>2, <1>3

LEMMA ReadStep == ASSUME NEW h \in Handlers PROVE Inv /\ ReadCharges(h) => Inv'
  <1> SUFFICES ASSUME Inv, ReadCharges(h) PROVE Inv'
    OBVIOUS
  <1> DEFINE S == IF hs[h].kind = "refund" THEN Credited ELSE Outstanding
  <1>1. hs[h].p \in Payments /\ Amount[hs[h].p] \in Int
    BY LedgerAssumption DEF Inv, HandlerInv, ReadCharges
  <1>2. S \in SUBSET Charges /\ \A c \in S : charge[c].status # "none"
    BY DEF Credited, Outstanding
  <1>3. PICK place \in Places : Loop(h, charge, place, S, {}, Amount[hs[h].p])
    BY ReadList
  <1>3a. UNCHANGED <<now, charge, pay, linked, request, stripeVars, feeJob>>
    BY DEF ReadCharges
  <1> HIDE DEF S
  <1>4. charge \in [Charges -> Row] /\ (\A c \in Charges : Consistent(charge[c]))
    BY DEF Inv, TypeOK, ChargeConsistent
  <1>5. ChargeConsistent' /\ FeeJobInv'
    BY <1>3a DEF Inv, ChargeConsistent, FeeJobInv
  <1>6. QED
    BY <1>1, <1>2, <1>3, <1>3a, <1>4, <1>5, LoopStep

(* The loops' common facts: a handler at work holds money to place, and    *)
(* the rows it visits or has visited exist.                                *)
LEMMA WorkingFacts ==
    ASSUME Inv, NEW h \in Handlers, Working(h), NEW c \in hs[h].todo
    PROVE  /\ c \in Charges /\ hs[h].p \in Payments
           /\ hs[h].remaining \in Nat \ {0}
           /\ hs[h].seen \in [Charges -> Row] /\ hs[h].place \in Places
           /\ hs[h].todo \ {c} \in SUBSET Charges
           /\ hs[h].dirty \union {c} \in SUBSET Charges
           /\ hs[h].seen[c] \in Row /\ Consistent(hs[h].seen[c])
           /\ hs[h].seen[c].status # "none" /\ charge[c].status # "none"
           /\ hs[h].seen[c].amount = charge[c].amount
  <1>1. hs[h] \in HandlerState
    BY DEF Inv, TypeOK
  <1>2. /\ hs[h].remaining \in Int /\ hs[h].seen \in [Charges -> Row] /\ hs[h].place \in Places
        /\ hs[h].todo \in SUBSET Charges /\ hs[h].dirty \in SUBSET Charges
    BY <1>1 DEF HandlerState, Places
  <1>3. QED
    BY <1>2 DEF Inv, HandlerInv, Working

LEMMA WebhookStep ==
    ASSUME NEW h \in Handlers, NEW c \in Charges PROVE Inv /\ WebhookApply(h, c) => Inv'
  <1> SUFFICES ASSUME Inv, WebhookApply(h, c) PROVE Inv'
    OBVIOUS
  <1> DEFINE new == Apply(hs[h].seen[c], hs[h].remaining)
  <1>1. Working(h) /\ c \in hs[h].todo
    BY DEF WebhookApply, First
  <1>2. /\ new \in Row /\ Consistent(new) /\ new.status # "none"
        /\ new.amount = charge[c].amount /\ new.paid \in Int /\ hs[h].seen[c].paid \in Int
    BY <1>1, WorkingFacts, ApplyConsistent DEF Row
  <1>3. /\ charge' = [charge EXCEPT ![c] = Written(charge[c], new)]
        /\ Loop(h, hs[h].seen, hs[h].place, hs[h].todo \ {c}, {},
                hs[h].remaining - (new.paid - hs[h].seen[c].paid))
        /\ UNCHANGED <<now, pay, linked, request, stripeVars, feeJob>>
    BY DEF WebhookApply
  <1> HIDE DEF new
  <1>4. charge \in [Charges -> Row] /\ charge[c] \in Row /\ charge[c].status # "none"
    BY <1>1, WorkingFacts DEF Inv, TypeOK
  <1>5. /\ Written(charge[c], new) \in Row /\ Consistent(Written(charge[c], new))
        /\ Written(charge[c], new).amount = charge[c].amount
        /\ Written(charge[c], new).status # "none"
    BY <1>2, <1>4, WrittenConsistent
  <1>6. /\ charge' \in [Charges -> Row] /\ ChargeConsistent'
        /\ \A d \in Charges : charge[d].status # "none" =>
              charge'[d].status # "none" /\ charge'[d].amount = charge[d].amount
    BY <1>3, <1>4, <1>5 DEF Inv, ChargeConsistent
  <1>7. \A d \in hs[h].todo : d \in Charges /\ hs[h].seen[d].status # "none"
           /\ Consistent(hs[h].seen[d]) /\ hs[h].seen[d].amount = charge[d].amount
           /\ charge[d].status # "none"
    BY <1>1, WorkingFacts
  <1>8. hs[h].remaining - (new.paid - hs[h].seen[c].paid) \in Int
    BY <1>1, <1>2, WorkingFacts
  <1>9. FeeJobInv' /\ {} \in SUBSET Charges
    BY <1>3 DEF Inv, FeeJobInv
  <1>10. QED
    BY <1>1, <1>3, <1>6, <1>7, <1>8, <1>9, WorkingFacts, LoopStep

LEMMA TxStep ==
    ASSUME Inv, NEW h \in Handlers, NEW c \in hs[h].todo, Working(h),
           NEW new \in Row, Consistent(new), new.status # "none",
           new.amount = hs[h].seen[c].amount, NEW moved \in Int, TxVisit(h, c, new, moved)
    PROVE  Inv'
  <1> DEFINE seen == [hs[h].seen EXCEPT ![c] = new]
             todo == hs[h].todo \ {c}
             dirty == hs[h].dirty \union {c}
  <1>1. /\ Loop(h, seen, hs[h].place, todo, dirty, hs[h].remaining - moved)
        /\ UNCHANGED <<now, charge, pay, linked, request, stripeVars, feeJob>>
    BY DEF TxVisit
  <1>2. /\ seen \in [Charges -> Row] /\ todo \in SUBSET Charges /\ dirty \in SUBSET Charges
        /\ hs[h].remaining - moved \in Int /\ c \in Charges
    BY WorkingFacts
  <1>3. \A d \in todo \union dirty : Consistent(seen[d]) /\ seen[d].status # "none"
           /\ charge[d].status # "none" /\ seen[d].amount = charge[d].amount
    BY <1>2, WorkingFacts DEF Inv, HandlerInv
  <1>4. charge' = charge /\ charge \in [Charges -> Row] /\ ChargeConsistent' /\ FeeJobInv'
    BY <1>1 DEF Inv, TypeOK, ChargeConsistent, FeeJobInv
  <1> HIDE DEF seen, todo, dirty
  <1>5. QED
    BY <1>1, <1>2, <1>3, <1>4, WorkingFacts, LoopStep

LEMMA AllocateStep ==
    ASSUME NEW h \in Handlers, NEW c \in Charges
    PROVE  Inv /\ (OfflineApply(h, c) \/ RefundReverse(h, c)) => Inv'
  <1> SUFFICES ASSUME Inv, OfflineApply(h, c) \/ RefundReverse(h, c) PROVE Inv'
    OBVIOUS
  <1>1. Working(h) /\ c \in hs[h].todo
    BY DEF OfflineApply, RefundReverse, First
  <1>2. hs[h].seen[c].paid \in Int
    BY <1>1, WorkingFacts DEF Row
  <1>3. CASE OfflineApply(h, c)
    <2> DEFINE new == Apply(hs[h].seen[c], hs[h].remaining)
    <2>1. /\ new \in Row /\ Consistent(new) /\ new.status # "none"
          /\ new.amount = hs[h].seen[c].amount /\ new.paid - hs[h].seen[c].paid \in Int
      BY <1>1, <1>2, WorkingFacts, ApplyConsistent DEF Row
    <2>2. TxVisit(h, c, new, new.paid - hs[h].seen[c].paid)
      BY <1>3 DEF OfflineApply
    <2> HIDE DEF new
    <2>3. QED
      BY <1>1, <2>1, <2>2, TxStep
  <1>4. CASE RefundReverse(h, c)
    <2> DEFINE new == Reverse(hs[h].seen[c], hs[h].remaining)
    <2>1. /\ new \in Row /\ Consistent(new) /\ new.status # "none"
          /\ new.amount = hs[h].seen[c].amount /\ hs[h].seen[c].paid - new.paid \in Int
      BY <1>1, <1>2, WorkingFacts, ReverseConsistent DEF Row
    <2>2. TxVisit(h, c, new, hs[h].seen[c].paid - new.paid)
      BY <1>4 DEF RefundReverse
    <2> HIDE DEF new
    <2>3. QED
      BY <1>1, <2>1, <2>2, TxStep
  <1>5. QED
    BY <1>3, <1>4

LEMMA CommitStep ==
    ASSUME NEW h \in Handlers PROVE Inv /\ (OfflineCommit(h) \/ RefundCommit(h)) => Inv'
  <1> SUFFICES ASSUME Inv, NEW newStatus \in {"completed", "refunded"}, Commit(h, newStatus) PROVE Inv'
    BY DEF OfflineCommit, RefundCommit
  <1>1. /\ hs[h].seen \in [Charges -> Row] /\ hs[h].dirty \in SUBSET Charges
        /\ charge \in [Charges -> Row]
    BY DEF Inv, TypeOK, HandlerState
  <1>2. \A c \in hs[h].dirty :
           /\ Consistent(hs[h].seen[c]) /\ hs[h].seen[c].status # "none"
           /\ charge[c].status # "none" /\ hs[h].seen[c].amount = charge[c].amount
    BY DEF Inv, HandlerInv
  <1>3. \A c \in hs[h].dirty :
           /\ Written(charge[c], hs[h].seen[c]) \in Row
           /\ Consistent(Written(charge[c], hs[h].seen[c]))
           /\ Written(charge[c], hs[h].seen[c]).amount = charge[c].amount
           /\ Written(charge[c], hs[h].seen[c]).status # "none"
    BY <1>1, <1>2, WrittenConsistent
  <1>4. charge' = [c \in Charges |-> IF c \in hs[h].dirty THEN Written(charge[c], hs[h].seen[c])
                                     ELSE charge[c]]
    BY DEF Commit
  <1>5. /\ charge' \in [Charges -> Row] /\ ChargeConsistent'
        /\ \A c \in Charges : charge[c].status # "none" =>
              charge'[c].status # "none" /\ charge'[c].amount = charge[c].amount
    BY <1>1, <1>3, <1>4 DEF Inv, ChargeConsistent
  <1>6. TypeOK' /\ FeeJobInv'
    BY <1>5, IdleOK DEF Inv, TypeOK, FeeJobInv, Commit, PayStatus, stripeVars
  <1>7. \A g \in Handlers : hs[g].todo \union hs[g].dirty \in SUBSET Charges
    BY DEF Inv, TypeOK, HandlerState
  <1>8. hs' = [hs EXCEPT ![h] = Idle]
    BY DEF Commit
  <1>9. HandlerInv'
    BY <1>5, <1>7, <1>8, IdleOK DEF Inv, TypeOK, HandlerInv
  <1>10. QED
    BY <1>5, <1>6, <1>9 DEF Inv

LEMMA HandlerStep == ASSUME NEW h \in Handlers PROVE Inv /\ Handler(h) => Inv'
  <1> SUFFICES ASSUME Inv, Handler(h) PROVE Inv'
    OBVIOUS
  <1>1. CASE Progress(h)
    BY <1>1, ReadStep, LeaveStep, WebhookStep, AllocateStep, CommitStep DEF Progress
  <1>2. CASE HandlerDies(h)
    BY <1>2, LeaveStep
  <1>3. ASSUME NEW p \in Payments,
               (p \in Online /\ EventSucceeded(h, p)) \/ (p \in Offline /\ RecordOffline(h, p))
                  \/ RequestRefund(h, p)
        PROVE  Inv'
    BY <1>3, EnterStep
  <1>4. QED
    BY <1>1, <1>2, <1>3 DEF Handler, Payments

LEMMA NextInv == Inv /\ [Next]_vars => Inv'
  <1> SUFFICES ASSUME Inv, [Next]_vars PROVE Inv'
    OBVIOUS
  <1>1. CASE Tick \/ LateFeeScan
    BY <1>1, TickStep
  <1>2. ASSUME NEW m \in Months, PostRent(m) \/ LateFeePost(m) PROVE Inv'
    BY <1>2, PostStep
  <1>3. ASSUME NEW p \in Online, Portal(p) \/ Stripe(p) PROVE Inv'
    BY <1>3, PortalStep, StripeStep
  <1>4. ASSUME NEW h \in Handlers, Handler(h) PROVE Inv'
    BY <1>4, HandlerStep
  <1>5. CASE UNCHANGED vars
    BY <1>5 DEF vars, stripeVars, Inv, TypeOK, FeeJobInv, ChargeConsistent, HandlerInv
  <1>6. QED
    BY <1>1, <1>2, <1>3, <1>4, <1>5 DEF Next

-----------------------------------------------------------------------------
(* The ledger's tables and the handlers' memory keep their types.          *)
THEOREM TypeCorrect == Spec => []TypeOK
  <1>1. Inv => TypeOK
    BY DEF Inv
  <1>2. QED
    BY <1>1, InitInv, NextInv, PTL DEF Spec

(* No interleaving of handlers, no crash, no duplicated or reordered event *)
(* makes a RentCharge row hold more than its amount or lie in its status.  *)
THEOREM ChargesConsistent == Spec => []ChargeConsistent
  <1>1. Inv => ChargeConsistent
    BY DEF Inv
  <1>2. QED
    BY <1>1, InitInv, NextInv, PTL DEF Spec
-----------------------------------------------------------------------------
(* Oldest first.                                                           *)

(* Money lies on a prefix of the rows of a table, by due day.              *)
Ordered(f) ==
    \A c, d \in Charges :
        /\ f[c].status # "none" /\ Day(f[c].due) < Day(f[d].due) /\ f[d].paid > 0
        => f[c].status = "paid"

(* The table as it will be once the handler has written what it holds.     *)
After(h) == [c \in Charges |-> IF c \in hs[h].dirty THEN Written(charge[c], hs[h].seen[c])
                               ELSE charge[c]]

(* A loop that still has money has filled, or emptied, every row on the    *)
(* far side of those it has to visit.                                      *)
Filled(f, todo) ==
    \A c \in Charges \ todo : \A d \in todo :
        f[c].status # "none" /\ Day(f[c].due) < Day(f[d].due) => f[c].status = "paid"
Emptied(f, todo) ==
    \A c \in Charges \ todo : \A d \in todo : Day(f[d].due) < Day(f[c].due) => f[c].paid = 0

LoopOK(h) ==
    /\ Sorted(hs[h].kind, hs[h].seen, hs[h].place, hs[h].todo)
    /\ hs[h].kind = "succeeded" => hs[h].dirty = {}
    /\ \A c \in hs[h].todo : /\ c \notin hs[h].dirty /\ hs[h].seen[c] = charge[c]
                             /\ hs[h].kind # "refund" => charge[c].status # "paid"
    /\ Ordered(After(h))
    /\ hs[h].remaining > 0 => IF hs[h].kind = "refund" THEN Emptied(After(h), hs[h].todo)
                              ELSE Filled(After(h), hs[h].todo)

(* No row is due after today; without overlap one handler works at a time. *)
DatesOK == /\ \A c \in Charges : charge[c].status # "none" => Day(charge[c].due) <= now
           /\ feeJob.months # {} => feeJob.date = JobTime(now)
Solo    == \A g, h \in Handlers : hs[g].pc # "idle" /\ hs[h].pc # "idle" => g = h
Looks   == \A h \in Handlers : hs[h].pc = "loop" => LoopOK(h)

FifoInv == DatesOK /\ (~faults.overlap => Solo /\ Ordered(charge) /\ Looks)

-----------------------------------------------------------------------------
(* Facts about tables of rows.                                             *)

LEMMA Days ==
    /\ \A a, b \in Nat : a <= b => Day(a) <= Day(b)
    /\ \A a \in Nat : Day(a) \in Nat
    /\ \A n \in Nat : Day(Midnight(n)) = n /\ Day(JobTime(n)) = n
  BY DEF Day, Midnight, JobTime

LEMMA FillOldest ==
    ASSUME NEW f \in [Charges -> Row], NEW todo \in SUBSET Charges, NEW c \in todo,
           \A d \in todo : f[c].due <= f[d].due,
           \A d \in todo : f[d].status # "none" /\ f[d].status # "paid",
           Ordered(f), Filled(f, todo),
           NEW r \in Row, r.due = f[c].due, r.status # "none"
    PROVE  /\ Ordered([f EXCEPT ![c] = r])
           /\ r.status = "paid" => Filled([f EXCEPT ![c] = r], todo \ {c})
  <1> DEFINE g == [f EXCEPT ![c] = r]
  <1>1. /\ g[c] = r /\ \A d \in Charges \ {c} : g[d] = f[d]
        /\ \A d \in Charges : g[d].due = f[d].due /\ f[d].due \in Nat
    BY DEF Row
  <1>2. \A d \in todo : Day(f[c].due) <= Day(f[d].due)
    BY <1>1, Days
  <1>3. \A d \in Charges : Day(f[d].due) \in Nat
    BY <1>1, Days
  <1>4. Ordered(g)
    <2> SUFFICES ASSUME NEW e \in Charges, NEW d \in Charges, g[e].status # "none",
                        Day(f[e].due) < Day(f[d].due), g[d].paid > 0
                 PROVE  g[e].status = "paid"
      BY <1>1 DEF Ordered
    <2>1. CASE d = c
      <3>1. e \notin todo
        BY <1>2, <1>3, <2>1
      <3>2. g[e] = f[e]
        BY <1>1, <3>1
      <3> QED BY <2>1, <3>1, <3>2 DEF Filled
    <2>2. CASE d # c /\ e = c
      <3>1. f[c].status = "paid"
        BY <1>1, <2>2 DEF Ordered
      <3> QED BY <3>1
    <2>3. CASE d # c /\ e # c
      BY <1>1, <2>3 DEF Ordered
    <2> QED BY <2>1, <2>2, <2>3
  <1>5. ASSUME r.status = "paid" PROVE Filled(g, todo \ {c})
    <2> SUFFICES ASSUME NEW e \in Charges \ (todo \ {c}), NEW d \in todo \ {c},
                        g[e].status # "none", Day(g[e].due) < Day(g[d].due)
                 PROVE  g[e].status = "paid"
      BY DEF Filled
    <2>1. CASE e = c
      BY <1>1, <1>5, <2>1
    <2>2. CASE e # c
      BY <1>1, <2>2 DEF Filled
    <2> QED BY <2>1, <2>2
  <1>6. QED
    BY <1>4, <1>5

LEMMA EmptyNewest ==
    ASSUME NEW f \in [Charges -> Row], NEW todo \in SUBSET Charges, NEW c \in todo,
           \A d \in todo : f[d].due <= f[c].due,
           Ordered(f), Emptied(f, todo),
           NEW r \in Row, r.due = f[c].due, f[c].status # "none", r.paid <= f[c].paid
    PROVE  /\ Ordered([f EXCEPT ![c] = r])
           /\ r.paid = 0 => Emptied([f EXCEPT ![c] = r], todo \ {c})
  <1> DEFINE g == [f EXCEPT ![c] = r]
  <1>1. /\ g[c] = r /\ \A d \in Charges \ {c} : g[d] = f[d]
        /\ \A d \in Charges : g[d].due = f[d].due /\ f[d].due \in Nat
        /\ \A d \in Charges : f[d].paid \in Nat /\ g[d].paid \in Nat
    BY DEF Row
  <1>2. \A d \in todo : Day(f[d].due) <= Day(f[c].due)
    BY <1>1, Days
  <1>3. \A d \in Charges : Day(f[d].due) \in Nat
    BY <1>1, Days
  <1>4. Ordered(g)
    <2> SUFFICES ASSUME NEW e \in Charges, NEW d \in Charges, g[e].status # "none",
                        Day(f[e].due) < Day(f[d].due), g[d].paid > 0
                 PROVE  g[e].status = "paid"
      BY <1>1 DEF Ordered
    <2>1. CASE e = c
      <3>1. d \notin todo /\ d # c
        BY <1>2, <1>3, <2>1
      <3>2. f[d].paid = 0
        BY <2>1, <3>1 DEF Emptied
      <3> QED BY <1>1, <3>1, <3>2
    <2>2. CASE e # c
      <3>1. f[d].paid > 0
        <4>1. CASE d = c
          BY <1>1, <4>1
        <4>2. CASE d # c
          BY <1>1, <4>2
        <4> QED BY <4>1, <4>2
      <3> QED BY <1>1, <2>2, <3>1 DEF Ordered
    <2> QED BY <2>1, <2>2
  <1>5. ASSUME r.paid = 0 PROVE Emptied(g, todo \ {c})
    <2> SUFFICES ASSUME NEW e \in Charges \ (todo \ {c}), NEW d \in todo \ {c},
                        Day(g[d].due) < Day(g[e].due)
                 PROVE  g[e].paid = 0
      BY DEF Emptied
    <2>1. CASE e = c
      BY <1>1, <1>5, <2>1
    <2>2. CASE e # c
      BY <1>1, <2>2 DEF Emptied
    <2> QED BY <2>1, <2>2
  <1>6. QED
    BY <1>4, <1>5

(* A row that is due no earlier than all others and holds nothing.         *)
LEMMA NewestRow ==
    ASSUME NEW f \in [Charges -> Row], \A c \in Charges : Consistent(f[c]),
           NEW k \in Charges, f[k].status = "none",
           NEW r \in Row, r.paid = 0,
           \A c \in Charges : f[c].status # "none" => Day(f[c].due) <= Day(r.due)
    PROVE  /\ Ordered(f) => Ordered([f EXCEPT ![k] = r])
           /\ \A todo \in SUBSET Charges :
                 (\A d \in todo : f[d].status # "none") =>
                 /\ Filled(f, todo) => Filled([f EXCEPT ![k] = r], todo)
                 /\ Emptied(f, todo) => Emptied([f EXCEPT ![k] = r], todo)
  <1> DEFINE g == [f EXCEPT ![k] = r]
  <1>1. /\ g[k] = r /\ \A d \in Charges \ {k} : g[d] = f[d]
        /\ \A d \in Charges : f[d].paid \in Nat /\ f[d].due \in Nat
        /\ r.due \in Nat
    BY DEF Row
  <1>2. (\A d \in Charges : Day(f[d].due) \in Nat) /\ Day(r.due) \in Nat
    BY <1>1, Days
  <1>3. \A d \in Charges : f[d].paid > 0 => f[d].status # "none"
    BY <1>1 DEF Consistent
  <1>4. ASSUME Ordered(f) PROVE Ordered(g)
    <2> SUFFICES ASSUME NEW e \in Charges, NEW d \in Charges, g[e].status # "none",
                        Day(g[e].due) < Day(g[d].due), g[d].paid > 0
                 PROVE  g[e].status = "paid"
      BY DEF Ordered
    <2>1. d # k /\ g[d] = f[d] /\ f[d].status # "none"
      BY <1>1, <1>3
    <2>2. e # k
      BY <1>1, <1>2, <2>1
    <2> QED BY <1>1, <1>4, <2>1, <2>2 DEF Ordered
  <1>5. ASSUME NEW todo \in SUBSET Charges, \A d \in todo : f[d].status # "none"
        PROVE  /\ Filled(f, todo) => Filled(g, todo)
               /\ Emptied(f, todo) => Emptied(g, todo)
    <2>1. k \notin todo
      BY <1>5
    <2>2. \A d \in todo : g[d] = f[d] /\ Day(f[d].due) <= Day(r.due)
      BY <1>1, <1>5, <2>1
    <2>3. ASSUME Filled(f, todo) PROVE Filled(g, todo)
      <3> SUFFICES ASSUME NEW c \in Charges \ todo, NEW d \in todo, g[c].status # "none",
                          Day(g[c].due) < Day(g[d].due)
                   PROVE  g[c].status = "paid"
        BY DEF Filled
      <3>1. c # k
        BY <1>1, <1>2, <2>2
      <3> QED BY <1>1, <2>2, <2>3, <3>1 DEF Filled
    <2>4. ASSUME Emptied(f, todo) PROVE Emptied(g, todo)
      <3> SUFFICES ASSUME NEW c \in Charges \ todo, NEW d \in todo, Day(g[d].due) < Day(g[c].due)
                   PROVE  g[c].paid = 0
        BY DEF Emptied
      <3> QED BY <1>1, <2>2, <2>4 DEF Emptied
    <2> QED BY <2>3, <2>4
  <1>6. QED
    BY <1>4, <1>5

(* The money that is left says that the row was filled, or emptied.        *)
LEMMA ApplyFills ==
    ASSUME NEW r \in Row, Consistent(r), r.status # "none", NEW m \in Nat \ {0}
    PROVE  /\ Apply(r, m).due = r.due
           /\ m - (Apply(r, m).paid - r.paid) > 0 => Apply(r, m).status = "paid"
  <1>1. /\ r.amount \in Nat /\ r.paid \in Nat /\ r.paid <= r.amount
    BY DEF Row, Consistent
  <1> DEFINE paid == r.paid + Lesser(m, r.amount - r.paid)
  <1>2. paid \in Nat /\ (m - (paid - r.paid) > 0 => paid = r.amount)
    BY <1>1 DEF Lesser
  <1>3. Apply(r, m) = [amount |-> r.amount, due |-> r.due, paid |-> paid,
                       status |-> IF paid >= r.amount THEN "paid" ELSE "partial"]
    BY DEF Apply, Allocated
  <1> HIDE DEF paid
  <1>4. QED
    BY <1>1, <1>2, <1>3

LEMMA ReverseEmpties ==
    ASSUME NEW r \in Row, Consistent(r), r.status # "none", NEW m \in Nat \ {0}
    PROVE  /\ Reverse(r, m).due = r.due /\ Reverse(r, m).paid <= r.paid
           /\ m - (r.paid - Reverse(r, m).paid) > 0 => Reverse(r, m).paid = 0
  <1>1. /\ r.amount \in Nat /\ r.paid \in Nat /\ r.paid <= r.amount
    BY DEF Row, Consistent
  <1> DEFINE paid == r.paid - Lesser(r.paid, m)
  <1>2. paid \in Nat /\ paid <= r.paid /\ (m - (r.paid - paid) > 0 => paid = 0)
    BY <1>1 DEF Lesser
  <1>3. Reverse(r, m) = [amount |-> r.amount, due |-> r.due, paid |-> paid,
                         status |-> IF paid <= 0 THEN "unpaid"
                                    ELSE IF paid < r.amount THEN "partial" ELSE "paid"]
    BY DEF Reverse, Allocated
  <1> HIDE DEF paid
  <1>4. QED
    BY <1>1, <1>2, <1>3

-----------------------------------------------------------------------------
(* The steps, and what they leave of the order.                            *)

LEMMA InitFifo == Init => FifoInv
  <1> SUFFICES ASSUME Init PROVE FifoInv
    OBVIOUS
  <1>1. DatesOK
    BY DEF Init, DatesOK, NoRow, NoJob
  <1>2. Solo /\ Looks
    BY IdleOK DEF Init, Solo, Looks
  <1>3. Ordered(charge)
    BY DEF Init, Ordered, NoRow
  <1>4. QED
    BY <1>1, <1>2, <1>3 DEF FifoInv

(* Committing changes no due date and creates no row.                      *)
LEMMA AfterRows ==
    ASSUME Inv, NEW h \in Handlers
    PROVE  /\ After(h) \in [Charges -> Row]
           /\ \A c \in Charges : /\ Consistent(After(h)[c])
                                 /\ After(h)[c].due = charge[c].due
                                 /\ After(h)[c].status = "none" <=> charge[c].status = "none"
  <1>1. /\ charge \in [Charges -> Row] /\ hs[h].seen \in [Charges -> Row]
        /\ hs[h].dirty \in SUBSET Charges
    BY DEF Inv, TypeOK, HandlerState
  <1>2. SUFFICES ASSUME NEW c \in Charges
                 PROVE  /\ After(h)[c] \in Row /\ Consistent(After(h)[c])
                        /\ After(h)[c].due = charge[c].due
                        /\ After(h)[c].status = "none" <=> charge[c].status = "none"
    BY DEF After
  <1>3. CASE c \in hs[h].dirty
    <2>1. After(h)[c] = Written(charge[c], hs[h].seen[c])
      BY <1>3 DEF After
    <2>2. /\ charge[c] \in Row /\ charge[c].status # "none" /\ hs[h].seen[c] \in Row
          /\ Consistent(hs[h].seen[c]) /\ hs[h].seen[c].status # "none"
          /\ hs[h].seen[c].amount = charge[c].amount
      BY <1>1, <1>3 DEF Inv, HandlerInv
    <2>3. Written(charge[c], hs[h].seen[c]).due = charge[c].due
      BY DEF Written, Allocated
    <2>4. QED
      BY <2>1, <2>2, <2>3, WrittenConsistent
  <1>4. CASE c \notin hs[h].dirty
    BY <1>1, <1>4 DEF After, Inv, ChargeConsistent
  <1>5. QED
    BY <1>3, <1>4

(* Steps that move neither money nor a handler.                            *)
LEMMA QuietFifo ==
    ASSUME FifoInv, UNCHANGED <<charge, hs, faults>>, DatesOK'
    PROVE  FifoInv'
  <1>1. Solo' <=> Solo
    BY DEF Solo
  <1>2. Ordered(charge)' <=> Ordered(charge)
    BY DEF Ordered
  <1>3. ASSUME NEW h \in Handlers PROVE LoopOK(h)' <=> LoopOK(h)
    BY DEF LoopOK, After, Ordered, Filled, Emptied
  <1>4. Looks' <=> Looks
    BY <1>3 DEF Looks
  <1>5. QED
    BY <1>1, <1>2, <1>4 DEF FifoInv

(* A new row, due today: it is behind everything a handler works on.       *)
LEMMA NewRowFifo ==
    ASSUME Inv, FifoInv, UNCHANGED <<hs, faults, now>>, NEW k \in Charges,
           charge[k].status = "none", NEW a \in Nat \ {0}, NEW date \in Nat, Day(date) = now,
           charge' = [charge EXCEPT ![k] = NewCharge(a, date)],
           feeJob'.months # {} => feeJob'.date = JobTime(now)
    PROVE  FifoInv'
  <1> DEFINE r == NewCharge(a, date)
  <1>1. /\ r \in Row /\ r.paid = 0 /\ r.due = date /\ r.status # "none"
        /\ charge \in [Charges -> Row] /\ now \in Nat
    BY NewChargeConsistent DEF NewCharge, Inv, TypeOK
  <1>2. charge' = [charge EXCEPT ![k] = r] /\ Day(r.due) = now
    BY <1>1
  <1> HIDE DEF r
  <1>3. DatesOK'
    BY <1>1, <1>2 DEF FifoInv, DatesOK
  <1>4. ASSUME ~faults.overlap PROVE Ordered(charge')
    <2>1. \A c \in Charges : Consistent(charge[c])
      BY DEF Inv, ChargeConsistent
    <2>2. \A c \in Charges : charge[c].status # "none" => Day(charge[c].due) <= Day(r.due)
      BY <1>2 DEF FifoInv, DatesOK
    <2>3. Ordered(charge) => Ordered([charge EXCEPT ![k] = r])
      BY <1>1, <2>1, <2>2, NewestRow
    <2>4. QED
      BY <1>2, <1>4, <2>3 DEF FifoInv
  <1>5. ASSUME NEW h \in Handlers, hs[h].pc = "loop", LoopOK(h) PROVE LoopOK(h)'
    <2> DEFINE f == After(h)
    <2>1. /\ f \in [Charges -> Row] /\ f[k].status = "none"
          /\ \A c \in Charges : Consistent(f[c])
          /\ \A c \in Charges : f[c].status # "none" => Day(f[c].due) <= Day(r.due)
          /\ \A c \in hs[h].todo : f[c].status # "none"
      <3>1. \A c \in hs[h].todo : c \in Charges /\ charge[c].status # "none"
        BY DEF Inv, TypeOK, HandlerState, HandlerInv
      <3> QED BY <1>2, <3>1, AfterRows DEF FifoInv, DatesOK
    <2>2. k \notin hs[h].dirty /\ k \notin hs[h].todo
      BY DEF Inv, HandlerInv
    <2>3. After(h)' = [f EXCEPT ![k] = r]
      BY <1>1, <1>2, <2>2 DEF After
    <2>4. hs[h].todo \in SUBSET Charges
      BY DEF Inv, TypeOK, HandlerState
    <2> HIDE DEF f
    <2>5. Ordered(f) => Ordered([f EXCEPT ![k] = r])
      BY <1>1, <2>1, NewestRow
    <2>6. /\ Filled(f, hs[h].todo) => Filled([f EXCEPT ![k] = r], hs[h].todo)
          /\ Emptied(f, hs[h].todo) => Emptied([f EXCEPT ![k] = r], hs[h].todo)
      BY <1>1, <2>1, <2>4, NewestRow
    <2>7. \A c \in hs[h].todo : charge'[c] = charge[c]
      BY <1>1, <1>2, <2>2, <2>4
    <2>8. QED
      BY <1>5, <2>3, <2>5, <2>6, <2>7 DEF f, LoopOK
  <1>6. Solo' <=> Solo
    BY DEF Solo
  <1>7. QED
    BY <1>3, <1>4, <1>5, <1>6 DEF FifoInv, Looks

(* A handler comes, goes, or has yet to read.                              *)
LEMMA HandsFifo ==
    ASSUME Inv, FifoInv, UNCHANGED <<charge, now, feeJob, faults>>, NEW h \in Handlers, NEW s,
           hs' = [hs EXCEPT ![h] = s], s.pc # "loop",
           s.pc = "idle" \/ hs[h].pc # "idle" \/ Free(h)
    PROVE  FifoInv'
  <1>1. hs'[h] = s /\ \A g \in Handlers \ {h} : hs'[g] = hs[g]
    BY DEF Inv, TypeOK
  <1>2. DatesOK'
    BY DEF FifoInv, DatesOK
  <1>3. ASSUME ~faults.overlap PROVE Solo' /\ Ordered(charge)' /\ Looks'
    <2>1. Solo'
      BY <1>1, <1>3 DEF FifoInv, Solo, Free
    <2>2. Ordered(charge)'
      BY <1>3 DEF FifoInv, Ordered
    <2>3. ASSUME NEW g \in Handlers, hs'[g].pc = "loop" PROVE LoopOK(g)'
      <3>1. hs'[g] = hs[g] /\ hs[g].pc = "loop"
        BY <1>1, <2>3
      <3>2. LoopOK(g)
        BY <1>3, <3>1 DEF FifoInv, Looks
      <3>3. After(g)' = After(g)
        BY <3>1 DEF After
      <3>4. QED
        BY <3>1, <3>2, <3>3 DEF LoopOK
    <2>4. QED
      BY <2>1, <2>2, <2>3 DEF Looks
  <1>4. QED
    BY <1>2, <1>3 DEF FifoInv

(* A turn of the loop.                                                     *)
LEMMA Looped ==
    ASSUME Inv, NEW h \in Handlers, NEW seen, NEW place, NEW todo, NEW dirty, NEW remaining,
           Loop(h, seen, place, todo, dirty, remaining)
    PROVE  /\ hs'[h].kind = hs[h].kind /\ hs'[h].pc = "loop" /\ hs'[h].seen = seen
           /\ hs'[h].todo = todo /\ hs'[h].dirty = dirty /\ hs'[h].remaining = remaining
           /\ hs'[h].p = hs[h].p /\ hs'[h].place = place
           /\ \A g \in Handlers \ {h} : hs'[g] = hs[g]
  BY DEF Loop, Memory, Inv, TypeOK

LEMMA LoopFifo ==
    ASSUME Inv, FifoInv, NEW h \in Handlers, hs[h].pc # "idle",
           NEW seen, NEW place, NEW todo, NEW dirty, NEW remaining,
           Loop(h, seen, place, todo, dirty, remaining),
           DatesOK', UNCHANGED faults,
           ~faults.overlap => Ordered(charge)' /\ LoopOK(h)'
    PROVE  FifoInv'
  <1>1. hs'[h].pc = "loop" /\ \A g \in Handlers \ {h} : hs'[g] = hs[g]
    BY Looped
  <1>2. ASSUME ~faults.overlap PROVE Solo' /\ Looks'
    <2>1. \A g \in Handlers \ {h} : hs'[g].pc = "idle"
      BY <1>1, <1>2 DEF FifoInv, Solo
    <2>2. Solo'
      BY <2>1 DEF Solo
    <2>3. Looks'
      BY <1>2, <2>1 DEF Looks
    <2>4. QED
      BY <2>2, <2>3
  <1>3. QED
    BY <1>2 DEF FifoInv

LEMMA SameDates ==
    ASSUME FifoInv, UNCHANGED <<now, feeJob>>,
           \A c \in Charges : charge'[c].status # "none" =>
               charge[c].status # "none" /\ charge'[c].due = charge[c].due
    PROVE  DatesOK'
  BY DEF FifoInv, DatesOK

(* What is read is all there is: nothing left out can be out of order.     *)
LEMMA ReadFifo == ASSUME NEW h \in Handlers, Inv, FifoInv, ReadCharges(h) PROVE FifoInv'
  <1> DEFINE S == IF hs[h].kind = "refund" THEN Credited ELSE Outstanding
  <1>0. PICK place \in Places : /\ Loop(h, charge, place, S, {}, Amount[hs[h].p])
                                /\ Sorted(hs[h].kind, charge, place, S)
    BY ReadList
  <1>1. /\ hs[h].pc = "read" /\ Loop(h, charge, place, S, {}, Amount[hs[h].p])
        /\ UNCHANGED <<now, charge, feeJob, faults>>
    BY <1>0 DEF ReadCharges, stripeVars
  <1>2. charge \in [Charges -> Row] /\ \A c \in Charges : Consistent(charge[c])
    BY DEF Inv, TypeOK, ChargeConsistent
  <1>3. /\ hs'[h].kind = hs[h].kind /\ hs'[h].seen = charge /\ hs'[h].todo = S /\ hs'[h].dirty = {}
        /\ Sorted(hs'[h].kind, hs'[h].seen, hs'[h].place, hs'[h].todo)
    BY <1>0, <1>1, Looped
  <1>4. After(h)' = charge
    BY <1>1, <1>2, <1>3 DEF After
  <1>5. ASSUME ~faults.overlap PROVE Ordered(charge)' /\ LoopOK(h)'
    <2>1. Ordered(charge) /\ Ordered(charge)'
      BY <1>1, <1>5 DEF FifoInv, Ordered
    <2>2. CASE hs[h].kind = "refund"
      <3>1. S = Credited
        BY <2>2
      <3>2. \A c \in Charges \ Credited : charge[c].paid = 0
        <4> SUFFICES ASSUME NEW c \in Charges, charge[c].paid # 0 PROVE c \in Credited
          OBVIOUS
        <4>1. charge[c].paid > 0 /\ charge[c] \in Row /\ Consistent(charge[c])
          BY <1>2 DEF Row
        <4> QED BY <4>1 DEF Row, Consistent, Credited
      <3>3. Emptied(charge, Credited)
        BY <3>2 DEF Emptied
      <3>4. Emptied(After(h)', hs'[h].todo)
        BY <1>3, <1>4, <3>1, <3>3
      <3>5. Ordered(After(h)')
        BY <1>4, <2>1
      <3>6. QED
        BY <1>1, <1>3, <2>1, <2>2, <3>4, <3>5 DEF LoopOK
    <2>3. CASE hs[h].kind # "refund"
      <3>1. S = Outstanding
        BY <2>3
      <3>2. Filled(charge, Outstanding)
        BY <1>2 DEF Filled, Outstanding, Row
      <3>3. Filled(After(h)', hs'[h].todo)
        BY <1>3, <1>4, <3>1, <3>2
      <3>4. \A c \in S : charge'[c].status # "paid"
        BY <1>1, <3>1 DEF Outstanding
      <3>5. Ordered(After(h)')
        BY <1>4, <2>1
      <3>6. QED
        BY <1>1, <1>3, <2>1, <2>3, <3>3, <3>4, <3>5 DEF LoopOK
    <2>4. QED
      BY <2>2, <2>3
  <1>6. DatesOK'
    BY <1>1, SameDates
  <1>7. QED
    BY <1>1, <1>5, <1>6, LoopFifo

(* The first of the list is the oldest, or for a refund the newest.        *)
LEMMA FirstIsDue ==
    ASSUME Inv, NEW h \in Handlers, NEW c \in hs[h].todo,
           Sorted(hs[h].kind, hs[h].seen, hs[h].place, hs[h].todo),
           \A d \in hs[h].todo : hs[h].place[c] <= hs[h].place[d]
    PROVE  /\ hs[h].kind = "refund" => \A d \in hs[h].todo : hs[h].seen[d].due <= hs[h].seen[c].due
           /\ hs[h].kind # "refund" => \A d \in hs[h].todo : hs[h].seen[c].due <= hs[h].seen[d].due
  <1>1. hs[h].todo \in SUBSET Charges /\ hs[h].seen \in [Charges -> Row]
    BY DEF Inv, TypeOK, HandlerState
  <1>2. \A d \in hs[h].todo : hs[h].seen[d].due \in Nat /\ hs[h].place[d] \in Nat
    BY <1>1 DEF Row, Sorted
  <1> QED BY <1>2 DEF Sorted

LEMMA WebhookFifo ==
    ASSUME NEW h \in Handlers, NEW c \in Charges, Inv, FifoInv, WebhookApply(h, c)
    PROVE  FifoInv'
  <1> DEFINE new == Apply(hs[h].seen[c], hs[h].remaining)
             row == Written(charge[c], new)
             left == hs[h].remaining - (new.paid - hs[h].seen[c].paid)
             todo == hs[h].todo
  <1>1. /\ Working(h) /\ hs[h].pc = "loop" /\ hs[h].kind = "succeeded" /\ c \in todo
        /\ hs[h].remaining > 0
        /\ \A d \in todo : hs[h].place[c] <= hs[h].place[d]
        /\ charge' = [charge EXCEPT ![c] = row]
        /\ Loop(h, hs[h].seen, hs[h].place, todo \ {c}, {}, left)
        /\ UNCHANGED <<now, feeJob, faults>>
    BY DEF WebhookApply, First, Working, stripeVars
  <1>2. /\ hs[h].remaining \in Nat \ {0} /\ charge \in [Charges -> Row]
        /\ hs[h].seen[c] \in Row /\ Consistent(hs[h].seen[c]) /\ hs[h].seen[c].status # "none"
        /\ charge[c].status # "none" /\ hs[h].seen[c].amount = charge[c].amount
    BY <1>1, WorkingFacts DEF Inv, TypeOK
  <1>3. /\ new \in Row /\ Consistent(new) /\ new.status # "none" /\ new.amount = charge[c].amount
        /\ left > 0 => new.status = "paid"
    BY <1>2, ApplyConsistent, ApplyFills
  <1> HIDE DEF new, left
  <1>4. /\ row \in Row /\ row.due = charge[c].due /\ row.status = new.status
    <2>1. row \in Row
      BY <1>2, <1>3, WrittenConsistent
    <2>2. row.due = charge[c].due /\ row.status = new.status
      BY DEF Written, Allocated
    <2> QED BY <2>1, <2>2
  <1> HIDE DEF row
  <1>5. DatesOK'
    <2>1. \A d \in Charges : charge'[d].status # "none" =>
              charge[d].status # "none" /\ charge'[d].due = charge[d].due
      BY <1>1, <1>2, <1>4
    <2> QED BY <1>1, <2>1, SameDates
  <1>6. ASSUME ~faults.overlap PROVE Ordered(charge)' /\ LoopOK(h)'
    <2>1. LoopOK(h) /\ hs[h].dirty = {} /\ todo \in SUBSET Charges
      BY <1>1, <1>6 DEF FifoInv, Looks, LoopOK, Inv, TypeOK, HandlerState
    <2>2. After(h) = charge
      BY <1>2, <2>1 DEF After
    <2>3. /\ Ordered(charge) /\ Filled(charge, todo)
          /\ \A d \in todo : hs[h].seen[d] = charge[d] /\ charge[d].status # "paid"
      BY <1>1, <2>1, <2>2 DEF LoopOK
    <2>3a. \A d \in todo : hs[h].seen[c].due <= hs[h].seen[d].due
      BY <1>1, <2>1, FirstIsDue DEF LoopOK
    <2>4. \A d \in todo : charge[d].status # "none" /\ charge[c].due <= charge[d].due
      BY <1>1, <2>3, <2>3a DEF Inv, HandlerInv
    <2>5. /\ Ordered(charge')
          /\ row.status = "paid" => Filled(charge', todo \ {c})
      BY <1>1, <1>2, <1>3, <1>4, <2>1, <2>3, <2>4, FillOldest
    <2>6. /\ hs'[h].kind = "succeeded" /\ hs'[h].seen = hs[h].seen /\ hs'[h].todo = todo \ {c}
          /\ hs'[h].dirty = {} /\ hs'[h].remaining = left /\ hs'[h].place = hs[h].place
      BY <1>1, Looped
    <2>6a. Sorted(hs'[h].kind, hs'[h].seen, hs'[h].place, hs'[h].todo)
      BY <1>1, <2>1, <2>6 DEF LoopOK, Sorted
    <2>7. After(h)' = charge'
      BY <1>1, <1>2, <2>6 DEF After
    <2>8. \A d \in todo \ {c} : hs[h].seen[d] = charge'[d] /\ charge'[d].status # "paid"
      BY <1>1, <1>2, <2>1, <2>3
    <2>9. QED
      BY <1>3, <1>4, <2>5, <2>6, <2>6a, <2>7, <2>8 DEF LoopOK, Ordered
  <1>7. QED
    BY <1>1, <1>5, <1>6, LoopFifo

(* The transactions' loops: the tables stay as they are until the commit.  *)
LEMMA TxFifo ==
    ASSUME NEW h \in Handlers, Inv, FifoInv, Working(h), NEW c \in hs[h].todo,
           hs[h].kind \in {"offline", "refund"},
           NEW new \in Row, NEW moved, TxVisit(h, c, new, moved),
           ~faults.overlap =>
               /\ Ordered([After(h) EXCEPT ![c] = Written(charge[c], new)])
               /\ hs[h].remaining - moved > 0 =>
                     IF hs[h].kind = "refund"
                     THEN Emptied([After(h) EXCEPT ![c] = Written(charge[c], new)], hs[h].todo \ {c})
                     ELSE Filled([After(h) EXCEPT ![c] = Written(charge[c], new)], hs[h].todo \ {c})
    PROVE  FifoInv'
  <1> DEFINE seen == [hs[h].seen EXCEPT ![c] = new]
             todo == hs[h].todo \ {c}
             dirty == hs[h].dirty \union {c}
             after == [After(h) EXCEPT ![c] = Written(charge[c], new)]
  <1>1. /\ Loop(h, seen, hs[h].place, todo, dirty, hs[h].remaining - moved)
        /\ UNCHANGED <<now, charge, feeJob, faults>>
    BY DEF TxVisit, stripeVars
  <1>2. /\ hs'[h].kind = hs[h].kind /\ hs'[h].seen = seen /\ hs'[h].todo = todo
        /\ hs'[h].dirty = dirty /\ hs'[h].remaining = hs[h].remaining - moved
        /\ hs'[h].place = hs[h].place
    BY <1>1, Looped
  <1>3. /\ hs[h].pc = "loop" /\ hs[h].seen \in [Charges -> Row]
        /\ hs[h].todo \in SUBSET Charges /\ c \in Charges
    BY DEF Working, Inv, TypeOK, HandlerState
  <1>4. DatesOK'
    BY <1>1, SameDates
  <1>5. ASSUME ~faults.overlap PROVE Ordered(charge)' /\ LoopOK(h)'
    <2>1. Ordered(charge) /\ LoopOK(h)
      BY <1>3, <1>5 DEF FifoInv, Looks
    <2>2. Ordered(charge)'
      BY <1>1, <2>1 DEF Ordered
    <2>3. After(h)' = after
      <3>1. \A d \in Charges : After(h)'[d] = after[d]
        BY <1>1, <1>2, <1>3 DEF After
      <3>2. QED
        BY <3>1 DEF After
    <2>4. \A d \in todo : /\ d \notin dirty /\ seen[d] = charge[d]
                          /\ hs[h].kind # "refund" => charge[d].status # "paid"
      BY <1>3, <2>1 DEF LoopOK
    <2>5. Ordered(after) /\ (hs[h].remaining - moved > 0 => IF hs[h].kind = "refund"
                                THEN Emptied(after, todo) ELSE Filled(after, todo))
      BY <1>5
    <2>5a. Sorted(hs[h].kind, seen, hs[h].place, todo)
      BY <1>3, <2>1 DEF LoopOK, Sorted
    <2> HIDE DEF after, seen, todo, dirty
    <2>6. QED
      BY <1>1, <1>2, <2>2, <2>3, <2>4, <2>5, <2>5a DEF LoopOK
  <1>6. QED
    BY <1>1, <1>3, <1>4, <1>5, LoopFifo

LEMMA AllocateFifo ==
    ASSUME NEW h \in Handlers, NEW c \in Charges, Inv, FifoInv,
           OfflineApply(h, c) \/ RefundReverse(h, c)
    PROVE  FifoInv'
  <1> DEFINE seen == hs[h].seen[c]
             todo == hs[h].todo
             f == After(h)
  <1>1. /\ Working(h) /\ c \in todo /\ hs[h].pc = "loop" /\ hs[h].remaining > 0
    BY DEF OfflineApply, RefundReverse, First, Working
  <1>2. /\ hs[h].remaining \in Nat \ {0} /\ charge[c] \in Row /\ charge[c].status # "none"
        /\ seen \in Row /\ Consistent(seen) /\ seen.status # "none" /\ seen.amount = charge[c].amount
        /\ todo \in SUBSET Charges
    BY <1>1, WorkingFacts DEF Inv, TypeOK, HandlerState
  <1>3. /\ f \in [Charges -> Row] /\ \A d \in Charges : f[d].due = charge[d].due
        /\ \A d \in todo : f[d].status # "none"
    <2>1. \A d \in todo : charge[d].status # "none"
      BY DEF Inv, HandlerInv
    <2> QED BY <1>2, <2>1, AfterRows
  <1>4. ASSUME ~faults.overlap
        PROVE  /\ LoopOK(h) /\ Ordered(f)
               /\ \A d \in todo : hs[h].seen[d] = charge[d] /\ f[d] = charge[d]
    <2>1. LoopOK(h)
      BY <1>1, <1>4 DEF FifoInv, Looks
    <2>2. QED
      BY <1>2, <2>1 DEF LoopOK, After
  <1> HIDE DEF f
  <1>5. CASE OfflineApply(h, c)
    <2> DEFINE new == Apply(seen, hs[h].remaining)
               row == Written(charge[c], new)
               left == hs[h].remaining - (new.paid - seen.paid)
    <2>1. /\ hs[h].kind = "offline" /\ TxVisit(h, c, new, new.paid - seen.paid)
          /\ \A d \in todo : hs[h].place[c] <= hs[h].place[d]
      BY <1>5 DEF OfflineApply, First
    <2>2. /\ new \in Row /\ Consistent(new) /\ new.status # "none" /\ new.amount = charge[c].amount
          /\ left > 0 => new.status = "paid"
      BY <1>2, ApplyConsistent, ApplyFills
    <2> HIDE DEF new
    <2>3. row \in Row /\ row.due = charge[c].due /\ row.status = new.status
      <3>1. row \in Row
        BY <1>2, <2>2, WrittenConsistent
      <3>2. row.due = charge[c].due /\ row.status = new.status
        BY DEF Written, Allocated
      <3> QED BY <3>1, <3>2
    <2> HIDE DEF row
    <2>4. ASSUME ~faults.overlap
          PROVE  Ordered([f EXCEPT ![c] = row]) /\ (left > 0 => Filled([f EXCEPT ![c] = row], todo \ {c}))
      <3>1. Filled(f, todo) /\ \A d \in todo : f[d].status # "paid"
        BY <1>1, <1>4, <2>1, <2>4 DEF LoopOK, f
      <3>1a. \A d \in todo : seen.due <= hs[h].seen[d].due
        BY <1>1, <1>4, <2>1, <2>4, FirstIsDue DEF LoopOK
      <3>2. \A d \in todo : f[c].due <= f[d].due
        BY <1>1, <1>4, <2>4, <3>1a
      <3>3. row.due = f[c].due /\ row.status # "none"
        BY <1>3, <2>2, <2>3
      <3>4. QED
        BY <1>1, <1>2, <1>3, <1>4, <2>2, <2>3, <2>4, <3>1, <3>2, <3>3, FillOldest
    <2>5. QED
      BY <1>1, <2>1, <2>2, <2>4, TxFifo DEF row, f
  <1>6. CASE RefundReverse(h, c)
    <2> DEFINE new == Reverse(seen, hs[h].remaining)
               row == Written(charge[c], new)
               left == hs[h].remaining - (seen.paid - new.paid)
    <2>1. /\ hs[h].kind = "refund" /\ TxVisit(h, c, new, seen.paid - new.paid)
          /\ \A d \in todo : hs[h].place[c] <= hs[h].place[d]
      BY <1>6 DEF RefundReverse, First
    <2>2. /\ new \in Row /\ Consistent(new) /\ new.status # "none" /\ new.amount = charge[c].amount
          /\ left > 0 => new.paid = 0
          /\ new.paid <= seen.paid
      BY <1>2, ReverseConsistent, ReverseEmpties
    <2> HIDE DEF new
    <2>3. row \in Row /\ row.due = charge[c].due /\ row.paid = new.paid
      <3>1. row \in Row
        BY <1>2, <2>2, WrittenConsistent
      <3>2. row.due = charge[c].due /\ row.paid = new.paid
        BY DEF Written, Allocated
      <3> QED BY <3>1, <3>2
    <2> HIDE DEF row
    <2>4. ASSUME ~faults.overlap
          PROVE  Ordered([f EXCEPT ![c] = row]) /\ (left > 0 => Emptied([f EXCEPT ![c] = row], todo \ {c}))
      <3>1. Emptied(f, todo)
        BY <1>1, <1>4, <2>1, <2>4 DEF LoopOK, f
      <3>1a. \A d \in todo : hs[h].seen[d].due <= seen.due
        BY <1>1, <1>4, <2>1, <2>4, FirstIsDue DEF LoopOK
      <3>2. \A d \in todo : f[d].due <= f[c].due
        BY <1>1, <1>4, <2>4, <3>1a
      <3>3. row.due = f[c].due /\ row.paid <= f[c].paid
        BY <1>1, <1>3, <1>4, <2>2, <2>3, <2>4
      <3>4. QED
        BY <1>1, <1>2, <1>3, <1>4, <2>2, <2>3, <2>4, <3>1, <3>2, <3>3, EmptyNewest
    <2>5. QED
      BY <1>1, <2>1, <2>2, <2>4, TxFifo DEF row, f
  <1>7. QED
    BY <1>5, <1>6

LEMMA CommitFifo ==
    ASSUME NEW h \in Handlers, Inv, FifoInv, NEW newStatus, Commit(h, newStatus)
    PROVE  FifoInv'
  <1>1. /\ hs[h].pc = "loop" /\ charge' = After(h) /\ hs' = [hs EXCEPT ![h] = Idle]
        /\ UNCHANGED <<now, feeJob, faults>>
    BY DEF Commit, LoopOver, After, stripeVars
  <1>2. DatesOK'
    <2>1. \A c \in Charges : charge'[c].status # "none" =>
              charge[c].status # "none" /\ charge'[c].due = charge[c].due
      BY <1>1, AfterRows
    <2> QED BY <1>1, <2>1, SameDates
  <1>3. hs'[h].pc = "idle" /\ \A g \in Handlers \ {h} : hs'[g] = hs[g]
    BY <1>1, IdleOK DEF Inv, TypeOK
  <1>4. ASSUME ~faults.overlap PROVE Solo' /\ Ordered(charge)' /\ Looks'
    <2>1. \A g \in Handlers : hs'[g].pc = "idle"
      BY <1>1, <1>3, <1>4 DEF FifoInv, Solo
    <2>2. Ordered(After(h))
      BY <1>1, <1>4 DEF FifoInv, Looks, LoopOK
    <2>3. Ordered(charge)'
      BY <1>1, <2>2 DEF Ordered
    <2>4. QED
      BY <2>1, <2>3 DEF Solo, Looks
  <1>5. QED
    BY <1>1, <1>2, <1>4 DEF FifoInv

LEMMA HandlerFifo == ASSUME NEW h \in Handlers, Inv, FifoInv, Handler(h) PROVE FifoInv'
  <1>1. ASSUME NEW p \in Payments,
               (p \in Online /\ EventSucceeded(h, p)) \/ (p \in Offline /\ RecordOffline(h, p))
                  \/ RequestRefund(h, p)
        PROVE  FifoInv'
    <2>1. /\ Free(h) /\ UNCHANGED <<charge, now, feeJob, faults>>
          /\ \E kind \in {"succeeded", "offline", "refund"}, pc \in {"stripe", "read"} :
                hs' = [hs EXCEPT ![h] = Fresh(kind, p, pc)]
      BY <1>1 DEF EventSucceeded, RecordOffline, RequestRefund, Enter, stripeVars
    <2>2. PICK kind \in {"succeeded", "offline", "refund"}, pc \in {"stripe", "read"} :
             hs' = [hs EXCEPT ![h] = Fresh(kind, p, pc)]
      BY <2>1
    <2>3. Fresh(kind, p, pc).pc # "loop"
      BY FreshOK
    <2>4. QED
      BY <2>1, <2>2, <2>3, HandsFifo
  <1>2. CASE WebhookDone(h) \/ HandlerDies(h) \/ StripeRefund(h)
    <2>1. /\ UNCHANGED <<charge, now, feeJob, faults>> /\ hs[h].pc # "idle"
          /\ \/ hs' = [hs EXCEPT ![h] = Idle]
             \/ hs[h].pc = "stripe" /\ hs' = [hs EXCEPT ![h] = Fresh("refund", hs[h].p, "read")]
      BY <1>2 DEF WebhookDone, LoopOver, HandlerDies, StripeRefund, Enter, stripeVars
    <2>2. ASSUME hs[h].pc = "stripe" PROVE Fresh("refund", hs[h].p, "read").pc = "read"
      BY DEF Fresh, Memory
    <2>3. PICK s : hs' = [hs EXCEPT ![h] = s] /\ s.pc # "loop"
      BY <2>1, <2>2, IdleOK
    <2>4. QED
      BY <2>1, <2>3, HandsFifo
  <1>3. CASE OfflineCommit(h) \/ RefundCommit(h)
    BY <1>3, CommitFifo DEF OfflineCommit, RefundCommit
  <1>4. CASE ReadCharges(h)
    BY <1>4, ReadFifo
  <1>5. ASSUME NEW c \in Charges, WebhookApply(h, c) \/ OfflineApply(h, c) \/ RefundReverse(h, c)
        PROVE  FifoInv'
    BY <1>5, WebhookFifo, AllocateFifo
  <1>6. QED
    BY <1>1, <1>2, <1>3, <1>4, <1>5 DEF Handler, Progress, Payments

LEMMA JobFifo ==
    ASSUME Inv, FifoInv, Tick \/ LateFeeScan \/ \E m \in Months : PostRent(m) \/ LateFeePost(m)
    PROVE  FifoInv'
  <1>0. now \in Nat /\ feeJob \in [date : Nat, months : SUBSET Months]
    BY DEF Inv, TypeOK
  <1>1. CASE Tick
    <2>1. /\ UNCHANGED <<charge, hs, faults, feeJob>> /\ now' = now + 1 /\ feeJob.months = {}
      BY <1>1 DEF Tick, stripeVars, NoJob
    <2>2. \A c \in Charges : charge[c].status # "none" =>
             Day(charge[c].due) <= now /\ Day(charge[c].due) \in Nat
      <3>1. \A c \in Charges : charge[c].due \in Nat
        BY DEF Inv, TypeOK, Row
      <3> QED BY <3>1, Days DEF FifoInv, DatesOK
    <2>3. DatesOK'
      BY <1>0, <2>1, <2>2 DEF DatesOK
    <2>4. QED
      BY <2>1, <2>3, QuietFifo
  <1>2. CASE LateFeeScan
    <2>1. /\ UNCHANGED <<charge, hs, faults, now>> /\ feeJob'.date = JobTime(now)
      BY <1>2 DEF LateFeeScan, stripeVars
    <2>2. DatesOK'
      BY <2>1 DEF FifoInv, DatesOK, JobTime
    <2>3. QED
      BY <2>1, <2>2, QuietFifo
  <1>3. ASSUME NEW m \in Months, PostRent(m) PROVE FifoInv'
    <2>1. /\ UNCHANGED <<hs, faults, now, feeJob>> /\ <<m, "rent">> \in Charges
          /\ charge[<<m, "rent">>].status = "none"
          /\ charge' = [charge EXCEPT ![<<m, "rent">>] = NewCharge(Rent, Midnight(now))]
      BY <1>3 DEF PostRent, stripeVars, Charges
    <2>2. Midnight(now) \in Nat /\ Day(Midnight(now)) = now /\ Rent \in Nat \ {0}
      BY <1>0, Days, LedgerAssumption DEF Midnight
    <2>3. feeJob'.months # {} => feeJob'.date = JobTime(now)
      BY <2>1 DEF FifoInv, DatesOK
    <2>4. QED
      BY <2>1, <2>2, <2>3, NewRowFifo
  <1>4. ASSUME NEW m \in Months, LateFeePost(m) PROVE FifoInv'
    <2> DEFINE k == <<m, "late_fee">>
    <2>1. /\ UNCHANGED <<hs, faults, now>> /\ k \in Charges /\ feeJob.months # {}
          /\ charge' = IF charge[k].status = "none"
                       THEN [charge EXCEPT ![k] = NewCharge(LateFee, feeJob.date)] ELSE charge
      BY <1>4 DEF LateFeePost, stripeVars, Charges
    <2>2. feeJob.date = JobTime(now) /\ LateFee \in Nat \ {0}
      BY <2>1, LedgerAssumption DEF FifoInv, DatesOK, Inv, FeeJobInv
    <2>3. feeJob.date \in Nat /\ Day(feeJob.date) = now
      BY <1>0, <2>2, Days
    <2>4. feeJob'.months # {} => feeJob'.date = JobTime(now)
      BY <1>0, <1>4, <2>2 DEF LateFeePost, NoJob
    <2> HIDE DEF k
    <2>5. CASE charge[k].status = "none"
      BY <2>1, <2>2, <2>3, <2>4, <2>5, NewRowFifo
    <2>6. CASE charge[k].status # "none"
      <3>1. UNCHANGED charge
        BY <2>1, <2>6
      <3>2. DatesOK'
        BY <2>1, <2>4, <3>1 DEF FifoInv, DatesOK, JobTime
      <3>3. QED
        BY <2>1, <3>1, <3>2, QuietFifo
    <2>7. QED
      BY <2>5, <2>6
  <1>5. QED
    BY <1>1, <1>2, <1>3, <1>4

LEMMA NextFifo == Inv /\ FifoInv /\ [Next]_vars => FifoInv'
  <1> SUFFICES ASSUME Inv, FifoInv, [Next]_vars PROVE FifoInv'
    OBVIOUS
  <1>1. ASSUME UNCHANGED <<charge, hs, faults, now, feeJob>> PROVE FifoInv'
    <2>1. DatesOK'
      BY <1>1 DEF FifoInv, DatesOK
    <2>2. QED
      BY <1>1, <2>1, QuietFifo
  <1>2. ASSUME NEW p \in Online, Portal(p) \/ Stripe(p) PROVE FifoInv'
    <2>1. UNCHANGED <<charge, hs, faults, now, feeJob>>
      BY <1>2 DEF Portal, OpenAch, OpenCard, ConfirmIntent, IntentUnavailable, StoreIntentId,
                  RequestDies, Stripe, Settle, EventUnmatched, EventSetsStatus, stripeVars
    <2>2. QED
      BY <1>1, <2>1
  <1>3. CASE UNCHANGED vars
    BY <1>1, <1>3 DEF vars, stripeVars
  <1>4. QED
    BY <1>2, <1>3, HandlerFifo, JobFifo DEF Next

(* Handlers that do not overlap keep the money on the oldest days' charges, *)
(* whatever rows the jobs add while they work, however often an event is   *)
(* delivered, and wherever a handler is cut off.                           *)
THEOREM MoneyLiesOldestFirst == Spec => []FifoPrefix
  <1>1. FifoInv => FifoPrefix
    BY DEF FifoInv, Ordered, FifoPrefix
  <1>2. QED
    BY <1>1, InitInv, NextInv, InitFifo, NextFifo, PTL DEF Spec

-----------------------------------------------------------------------------
(* Sums over a finite set.  MapThenSumSet is a recursive function of the   *)
(* subsets: that it exists, and that the order of the sum does not matter, *)
(* is shown at the smallest set where it would fail.                       *)

LEMMA Least ==
    ASSUME NEW S \in SUBSET Nat, S # {}
    PROVE  \E n \in S : \A m \in S : n <= m
  <1>1. IsWellFoundedOn(OpToRel(<, Nat), Nat)
    BY NatLessThanWellFounded
  <1>2. PICK n \in S : \A m \in S : ~(<<m, n>> \in OpToRel(<, Nat))
    BY <1>1, WFMin
  <1>3. ASSUME NEW m \in S PROVE n <= m
    <2>1. ~(m < n)
      BY <1>2 DEF OpToRel
    <2> QED BY <2>1
  <1> QED BY <1>3

Pick(s) == CHOOSE x \in s : TRUE

(* g is the sum of f over every subset of U.                               *)
IsSum(g, U, f) ==
    g = [s \in SUBSET U |-> IF s = {} THEN 0 ELSE f[Pick(s)] + g[s \ {Pick(s)}]]

LEMMA Picking ==
    ASSUME NEW U, IsFiniteSet(U), NEW s \in SUBSET U, s # {}
    PROVE  /\ Pick(s) \in s /\ IsFiniteSet(s) /\ Cardinality(s) \in Nat /\ Cardinality(s) > 0
           /\ \A x \in s : /\ s \ {x} \in SUBSET U /\ Cardinality(s \ {x}) = Cardinality(s) - 1
                           /\ Cardinality(s \ {x}) \in Nat
  <1>1. Pick(s) \in s
    BY DEF Pick
  <1>2. IsFiniteSet(s) /\ Cardinality(s) \in Nat
    BY FS_Subset, FS_CardinalityType
  <1>3. Cardinality(s) # 0
    BY <1>2, FS_EmptySet
  <1>4. \A x \in s : Cardinality(s \ {x}) = Cardinality(s) - 1
    BY <1>2, FS_RemoveElement
  <1> QED BY <1>1, <1>2, <1>3, <1>4

LEMMA SumExists ==
    ASSUME NEW U, IsFiniteSet(U), NEW f, \A x \in U : f[x] \in Int
    PROVE  \E g \in [SUBSET U -> Int] : IsSum(g, U, f)
  <1> DEFINE Small(n) == {s \in SUBSET U : Cardinality(s) <= n}
             Next_(g, s) == IF s = {} THEN 0 ELSE f[Pick(s)] + g[s \ {Pick(s)}]
             Part(n) == \E g \in [Small(n) -> Int] : \A s \in Small(n) : g[s] = Next_(g, s)
             Bad == {n \in Nat : ~Part(n)}
  <1>1. Part(0)
    <2>1. \A s \in Small(0) : s = {}
      BY Picking
    <2>2. [s \in Small(0) |-> 0] \in [Small(0) -> Int]
      OBVIOUS
    <2> QED BY <2>1, <2>2
  <1>2. ASSUME NEW n \in Nat, Part(n) PROVE Part(n + 1)
    <2>1. PICK g \in [Small(n) -> Int] : \A s \in Small(n) : g[s] = Next_(g, s)
      BY <1>2
    <2> DEFINE h == [s \in Small(n + 1) |-> IF s \in Small(n) THEN g[s] ELSE Next_(g, s)]
    <2>2. ASSUME NEW s \in Small(n + 1), s # {}
          PROVE  Pick(s) \in U /\ s \ {Pick(s)} \in Small(n) /\ s \ {Pick(s)} \in Small(n + 1)
      <3>1. /\ Pick(s) \in s /\ s \ {Pick(s)} \in SUBSET U
            /\ Cardinality(s) \in Nat /\ Cardinality(s \ {Pick(s)}) = Cardinality(s) - 1
        BY <2>2, Picking
      <3> QED BY <3>1
    <2>3. \A s \in Small(n + 1) : h[s] \in Int
      <3> SUFFICES ASSUME NEW s \in Small(n + 1) PROVE h[s] \in Int
        OBVIOUS
      <3>1. CASE s \in Small(n)
        BY <3>1
      <3>2. CASE s \notin Small(n)
        <4>1. Next_(g, s) \in Int
          <5>1. CASE s = {}
            BY <5>1
          <5>2. CASE s # {}
            <6>1. f[Pick(s)] \in Int /\ g[s \ {Pick(s)}] \in Int
              BY <2>2, <5>2
            <6> QED BY <5>2, <6>1
          <5> QED BY <5>1, <5>2
        <4>2. h[s] = Next_(g, s)
          BY <3>2
        <4> HIDE DEF h, Next_
        <4> QED BY <4>1, <4>2
      <3> QED BY <3>1, <3>2
    <2>4. \A s \in Small(n + 1) : h[s] = Next_(h, s)
      <3> SUFFICES ASSUME NEW s \in Small(n + 1) PROVE h[s] = Next_(h, s)
        OBVIOUS
      <3>1. h[s] = Next_(g, s)
        BY <2>1
      <3>2. CASE s = {}
        BY <3>1, <3>2
      <3>3. CASE s # {}
        <4>1. h[s \ {Pick(s)}] = g[s \ {Pick(s)}]
          BY <2>2, <3>3
        <4> QED BY <3>1, <3>3, <4>1
      <3> QED BY <3>2, <3>3
    <2>5. h \in [Small(n + 1) -> Int]
      BY <2>3
    <2> QED BY <2>4, <2>5
  <1> HIDE DEF Part
  <1>3. Bad = {}
    <2> SUFFICES ASSUME Bad # {} PROVE FALSE
      OBVIOUS
    <2>1. PICK n \in Bad : \A m \in Bad : n <= m
      BY Least
    <2>2. n # 0 /\ n \in Nat
      BY <1>1
    <2>3. n - 1 \in Nat /\ n - 1 \notin Bad /\ (n - 1) + 1 = n
      BY <2>1, <2>2
    <2>4. Part(n - 1)
      BY <2>3
    <2>5. Part((n - 1) + 1)
      BY <1>2, <2>3, <2>4
    <2> QED BY <2>1, <2>3, <2>5
  <1>4. Cardinality(U) \in Nat /\ \A s \in SUBSET U : Cardinality(s) <= Cardinality(U)
    BY FS_CardinalityType, FS_Subset
  <1>5. Part(Cardinality(U))
    BY <1>3, <1>4
  <1>6. Small(Cardinality(U)) = SUBSET U
    BY <1>4
  <1>7. PICK g \in [SUBSET U -> Int] : \A s \in SUBSET U : g[s] = Next_(g, s)
    BY <1>5, <1>6 DEF Part
  <1>8. g = [s \in SUBSET U |-> Next_(g, s)]
    BY <1>7
  <1> QED BY <1>8 DEF IsSum

LEMMA SumStep ==
    ASSUME NEW U, NEW f, NEW g, IsSum(g, U, f)
    PROVE  \A s \in SUBSET U : g[s] = IF s = {} THEN 0 ELSE f[Pick(s)] + g[s \ {Pick(s)}]
  <1>1. g = [t \in SUBSET U |-> IF t = {} THEN 0 ELSE f[Pick(t)] + g[t \ {Pick(t)}]]
    BY DEF IsSum
  <1> DEFINE body(t) == IF t = {} THEN 0 ELSE f[Pick(t)] + g[t \ {Pick(t)}]
  <1>2. g = [t \in SUBSET U |-> body(t)]
    BY <1>1
  <1> HIDE DEF body
  <1>3. \A s \in SUBSET U : g[s] = body(s)
    BY <1>2
  <1> QED BY <1>3 DEF body

(* Two sums agree on s when what they add up does: a smallest set of S     *)
(* where they do not has a picked element.                                 *)
LEMMA SmallestSet ==
    ASSUME NEW U, IsFiniteSet(U), NEW S \in SUBSET (SUBSET U), S # {}
    PROVE  \E s \in S : \A x \in s : s \ {x} \notin S
  <1> DEFINE N == {Cardinality(s) : s \in S}
  <1>1. N \in SUBSET Nat /\ N # {}
    BY FS_Subset, FS_CardinalityType
  <1>2. PICK n \in N : \A m \in N : n <= m
    BY <1>1, Least
  <1>3. PICK s \in S : n = Cardinality(s)
    BY <1>2
  <1>4. ASSUME NEW x \in s, s \ {x} \in S PROVE FALSE
    <2>1. Cardinality(s \ {x}) = Cardinality(s) - 1 /\ Cardinality(s) \in Nat
      BY Picking
    <2>2. n <= Cardinality(s \ {x})
      BY <1>2, <1>4
    <2> QED BY <1>3, <2>1, <2>2
  <1> QED BY <1>4

LEMMA SumInt ==
    ASSUME NEW U, IsFiniteSet(U), NEW f, \A x \in U : f[x] \in Int, NEW g, IsSum(g, U, f)
    PROVE  \A s \in SUBSET U : g[s] \in Int
  <1>0. \A t \in SUBSET U : g[t] = IF t = {} THEN 0 ELSE f[Pick(t)] + g[t \ {Pick(t)}]
    BY SumStep
  <1> DEFINE S == {s \in SUBSET U : g[s] \notin Int}
  <1> SUFFICES ASSUME S # {} PROVE FALSE
    OBVIOUS
  <1>1. PICK s \in S : \A x \in s : s \ {x} \notin S
    BY SmallestSet
  <1>1a. g[s] = IF s = {} THEN 0 ELSE f[Pick(s)] + g[s \ {Pick(s)}]
    <2>1. s \in SUBSET U
      OBVIOUS
    <2> HIDE DEF S
    <2> QED BY <1>0, <2>1
  <1>2. s # {}
    BY <1>1, <1>1a
  <1>3. Pick(s) \in s /\ s \ {Pick(s)} \in SUBSET U
    BY <1>2, Picking
  <1>4. g[s \ {Pick(s)}] \in Int /\ f[Pick(s)] \in Int
    BY <1>1, <1>3
  <1>5. g[s] = f[Pick(s)] + g[s \ {Pick(s)}]
    BY <1>1a, <1>2
  <1> QED BY <1>1, <1>4, <1>5

LEMMA SumSame ==
    ASSUME NEW U, IsFiniteSet(U), NEW V, IsFiniteSet(V), NEW f, NEW e, NEW g, NEW h,
           IsSum(g, U, f), IsSum(h, V, e)
    PROVE  \A s \in (SUBSET U) \cap (SUBSET V) : (\A x \in s : f[x] = e[x]) => g[s] = h[s]
  <1> DEFINE S == {s \in (SUBSET U) \cap (SUBSET V) : (\A x \in s : f[x] = e[x]) /\ g[s] # h[s]}
  <1> SUFFICES ASSUME S # {} PROVE FALSE
    OBVIOUS
  <1>1. S \in SUBSET (SUBSET U)
    OBVIOUS
  <1>2. PICK s \in S : \A x \in s : s \ {x} \notin S
    BY <1>1, SmallestSet
  <1>3. s \in SUBSET U /\ s \in SUBSET V /\ (\A x \in s : f[x] = e[x]) /\ g[s] # h[s]
    OBVIOUS
  <1>4. s # {}
    <2>1. ASSUME s = {} PROVE g[s] = 0 /\ h[s] = 0
      <3>1. g[s] = 0
        BY <1>3, <2>1, SumStep
      <3>2. h[s] = 0
        BY <1>3, <2>1, SumStep
      <3> QED BY <3>1, <3>2
    <2> QED BY <1>3, <2>1
  <1>5. Pick(s) \in s /\ s \ {Pick(s)} \in SUBSET U /\ s \ {Pick(s)} \in SUBSET V
    BY <1>3, <1>4, Picking
  <1>6. g[s \ {Pick(s)}] = h[s \ {Pick(s)}]
    BY <1>2, <1>3, <1>5
  <1>7. /\ g[s] = f[Pick(s)] + g[s \ {Pick(s)}]
        /\ h[s] = e[Pick(s)] + h[s \ {Pick(s)}]
    BY <1>3, <1>4, SumStep
  <1> QED BY <1>3, <1>5, <1>6, <1>7

(* Whichever element is taken out first.                                   *)
LEMMA SumSplit ==
    ASSUME NEW U, IsFiniteSet(U), NEW f, \A x \in U : f[x] \in Int, NEW g, IsSum(g, U, f)
    PROVE  \A s \in SUBSET U : \A c \in s : g[s] = f[c] + g[s \ {c}]
  <1> DEFINE S == {s \in SUBSET U : \E c \in s : g[s] # f[c] + g[s \ {c}]}
  <1> SUFFICES ASSUME S # {} PROVE FALSE
    OBVIOUS
  <1>1. PICK s \in S : \A x \in s : s \ {x} \notin S
    BY SmallestSet
  <1>2. PICK c \in s : g[s] # f[c] + g[s \ {c}]
    BY <1>1
  <1> DEFINE p == Pick(s)
  <1>3. /\ p \in s /\ s \in SUBSET U /\ s \ {p} \in SUBSET U /\ s \ {c} \in SUBSET U
    BY <1>1, <1>2, Picking
  <1>4. g[s] = f[p] + g[s \ {p}]
    <2>0. \A t \in SUBSET U : g[t] = IF t = {} THEN 0 ELSE f[Pick(t)] + g[t \ {Pick(t)}]
      BY SumStep
    <2>1. g[s] = IF s = {} THEN 0 ELSE f[Pick(s)] + g[s \ {Pick(s)}]
      BY <1>3, <2>0
    <2> QED BY <1>2, <2>1
  <1> HIDE DEF p
  <1>5. c # p
    BY <1>2, <1>4
  <1>6. g[s \ {p}] = f[c] + g[(s \ {p}) \ {c}]
    BY <1>1, <1>3, <1>5
  <1>7. g[s \ {c}] = f[p] + g[(s \ {c}) \ {p}]
    BY <1>1, <1>3, <1>5
  <1>8. (s \ {p}) \ {c} = (s \ {c}) \ {p} /\ (s \ {p}) \ {c} \in SUBSET U
    BY <1>3
  <1>9. f[c] \in Int /\ f[p] \in Int /\ g[(s \ {p}) \ {c}] \in Int
    BY <1>3, <1>8, SumInt
  <1> DEFINE rest == g[(s \ {p}) \ {c}]
  <1>10. g[s \ {c}] = f[p] + rest /\ g[s \ {p}] = f[c] + rest
    BY <1>6, <1>7, <1>8
  <1>11. rest \in Int
    BY <1>9
  <1> HIDE DEF rest
  <1> QED BY <1>2, <1>4, <1>9, <1>10, <1>11

LEMMA SumOfIs ==
    ASSUME NEW U, IsFiniteSet(U), NEW f, \A x \in U : f[x] \in Int
    PROVE  \E g : IsSum(g, U, f) /\ SumOf(f, U) = g[U]
  <1> DEFINE eq(it) == it = [s \in SUBSET U |->
                               IF s = {} THEN 0 ELSE f[CHOOSE x \in s : TRUE]
                                                     + it[s \ {CHOOSE x \in s : TRUE}]]
  <1>1. SumOf(f, U) = (CHOOSE it : eq(it))[U]
    BY DEF SumOf, MapThenSumSet, MapThenFoldSet
  <1>2. \A g : IsSum(g, U, f) <=> eq(g)
    BY DEF IsSum, Pick
  <1>3. \E g : eq(g)
    <2>1. \E g \in [SUBSET U -> Int] : IsSum(g, U, f)
      BY SumExists
    <2> HIDE DEF eq
    <2> QED BY <1>2, <2>1
  <1>4. eq(CHOOSE it : eq(it))
    BY <1>3
  <1> HIDE DEF eq
  <1> QED BY <1>1, <1>2, <1>4

(* What is known of a sum from here on.                                    *)
LEMMA SumOfInt ==
    ASSUME NEW S, IsFiniteSet(S), NEW f, \A x \in S : f[x] \in Int
    PROVE  SumOf(f, S) \in Int /\ (S = {} => SumOf(f, S) = 0)
  <1>1. PICK g : IsSum(g, S, f) /\ SumOf(f, S) = g[S]
    BY SumOfIs
  <1>2. S \in SUBSET S
    OBVIOUS
  <1>3. g[S] \in Int
    BY <1>1, <1>2, SumInt
  <1>4. g[S] = IF S = {} THEN 0 ELSE f[Pick(S)] + g[S \ {Pick(S)}]
    BY <1>1, <1>2, SumStep
  <1> QED BY <1>1, <1>3, <1>4

LEMMA SumOfTake ==
    ASSUME NEW S, IsFiniteSet(S), NEW f, \A x \in S : f[x] \in Int, NEW c \in S
    PROVE  SumOf(f, S) = f[c] + SumOf(f, S \ {c})
  <1>1. PICK g : IsSum(g, S, f) /\ SumOf(f, S) = g[S]
    BY SumOfIs
  <1>2. IsFiniteSet(S \ {c}) /\ \A x \in S \ {c} : f[x] \in Int
    BY FS_RemoveElement
  <1>3. PICK h : IsSum(h, S \ {c}, f) /\ SumOf(f, S \ {c}) = h[S \ {c}]
    BY <1>2, SumOfIs
  <1>4. S \in SUBSET S /\ S \ {c} \in (SUBSET S) \cap (SUBSET (S \ {c}))
    OBVIOUS
  <1>5. g[S] = f[c] + g[S \ {c}]
    BY <1>1, <1>4, SumSplit
  <1>6. g[S \ {c}] = h[S \ {c}]
    <2>1. \A s \in (SUBSET S) \cap (SUBSET (S \ {c})) : (\A x \in s : f[x] = f[x]) => g[s] = h[s]
      BY <1>1, <1>2, <1>3, SumSame
    <2> QED BY <1>4, <2>1
  <1> QED BY <1>1, <1>3, <1>5, <1>6

LEMMA SumOfSame ==
    ASSUME NEW S, IsFiniteSet(S), NEW f, \A x \in S : f[x] \in Int,
           NEW e, \A x \in S : e[x] = f[x]
    PROVE  SumOf(e, S) = SumOf(f, S)
  <1>1. PICK g : IsSum(g, S, f) /\ SumOf(f, S) = g[S]
    BY SumOfIs
  <1>2. \A x \in S : e[x] \in Int
    OBVIOUS
  <1>3. PICK h : IsSum(h, S, e) /\ SumOf(e, S) = h[S]
    BY <1>2, SumOfIs
  <1>4. S \in (SUBSET S) \cap (SUBSET S)
    OBVIOUS
  <1>5. g[S] = h[S]
    BY <1>1, <1>3, <1>4, SumSame
  <1> QED BY <1>1, <1>3, <1>5

-----------------------------------------------------------------------------
(* The money of a table of rows.                                           *)

Paids(f) == [c \in Charges |-> f[c].paid]
Money(f) == SumOf(Paids(f), Charges)

LEMMA ChargesFinite == IsFiniteSet(Charges)
  <1>1. IsFiniteSet(Months)
    BY LedgerAssumption
  <1>2. IsFiniteSet({"rent"})
    BY FS_Singleton
  <1>3. IsFiniteSet({"rent"} \union {"late_fee"})
    BY <1>2, FS_AddElement
  <1>4. {"rent"} \union {"late_fee"} = {"rent", "late_fee"}
    OBVIOUS
  <1>5. IsFiniteSet({"rent", "late_fee"})
    BY <1>3, <1>4
  <1>6. IsFiniteSet(Months \X {"rent", "late_fee"})
    BY <1>1, <1>5, FS_Product
  <1> QED BY <1>6 DEF Charges

LEMMA MoneyInt == ASSUME NEW f \in [Charges -> Row] PROVE Money(f) \in Int
  <1>1. \A x \in Charges : Paids(f)[x] \in Int
    BY DEF Paids, Row
  <1> QED BY <1>1, ChargesFinite, SumOfInt DEF Money

LEMMA MoneyChange ==
    ASSUME NEW f \in [Charges -> Row], NEW c \in Charges, NEW r \in Row
    PROVE  /\ Money(f) \in Int
           /\ Money([f EXCEPT ![c] = r]) = Money(f) - f[c].paid + r.paid
  <1> DEFINE e == [f EXCEPT ![c] = r]
             rest == Charges \ {c}
  <1>0. e \in [Charges -> Row] /\ e[c] = r /\ \A d \in rest : e[d] = f[d]
    OBVIOUS
  <1> HIDE DEF e
  <1>1. /\ \A x \in Charges : Paids(f)[x] \in Int /\ Paids(e)[x] \in Int
        /\ Paids(f)[c] = f[c].paid /\ Paids(e)[c] = r.paid
        /\ f[c].paid \in Int /\ r.paid \in Int
        /\ \A d \in rest : Paids(e)[d] = Paids(f)[d]
    BY <1>0 DEF Paids, Row
  <1>2. IsFiniteSet(rest) /\ \A x \in rest : Paids(f)[x] \in Int
    BY <1>1, ChargesFinite, FS_RemoveElement
  <1>3. SumOf(Paids(f), Charges) = f[c].paid + SumOf(Paids(f), rest)
    BY <1>1, ChargesFinite, SumOfTake
  <1>4. SumOf(Paids(e), Charges) = r.paid + SumOf(Paids(e), rest)
    BY <1>1, ChargesFinite, SumOfTake
  <1>5. SumOf(Paids(e), rest) = SumOf(Paids(f), rest)
    BY <1>1, <1>2, SumOfSame
  <1>6. SumOf(Paids(f), rest) \in Int
    BY <1>2, SumOfInt
  <1> HIDE DEF rest
  <1> QED BY <1>1, <1>3, <1>4, <1>5, <1>6 DEF e, Money

-----------------------------------------------------------------------------
(* A transaction carries what it says it moves.                            *)

Moved(h) == Amount[hs[h].p] - hs[h].remaining

Carried(h) == Money(After(h)) = IF hs[h].kind = "refund" THEN Money(charge) - Moved(h)
                                ELSE Money(charge) + Moved(h)

InTx(h) == hs[h].pc = "loop" /\ hs[h].kind \in {"offline", "refund"}

(* Without overlap, committing now would add, or take, what has left the   *)
(* handler's hands.                                                        *)
Carries == \A h \in Handlers : InTx(h) => Carried(h)
CarryInv == ~faults.overlap => Carries

LEMMA InitCarry == Init => CarryInv
  BY IdleOK DEF Init, CarryInv, Carries, InTx

LEMMA StillCarried ==
    ASSUME NEW h \in Handlers, UNCHANGED charge, hs'[h] = hs[h]
    PROVE  Carried(h)' <=> Carried(h)
  <1>1. After(h)' = After(h)
    BY DEF After
  <1>2. Money(charge)' = Money(charge) /\ Moved(h)' = Moved(h)
    BY DEF Moved
  <1>3. Money(After(h))' = Money(After(h))
    BY <1>1
  <1> QED BY <1>2, <1>3 DEF Carried

(* Handlers that are not in a transaction after the step, or did not move. *)
LEMMA QuietCarry ==
    ASSUME CarryInv, UNCHANGED <<charge, faults>>,
           \A h \in Handlers : InTx(h)' => hs'[h] = hs[h]
    PROVE  CarryInv'
  <1> SUFFICES ASSUME ~faults.overlap, NEW h \in Handlers, InTx(h)' PROVE Carried(h)'
    BY DEF CarryInv, Carries
  <1>1. hs'[h] = hs[h] /\ InTx(h)
    BY DEF InTx
  <1>2. Carried(h)
    BY <1>1 DEF CarryInv, Carries
  <1> QED BY <1>1, <1>2, StillCarried

LEMMA NewRowCarry ==
    ASSUME Inv, CarryInv, UNCHANGED <<hs, faults>>, NEW k \in Charges,
           charge[k].status = "none", NEW a \in Nat \ {0}, NEW date \in Nat,
           charge' = [charge EXCEPT ![k] = NewCharge(a, date)]
    PROVE  CarryInv'
  <1> DEFINE r == NewCharge(a, date)
  <1>1. r \in Row /\ r.paid = 0
    BY NewChargeConsistent DEF NewCharge
  <1>2. charge' = [charge EXCEPT ![k] = r]
    OBVIOUS
  <1> HIDE DEF r
  <1>3. charge \in [Charges -> Row] /\ charge[k] \in Row /\ Consistent(charge[k])
    BY DEF Inv, TypeOK, ChargeConsistent
  <1>4. charge[k].paid = 0
    BY <1>3 DEF Row, Consistent
  <1>5. Money(charge') = Money(charge)
    <2>1. /\ Money(charge) \in Int
          /\ Money([charge EXCEPT ![k] = r]) = Money(charge) - charge[k].paid + r.paid
      BY <1>1, <1>3, MoneyChange
    <2>2. Money([charge EXCEPT ![k] = r]) = Money(charge)
      BY <1>1, <1>4, <2>1
    <2> QED BY <1>2, <2>2
  <1> SUFFICES ASSUME ~faults.overlap, NEW h \in Handlers, InTx(h)' PROVE Carried(h)'
    BY DEF CarryInv, Carries
  <1>6. Carried(h)
    BY DEF InTx, CarryInv, Carries
  <1>7. k \notin hs[h].dirty
    BY DEF Inv, HandlerInv
  <1>8. After(h)' = [After(h) EXCEPT ![k] = r]
    BY <1>2, <1>3, <1>7 DEF After
  <1>9. After(h) \in [Charges -> Row] /\ After(h)[k] = charge[k]
    <2>1. After(h) \in [Charges -> Row]
      BY AfterRows
    <2> QED BY <1>7, <2>1 DEF After
  <1>10. Money(After(h)') = Money(After(h))
    <2> DEFINE f == After(h)
    <2>1. f \in [Charges -> Row] /\ f[k].paid = 0
      BY <1>4, <1>9
    <2> HIDE DEF f
    <2>2. /\ Money(f) \in Int
          /\ Money([f EXCEPT ![k] = r]) = Money(f) - f[k].paid + r.paid
      BY <1>1, <2>1, MoneyChange
    <2>3. Money([f EXCEPT ![k] = r]) = Money(f)
      BY <1>1, <2>1, <2>2
    <2> QED BY <1>8, <2>3 DEF f
  <1>11. Money(After(h))' = Money(After(h)) /\ Money(charge)' = Money(charge)
    BY <1>5, <1>10
  <1>12. Moved(h)' = Moved(h)
    BY DEF Moved
  <1> QED BY <1>6, <1>11, <1>12 DEF Carried

LEMMA JobCarry ==
    ASSUME Inv, CarryInv, Tick \/ LateFeeScan \/ \E m \in Months : PostRent(m) \/ LateFeePost(m)
    PROVE  CarryInv'
  <1>0. now \in Nat /\ feeJob \in [date : Nat, months : SUBSET Months]
    BY DEF Inv, TypeOK
  <1>1. CASE Tick \/ LateFeeScan
    <2>1. UNCHANGED <<charge, hs, faults>>
      BY <1>1 DEF Tick, LateFeeScan, stripeVars
    <2> QED BY <2>1, QuietCarry
  <1>2. ASSUME NEW m \in Months, PostRent(m) PROVE CarryInv'
    <2>1. /\ UNCHANGED <<hs, faults>> /\ <<m, "rent">> \in Charges
          /\ charge[<<m, "rent">>].status = "none"
          /\ charge' = [charge EXCEPT ![<<m, "rent">>] = NewCharge(Rent, Midnight(now))]
      BY <1>2 DEF PostRent, stripeVars, Charges
    <2>2. Midnight(now) \in Nat /\ Rent \in Nat \ {0}
      BY <1>0, LedgerAssumption DEF Midnight
    <2> QED BY <2>1, <2>2, NewRowCarry
  <1>3. ASSUME NEW m \in Months, LateFeePost(m) PROVE CarryInv'
    <2> DEFINE k == <<m, "late_fee">>
    <2>1. /\ UNCHANGED <<hs, faults>> /\ k \in Charges /\ feeJob.months # {}
          /\ charge' = IF charge[k].status = "none"
                       THEN [charge EXCEPT ![k] = NewCharge(LateFee, feeJob.date)] ELSE charge
      BY <1>3 DEF LateFeePost, stripeVars, Charges
    <2>2. feeJob.date \in Nat /\ LateFee \in Nat \ {0}
      BY <1>0, <2>1, LedgerAssumption DEF Inv, FeeJobInv
    <2> HIDE DEF k
    <2>3. CASE charge[k].status = "none"
      BY <2>1, <2>2, <2>3, NewRowCarry
    <2>4. CASE charge[k].status # "none"
      BY <2>1, <2>4, QuietCarry
    <2> QED BY <2>3, <2>4
  <1> QED BY <1>1, <1>2, <1>3

(* A handler that enters, leaves or commits: without overlap no other one  *)
(* is in a transaction.                                                    *)
LEMMA AloneCarry ==
    ASSUME Inv, FifoInv, NEW h \in Handlers, NEW s, hs' = [hs EXCEPT ![h] = s],
           hs[h].pc # "idle", UNCHANGED faults,
           ~faults.overlap => (InTx(h)' => Carried(h)')
    PROVE  CarryInv'
  <1> SUFFICES ASSUME ~faults.overlap, NEW g \in Handlers, InTx(g)' PROVE Carried(g)'
    BY DEF CarryInv, Carries
  <1>1. g = h
    BY DEF FifoInv, Solo, InTx, Inv, TypeOK
  <1> QED BY <1>1

LEMMA ReadCarry ==
    ASSUME Inv, FifoInv, NEW h \in Handlers, ReadCharges(h)
    PROVE  CarryInv'
  <1> DEFINE S == IF hs[h].kind = "refund" THEN Credited ELSE Outstanding
  <1>0. PICK place \in Places : Loop(h, charge, place, S, {}, Amount[hs[h].p])
    BY ReadList
  <1>1. /\ hs[h].pc = "read" /\ Loop(h, charge, place, S, {}, Amount[hs[h].p])
        /\ UNCHANGED <<charge, faults>>
    BY <1>0 DEF ReadCharges, stripeVars
  <1>2. /\ hs'[h].p = hs[h].p /\ hs'[h].dirty = {} /\ hs'[h].remaining = Amount[hs[h].p]
    BY <1>1, Looped
  <1>2a. PICK s : hs' = [hs EXCEPT ![h] = s]
    BY <1>1 DEF Loop
  <1>3. hs[h].p \in Payments /\ Amount[hs[h].p] \in Int
    BY <1>1, LedgerAssumption DEF Inv, HandlerInv
  <1>4. charge \in [Charges -> Row]
    BY DEF Inv, TypeOK
  <1>5. After(h)' = charge
    BY <1>1, <1>2, <1>4 DEF After
  <1>6. Moved(h)' = 0
    BY <1>2, <1>3 DEF Moved
  <1>7. Money(After(h))' = Money(charge)'
    BY <1>1, <1>5
  <1>8. Money(charge)' \in Int
    <2>2. Money(charge) \in Int
      BY <1>4, MoneyInt
    <2> QED BY <1>1, <2>2
  <1>9. Carried(h)'
    BY <1>6, <1>7, <1>8 DEF Carried
  <1> QED BY <1>1, <1>2a, <1>9, AloneCarry

LEMMA TxCarry ==
    ASSUME Inv, FifoInv, CarryInv, NEW h \in Handlers, NEW c \in Charges,
           OfflineApply(h, c) \/ RefundReverse(h, c)
    PROVE  CarryInv'
  <1>1. /\ Working(h) /\ c \in hs[h].todo /\ hs[h].pc = "loop" /\ InTx(h)
    BY DEF OfflineApply, RefundReverse, First, Working, InTx
  <1>2. /\ hs[h].p \in Payments /\ hs[h].remaining \in Nat /\ hs[h].seen[c] \in Row
        /\ Consistent(hs[h].seen[c]) /\ hs[h].seen[c].status # "none"
        /\ hs[h].seen \in [Charges -> Row] /\ charge[c] \in Row /\ charge[c].status # "none"
        /\ hs[h].seen[c].amount = charge[c].amount /\ hs[h].remaining \in Nat \ {0}
    BY <1>1, WorkingFacts DEF Inv, TypeOK
  <1>3. Amount[hs[h].p] \in Int
    BY <1>2, LedgerAssumption
  <1> DEFINE was == hs[h].seen[c]
  <1>4. PICK new \in Row :
           /\ Consistent(new) /\ new.status # "none" /\ new.amount = charge[c].amount
           /\ LET moved == IF hs[h].kind = "refund" THEN was.paid - new.paid ELSE new.paid - was.paid
              IN  TxVisit(h, c, new, moved)
    <2>1. CASE OfflineApply(h, c)
      <3>1. LET new == Apply(was, hs[h].remaining) IN TxVisit(h, c, new, new.paid - was.paid)
        BY <2>1 DEF OfflineApply
      <3>2. LET new == Apply(was, hs[h].remaining)
            IN  new \in Row /\ Consistent(new) /\ new.status # "none" /\ new.amount = charge[c].amount
        BY <1>2, ApplyConsistent
      <3>3. hs[h].kind = "offline"
        BY <2>1 DEF OfflineApply
      <3> QED BY <3>1, <3>2, <3>3
    <2>2. CASE RefundReverse(h, c)
      <3>1. LET new == Reverse(was, hs[h].remaining) IN TxVisit(h, c, new, was.paid - new.paid)
        BY <2>2 DEF RefundReverse
      <3>2. LET new == Reverse(was, hs[h].remaining)
            IN  new \in Row /\ Consistent(new) /\ new.status # "none" /\ new.amount = charge[c].amount
        BY <1>2, ReverseConsistent
      <3>3. hs[h].kind = "refund"
        BY <2>2 DEF RefundReverse
      <3> QED BY <3>1, <3>2, <3>3
    <2> QED BY <2>1, <2>2
  <1> DEFINE moved == IF hs[h].kind = "refund" THEN was.paid - new.paid ELSE new.paid - was.paid
             seen == [hs[h].seen EXCEPT ![c] = new]
             todo == hs[h].todo \ {c}
             dirty == hs[h].dirty \union {c}
             row == Written(charge[c], new)
  <1>5. /\ Loop(h, seen, hs[h].place, todo, dirty, hs[h].remaining - moved) /\ UNCHANGED <<charge, faults>>
    BY <1>4 DEF TxVisit, stripeVars
  <1>6. /\ hs'[h].kind = hs[h].kind /\ hs'[h].seen = seen /\ hs'[h].dirty = dirty
        /\ hs'[h].remaining = hs[h].remaining - moved /\ hs'[h].p = hs[h].p
    BY <1>5, Looped
  <1>6a. PICK s : hs' = [hs EXCEPT ![h] = s]
    BY <1>5 DEF Loop
  <1>7. row \in Row /\ row.paid = new.paid
    <2>1. row \in Row
      BY <1>2, <1>4, WrittenConsistent
    <2> QED BY <2>1 DEF Written, Allocated
  <1>8. new.paid \in Int /\ was.paid \in Int
    BY <1>2 DEF Row
  <1> SUFFICES ASSUME ~faults.overlap PROVE Carried(h)'
    BY <1>1, <1>5, <1>6a, AloneCarry
  <1>9. LoopOK(h) /\ Carried(h)
    BY <1>1 DEF FifoInv, Looks, CarryInv, Carries
  <1>10. c \notin hs[h].dirty /\ was = charge[c]
    BY <1>1, <1>9 DEF LoopOK
  <1>11. After(h) \in [Charges -> Row]
    BY AfterRows
  <1>12. After(h)[c] = charge[c] /\ After(h)' = [After(h) EXCEPT ![c] = row]
    <2>1. After(h)[c] = charge[c]
      BY <1>10 DEF After
    <2>2. \A d \in Charges : After(h)'[d] = [After(h) EXCEPT ![c] = row][d]
      <3> SUFFICES ASSUME NEW d \in Charges PROVE After(h)'[d] = [After(h) EXCEPT ![c] = row][d]
        OBVIOUS
      <3>1. After(h)'[d] = IF d \in dirty THEN Written(charge[d], seen[d]) ELSE charge[d]
        BY <1>5, <1>6 DEF After
      <3>2. CASE d = c
        BY <1>2, <1>11, <3>1, <3>2
      <3>3. CASE d # c
        <4>1. seen[d] = hs[h].seen[d] /\ (d \in dirty <=> d \in hs[h].dirty)
          BY <1>2, <3>3
        <4>2. After(h)[d] = IF d \in hs[h].dirty THEN Written(charge[d], hs[h].seen[d]) ELSE charge[d]
          BY DEF After
        <4>3. [After(h) EXCEPT ![c] = row][d] = After(h)[d]
          BY <1>11, <3>3
        <4> QED BY <3>1, <4>1, <4>2, <4>3
      <3> QED BY <3>2, <3>3
    <2> QED BY <2>1, <2>2 DEF After
  <1>13. Money(After(h)') = Money(After(h)) - was.paid + new.paid /\ Money(After(h)) \in Int
    <2> DEFINE f == After(h)
    <2>1. f \in [Charges -> Row] /\ f[c].paid = was.paid
      BY <1>10, <1>11, <1>12
    <2> HIDE DEF f, row
    <2>2. /\ Money(f) \in Int
          /\ Money([f EXCEPT ![c] = row]) = Money(f) - f[c].paid + row.paid
      BY <1>7, <2>1, MoneyChange
    <2>3. After(h)' = [f EXCEPT ![c] = row]
      BY <1>12 DEF f
    <2> QED BY <1>7, <2>1, <2>2, <2>3 DEF f
  <1>14. Money(charge) \in Int
    BY MoneyInt DEF Inv, TypeOK
  <1>15. /\ Money(After(h))' = Money(After(h)) - was.paid + new.paid
         /\ Money(charge)' = Money(charge)
    BY <1>5, <1>13
  <1>16. Moved(h)' = Amount[hs[h].p] - (hs[h].remaining - moved)
    BY <1>6 DEF Moved
  <1>17. Moved(h) = Amount[hs[h].p] - hs[h].remaining
    BY DEF Moved
  <1>18. Money(After(h)) = IF hs[h].kind = "refund" THEN Money(charge) - Moved(h)
                           ELSE Money(charge) + Moved(h)
    BY <1>9 DEF Carried
  <1>19. Moved(h)' = Moved(h) + moved /\ moved \in Int /\ Moved(h) \in Int
    BY <1>2, <1>3, <1>8, <1>16, <1>17
  <1>20. Money(After(h))' = IF hs[h].kind = "refund" THEN Money(charge)' - Moved(h)'
                            ELSE Money(charge)' + Moved(h)'
    <2>1. CASE hs[h].kind = "refund"
      <3>1. moved = was.paid - new.paid
        BY <2>1
      <3> HIDE DEF moved
      <3> QED BY <1>8, <1>13, <1>14, <1>15, <1>18, <1>19, <2>1, <3>1
    <2>2. CASE hs[h].kind # "refund"
      <3>1. moved = new.paid - was.paid
        BY <2>2
      <3> HIDE DEF moved
      <3> QED BY <1>8, <1>13, <1>14, <1>15, <1>18, <1>19, <2>2, <3>1
    <2> QED BY <2>1, <2>2
  <1> QED BY <1>6, <1>20 DEF Carried

LEMMA HandlerCarry ==
    ASSUME NEW h \in Handlers, Inv, FifoInv, CarryInv, Handler(h) PROVE CarryInv'
  <1>0. hs \in [Handlers -> HandlerState]
    BY DEF Inv, TypeOK
  <1>1. ASSUME NEW p \in Payments,
               (p \in Online /\ EventSucceeded(h, p)) \/ (p \in Offline /\ RecordOffline(h, p))
                  \/ RequestRefund(h, p)
        PROVE  CarryInv'
    <2>1. /\ UNCHANGED <<charge, faults>>
          /\ \E kind \in {"succeeded", "offline", "refund"}, pc \in {"stripe", "read"} :
                hs' = [hs EXCEPT ![h] = Fresh(kind, p, pc)]
      BY <1>1 DEF EventSucceeded, RecordOffline, RequestRefund, Enter, stripeVars
    <2>2. PICK kind \in {"succeeded", "offline", "refund"}, pc \in {"stripe", "read"} :
             hs' = [hs EXCEPT ![h] = Fresh(kind, p, pc)]
      BY <2>1
    <2>3. Fresh(kind, p, pc).pc # "loop"
      BY FreshOK
    <2>4. \A g \in Handlers : InTx(g)' => hs'[g] = hs[g]
      BY <1>0, <2>2, <2>3 DEF InTx
    <2> QED BY <2>1, <2>4, QuietCarry
  <1>2. CASE WebhookDone(h) \/ HandlerDies(h) \/ StripeRefund(h)
    <2>1. /\ UNCHANGED <<charge, faults>>
          /\ \/ hs' = [hs EXCEPT ![h] = Idle]
             \/ hs[h].pc = "stripe" /\ hs' = [hs EXCEPT ![h] = Fresh("refund", hs[h].p, "read")]
      BY <1>2 DEF WebhookDone, HandlerDies, StripeRefund, Enter, stripeVars
    <2>2. Fresh("refund", hs[h].p, "read").pc = "read"
      BY DEF Fresh, Memory
    <2>3. PICK s : hs' = [hs EXCEPT ![h] = s] /\ s.pc # "loop"
      BY <2>1, <2>2, IdleOK
    <2>4. \A g \in Handlers : InTx(g)' => hs'[g] = hs[g]
      BY <1>0, <2>3 DEF InTx
    <2> QED BY <2>1, <2>4, QuietCarry
  <1>3. CASE OfflineCommit(h) \/ RefundCommit(h)
    <2>1. hs[h].pc = "loop" /\ hs' = [hs EXCEPT ![h] = Idle] /\ UNCHANGED faults
      BY <1>3 DEF OfflineCommit, RefundCommit, Commit, LoopOver, stripeVars
    <2>2. ~InTx(h)'
      BY <1>0, <2>1, IdleOK DEF InTx
    <2> QED BY <2>1, <2>2, AloneCarry
  <1>4. CASE ReadCharges(h)
    BY <1>4, ReadCarry
  <1>5. ASSUME NEW c \in Charges, WebhookApply(h, c) PROVE CarryInv'
    <2>1. /\ hs[h].pc = "loop" /\ hs[h].kind = "succeeded" /\ UNCHANGED faults
          /\ Loop(h, hs[h].seen, hs[h].place, hs[h].todo \ {c}, {},
                  hs[h].remaining - (Apply(hs[h].seen[c], hs[h].remaining).paid - hs[h].seen[c].paid))
      BY <1>5 DEF WebhookApply, Working, stripeVars
    <2>2. hs'[h].kind = "succeeded" /\ \E s : hs' = [hs EXCEPT ![h] = s]
      BY <2>1, Looped DEF Loop
    <2>3. ~InTx(h)'
      BY <2>2 DEF InTx
    <2> QED BY <2>1, <2>2, <2>3, AloneCarry
  <1>6. ASSUME NEW c \in Charges, OfflineApply(h, c) \/ RefundReverse(h, c) PROVE CarryInv'
    BY <1>6, TxCarry
  <1> QED BY <1>1, <1>2, <1>3, <1>4, <1>5, <1>6 DEF Handler, Progress, Payments

LEMMA NextCarry == Inv /\ FifoInv /\ CarryInv /\ [Next]_vars => CarryInv'
  <1> SUFFICES ASSUME Inv, FifoInv, CarryInv, [Next]_vars PROVE CarryInv'
    OBVIOUS
  <1>1. ASSUME NEW p \in Online, Portal(p) \/ Stripe(p) PROVE CarryInv'
    <2>1. UNCHANGED <<charge, hs, faults>>
      BY <1>1 DEF Portal, OpenAch, OpenCard, ConfirmIntent, IntentUnavailable, StoreIntentId,
                  RequestDies, Stripe, Settle, EventUnmatched, EventSetsStatus, stripeVars
    <2> QED BY <2>1, QuietCarry
  <1>2. CASE UNCHANGED vars
    BY <1>2, QuietCarry DEF vars, stripeVars
  <1> QED BY <1>1, <1>2, HandlerCarry, JobCarry DEF Next

LEMMA Totals == TotalPaid = Money(charge)
  BY DEF TotalPaid, Paids, Money

LEMMA TotalsNext == (TotalPaid = Money(charge))'
  BY Totals, PTL

(* What a commit moves is what the handler says it moved, however many     *)
(* charges it visits and whatever the nightly jobs add meanwhile; a        *)
(* webhook that died half way left rows the next handler reads afresh.     *)
THEOREM TransactionsAreAtomic == Spec => AllocationIsAtomic
  <1> DEFINE A == ~faults.overlap => \A h \in Handlers :
                    LET moved == Amount[hs[h].p] - hs[h].remaining
                    IN  /\ OfflineCommit(h) => TotalPaid' = TotalPaid + moved
                        /\ RefundCommit(h) => TotalPaid' = TotalPaid - moved
  <1>1. ASSUME Inv, CarryInv PROVE A
    <2> SUFFICES ASSUME ~faults.overlap, NEW h \in Handlers, OfflineCommit(h) \/ RefundCommit(h)
                 PROVE  /\ hs[h].kind = "offline" => TotalPaid' = TotalPaid + Moved(h)
                        /\ hs[h].kind = "refund" => TotalPaid' = TotalPaid - Moved(h)
      BY DEF OfflineCommit, RefundCommit, Moved
    <2>1. charge' = After(h) /\ InTx(h)
      BY DEF OfflineCommit, RefundCommit, Commit, LoopOver, After, InTx
    <2>2. Carried(h)
      BY <1>1, <2>1 DEF CarryInv, Carries
    <2>3. TotalPaid = Money(charge) /\ TotalPaid' = Money(charge)'
      BY Totals, TotalsNext
    <2> QED BY <2>1, <2>2, <2>3 DEF Carried, InTx
  <1> HIDE DEF A
  <1>2. Spec => [][A]_vars
    BY <1>1, InitInv, NextInv, InitFifo, NextFifo, InitCarry, NextCarry, PTL DEF Spec
  <1> QED BY <1>2 DEF A, AllocationIsAtomic

-----------------------------------------------------------------------------
(* Sharing out an amount over a list.                                      *)

LEMMA Clamped ==
    ASSUME NEW x \in Int, NEW top \in Nat
    PROVE  Clamp(x, top) = IF x <= 0 THEN 0 ELSE IF x <= top THEN x ELSE top
  <1>1. Min({x, top}) = IF x <= top THEN x ELSE top
    BY DEF Min
  <1> DEFINE low == IF x <= top THEN x ELSE top
  <1>2. low \in Int
    OBVIOUS
  <1>3. Clamp(x, top) = Max({0, low})
    BY <1>1 DEF Clamp
  <1> HIDE DEF low
  <1>4. Max({0, low}) = IF low <= 0 THEN 0 ELSE low
    BY <1>2 DEF Max
  <1> QED BY <1>3, <1>4 DEF low

LEMMA Least2 ==
    ASSUME NEW x \in Int, NEW y \in Int
    PROVE  Min({x, y}) = IF x <= y THEN x ELSE y
  BY DEF Min

LEMMA SumOfNat ==
    ASSUME NEW T, IsFiniteSet(T), NEW f, \A x \in T : f[x] \in Nat
    PROVE  /\ SumOf(f, T) \in Nat
           /\ \A S \in SUBSET T : SumOf(f, S) \in Nat /\ SumOf(f, S) <= SumOf(f, T)
  <1> DEFINE Bad == {s \in SUBSET T : SumOf(f, s) \notin Nat}
  <1>0. ASSUME NEW s \in SUBSET T
        PROVE  /\ IsFiniteSet(s) /\ \A x \in s : f[x] \in Int
               /\ SumOf(f, s) \in Int /\ (s = {} => SumOf(f, s) = 0)
               /\ \A c \in s : SumOf(f, s) = f[c] + SumOf(f, s \ {c})
    <2>1. IsFiniteSet(s) /\ \A x \in s : f[x] \in Int
      BY FS_Subset
    <2> QED BY <2>1, SumOfInt, SumOfTake
  <1>1. Bad = {}
    <2> SUFFICES ASSUME Bad # {} PROVE FALSE
      OBVIOUS
    <2>1. PICK s \in Bad : \A x \in s : s \ {x} \notin Bad
      BY SmallestSet
    <2>2. s \in SUBSET T /\ SumOf(f, s) \notin Nat
      OBVIOUS
    <2>3. PICK c \in s : TRUE
      BY <1>0, <2>2
    <2>4. SumOf(f, s \ {c}) \in Nat /\ f[c] \in Nat
      BY <2>1, <2>2, <2>3
    <2>5. SumOf(f, s) = f[c] + SumOf(f, s \ {c})
      BY <1>0, <2>2, <2>3
    <2> QED BY <2>2, <2>4, <2>5
  <1>2. \A s \in SUBSET T : SumOf(f, s) \in Nat
    BY <1>1
  <1>3. ASSUME NEW S \in SUBSET T PROVE SumOf(f, S) <= SumOf(f, T)
    <2> DEFINE Over == {s \in SUBSET T : S \subseteq s /\ ~(SumOf(f, S) <= SumOf(f, s))}
    <2> SUFFICES ASSUME Over # {} PROVE FALSE
      BY <1>3
    <2>0. Over \in SUBSET (SUBSET T)
      OBVIOUS
    <2>1. PICK s \in Over : \A x \in s : s \ {x} \notin Over
      <3> HIDE DEF Over
      <3> QED BY <2>0, SmallestSet
    <2>2. s \in SUBSET T /\ S \subseteq s /\ ~(SumOf(f, S) <= SumOf(f, s))
      OBVIOUS
    <2>3. SumOf(f, S) \in Nat /\ SumOf(f, s) \in Nat
      BY <1>2, <1>3, <2>2
    <2>4. s # S
      BY <2>2, <2>3
    <2>5. PICK c \in s : c \notin S
      BY <2>2, <2>4
    <2>6. SumOf(f, S) <= SumOf(f, s \ {c}) /\ s \ {c} \in SUBSET T
      BY <2>1, <2>2, <2>5
    <2>7. SumOf(f, s) = f[c] + SumOf(f, s \ {c}) /\ f[c] \in Nat /\ SumOf(f, s \ {c}) \in Nat
      BY <1>0, <1>2, <2>2, <2>5, <2>6
    <2> QED BY <2>2, <2>3, <2>6, <2>7
  <1> QED BY <1>2, <1>3

(* What is nought outside S adds nothing.                                  *)
LEMMA SumOfRest ==
    ASSUME NEW T, IsFiniteSet(T), NEW S \in SUBSET T, NEW f, \A x \in T : f[x] \in Int,
           \A x \in T \ S : f[x] = 0
    PROVE  SumOf(f, T) = SumOf(f, S)
  <1> DEFINE Bad == {s \in SUBSET T : S \subseteq s /\ SumOf(f, s) # SumOf(f, S)}
  <1> SUFFICES ASSUME Bad # {} PROVE FALSE
    OBVIOUS
  <1>0. Bad \in SUBSET (SUBSET T)
    OBVIOUS
  <1>1. PICK s \in Bad : \A x \in s : s \ {x} \notin Bad
    <2> HIDE DEF Bad
    <2> QED BY <1>0, SmallestSet
  <1>2. s \in SUBSET T /\ S \subseteq s /\ SumOf(f, s) # SumOf(f, S)
    OBVIOUS
  <1>3. PICK c \in s : c \notin S
    BY <1>2
  <1>4. SumOf(f, s \ {c}) = SumOf(f, S) /\ f[c] = 0
    BY <1>1, <1>2, <1>3
  <1>5. IsFiniteSet(s) /\ IsFiniteSet(s \ {c}) /\ \A x \in s : f[x] \in Int
    BY <1>2, FS_Subset, FS_RemoveElement
  <1>6. SumOf(f, s) = f[c] + SumOf(f, s \ {c}) /\ SumOf(f, s \ {c}) \in Int
    BY <1>5, SumOfTake, SumOfInt
  <1> QED BY <1>2, <1>4, <1>6

LEMMA SumOfPlus ==
    ASSUME NEW T, IsFiniteSet(T), NEW f, \A x \in T : f[x] \in Int,
           NEW e, \A x \in T : e[x] \in Int, NEW h, \A x \in T : h[x] = f[x] + e[x]
    PROVE  SumOf(h, T) = SumOf(f, T) + SumOf(e, T)
  <1> DEFINE Bad == {s \in SUBSET T : SumOf(h, s) # SumOf(f, s) + SumOf(e, s)}
  <1> SUFFICES ASSUME Bad # {} PROVE FALSE
    OBVIOUS
  <1>1. PICK s \in Bad : \A x \in s : s \ {x} \notin Bad
    BY SmallestSet
  <1>2. s \in SUBSET T /\ SumOf(h, s) # SumOf(f, s) + SumOf(e, s)
    OBVIOUS
  <1>3. IsFiniteSet(s)
    BY <1>2, FS_Subset
  <1>4. (\A x \in s : f[x] \in Int) /\ (\A x \in s : e[x] \in Int) /\ (\A x \in s : h[x] \in Int)
    BY <1>2
  <1>5. s # {}
    <2>1. ASSUME s = {} PROVE FALSE
      <3>1. SumOf(f, s) = 0 /\ SumOf(e, s) = 0 /\ SumOf(h, s) = 0
        BY <1>3, <1>4, <2>1, SumOfInt
      <3> QED BY <1>2, <3>1
    <2> QED BY <2>1
  <1>6. PICK c \in s : TRUE
    BY <1>5
  <1>7. IsFiniteSet(s \ {c}) /\ s \ {c} \in SUBSET T
    BY <1>2, <1>3, FS_RemoveElement
  <1>8. SumOf(h, s \ {c}) = SumOf(f, s \ {c}) + SumOf(e, s \ {c})
    BY <1>1, <1>6, <1>7
  <1>9. SumOf(f, s) = f[c] + SumOf(f, s \ {c})
    BY <1>3, <1>4, SumOfTake
  <1>10. SumOf(e, s) = e[c] + SumOf(e, s \ {c})
    BY <1>3, <1>4, SumOfTake
  <1>11. SumOf(h, s) = h[c] + SumOf(h, s \ {c})
    BY <1>3, <1>4, SumOfTake
  <1>12. SumOf(f, s \ {c}) \in Int /\ SumOf(e, s \ {c}) \in Int
    BY <1>4, <1>7, SumOfInt
  <1>13. f[c] \in Int /\ e[c] \in Int /\ h[c] = f[c] + e[c]
    BY <1>2, <1>6
  <1> QED BY <1>2, <1>8, <1>9, <1>10, <1>11, <1>12, <1>13

LEMMA LastOfList ==
    ASSUME NEW T, IsFiniteSet(T), T # {}, NEW place, \A c \in T : place[c] \in Nat
    PROVE  \E x \in T : \A c \in T : place[c] <= place[x]
  <1> DEFINE Max_(s) == \E x \in s : \A c \in s : place[c] <= place[x]
             Bad == {s \in SUBSET T : s # {} /\ ~Max_(s)}
  <1> SUFFICES ASSUME Bad # {} PROVE FALSE
    BY DEF Max_
  <1>1. PICK s \in Bad : \A x \in s : s \ {x} \notin Bad
    BY SmallestSet
  <1>2. s \in SUBSET T /\ s # {} /\ ~Max_(s)
    OBVIOUS
  <1>3. PICK c \in s : TRUE
    BY <1>2
  <1>4. s \ {c} # {}
    <2>1. ASSUME s \ {c} = {} PROVE FALSE
      <3>1. \A d \in s : place[d] <= place[c]
        BY <1>2, <1>3, <2>1
      <3> QED BY <1>2, <1>3, <3>1
    <2> QED BY <2>1
  <1>5. Max_(s \ {c})
    BY <1>1, <1>2, <1>3, <1>4
  <1>6. PICK y \in s \ {c} : \A d \in s \ {c} : place[d] <= place[y]
    BY <1>5
  <1>7. \A d \in s : place[d] \in Nat
    BY <1>2
  <1>8. CASE place[c] <= place[y]
    <2>1. \A d \in s : place[d] <= place[y]
      BY <1>6, <1>8
    <2> QED BY <1>2, <1>6, <2>1
  <1>9. CASE ~(place[c] <= place[y])
    <2>1. \A d \in s : place[d] <= place[c]
      BY <1>3, <1>6, <1>7, <1>9
    <2> QED BY <1>2, <1>3, <2>1
  <1> QED BY <1>8, <1>9

(* Everyone in T takes what is left after those before him, up to what he  *)
(* can hold: together they take all there is, or fill up.                  *)
Before(place, T, c) == {d \in T : place[d] < place[c]}
Shares(m, f, place, T) == [c \in T |-> Clamp(m - SumOf(f, Before(place, T, c)), f[c])]

LEMMA ShareOut ==
    ASSUME NEW T, IsFiniteSet(T), NEW f, \A c \in T : f[c] \in Nat, NEW m \in Nat,
           NEW place, \A c \in T : place[c] \in Nat,
           \A c, d \in T : place[c] = place[d] => c = d
    PROVE  SumOf(Shares(m, f, place, T), T) = Min({m, SumOf(f, T)})
  <1> DEFINE Good(s) == SumOf(Shares(m, f, place, s), s) = Min({m, SumOf(f, s)})
             Bad == {s \in SUBSET T : ~Good(s)}
  <1> SUFFICES ASSUME Bad # {} PROVE FALSE
    OBVIOUS
  <1>1. PICK s \in Bad : \A x \in s : s \ {x} \notin Bad
    BY SmallestSet
  <1>2. s \in SUBSET T /\ ~Good(s)
    OBVIOUS
  <1> HIDE DEF Good
  <1>3. /\ IsFiniteSet(s) /\ \A c \in s : f[c] \in Nat /\ f[c] \in Int /\ place[c] \in Nat
        /\ \A c, d \in s : place[c] = place[d] => c = d
    BY <1>2, FS_Subset
  <1>4. /\ SumOf(f, s) \in Nat
        /\ \A r \in SUBSET s : SumOf(f, r) \in Nat /\ SumOf(f, r) <= SumOf(f, s)
    BY <1>3, SumOfNat
  <1>5. ASSUME NEW r \in SUBSET s PROVE \A c \in r : Shares(m, f, place, r)[c] \in Nat
    <2> SUFFICES ASSUME NEW c \in r PROVE Shares(m, f, place, r)[c] \in Nat
      OBVIOUS
    <2>1. Before(place, r, c) \in SUBSET s
      BY DEF Before
    <2>2. m - SumOf(f, Before(place, r, c)) \in Int
      BY <1>4, <2>1
    <2>3. f[c] \in Nat
      BY <1>3
    <2> DEFINE left == m - SumOf(f, Before(place, r, c))
    <2>4. Shares(m, f, place, r)[c] = Clamp(left, f[c])
      BY DEF Shares
    <2> HIDE DEF left
    <2>5. left \in Int
      BY <2>2 DEF left
    <2> QED BY <2>3, <2>4, <2>5, Clamped
  <1>6. s # {}
    <2>1. ASSUME s = {} PROVE FALSE
      <3>1. SumOf(f, s) = 0
        BY <1>3, <2>1, SumOfInt
      <3>2. \A c \in s : Shares(m, f, place, s)[c] \in Int
        BY <2>1
      <3>3. SumOf(Shares(m, f, place, s), s) = 0
        BY <1>3, <2>1, <3>2, SumOfInt
      <3>4. Min({m, 0}) = 0
        BY Least2
      <3> QED BY <1>2, <3>1, <3>3, <3>4 DEF Good
    <2> QED BY <2>1
  <1>7. PICK x \in s : \A c \in s : place[c] <= place[x]
    BY <1>3, <1>6, LastOfList
  <1> DEFINE r == s \ {x}
  <1>8. r \in SUBSET s /\ r \in SUBSET T /\ IsFiniteSet(r)
    BY <1>2, <1>3, FS_RemoveElement
  <1>9. SumOf(Shares(m, f, place, r), r) = Min({m, SumOf(f, r)})
    BY <1>1, <1>7, <1>8 DEF Good
  <1>10. \A c \in r : Before(place, s, c) = Before(place, r, c)
    BY <1>3, <1>7 DEF Before
  <1>11. Before(place, s, x) = r
    BY <1>3, <1>7 DEF Before
  <1>12. \A c \in r : Shares(m, f, place, s)[c] = Shares(m, f, place, r)[c]
    BY <1>8, <1>10 DEF Shares
  <1>13. Shares(m, f, place, s)[x] = Clamp(m - SumOf(f, r), f[x])
    BY <1>7, <1>11 DEF Shares
  <1> HIDE DEF r
  <1>14. \A c \in r : Shares(m, f, place, r)[c] \in Int
    BY <1>5, <1>8
  <1>15. SumOf(Shares(m, f, place, s), r) = SumOf(Shares(m, f, place, r), r)
    BY <1>8, <1>12, <1>14, SumOfSame
  <1>16. SumOf(Shares(m, f, place, s), s)
            = Shares(m, f, place, s)[x] + SumOf(Shares(m, f, place, s), r)
    <2>1. \A c \in s : Shares(m, f, place, s)[c] \in Int
      BY <1>5
    <2>2. SumOf(Shares(m, f, place, s), s)
            = Shares(m, f, place, s)[x] + SumOf(Shares(m, f, place, s), s \ {x})
      BY <1>3, <1>7, <2>1, SumOfTake
    <2> QED BY <2>2 DEF r
  <1>17. SumOf(f, s) = f[x] + SumOf(f, r)
    <2>1. SumOf(f, s) = f[x] + SumOf(f, s \ {x})
      BY <1>3, <1>7, SumOfTake
    <2> QED BY <2>1 DEF r
  <1> DEFINE A == SumOf(f, r)
             k == f[x]
  <1>18. A \in Nat /\ k \in Nat
    BY <1>3, <1>4, <1>7, <1>8
  <1>19. SumOf(Shares(m, f, place, s), s) = Clamp(m - A, k) + Min({m, A})
    BY <1>9, <1>13, <1>15, <1>16
  <1>20. SumOf(f, s) = k + A
    BY <1>17
  <1> HIDE DEF A, k
  <1>21. Clamp(m - A, k) = IF m - A <= 0 THEN 0 ELSE IF m - A <= k THEN m - A ELSE k
    BY <1>18, Clamped
  <1>22. Min({m, A}) = IF m <= A THEN m ELSE A
    BY <1>18, Least2
  <1>23. Min({m, k + A}) = IF m <= k + A THEN m ELSE k + A
    BY <1>18, Least2
  <1> QED BY <1>2, <1>18, <1>19, <1>20, <1>21, <1>22, <1>23 DEF Good


-----------------------------------------------------------------------------
(* The ledger seen whole.                                                  *)

Bars    == [c \in Charges |-> PaidBar(c)]
Amounts == [c \in Charges |-> charge[c].amount]
Dues    == [c \in Charges |-> charge[c].due]
MoneySettled == ((Completed \ PaymentsOf({h \in Handlers : hs[h].kind = "succeeded" /\ hs[h].pc = "read"}))
              \union PaymentsOf(Looping({"offline"}))) \ PaymentsOf(Looping({"refund"}))

LEMMA ViewIs == Account!account = <<Amounts, Dues, Bars, MoneySettled>>
  BY DEF Account!account, Amounts, Dues, Bars, MoneySettled

LEMMA ViewNext == (Account!account = <<Amounts, Dues, Bars, MoneySettled>>)'
  BY ViewIs, PTL

LEMMA Stutter ==
    ASSUME UNCHANGED <<Amounts, Dues, Bars, MoneySettled>>
    PROVE  UNCHANGED Account!account
  BY ViewIs, ViewNext

LEMMA BillStep ==
    ASSUME NEW k \in Charges, UNCHANGED <<Bars, MoneySettled>>, Amounts[k] = 0, Amounts'[k] > 0,
           NEW a, Amounts' = [Amounts EXCEPT ![k] = a],
           NEW d, Dues' = [Dues EXCEPT ![k] = d]
    PROVE  Account!Bill(k)
  <1>1. Amounts'[k] = a /\ Dues'[k] = d
    BY DEF Amounts, Dues
  <1> QED BY <1>1 DEF Account!Bill, Amounts, Dues, Bars, MoneySettled

LEMMA SameSums ==
    /\ \A f : Account!Total(f) = SumOf(f, Charges)
    /\ \A S : Account!Min(S) = Min(S)
  <1>1. ASSUME NEW f PROVE Account!Total(f) = SumOf(f, Charges)
    BY DEF Account!Total, SumOf, Account!MapThenSumSet, MapThenSumSet,
           Account!MapThenFoldSet, MapThenFoldSet
  <1>2. \A S : Account!Min(S) = Min(S)
    BY DEF Account!Min, Min
  <1> QED BY <1>1, <1>2

LEMMA CreditStep ==
    ASSUME NEW p, p \notin MoneySettled, MoneySettled' = MoneySettled \union {p},
           \A c \in Charges : Bars[c] <= Bars'[c] /\ Bars'[c] <= Amounts[c],
           SumOf(Bars', Charges) - SumOf(Bars, Charges)
              = Min({Amount[p], SumOf([c \in Charges |-> Amounts[c] - Bars[c]], Charges)}),
           \A c, d \in Charges : /\ Amounts[c] > 0 /\ Amounts[d] > 0
                                 /\ Dues[d] < Dues[c] /\ Bars'[c] > Bars[c]
                                 => Bars'[d] = Amounts[d],
           UNCHANGED <<Amounts, Dues>>
    PROVE  Account!Credit(p)
  <1>1. Account!Owed = [c \in Charges |-> Amounts[c] - Bars[c]]
    BY DEF Account!Owed, Amounts, Bars
  <1>2. \A f : Account!Total(f) = SumOf(f, Charges)
    BY SameSums
  <1>3. Account!Billed = {c \in Charges : Amounts[c] > 0}
    BY DEF Account!Billed, Amounts
  <1>4. \A S : Account!Min(S) = Min(S)
    BY SameSums
  <1> QED BY <1>1, <1>2, <1>3, <1>4 DEF Account!Credit, Amounts, Dues, Bars, MoneySettled

LEMMA TakeBackStep ==
    ASSUME NEW p, p \in MoneySettled, MoneySettled' = MoneySettled \ {p},
           \A c \in Charges : 0 <= Bars'[c] /\ Bars'[c] <= Bars[c],
           SumOf(Bars, Charges) - SumOf(Bars', Charges) = Min({Amount[p], SumOf(Bars, Charges)}),
           \A c, d \in Charges : /\ Amounts[c] > 0 /\ Amounts[d] > 0
                                 /\ Dues[c] < Dues[d] /\ Bars'[c] < Bars[c]
                                 => Bars'[d] = 0,
           UNCHANGED <<Amounts, Dues>>
    PROVE  Account!TakeBack(p)
  <1>2. \A f : Account!Total(f) = SumOf(f, Charges)
    BY SameSums
  <1>3. Account!Billed = {c \in Charges : Amounts[c] > 0}
    BY DEF Account!Billed, Amounts
  <1>4. \A S : Account!Min(S) = Min(S)
    BY SameSums
  <1> QED BY <1>2, <1>3, <1>4 DEF Account!TakeBack, Amounts, Dues, Bars, MoneySettled


-----------------------------------------------------------------------------
(* What a whole list gets, and what a turn of the loop leaves for the rest. *)

Dealt(m, room, place, S) ==
    [c \in Charges |-> IF c \in S THEN Shares(m, room, place, S)[c] ELSE 0]

LEMMA ListShares ==
    ASSUME NEW S \in SUBSET Charges, NEW room, \A c \in Charges : room[c] \in Nat,
           \A c \in Charges \ S : room[c] = 0, NEW m \in Nat,
           NEW place, \A c \in S : place[c] \in Nat,
           \A c, d \in S : place[c] = place[d] => c = d
    PROVE  /\ \A c \in Charges : /\ Dealt(m, room, place, S)[c] \in Nat
                                 /\ Dealt(m, room, place, S)[c] <= room[c]
           /\ SumOf(Dealt(m, room, place, S), Charges) = Min({m, SumOf(room, Charges)})
           /\ \A c, e \in S : place[e] < place[c] /\ Dealt(m, room, place, S)[c] > 0
                              => Dealt(m, room, place, S)[e] = room[e]
  <1> DEFINE d == Dealt(m, room, place, S)
             sh == Shares(m, room, place, S)
             A(c) == SumOf(room, Before(place, S, c))
  <1>1. IsFiniteSet(S) /\ IsFiniteSet(Charges) /\ \A c \in S : room[c] \in Nat /\ room[c] \in Int
    BY ChargesFinite, FS_Subset
  <1>2. \A r \in SUBSET S : SumOf(room, r) \in Nat
    BY <1>1, SumOfNat
  <1>3. \A c \in S : A(c) \in Nat /\ Before(place, S, c) \in SUBSET S
    BY <1>2 DEF Before
  <1>4. ASSUME NEW c \in S
        PROVE  /\ sh[c] = IF m - A(c) <= 0 THEN 0 ELSE IF m - A(c) <= room[c] THEN m - A(c) ELSE room[c]
               /\ sh[c] \in Nat /\ sh[c] <= room[c]
    <2>1. A(c) \in Nat /\ room[c] \in Nat
      BY <1>1, <1>3
    <2>2. sh[c] = Clamp(m - A(c), room[c])
      BY DEF Shares
    <2> HIDE DEF A, sh
    <2>3. m - A(c) \in Int
      BY <2>1
    <2> QED BY <2>1, <2>2, <2>3, Clamped
  <1>5. \A c \in Charges : d[c] = IF c \in S THEN sh[c] ELSE 0
    BY DEF Dealt
  <1>6. \A c \in Charges : d[c] \in Nat /\ d[c] <= room[c]
    <2> HIDE DEF d, sh
    <2> QED BY <1>4, <1>5
  <1>7. SumOf(d, Charges) = Min({m, SumOf(room, Charges)})
    <2>1. SumOf(sh, S) = Min({m, SumOf(room, S)})
      BY <1>1, ShareOut
    <2> HIDE DEF d, sh
    <2>2. SumOf(d, S) = SumOf(sh, S)
      <3>1. \A c \in S : sh[c] \in Int /\ d[c] = sh[c]
        BY <1>4, <1>5
      <3> QED BY <1>1, <3>1, SumOfSame
    <2>3. SumOf(d, Charges) = SumOf(d, S)
      <3>1. (\A c \in Charges : d[c] \in Int) /\ (\A c \in Charges \ S : d[c] = 0)
        BY <1>5, <1>6
      <3> QED BY <1>1, <3>1, SumOfRest
    <2>4. SumOf(room, Charges) = SumOf(room, S)
      <3>1. \A c \in Charges : room[c] \in Int
        OBVIOUS
      <3> QED BY <1>1, <3>1, SumOfRest
    <2> QED BY <2>1, <2>2, <2>3, <2>4
  <1>8. ASSUME NEW c \in S, NEW e \in S, place[e] < place[c], d[c] > 0 PROVE d[e] = room[e]
    <2>1. \A b \in Before(place, S, e) \union {e} : b \in Before(place, S, c)
      BY <1>8 DEF Before
    <2>2. Before(place, S, e) \union {e} \in SUBSET Before(place, S, c)
      BY <2>1
    <2>3. IsFiniteSet(Before(place, S, c)) /\ \A b \in Before(place, S, c) : room[b] \in Nat
      BY <1>1, <1>3, FS_Subset
    <2>4. SumOf(room, Before(place, S, e) \union {e}) <= A(c)
      BY <2>2, <2>3, SumOfNat
    <2>5. SumOf(room, Before(place, S, e) \union {e}) = room[e] + A(e)
      <3> DEFINE B == Before(place, S, e) \union {e}
      <3>1. B \in SUBSET S /\ e \in B /\ B \ {e} = Before(place, S, e)
        BY DEF Before
      <3> HIDE DEF B
      <3>2. IsFiniteSet(B) /\ \A b \in B : room[b] \in Int
        BY <1>1, <3>1, FS_Subset
      <3>3. SumOf(room, B) = room[e] + SumOf(room, B \ {e})
        BY <3>1, <3>2, SumOfTake
      <3> QED BY <3>1, <3>3 DEF B
    <2>6. A(c) \in Nat /\ A(e) \in Nat /\ room[e] \in Nat /\ room[c] \in Nat
      BY <1>1, <1>3
    <2>7. d[c] = sh[c] /\ d[e] = sh[e]
      BY <1>5
    <2> HIDE DEF d, sh, A
    <2>8. m - A(c) > 0
      BY <1>4, <1>8, <2>6, <2>7
    <2>9. sh[e] = room[e]
      BY <1>4, <2>4, <2>5, <2>6, <2>8
    <2> QED BY <2>7, <2>9
  <1> QED BY <1>6, <1>7, <1>8

(* c is the next row of the list, x what it gets, rest the room beside it. *)
TurnOf(S, room, m, place, c, rest, x) ==
    /\ S \in SUBSET Charges /\ m \in Nat /\ c \in S /\ x \in Nat
    /\ \A e \in S : room[e] \in Nat /\ place[e] \in Nat /\ place[c] <= place[e]
    /\ \A e, d \in S : place[e] = place[d] => e = d
    /\ \A e \in S \ {c} : rest[e] = room[e]
    /\ x = IF m <= room[c] THEN m ELSE room[c]

LEMMA TurnShares ==
    ASSUME NEW S, NEW room, NEW m, NEW place, NEW c, NEW rest, NEW x,
           TurnOf(S, room, m, place, c, rest, x)
    PROVE  /\ Shares(m, room, place, S)[c] = x
           /\ \A e \in S \ {c} : Shares(m - x, rest, place, S \ {c})[e]
                                   = Shares(m, room, place, S)[e]
  <1>0. /\ S \in SUBSET Charges /\ m \in Nat /\ c \in S /\ x \in Nat
        /\ \A e \in S : room[e] \in Nat /\ place[e] \in Nat /\ place[c] <= place[e]
        /\ \A e, d \in S : place[e] = place[d] => e = d
        /\ \A e \in S \ {c} : rest[e] = room[e]
        /\ x = IF m <= room[c] THEN m ELSE room[c]
    BY DEF TurnOf
  <1>1. IsFiniteSet(S) /\ \A e \in S : room[e] \in Int
    BY <1>0, ChargesFinite, FS_Subset
  <1>2. \A r \in SUBSET S : SumOf(room, r) \in Nat
    BY <1>0, <1>1, SumOfNat
  <1>3. Shares(m, room, place, S)[c] = x
    <2>1. Before(place, S, c) = {}
      BY <1>0 DEF Before
    <2>2. SumOf(room, {}) = 0
      <3>1. IsFiniteSet({}) /\ \A e \in {} : room[e] \in Int
        BY FS_EmptySet
      <3> QED BY <3>1, SumOfInt
    <2>3. Shares(m, room, place, S)[c] = Clamp(m - 0, room[c])
      BY <1>0, <2>1, <2>2 DEF Shares
    <2>4. m - 0 = m /\ m \in Int /\ room[c] \in Nat
      BY <1>0
    <2>5. Clamp(m, room[c]) = IF m <= 0 THEN 0 ELSE IF m <= room[c] THEN m ELSE room[c]
      BY <2>4, Clamped
    <2> QED BY <1>0, <2>3, <2>4, <2>5
  <1>4. ASSUME NEW e \in S \ {c}
        PROVE  Shares(m - x, rest, place, S \ {c})[e] = Shares(m, room, place, S)[e]
    <2> DEFINE B == Before(place, S, e)
               C == Before(place, S \ {c}, e)
    <2>1. c \in B /\ C = B \ {c} /\ B \in SUBSET S /\ C \in SUBSET (S \ {c})
      BY <1>0 DEF Before
    <2>2. Shares(m, room, place, S)[e] = Clamp(m - SumOf(room, B), room[e])
      BY DEF Shares
    <2>3. Shares(m - x, rest, place, S \ {c})[e] = Clamp((m - x) - SumOf(rest, C), rest[e])
      BY DEF Shares
    <2> HIDE DEF B, C
    <2>4. IsFiniteSet(B) /\ IsFiniteSet(C)
      BY <1>1, <2>1, FS_Subset
    <2>5. SumOf(rest, C) = SumOf(room, C)
      <3>1. \A b \in C : room[b] \in Int /\ rest[b] = room[b]
        BY <1>0, <2>1
      <3> QED BY <2>4, <3>1, SumOfSame
    <2>6. SumOf(room, B) = room[c] + SumOf(room, C)
      <3>1. \A b \in B : room[b] \in Int
        BY <1>0, <2>1
      <3>2. SumOf(room, B) = room[c] + SumOf(room, B \ {c})
        BY <2>1, <2>4, <3>1, SumOfTake
      <3> QED BY <2>1, <3>2
    <2>7. SumOf(room, B) \in Nat /\ SumOf(room, C) \in Nat
      BY <1>2, <2>1
    <2>8. rest[e] = room[e] /\ room[e] \in Nat /\ room[c] \in Nat
      BY <1>0
    <2> DEFINE a == SumOf(room, C)
               k == room[c]
               t == room[e]
    <2>9. a \in Nat /\ k \in Nat /\ t \in Nat
      BY <2>7, <2>8
    <2>10. /\ Shares(m, room, place, S)[e] = Clamp(m - (k + a), t)
           /\ Shares(m - x, rest, place, S \ {c})[e] = Clamp((m - x) - a, t)
           /\ x = IF m <= k THEN m ELSE k
      BY <1>0, <2>2, <2>3, <2>5, <2>6, <2>8
    <2> HIDE DEF a, k, t
    <2>11. m - (k + a) \in Int /\ (m - x) - a \in Int
      BY <1>0, <2>9
    <2>12. /\ Clamp(m - (k + a), t) = IF m - (k + a) <= 0 THEN 0
                                      ELSE IF m - (k + a) <= t THEN m - (k + a) ELSE t
           /\ Clamp((m - x) - a, t) = IF (m - x) - a <= 0 THEN 0
                                      ELSE IF (m - x) - a <= t THEN (m - x) - a ELSE t
      BY <2>9, <2>11, Clamped
    <2> QED BY <1>0, <2>9, <2>10, <2>12
  <1> QED BY <1>3, <1>4


-----------------------------------------------------------------------------
(* The calm world: a payment is completed once, by its one event or by the *)
(* commit of its one request, and stays so until it is refunded.           *)

AtWork == \A h \in Handlers : hs[h].pc # "idle" =>
    /\ hs[h].kind \in {"succeeded", "offline", "refund"}
    /\ hs[h].kind = "succeeded" => hs[h].p \in Online /\ pay[hs[h].p] = "completed"
    /\ hs[h].kind = "offline" => hs[h].p \in Offline /\ pay[hs[h].p] = "none"
    /\ hs[h].kind = "refund" => pay[hs[h].p] = "completed"
    /\ hs[h].pc = "stripe" => hs[h].kind = "refund"

Told == \A p \in Online :
    /\ pay[p] \in {"completed", "refunded"} => deliveries[<<p, "succeeded">>] > 0
    /\ deliveries[<<p, "succeeded">>] > 0 => intent[p] = "succeeded" /\ deliveries[<<p, "processing">>] > 0
    /\ request[p] = "confirming" => intent[p] = "none"
    /\ intent[p] # "none" => request[p] # "none"
    /\ request[p] # "none" => pay[p] # "none"

CalmInv == Calm => AtWork /\ Told

LEMMA CalmWorld ==
    Calm => /\ faults.deliveries = 1 /\ faults.inOrder /\ ~faults.crashes /\ ~faults.overlap
  BY DEF Calm

LEMMA InitCalm == Init => CalmInv
  <1> SUFFICES ASSUME Init PROVE AtWork /\ Told
    BY DEF CalmInv
  <1>1. AtWork
    BY IdleOK DEF Init, AtWork
  <1>2. Told
    BY DEF Init, Told, Events, Payments
  <1> QED BY <1>1, <1>2

(* The steps of the portal and of Stripe.                                  *)
LEMMA PortalCalm ==
    ASSUME Inv, Calm, AtWork, Told, NEW p \in Online, Portal(p)
    PROVE  AtWork' /\ Told' /\ Completed' = Completed /\ UNCHANGED <<charge, hs>>
  <1>0. /\ pay \in [Payments -> PayStatus] /\ intent \in [Online -> {"none", "processing", "succeeded", "failed"}]
        /\ request \in [Online -> {"none", "confirming", "storing", "done"}]
        /\ deliveries \in [Online \X Events -> Nat] /\ p \in Payments /\ p \notin Offline
        /\ Online \subseteq Payments
    BY LedgerAssumption DEF Inv, TypeOK, Payments
  <1>1. /\ UNCHANGED <<charge, hs, deliveries>>
        /\ \/ /\ pay[p] = "none" /\ pay' = [pay EXCEPT ![p] = "pending"] /\ UNCHANGED intent
              /\ \E r \in {"confirming", "done"} : request' = [request EXCEPT ![p] = r]
           \/ /\ request[p] = "confirming" /\ intent' = [intent EXCEPT ![p] = "processing"]
              /\ request' = [request EXCEPT ![p] = "storing"] /\ UNCHANGED pay
           \/ /\ request[p] = "confirming" /\ pay' = [pay EXCEPT ![p] = "failed"] /\ UNCHANGED intent
              /\ request' = [request EXCEPT ![p] = "done"]
           \/ /\ request[p] = "storing" /\ request' = [request EXCEPT ![p] = "done"]
              /\ UNCHANGED <<pay, intent>>
    BY CalmWorld DEF Portal, OpenAch, OpenCard, ConfirmIntent, IntentUnavailable, StoreIntentId,
                     RequestDies, stripeVars
  <1>2. CASE /\ pay[p] = "none" /\ pay' = [pay EXCEPT ![p] = "pending"] /\ UNCHANGED intent
             /\ \E r \in {"confirming", "done"} : request' = [request EXCEPT ![p] = r]
    <2>1. PICK r \in {"confirming", "done"} : request' = [request EXCEPT ![p] = r]
      BY <1>2
    <2>2. intent[p] = "none"
      BY <1>0, <1>2 DEF Told
    <2>3. Told'
      BY <1>0, <1>1, <1>2, <2>1, <2>2 DEF Told
    <2>4. AtWork'
      BY <1>0, <1>1, <1>2 DEF AtWork
    <2>5. Completed' = Completed
      BY <1>0, <1>2 DEF Completed
    <2> QED BY <1>1, <2>3, <2>4, <2>5
  <1>3. CASE /\ request[p] = "confirming" /\ intent' = [intent EXCEPT ![p] = "processing"]
             /\ request' = [request EXCEPT ![p] = "storing"] /\ UNCHANGED pay
    <2>1. Told'
      BY <1>0, <1>1, <1>3 DEF Told
    <2>2. AtWork' /\ Completed' = Completed
      BY <1>1, <1>3 DEF AtWork, Completed
    <2> QED BY <1>1, <2>1, <2>2
  <1>4. CASE /\ request[p] = "confirming" /\ pay' = [pay EXCEPT ![p] = "failed"] /\ UNCHANGED intent
             /\ request' = [request EXCEPT ![p] = "done"]
    <2>0. pay[p] # "completed" /\ pay[p] # "refunded"
      BY <1>0, <1>4 DEF Told
    <2>1. Told'
      BY <1>0, <1>1, <1>4 DEF Told
    <2>2. AtWork'
      BY <1>0, <1>1, <1>4, <2>0 DEF AtWork
    <2>3. Completed' = Completed
      BY <1>0, <1>4, <2>0 DEF Completed
    <2> QED BY <1>1, <2>1, <2>2, <2>3
  <1>5. CASE /\ request[p] = "storing" /\ request' = [request EXCEPT ![p] = "done"]
             /\ UNCHANGED <<pay, intent>>
    <2>1. Told'
      BY <1>0, <1>1, <1>5 DEF Told
    <2>2. AtWork' /\ Completed' = Completed
      BY <1>1, <1>5 DEF AtWork, Completed
    <2> QED BY <1>1, <2>1, <2>2
  <1> QED BY <1>1, <1>2, <1>3, <1>4, <1>5

(* One delivery of each event, in order.                                   *)
LEMMA DeliverCalm ==
    ASSUME Inv, Calm, Told, NEW p \in Online, NEW e \in Events, Deliver(p, e)
    PROVE  /\ deliveries[<<p, e>>] = 0
           /\ deliveries' = [deliveries EXCEPT ![<<p, e>>] = 1]
           /\ e = "processing" => intent[p] # "none" /\ deliveries[<<p, "succeeded">>] = 0
           /\ e # "processing" => intent[p] = e /\ deliveries[<<p, "processing">>] > 0
           /\ e = "failed" => deliveries[<<p, "succeeded">>] = 0
  <1>1. deliveries \in [Online \X Events -> Nat]
    BY DEF Inv, TypeOK
  <1>2. deliveries[<<p, e>>] \in Nat /\ deliveries[<<p, e>>] < 1
    BY <1>1, CalmWorld DEF Deliver, Deliverable
  <1>3. deliveries[<<p, e>>] = 0
    BY <1>2
  <1>4. deliveries' = [deliveries EXCEPT ![<<p, e>>] = deliveries[<<p, e>>] + 1]
    BY DEF Deliver
  <1>5. e = "processing" => intent[p] # "none" /\ deliveries[<<p, "succeeded">>] = 0
    BY CalmWorld DEF Deliver, Deliverable, Emitted, Events
  <1>6. e # "processing" => intent[p] = e /\ deliveries[<<p, "processing">>] > 0
    BY CalmWorld DEF Deliver, Deliverable, Emitted, Events
  <1>7. e = "failed" => deliveries[<<p, "succeeded">>] = 0
    <2>1. deliveries[<<p, "succeeded">>] \in Nat
      BY <1>1 DEF Events
    <2> QED BY <1>6, <2>1 DEF Told
  <1>8. deliveries' = [deliveries EXCEPT ![<<p, e>>] = 1]
    BY <1>3, <1>4
  <1> QED BY <1>3, <1>5, <1>6, <1>7, <1>8

LEMMA StripeCalm ==
    ASSUME Inv, Calm, AtWork, Told, NEW p \in Online, Stripe(p)
    PROVE  AtWork' /\ Told' /\ Completed' = Completed /\ UNCHANGED <<charge, hs>>
  <1>0. /\ pay \in [Payments -> PayStatus] /\ intent \in [Online -> {"none", "processing", "succeeded", "failed"}]
        /\ deliveries \in [Online \X Events -> Nat] /\ p \in Payments /\ p \notin Offline
        /\ Online \subseteq Payments
    BY LedgerAssumption DEF Inv, TypeOK, Payments
  <1>1. UNCHANGED <<charge, hs, request>>
    BY DEF Stripe, Settle, EventUnmatched, EventSetsStatus
  <1>2. ASSUME NEW outcome \in {"succeeded", "failed"}, Settle(p, outcome)
        PROVE  AtWork' /\ Told' /\ Completed' = Completed
    <2>1. /\ intent[p] = "processing" /\ intent' = [intent EXCEPT ![p] = outcome]
          /\ UNCHANGED <<pay, deliveries>> /\ request[p] = "done"
      BY <1>2 DEF Settle
    <2>2. Told'
      BY <1>0, <1>1, <2>1 DEF Told
    <2> QED BY <1>1, <2>1, <2>2 DEF AtWork, Completed
  <1>3. ASSUME NEW e \in Events, EventUnmatched(p, e) \/ EventSetsStatus(p, e)
        PROVE  AtWork' /\ Told' /\ Completed' = Completed
    <2>1. Deliver(p, e) /\ UNCHANGED intent
      BY <1>3 DEF EventUnmatched, EventSetsStatus
    <2>2. /\ deliveries' = [deliveries EXCEPT ![<<p, e>>] = 1]
          /\ e = "processing" => intent[p] # "none" /\ deliveries[<<p, "succeeded">>] = 0
          /\ e # "processing" => intent[p] = e /\ deliveries[<<p, "processing">>] > 0
          /\ e = "failed" => deliveries[<<p, "succeeded">>] = 0
      BY <2>1, DeliverCalm
    <2>3. \A q \in Online :
            /\ q = p /\ e = "succeeded" => deliveries'[<<q, "succeeded">>] = 1
            /\ (q = p /\ e = "succeeded") \/ deliveries'[<<q, "succeeded">>] = deliveries[<<q, "succeeded">>]
            /\ deliveries[<<q, "processing">>] > 0 => deliveries'[<<q, "processing">>] > 0
      BY <1>0, <2>2 DEF Events
    <2>4. CASE UNCHANGED pay
      <3>1. ASSUME NEW q \in Online
            PROVE  /\ pay[q] \in {"completed", "refunded"} => deliveries'[<<q, "succeeded">>] > 0
                   /\ deliveries'[<<q, "succeeded">>] > 0
                      => intent[q] = "succeeded" /\ deliveries'[<<q, "processing">>] > 0
        <4>1. CASE q = p /\ e = "succeeded"
          <5>1. deliveries'[<<q, "succeeded">>] = 1
            BY <2>3, <4>1
          <5>2. intent[q] = "succeeded" /\ deliveries'[<<q, "processing">>] > 0
            BY <2>2, <2>3, <4>1
          <5> QED BY <5>1, <5>2
        <4>2. CASE ~(q = p /\ e = "succeeded")
          <5>1. deliveries'[<<q, "succeeded">>] = deliveries[<<q, "succeeded">>]
            BY <2>3, <4>2
          <5> QED BY <2>3, <5>1 DEF Told
        <4> QED BY <4>1, <4>2
      <3>2. Told'
        BY <1>1, <2>1, <2>4, <3>1 DEF Told
      <3> QED BY <1>1, <2>4, <3>2 DEF AtWork, Completed
    <2>5. CASE e \in {"processing", "failed"} /\ pay' = [pay EXCEPT ![p] = e]
      <3>1. pay[p] # "completed" /\ pay[p] # "refunded" /\ e # "completed" /\ e # "none"
            /\ pay[p] # "none"
        BY <1>0, <2>2, <2>5, LedgerAssumption DEF Told
      <3>2. Told'
        BY <1>0, <1>1, <2>1, <2>2, <2>3, <2>5, <3>1 DEF Told
      <3>3. AtWork'
        BY <1>0, <1>1, <2>5, <3>1 DEF AtWork
      <3>4. Completed' = Completed
        BY <1>0, <2>5, <3>1 DEF Completed
      <3> QED BY <3>2, <3>3, <3>4
    <2> QED BY <1>3, <2>4, <2>5 DEF EventUnmatched, EventSetsStatus
  <1> QED BY <1>1, <1>2, <1>3 DEF Stripe

(* A handler leaves, or takes another turn.                                *)
LEMMA TurnCalm ==
    ASSUME Inv, AtWork, Told, NEW h \in Handlers, NEW s, hs' = [hs EXCEPT ![h] = s],
           hs[h].pc # "idle", s.pc = "idle" \/ (s.kind = hs[h].kind /\ s.p = hs[h].p /\ s.pc # "stripe"),
           UNCHANGED <<pay, intent, request, deliveries>>
    PROVE  AtWork' /\ Told'
  <1>1. hs \in [Handlers -> HandlerState]
    BY DEF Inv, TypeOK
  <1>2. AtWork'
    BY <1>1 DEF AtWork
  <1>3. Told'
    BY DEF Told
  <1> QED BY <1>2, <1>3

LEMMA HandlerCalm ==
    ASSUME Inv, FifoInv, Calm, AtWork, Told, NEW h \in Handlers, Handler(h)
    PROVE  AtWork' /\ Told'
  <1>0. /\ hs \in [Handlers -> HandlerState] /\ pay \in [Payments -> PayStatus]
        /\ deliveries \in [Online \X Events -> Nat]
    BY DEF Inv, TypeOK
  <1>21. \A g \in Handlers \ {h} : hs[h].pc # "idle" => hs[g].pc = "idle"
    BY CalmWorld DEF FifoInv, Solo
  <1>22. ~HandlerDies(h)
    BY CalmWorld DEF HandlerDies
  <1>23. ASSUME Free(h) PROVE \A g \in Handlers : hs[g].pc = "idle"
    BY <1>23, CalmWorld DEF Free
  <1>1. ASSUME NEW p \in Online, EventSucceeded(h, p) PROVE AtWork' /\ Told'
    <2>1. /\ Free(h) /\ Deliver(p, "succeeded") /\ pay' = [pay EXCEPT ![p] = "completed"]
          /\ hs' = [hs EXCEPT ![h] = Fresh("succeeded", p, "read")] /\ UNCHANGED <<intent, request>>
      BY <1>1 DEF EventSucceeded, Enter
    <2>2. /\ deliveries' = [deliveries EXCEPT ![<<p, "succeeded">>] = 1]
          /\ intent[p] = "succeeded" /\ deliveries[<<p, "processing">>] > 0
      BY <2>1, DeliverCalm DEF Events
    <2>3. \A q \in Online :
            /\ q = p => deliveries'[<<q, "succeeded">>] = 1
            /\ q = p \/ deliveries'[<<q, "succeeded">>] = deliveries[<<q, "succeeded">>]
            /\ deliveries'[<<q, "processing">>] = deliveries[<<q, "processing">>]
      BY <1>0, <2>2 DEF Events
    <2>4. p \in Payments /\ Online \subseteq Payments
      BY DEF Payments
    <2>5. ASSUME NEW q \in Online
          PROVE  /\ pay'[q] \in {"completed", "refunded"} => deliveries'[<<q, "succeeded">>] > 0
                 /\ deliveries'[<<q, "succeeded">>] > 0
                    => intent[q] = "succeeded" /\ deliveries'[<<q, "processing">>] > 0
                 /\ request[q] # "none" => pay'[q] # "none"
      <3>1. CASE q = p
        <4>1. deliveries'[<<q, "succeeded">>] = 1 /\ deliveries'[<<q, "processing">>] > 0
          BY <2>2, <2>3, <3>1
        <4>2. pay'[q] = "completed" /\ intent[q] = "succeeded"
          BY <1>0, <2>1, <2>2, <2>4, <3>1
        <4> QED BY <4>1, <4>2
      <3>2. CASE q # p
        <4>1. deliveries'[<<q, "succeeded">>] = deliveries[<<q, "succeeded">>]
          BY <2>3, <3>2
        <4>2. pay'[q] = pay[q]
          BY <1>0, <2>1, <2>4, <3>2
        <4> QED BY <2>3, <4>1, <4>2 DEF Told
      <3> QED BY <3>1, <3>2
    <2>8. Told'
      BY <2>1, <2>5 DEF Told
    <2>6. Fresh("succeeded", p, "read").kind = "succeeded" /\ Fresh("succeeded", p, "read").p = p
          /\ Fresh("succeeded", p, "read").pc = "read"
      BY DEF Fresh, Memory
    <2>7. AtWork'
      BY <1>0, <1>23, <2>1, <2>4, <2>6 DEF AtWork
    <2> QED BY <2>7, <2>8
  <1>2. ASSUME NEW p \in Offline, RecordOffline(h, p) PROVE AtWork' /\ Told'
    <2>1. /\ Free(h) /\ pay[p] = "none" /\ hs' = [hs EXCEPT ![h] = Fresh("offline", p, "read")]
          /\ UNCHANGED <<pay, intent, request, deliveries>>
      BY <1>2 DEF RecordOffline, Enter, stripeVars
    <2>2. Fresh("offline", p, "read").kind = "offline" /\ Fresh("offline", p, "read").p = p
          /\ Fresh("offline", p, "read").pc = "read"
      BY DEF Fresh, Memory
    <2>3. AtWork'
      BY <1>0, <1>23, <2>1, <2>2 DEF AtWork
    <2> QED BY <2>1, <2>3 DEF Told
  <1>3. ASSUME NEW p \in Payments, RequestRefund(h, p) PROVE AtWork' /\ Told'
    <2>1. /\ Free(h) /\ pay[p] = "completed" /\ UNCHANGED <<pay, intent, request, deliveries>>
          /\ \E pc \in {"stripe", "read"} : hs' = [hs EXCEPT ![h] = Fresh("refund", p, pc)]
      BY <1>3 DEF RequestRefund, Enter, stripeVars
    <2>2. PICK pc \in {"stripe", "read"} : hs' = [hs EXCEPT ![h] = Fresh("refund", p, pc)]
      BY <2>1
    <2>3. Fresh("refund", p, pc).kind = "refund" /\ Fresh("refund", p, pc).p = p
          /\ Fresh("refund", p, pc).pc = pc
      BY DEF Fresh, Memory
    <2>4. AtWork'
      BY <1>0, <1>23, <2>1, <2>2, <2>3 DEF AtWork
    <2> QED BY <2>1, <2>4 DEF Told
  <1>4. CASE StripeRefund(h)
    <2>1. /\ hs[h].pc = "stripe" /\ UNCHANGED <<pay, intent, request, deliveries>>
          /\ \/ hs' = [hs EXCEPT ![h] = Idle]
             \/ hs' = [hs EXCEPT ![h] = Fresh("refund", hs[h].p, "read")]
      BY <1>4 DEF StripeRefund, Enter
    <2>2. /\ Fresh("refund", hs[h].p, "read").kind = hs[h].kind
          /\ Fresh("refund", hs[h].p, "read").p = hs[h].p /\ Fresh("refund", hs[h].p, "read").pc = "read"
      BY <2>1 DEF Fresh, Memory, AtWork
    <2>3. PICK s : /\ hs' = [hs EXCEPT ![h] = s]
                   /\ s.pc = "idle" \/ (s.kind = hs[h].kind /\ s.p = hs[h].p /\ s.pc # "stripe")
      BY <2>1, <2>2, IdleOK
    <2> QED BY <2>1, <2>3, TurnCalm
  <1>5. CASE WebhookDone(h)
    <2>1. hs[h].pc # "idle" /\ hs' = [hs EXCEPT ![h] = Idle] /\ UNCHANGED <<pay, intent, request, deliveries>>
      BY <1>5 DEF WebhookDone, LoopOver, stripeVars
    <2> QED BY <2>1, IdleOK, TurnCalm
  <1>6. ASSUME NEW seen, NEW place, NEW todo, NEW dirty, NEW remaining, hs[h].pc # "idle",
               Loop(h, seen, place, todo, dirty, remaining),
               UNCHANGED <<pay, intent, request, deliveries>>
        PROVE  AtWork' /\ Told'
    <2> DEFINE s == Memory(hs[h].kind, hs[h].p, "loop", seen, place, todo, dirty, remaining)
    <2>1. hs' = [hs EXCEPT ![h] = s]
      BY <1>6 DEF Loop
    <2>2. s.kind = hs[h].kind /\ s.p = hs[h].p /\ s.pc = "loop"
      BY DEF Memory
    <2> HIDE DEF s
    <2> QED BY <1>6, <2>1, <2>2, TurnCalm
  <1>7. CASE ReadCharges(h)
    <2>1. hs[h].pc = "read" /\ UNCHANGED <<pay, intent, request, deliveries>>
      BY <1>7 DEF ReadCharges, stripeVars
    <2>2. \E seen, place, todo, dirty, remaining : Loop(h, seen, place, todo, dirty, remaining)
      BY <1>7 DEF ReadCharges
    <2> QED BY <1>6, <2>1, <2>2
  <1>8. ASSUME NEW c \in Charges, WebhookApply(h, c) \/ OfflineApply(h, c) \/ RefundReverse(h, c)
        PROVE  AtWork' /\ Told'
    <2>1. hs[h].pc # "idle" /\ UNCHANGED <<pay, intent, request, deliveries>>
      BY <1>8 DEF WebhookApply, OfflineApply, RefundReverse, TxVisit, Working, stripeVars
    <2>2. \E seen, place, todo, dirty, remaining : Loop(h, seen, place, todo, dirty, remaining)
      BY <1>8 DEF WebhookApply, OfflineApply, RefundReverse, TxVisit
    <2> QED BY <1>6, <2>1, <2>2
  <1>9. ASSUME NEW newStatus,
               (OfflineCommit(h) /\ newStatus = "completed") \/ (RefundCommit(h) /\ newStatus = "refunded")
        PROVE  AtWork' /\ Told'
    <2>1. /\ hs[h].pc = "loop" /\ hs' = [hs EXCEPT ![h] = Idle]
          /\ pay' = [pay EXCEPT ![hs[h].p] = newStatus]
          /\ UNCHANGED <<intent, request, deliveries>>
          /\ hs[h].kind = IF newStatus = "completed" THEN "offline" ELSE "refund"
          /\ newStatus \in {"completed", "refunded"}
      BY <1>9 DEF OfflineCommit, RefundCommit, Commit, LoopOver, stripeVars
    <2>2. AtWork'
      BY <1>0, <1>21, <2>1, IdleOK DEF AtWork
    <2>3. hs[h].p \in Payments /\ Online \subseteq Payments
      BY <2>1 DEF Inv, HandlerInv, Payments
    <2>4. /\ newStatus = "completed" => hs[h].p \notin Online
          /\ newStatus = "refunded" => pay[hs[h].p] = "completed"
      BY <2>1, LedgerAssumption DEF AtWork
    <2>5. Told'
      BY <1>0, <2>1, <2>3, <2>4 DEF Told
    <2> QED BY <2>2, <2>5
  <1> QED BY <1>22, <1>1, <1>2, <1>3, <1>4, <1>5, <1>7, <1>8, <1>9 DEF Handler, Progress

LEMMA SameWorld == [Next]_vars => UNCHANGED faults
  <1> SUFFICES ASSUME [Next]_vars PROVE UNCHANGED faults
    OBVIOUS
  <1>1. CASE UNCHANGED vars \/ Tick \/ LateFeeScan \/ \E m \in Months : PostRent(m) \/ LateFeePost(m)
    BY <1>1 DEF vars, Tick, LateFeeScan, PostRent, LateFeePost, stripeVars
  <1>2. ASSUME NEW p \in Online, Portal(p) PROVE UNCHANGED faults
    BY <1>2 DEF Portal, OpenAch, OpenCard, ConfirmIntent, IntentUnavailable, StoreIntentId,
                RequestDies, stripeVars
  <1>3. ASSUME NEW p \in Online, Stripe(p) PROVE UNCHANGED faults
    BY <1>3 DEF Stripe, Settle, EventUnmatched, EventSetsStatus
  <1>4. ASSUME NEW h \in Handlers, Handler(h) PROVE UNCHANGED faults
    <2>1. CASE Progress(h)
      BY <2>1 DEF Progress, ReadCharges, StripeRefund, WebhookApply, OfflineApply, RefundReverse,
                  TxVisit, WebhookDone, OfflineCommit, RefundCommit, Commit, stripeVars
    <2> QED BY <1>4, <2>1 DEF Handler, HandlerDies, EventSucceeded, RecordOffline, RequestRefund,
                              stripeVars
  <1> QED BY <1>1, <1>2, <1>3, <1>4 DEF Next

LEMMA NextCalm == Inv /\ FifoInv /\ CalmInv /\ [Next]_vars => CalmInv'
  <1> SUFFICES ASSUME Inv, FifoInv, CalmInv, [Next]_vars PROVE CalmInv'
    OBVIOUS
  <1>0. UNCHANGED faults
    BY SameWorld
  <1> SUFFICES ASSUME Calm PROVE AtWork' /\ Told'
    BY <1>0 DEF CalmInv, Calm
  <1>1. AtWork /\ Told
    BY DEF CalmInv
  <1>2. CASE UNCHANGED <<hs, pay, intent, request, deliveries>>
    BY <1>1, <1>2 DEF AtWork, Told
  <1>3. CASE UNCHANGED vars \/ Tick \/ LateFeeScan \/ \E m \in Months : PostRent(m) \/ LateFeePost(m)
    BY <1>2, <1>3 DEF vars, Tick, LateFeeScan, PostRent, LateFeePost, stripeVars
  <1>4. ASSUME NEW p \in Online, Portal(p) \/ Stripe(p) PROVE AtWork' /\ Told'
    BY <1>1, <1>4, PortalCalm, StripeCalm
  <1>5. ASSUME NEW h \in Handlers, Handler(h) PROVE AtWork' /\ Told'
    BY <1>1, <1>5, HandlerCalm
  <1> QED BY <1>3, <1>4, <1>5 DEF Next


-----------------------------------------------------------------------------
(* What the account sees, from the state of the one handler at work.       *)

Reading == {h \in Handlers : hs[h].kind = "succeeded" /\ hs[h].pc = "read"}
RoomOf(kind, seen) ==
    [c \in Charges |-> IF kind = "refund" THEN seen[c].paid ELSE seen[c].amount - seen[c].paid]
Leaves(kind, seen, place, todo, dirty, remaining, found) ==
    [c \in Charges |->
        IF c \in todo
        THEN IF kind = "refund" THEN seen[c].paid - Shares(remaining, RoomOf(kind, seen), place, todo)[c]
             ELSE seen[c].paid + Shares(remaining, RoomOf(kind, seen), place, todo)[c]
        ELSE IF c \in dirty THEN seen[c].paid ELSE found[c].paid]
SettledBy(kind, p, done) == IF kind = "offline" THEN done \union {p}
                            ELSE IF kind = "refund" THEN done \ {p} ELSE done

LEMMA OutcomeIs ==
    ASSUME NEW h \in Handlers
    PROVE  [c \in Charges |-> Outcome(h, c)]
              = Leaves(hs[h].kind, hs[h].seen, hs[h].place, hs[h].todo, hs[h].dirty,
                       hs[h].remaining, charge)
  <1>1. Room(h) = RoomOf(hs[h].kind, hs[h].seen)
    BY DEF Room, RoomOf
  <1>2. ASSUME NEW c \in hs[h].todo
        PROVE  Share(h, c) = Shares(hs[h].remaining, RoomOf(hs[h].kind, hs[h].seen), hs[h].place,
                                    hs[h].todo)[c]
    <2>1. Ahead(h, c) = Before(hs[h].place, hs[h].todo, c)
      BY DEF Ahead, Before
    <2> QED BY <1>1, <2>1 DEF Share, Shares
  <1>3. ASSUME NEW c \in Charges
        PROVE  Outcome(h, c) = Leaves(hs[h].kind, hs[h].seen, hs[h].place, hs[h].todo, hs[h].dirty,
                                      hs[h].remaining, charge)[c]
    BY <1>2 DEF Outcome, Leaves
  <1> QED BY <1>3 DEF Leaves

LEMMA ViewFree ==
    (\A h \in Handlers : hs[h].pc # "loop") =>
        Bars = Paids(charge) /\ MoneySettled = Completed \ PaymentsOf(Reading)
  <1> SUFFICES ASSUME \A h \in Handlers : hs[h].pc # "loop"
               PROVE  Bars = Paids(charge) /\ MoneySettled = Completed \ PaymentsOf(Reading)
    OBVIOUS
  <1>1. \A kinds : Looping(kinds) = {}
    BY DEF Looping
  <1>2. PaymentsOf({}) = {}
    BY DEF PaymentsOf
  <1>3. Bars = Paids(charge)
    BY <1>1 DEF Bars, Paids, PaidBar
  <1>4. MoneySettled = Completed \ PaymentsOf(Reading)
    BY <1>1, <1>2 DEF MoneySettled, Reading
  <1> QED BY <1>3, <1>4

LEMMA ViewFreeNext ==
    ((\A h \in Handlers : hs[h].pc # "loop") =>
        Bars = Paids(charge) /\ MoneySettled = Completed \ PaymentsOf(Reading))'
  BY ViewFree, PTL

LEMMA ViewLoop ==
    Solo /\ AtWork => \A h \in Handlers : hs[h].pc = "loop" =>
        /\ Bars = Leaves(hs[h].kind, hs[h].seen, hs[h].place, hs[h].todo, hs[h].dirty,
                         hs[h].remaining, charge)
        /\ MoneySettled = SettledBy(hs[h].kind, hs[h].p, Completed)
  <1> SUFFICES ASSUME Solo, AtWork, NEW h \in Handlers, hs[h].pc = "loop"
               PROVE  /\ Bars = Leaves(hs[h].kind, hs[h].seen, hs[h].place, hs[h].todo, hs[h].dirty,
                                       hs[h].remaining, charge)
                      /\ MoneySettled = SettledBy(hs[h].kind, hs[h].p, Completed)
    OBVIOUS
  <1>1. hs[h].kind \in {"succeeded", "offline", "refund"}
    BY DEF AtWork
  <1>2. \A g \in Handlers : hs[g].pc = "loop" => g = h
    BY DEF Solo
  <1>3. (CHOOSE g \in Handlers : hs[g].pc = "loop") = h
    BY <1>2
  <1>4. \A kinds : Looping(kinds) = IF hs[h].kind \in kinds THEN {h} ELSE {}
    BY <1>2 DEF Looping
  <1>5. Looping({"succeeded", "offline", "refund"}) # {}
    BY <1>1, <1>4
  <1>6. \A c \in Charges : PaidBar(c) = Outcome(h, c)
    BY <1>3, <1>5 DEF PaidBar
  <1>7. Bars = [c \in Charges |-> Outcome(h, c)]
    BY <1>6 DEF Bars
  <1>8. \A g \in Handlers : hs[g].pc # "idle" => g = h
    BY DEF Solo
  <1>9. {g \in Handlers : hs[g].kind = "succeeded" /\ hs[g].pc = "read"} = {}
    BY <1>8
  <1>10. PaymentsOf({}) = {} /\ PaymentsOf({h}) = {hs[h].p}
    BY DEF PaymentsOf
  <1>11. MoneySettled = SettledBy(hs[h].kind, hs[h].p, Completed)
    <2>1. MoneySettled = (Completed \union PaymentsOf(Looping({"offline"}))) \ PaymentsOf(Looping({"refund"}))
      BY <1>9, <1>10 DEF MoneySettled
    <2>2. CASE hs[h].kind = "offline"
      <3>1. Looping({"offline"}) = {h} /\ Looping({"refund"}) = {}
        BY <1>4, <2>2
      <3> QED BY <1>10, <2>1, <2>2, <3>1 DEF SettledBy
    <2>3. CASE hs[h].kind = "refund"
      <3>1. Looping({"offline"}) = {} /\ Looping({"refund"}) = {h}
        BY <1>4, <2>3
      <3> QED BY <1>10, <2>1, <2>3, <3>1 DEF SettledBy
    <2>4. CASE hs[h].kind = "succeeded"
      <3>1. Looping({"offline"}) = {} /\ Looping({"refund"}) = {}
        BY <1>4, <2>4
      <3> QED BY <1>10, <2>1, <2>4, <3>1 DEF SettledBy
    <2> QED BY <1>1, <2>2, <2>3, <2>4
  <1> QED BY <1>7, <1>11, OutcomeIs

LEMMA ViewLoopNext ==
    (Solo /\ AtWork => \A h \in Handlers : hs[h].pc = "loop" =>
        /\ Bars = Leaves(hs[h].kind, hs[h].seen, hs[h].place, hs[h].todo, hs[h].dirty,
                         hs[h].remaining, charge)
        /\ MoneySettled = SettledBy(hs[h].kind, hs[h].p, Completed))'
  BY ViewLoop, PTL

(* Nothing moves: no row's money, no handler, no completed payment.        *)
OutcomeOf(s, c, paid) ==
    IF c \in s.todo
    THEN IF s.kind = "refund" THEN s.seen[c].paid - Shares(s.remaining, RoomOf(s.kind, s.seen), s.place, s.todo)[c]
         ELSE s.seen[c].paid + Shares(s.remaining, RoomOf(s.kind, s.seen), s.place, s.todo)[c]
    ELSE IF c \in s.dirty THEN s.seen[c].paid ELSE paid
BarOf(H, c, paid) ==
    IF {h \in Handlers : H[h].pc = "loop" /\ H[h].kind \in {"succeeded", "offline", "refund"}} = {} THEN paid
    ELSE OutcomeOf(H[CHOOSE h \in Handlers : H[h].pc = "loop"], c, paid)

LEMMA BarIs == \A c \in Charges : PaidBar(c) = BarOf(hs, c, charge[c].paid)
  <1> SUFFICES ASSUME NEW c \in Charges PROVE PaidBar(c) = BarOf(hs, c, charge[c].paid)
    OBVIOUS
  <1> DEFINE L == {h \in Handlers : hs[h].pc = "loop" /\ hs[h].kind \in {"succeeded", "offline", "refund"}}
             g == CHOOSE h \in Handlers : hs[h].pc = "loop"
  <1>1. CASE L = {}
    BY <1>1 DEF PaidBar, BarOf, Looping
  <1>2. CASE L # {}
    <2>1. g \in Handlers
      BY <1>2
    <2>2. PaidBar(c) = Outcome(g, c)
      BY <1>2 DEF PaidBar, Looping
    <2>3. BarOf(hs, c, charge[c].paid) = OutcomeOf(hs[g], c, charge[c].paid)
      BY <1>2 DEF BarOf
    <2> HIDE DEF g
    <2>4. Outcome(g, c) = Leaves(hs[g].kind, hs[g].seen, hs[g].place, hs[g].todo, hs[g].dirty,
                                 hs[g].remaining, charge)[c]
      <3>1. Outcome(g, c) = [d \in Charges |-> Outcome(g, d)][c]
        OBVIOUS
      <3> QED BY <2>1, <3>1, OutcomeIs
    <2> QED BY <2>2, <2>3, <2>4 DEF Leaves, OutcomeOf
  <1> QED BY <1>1, <1>2

LEMMA BarNext == (\A c \in Charges : PaidBar(c) = BarOf(hs, c, charge[c].paid))'
  BY BarIs, PTL

LEMMA SameView ==
    ASSUME UNCHANGED hs, \A c \in Charges : charge'[c].paid = charge[c].paid,
           Completed' = Completed
    PROVE  UNCHANGED <<Bars, MoneySettled>>
  <1>2. \A kinds : Looping(kinds)' = Looping(kinds)
    BY DEF Looping
  <1>3. MoneySettled' = MoneySettled
    BY <1>2 DEF MoneySettled, PaymentsOf
  <1>4. \A c \in Charges : PaidBar(c)' = PaidBar(c)
    BY BarIs, BarNext
  <1> QED BY <1>3, <1>4 DEF Bars

LEMMA SameRows ==
    ASSUME \A c \in Charges : charge'[c].amount = charge[c].amount /\ charge'[c].due = charge[c].due
    PROVE  UNCHANGED <<Amounts, Dues>>
  BY DEF Amounts, Dues


-----------------------------------------------------------------------------
(* The steps, seen from the account.                                       *)

LEMMA QuietView ==
    ASSUME UNCHANGED <<charge, hs>>, Completed' = Completed
    PROVE  UNCHANGED Account!account
  <1>1. UNCHANGED <<Bars, MoneySettled>>
    BY SameView
  <1>2. UNCHANGED <<Amounts, Dues>>
    BY SameRows
  <1> QED BY <1>1, <1>2, Stutter

LEMMA NewRowView ==
    ASSUME Inv, UNCHANGED <<hs, pay>>, NEW k \in Charges, charge[k].status = "none",
           NEW a \in Nat \ {0}, NEW d \in Nat, charge' = [charge EXCEPT ![k] = NewCharge(a, d)]
    PROVE  Account!Bill(k)
  <1>1. charge \in [Charges -> Row] /\ Consistent(charge[k])
    BY DEF Inv, TypeOK, ChargeConsistent
  <1>2. charge[k].amount = 0 /\ charge[k].paid = 0
    BY <1>1 DEF Consistent, Row
  <1>3. NewCharge(a, d).amount = a /\ NewCharge(a, d).due = d /\ NewCharge(a, d).paid = 0
    BY DEF NewCharge
  <1>4. \A c \in Charges : charge'[c] = IF c = k THEN NewCharge(a, d) ELSE charge[c]
    BY <1>1
  <1>5. UNCHANGED <<Bars, MoneySettled>>
    <2>1. \A c \in Charges : charge'[c].paid = charge[c].paid
      BY <1>2, <1>3, <1>4
    <2>2. Completed' = Completed
      BY DEF Completed
    <2> QED BY <2>1, <2>2, SameView
  <1>6. Amounts[k] = 0 /\ Amounts' = [Amounts EXCEPT ![k] = a] /\ Dues' = [Dues EXCEPT ![k] = d]
    <2>1. \A c \in Charges : /\ charge'[c].amount = IF c = k THEN a ELSE charge[c].amount
                             /\ charge'[c].due = IF c = k THEN d ELSE charge[c].due
      BY <1>3, <1>4
    <2>2. Amounts[k] = 0
      BY <1>2 DEF Amounts
    <2>3. Amounts' = [Amounts EXCEPT ![k] = a]
      BY <2>1 DEF Amounts
    <2>4. Dues' = [Dues EXCEPT ![k] = d]
      BY <2>1 DEF Dues
    <2> QED BY <2>2, <2>3, <2>4
  <1>7. Amounts'[k] > 0
    BY <1>6 DEF Amounts
  <1> QED BY <1>5, <1>6, <1>7, BillStep

LEMMA PostView ==
    ASSUME Inv, NEW m \in Months, PostRent(m) \/ LateFeePost(m)
    PROVE  (\E k \in Charges : Account!Bill(k)) \/ UNCHANGED Account!account
  <1>1. <<m, "rent">> \in Charges /\ <<m, "late_fee">> \in Charges
    BY DEF Charges
  <1>2. CASE PostRent(m)
    <2>1. Midnight(now) \in Nat /\ Rent \in Nat \ {0}
      BY LedgerAssumption DEF Inv, TypeOK, Midnight
    <2>2. Account!Bill(<<m, "rent">>)
      BY <1>1, <1>2, <2>1, NewRowView DEF PostRent
    <2> QED BY <1>1, <2>2
  <1>3. CASE LateFeePost(m)
    <2>1. feeJob.date \in Nat /\ LateFee \in Nat \ {0}
      BY <1>3, LedgerAssumption DEF Inv, TypeOK, FeeJobInv, LateFeePost
    <2>2. CASE charge[<<m, "late_fee">>].status = "none"
      <3>1. Account!Bill(<<m, "late_fee">>)
        BY <1>1, <1>3, <2>1, <2>2, NewRowView DEF LateFeePost
      <3> QED BY <1>1, <3>1
    <2>3. CASE charge[<<m, "late_fee">>].status # "none"
      <3>1. UNCHANGED <<charge, hs, pay>>
        BY <1>3, <2>3 DEF LateFeePost
      <3> QED BY <3>1, QuietView DEF Completed
    <2> QED BY <2>2, <2>3
  <1> QED BY <1>2, <1>3

(* A handler starts, or has Stripe return the money.                       *)
LEMMA EnterView ==
    ASSUME Inv, Calm, Told, NEW h \in Handlers,
           \/ \E p \in Online : EventSucceeded(h, p)
           \/ \E p \in Offline : RecordOffline(h, p)
           \/ \E p \in Payments : RequestRefund(h, p)
    PROVE  UNCHANGED Account!account
  <1>1. hs \in [Handlers -> HandlerState] /\ pay \in [Payments -> PayStatus]
    BY DEF Inv, TypeOK
  <1>2. /\ Free(h) /\ UNCHANGED charge
        /\ \/ \E p \in Online : /\ Deliver(p, "succeeded") /\ pay' = [pay EXCEPT ![p] = "completed"]
                                /\ hs' = [hs EXCEPT ![h] = Fresh("succeeded", p, "read")]
           \/ /\ UNCHANGED pay
              /\ \E kind \in {"offline", "refund"} : \E p \in Payments : \E pc \in {"stripe", "read"} :
                    hs' = [hs EXCEPT ![h] = Fresh(kind, p, pc)]
    BY DEF EventSucceeded, RecordOffline, RequestRefund, Enter, Payments
  <1>3. \A g \in Handlers : hs[g].pc = "idle"
    BY <1>2, CalmWorld DEF Free
  <1>4. UNCHANGED <<Amounts, Dues>>
    BY <1>2, SameRows
  <1>5. Bars = Paids(charge) /\ MoneySettled = Completed
    <2>1. Reading = {} /\ PaymentsOf({}) = {}
      BY <1>3 DEF Reading, PaymentsOf
    <2> QED BY <1>3, <2>1, ViewFree
  <1>6. ASSUME NEW p \in Online, Deliver(p, "succeeded"), pay' = [pay EXCEPT ![p] = "completed"],
               hs' = [hs EXCEPT ![h] = Fresh("succeeded", p, "read")]
        PROVE  UNCHANGED <<Bars, MoneySettled>>
    <2>1. deliveries[<<p, "succeeded">>] = 0
      BY <1>6, DeliverCalm DEF Events
    <2>2. p \in Payments /\ p \notin Completed
      <3>1. ~(deliveries[<<p, "succeeded">>] > 0)
        BY <2>1
      <3>2. pay[p] # "completed"
        BY <3>1 DEF Told
      <3> QED BY <3>2 DEF Completed, Payments
    <2>3. Completed' = Completed \union {p}
      BY <1>1, <1>6, <2>2 DEF Completed
    <2>4. Fresh("succeeded", p, "read").kind = "succeeded" /\ Fresh("succeeded", p, "read").pc = "read"
          /\ Fresh("succeeded", p, "read").p = p
      BY DEF Fresh, Memory
    <2>5. hs'[h] = Fresh("succeeded", p, "read") /\ \A g \in Handlers \ {h} : hs'[g] = hs[g]
      BY <1>1, <1>6
    <2>6. Reading' = {h}
      BY <1>3, <2>4, <2>5 DEF Reading
    <2>7. PaymentsOf(Reading)' = {p}
      BY <2>4, <2>5, <2>6 DEF PaymentsOf
    <2>8. \A g \in Handlers : hs'[g].pc # "loop"
      BY <1>3, <2>4, <2>5
    <2>9. Bars' = Paids(charge)' /\ MoneySettled' = Completed' \ PaymentsOf(Reading)'
      BY <2>8, ViewFreeNext
    <2>10. Paids(charge)' = Paids(charge)
      BY <1>2
    <2> QED BY <1>5, <2>2, <2>3, <2>7, <2>9, <2>10
  <1>7. ASSUME NEW kind \in {"offline", "refund"}, NEW p \in Payments, NEW pc \in {"stripe", "read"},
               hs' = [hs EXCEPT ![h] = Fresh(kind, p, pc)], UNCHANGED pay
        PROVE  UNCHANGED <<Bars, MoneySettled>>
    <2>1. Fresh(kind, p, pc).kind = kind /\ Fresh(kind, p, pc).pc = pc
      BY DEF Fresh, Memory
    <2>2. hs'[h] = Fresh(kind, p, pc) /\ \A g \in Handlers \ {h} : hs'[g] = hs[g]
      BY <1>1, <1>7
    <2>3. Reading' = {} /\ PaymentsOf({}) = {}
      BY <1>3, <2>1, <2>2 DEF Reading, PaymentsOf
    <2>4. \A g \in Handlers : hs'[g].pc # "loop"
      BY <1>3, <2>1, <2>2
    <2>5. Bars' = Paids(charge)' /\ MoneySettled' = Completed' \ PaymentsOf(Reading)'
      BY <2>4, ViewFreeNext
    <2>6. PaymentsOf(Reading)' = {}
      BY <2>3 DEF PaymentsOf
    <2>7. Paids(charge)' = Paids(charge) /\ Completed' = Completed
      BY <1>2, <1>7 DEF Completed
    <2> QED BY <1>5, <2>5, <2>6, <2>7
  <1> QED BY <1>2, <1>4, <1>6, <1>7, Stutter

LEMMA StripeRefundView ==
    ASSUME Inv, AtWork, Solo, NEW h \in Handlers, StripeRefund(h)
    PROVE  UNCHANGED Account!account
  <1>1. hs \in [Handlers -> HandlerState]
    BY DEF Inv, TypeOK
  <1>2. /\ hs[h].pc = "stripe" /\ UNCHANGED <<charge, pay>>
        /\ \/ hs' = [hs EXCEPT ![h] = Idle]
           \/ hs' = [hs EXCEPT ![h] = Fresh("refund", hs[h].p, "read")]
    BY DEF StripeRefund, Enter
  <1>3. \A g \in Handlers \ {h} : hs[g].pc = "idle"
    BY <1>2 DEF Solo
  <1>4. Fresh("refund", hs[h].p, "read").kind = "refund" /\ Fresh("refund", hs[h].p, "read").pc = "read"
    BY DEF Fresh, Memory
  <1>5. hs'[h].pc # "loop" /\ ~(hs'[h].pc = "read" /\ hs'[h].kind = "succeeded")
    BY <1>1, <1>2, <1>4, IdleOK
  <1>6. \A g \in Handlers \ {h} : hs'[g] = hs[g]
    BY <1>1, <1>2
  <1>7. Reading = {} /\ Reading' = {} /\ PaymentsOf({}) = {}
    BY <1>2, <1>3, <1>5, <1>6 DEF Reading, PaymentsOf
  <1>8. Bars = Paids(charge) /\ MoneySettled = Completed
    BY <1>2, <1>3, <1>7, ViewFree
  <1>9. Bars' = Paids(charge)' /\ MoneySettled' = Completed'
    <2>1. \A g \in Handlers : hs'[g].pc # "loop"
      BY <1>3, <1>5, <1>6
    <2>2. Bars' = Paids(charge)' /\ MoneySettled' = Completed' \ PaymentsOf(Reading)'
      BY <2>1, ViewFreeNext
    <2>3. PaymentsOf(Reading)' = {}
      BY <1>7 DEF PaymentsOf
    <2> QED BY <2>2, <2>3
  <1>10. Paids(charge)' = Paids(charge) /\ Completed' = Completed
    BY <1>2 DEF Completed
  <1>11. UNCHANGED <<Amounts, Dues>>
    BY <1>2, SameRows
  <1> QED BY <1>8, <1>9, <1>10, <1>11, Stutter


(* The read is where a payment or a refund takes effect.                   *)
LEMMA ReadRoom ==
    ASSUME Inv, NEW kind, NEW c \in Charges
    PROVE  /\ RoomOf(kind, charge)[c] \in Nat /\ charge[c].paid \in Nat /\ charge[c].amount \in Nat
           /\ charge[c].paid <= charge[c].amount
           /\ kind = "refund" => /\ RoomOf(kind, charge)[c] = charge[c].paid
                                 /\ c \notin Credited => charge[c].paid = 0
           /\ kind # "refund" => /\ RoomOf(kind, charge)[c] = charge[c].amount - charge[c].paid
                                 /\ c \notin Outstanding => charge[c].amount = charge[c].paid
  <1>1. charge[c] \in Row /\ Consistent(charge[c])
    BY DEF Inv, TypeOK, ChargeConsistent
  <1>2. RoomOf(kind, charge)[c] = IF kind = "refund" THEN charge[c].paid ELSE charge[c].amount - charge[c].paid
    BY DEF RoomOf
  <1>3. /\ charge[c].paid \in Nat /\ charge[c].amount \in Nat /\ charge[c].paid <= charge[c].amount
        /\ charge[c].status \in {"none", "unpaid", "partial", "paid"}
        /\ charge[c].status = "none" => charge[c].amount = 0
        /\ charge[c].status # "none" => /\ charge[c].status = "paid" <=> charge[c].paid = charge[c].amount
                                        /\ charge[c].status = "unpaid" <=> charge[c].paid = 0
    BY <1>1 DEF Consistent, Row
  <1>4. c \notin Credited => charge[c].paid = 0
    BY <1>3 DEF Credited
  <1>5. c \notin Outstanding => charge[c].amount = charge[c].paid
    BY <1>3 DEF Outstanding
  <1> QED BY <1>2, <1>3, <1>4, <1>5

LEMMA ReadView ==
    ASSUME Inv, FifoInv, Calm, AtWork, (Solo /\ AtWork)', NEW h \in Handlers, ReadCharges(h)
    PROVE  \E p \in Payments : Account!Credit(p) \/ Account!TakeBack(p)
  <1> DEFINE kind == hs[h].kind
             p == hs[h].p
             S == IF kind = "refund" THEN Credited ELSE Outstanding
             m == Amount[p]
             room == RoomOf(kind, charge)
  <1>1. PICK place \in Places : Loop(h, charge, place, S, {}, m) /\ Sorted(kind, charge, place, S)
    BY ReadList
  <1> DEFINE deal == Dealt(m, room, place, S)
  <1>2. hs[h].pc = "read" /\ UNCHANGED <<charge, pay>>
    BY DEF ReadCharges
  <1>3. p \in Payments /\ m \in Nat /\ S \in SUBSET Charges
    BY <1>2, LedgerAssumption DEF Inv, HandlerInv, Credited, Outstanding
  <1>4. /\ kind \in {"succeeded", "offline", "refund"}
        /\ kind = "succeeded" => p \in Completed
        /\ kind = "offline" => p \notin Completed
        /\ kind = "refund" => p \in Completed
    <2>1. \A q \in Payments : q \in Completed <=> pay[q] = "completed"
      BY DEF Completed
    <2> HIDE DEF S, m, room
    <2> QED BY <1>2, <1>3, <2>1 DEF AtWork
  <1>5. \A g \in Handlers \ {h} : hs[g].pc = "idle"
    BY <1>2, CalmWorld DEF FifoInv, Solo
  <1>6. Bars = Paids(charge) /\ MoneySettled = IF kind = "succeeded" THEN Completed \ {p} ELSE Completed
    <2>1. \A g \in Handlers : hs[g].pc # "loop"
      BY <1>2, <1>5
    <2>2. Bars = Paids(charge) /\ MoneySettled = Completed \ PaymentsOf(Reading)
      BY <2>1, ViewFree
    <2>3. Reading = IF kind = "succeeded" THEN {h} ELSE {}
      BY <1>2, <1>5 DEF Reading
    <2>4. PaymentsOf({}) = {} /\ PaymentsOf({h}) = {p}
      BY DEF PaymentsOf
    <2> QED BY <2>2, <2>3, <2>4
  <1>7. /\ Bars' = Leaves(kind, charge, place, S, {}, m, charge)
        /\ MoneySettled' = SettledBy(kind, p, Completed)
    <2>1. /\ hs'[h].kind = kind /\ hs'[h].pc = "loop" /\ hs'[h].seen = charge /\ hs'[h].todo = S
          /\ hs'[h].dirty = {} /\ hs'[h].remaining = m /\ hs'[h].p = p /\ hs'[h].place = place
      <3> HIDE DEF S, m, room
      <3> QED BY <1>1, Looped
    <2>2. /\ Bars' = Leaves(hs'[h].kind, hs'[h].seen, hs'[h].place, hs'[h].todo, hs'[h].dirty,
                            hs'[h].remaining, charge')
          /\ MoneySettled' = SettledBy(hs'[h].kind, hs'[h].p, Completed')
      BY <2>1, ViewLoopNext
    <2>3. Completed' = Completed
      BY <1>2 DEF Completed
    <2> HIDE DEF S, m, room
    <2> QED BY <1>2, <2>1, <2>2, <2>3
  <1>8. \A c \in Charges : /\ charge[c].paid \in Nat /\ charge[c].amount \in Nat /\ room[c] \in Nat
                           /\ charge[c].paid <= charge[c].amount
                           /\ room[c] = IF kind = "refund" THEN charge[c].paid
                                        ELSE charge[c].amount - charge[c].paid
                           /\ c \notin S => room[c] = 0
    <2> SUFFICES ASSUME NEW c \in Charges
                 PROVE  /\ charge[c].paid \in Nat /\ charge[c].amount \in Nat /\ room[c] \in Nat
                        /\ charge[c].paid <= charge[c].amount
                        /\ room[c] = IF kind = "refund" THEN charge[c].paid
                                     ELSE charge[c].amount - charge[c].paid
                        /\ c \notin S => room[c] = 0
      OBVIOUS
    <2>1. CASE kind = "refund"
      <3>1. room[c] = charge[c].paid /\ (c \notin Credited => charge[c].paid = 0)
        BY <2>1, ReadRoom
      <3> HIDE DEF room
      <3> QED BY <2>1, <3>1, ReadRoom
    <2>2. CASE kind # "refund"
      <3>1. /\ room[c] = charge[c].amount - charge[c].paid
            /\ c \notin Outstanding => charge[c].amount = charge[c].paid
            /\ charge[c].paid \in Nat /\ charge[c].amount \in Nat /\ charge[c].paid <= charge[c].amount
        BY <2>2, ReadRoom
      <3> HIDE DEF room
      <3> QED BY <2>2, <3>1
    <2> QED BY <2>1, <2>2
  <1>9. /\ \A c \in S : place[c] \in Nat
        /\ \A c, d \in S : /\ place[c] = place[d] => c = d
                           /\ kind = "refund" => (charge[c].due > charge[d].due => place[c] < place[d])
                           /\ kind # "refund" => (charge[c].due < charge[d].due => place[c] < place[d])
    <2> HIDE DEF S, kind
    <2> QED BY <1>1 DEF Sorted
  <1> HIDE DEF kind, p, S, m, room
  <1>10. /\ \A c \in Charges : deal[c] \in Nat /\ deal[c] <= room[c]
         /\ SumOf(deal, Charges) = Min({m, SumOf(room, Charges)})
         /\ \A c, e \in S : place[e] < place[c] /\ deal[c] > 0 => deal[e] = room[e]
    <2>1. \A c \in Charges \ S : room[c] = 0
      BY <1>8
    <2>2. \A c \in Charges : room[c] \in Nat
      BY <1>8
    <2>3. (\A c \in S : place[c] \in Nat) /\ (\A c, d \in S : place[c] = place[d] => c = d)
      BY <1>9
    <2> QED BY <1>3, <2>1, <2>2, <2>3, ListShares
  <1>11. \A c \in Charges : deal[c] = IF c \in S THEN Shares(m, room, place, S)[c] ELSE 0
    BY DEF Dealt
  <1> HIDE DEF deal
  <1>12. \A c \in Charges : /\ Bars[c] = charge[c].paid /\ Amounts[c] = charge[c].amount
                            /\ Dues[c] = charge[c].due
                            /\ Bars'[c] = IF kind = "refund" THEN charge[c].paid - deal[c]
                                          ELSE charge[c].paid + deal[c]
    <2>1. \A c \in Charges : Bars'[c] = IF c \in S
                                 THEN IF kind = "refund" THEN charge[c].paid - Shares(m, room, place, S)[c]
                                      ELSE charge[c].paid + Shares(m, room, place, S)[c]
                                 ELSE charge[c].paid
      BY <1>7 DEF Leaves, room
    <2>2. \A c \in Charges : Bars[c] = charge[c].paid
      BY <1>6 DEF Paids
    <2>3. \A c \in Charges : Amounts[c] = charge[c].amount /\ Dues[c] = charge[c].due
      BY DEF Amounts, Dues
    <2>4. \A c \in Charges \ S : deal[c] = 0
      BY <1>11
    <2>5. \A c \in S : deal[c] = Shares(m, room, place, S)[c]
      BY <1>3, <1>11
    <2> QED BY <1>8, <2>1, <2>2, <2>3, <2>4, <2>5
  <1>13. UNCHANGED <<Amounts, Dues>>
    BY <1>2, SameRows
  <1>14. IsFiniteSet(Charges)
    BY ChargesFinite
  <1>15. CASE kind = "refund"
    <2>1. p \in MoneySettled /\ MoneySettled' = MoneySettled \ {p}
      BY <1>4, <1>6, <1>7, <1>15 DEF SettledBy
    <2>2. \A c \in Charges : 0 <= Bars'[c] /\ Bars'[c] <= Bars[c]
      BY <1>8, <1>10, <1>12, <1>15
    <2>3. SumOf(Bars, Charges) - SumOf(Bars', Charges) = Min({Amount[p], SumOf(Bars, Charges)})
      <3>1. \A c \in Charges : Bars[c] \in Int /\ Bars'[c] \in Int /\ deal[c] \in Int
        BY <1>8, <1>10, <1>12, <1>15
      <3>2. \A c \in Charges : Bars[c] = Bars'[c] + deal[c]
        BY <1>8, <1>10, <1>12, <1>15
      <3>3. SumOf(Bars, Charges) = SumOf(Bars', Charges) + SumOf(deal, Charges)
        BY <1>14, <3>1, <3>2, SumOfPlus
      <3>4. \A c \in Charges : room[c] \in Int /\ room[c] = Bars[c]
        BY <1>8, <1>12, <1>15
      <3>5. SumOf(room, Charges) = SumOf(Bars, Charges)
        BY <1>14, <3>1, <3>4, SumOfSame
      <3>6. SumOf(Bars', Charges) \in Int /\ SumOf(deal, Charges) \in Int
        BY <1>14, <3>1, SumOfInt
      <3>7. SumOf(Bars, Charges) - SumOf(Bars', Charges) = Min({m, SumOf(Bars, Charges)})
        <4>1. SumOf(Bars, Charges) - SumOf(Bars', Charges) = SumOf(deal, Charges)
          BY <3>3, <3>6
        <4> QED BY <1>10, <3>5, <4>1
      <3> QED BY <3>7 DEF m
    <2>4. ASSUME NEW c \in Charges, NEW d \in Charges, Dues[c] < Dues[d], Bars'[c] < Bars[c]
          PROVE  Bars'[d] = 0
      <3>1. deal[c] > 0 /\ c \in S
        BY <1>8, <1>10, <1>11, <1>12, <1>15, <2>4
      <3>2. CASE d \in S
        <4>1. charge[c].due \in Nat /\ charge[d].due \in Nat
          BY DEF Inv, TypeOK, Row
        <4>2. place[d] < place[c]
          BY <1>9, <1>12, <1>15, <2>4, <3>1, <3>2, <4>1
        <4>3. deal[d] = room[d]
          BY <1>10, <3>1, <3>2, <4>2
        <4> QED BY <1>8, <1>12, <1>15, <4>3
      <3>3. CASE d \notin S
        <4>1. room[d] = 0 /\ deal[d] = 0
          BY <1>8, <1>11, <3>3
        <4> QED BY <1>8, <1>12, <1>15, <4>1
      <3> QED BY <3>2, <3>3
    <2>5. Account!TakeBack(p)
      BY <1>13, <2>1, <2>2, <2>3, <2>4, TakeBackStep
    <2> QED BY <1>3, <2>5
  <1>16. CASE kind # "refund"
    <2>1. p \notin MoneySettled /\ MoneySettled' = MoneySettled \union {p}
      BY <1>4, <1>6, <1>7, <1>16 DEF SettledBy
    <2>2. \A c \in Charges : Bars[c] <= Bars'[c] /\ Bars'[c] <= Amounts[c]
      <3> SUFFICES ASSUME NEW c \in Charges PROVE Bars[c] <= Bars'[c] /\ Bars'[c] <= Amounts[c]
        OBVIOUS
      <3>1. deal[c] \in Nat /\ deal[c] <= room[c]
        BY <1>10
      <3>2. room[c] = charge[c].amount - charge[c].paid /\ charge[c].amount \in Nat /\ charge[c].paid \in Nat
        BY <1>8, <1>16
      <3>3. Bars'[c] = charge[c].paid + deal[c] /\ Bars[c] = charge[c].paid /\ Amounts[c] = charge[c].amount
        BY <1>12, <1>16
      <3> QED BY <3>1, <3>2, <3>3
    <2>3. SumOf(Bars', Charges) - SumOf(Bars, Charges)
            = Min({Amount[p], SumOf([c \in Charges |-> Amounts[c] - Bars[c]], Charges)})
      <3>1. \A c \in Charges : Bars[c] \in Int /\ Bars'[c] \in Int /\ deal[c] \in Int
        BY <1>8, <1>10, <1>12, <1>16
      <3>2. \A c \in Charges : Bars'[c] = Bars[c] + deal[c]
        BY <1>8, <1>10, <1>12, <1>16
      <3>3. SumOf(Bars', Charges) = SumOf(Bars, Charges) + SumOf(deal, Charges)
        BY <1>14, <3>1, <3>2, SumOfPlus
      <3> DEFINE owed == [c \in Charges |-> Amounts[c] - Bars[c]]
      <3>4. \A c \in Charges : room[c] \in Int /\ room[c] = owed[c] /\ owed[c] \in Int
        BY <1>8, <1>12, <1>16
      <3> HIDE DEF owed
      <3>5. SumOf(room, Charges) = SumOf(owed, Charges)
        BY <1>14, <3>4, SumOfSame
      <3>6. SumOf(Bars, Charges) \in Int /\ SumOf(deal, Charges) \in Int
        BY <1>14, <3>1, SumOfInt
      <3>7. SumOf(Bars', Charges) - SumOf(Bars, Charges) = Min({m, SumOf(owed, Charges)})
        BY <1>10, <3>3, <3>5, <3>6
      <3> QED BY <3>7 DEF m, owed
    <2>4. ASSUME NEW c \in Charges, NEW d \in Charges, Dues[d] < Dues[c], Bars'[c] > Bars[c]
          PROVE  Bars'[d] = Amounts[d]
      <3>1. deal[c] > 0 /\ c \in S
        BY <1>8, <1>10, <1>11, <1>12, <1>16, <2>4
      <3>2. CASE d \in S
        <4>2. place[d] < place[c]
          BY <1>9, <1>12, <1>16, <2>4, <3>1, <3>2
        <4>3. deal[d] = room[d]
          BY <1>10, <3>1, <3>2, <4>2
        <4> QED BY <1>8, <1>12, <1>16, <4>3
      <3>3. CASE d \notin S
        <4>1. room[d] = 0 /\ deal[d] = 0
          BY <1>8, <1>11, <3>3
        <4> QED BY <1>8, <1>12, <1>16, <4>1
      <3> QED BY <3>2, <3>3
    <2>5. Account!Credit(p)
      BY <1>13, <2>1, <2>2, <2>3, <2>4, CreditStep
    <2> QED BY <1>3, <2>5
  <1> QED BY <1>15, <1>16


(* A turn of the loop: what it moves is the share its row had coming.      *)
Turned(S, place, kind, seen, dirty, found, m, c, seen2, dirty2, rows2, x) ==
    /\ S \in SUBSET Charges /\ m \in Nat /\ c \in S /\ x \in Nat
    /\ \A e \in S : /\ place[e] \in Nat /\ place[c] <= place[e]
                    /\ seen[e].paid \in Nat /\ seen[e].amount \in Nat /\ seen[e].paid <= seen[e].amount
    /\ \A e, d \in S : place[e] = place[d] => e = d
    /\ x = Lesser(m, RoomOf(kind, seen)[c])
    /\ \A e \in Charges \ {c} : /\ seen2[e] = seen[e] /\ rows2[e] = found[e]
                                /\ e \in dirty2 <=> e \in dirty
    /\ (IF c \in dirty2 THEN seen2[c].paid ELSE rows2[c].paid)
          = IF kind = "refund" THEN seen[c].paid - x ELSE seen[c].paid + x

LEMMA TurnLeaves ==
    ASSUME NEW S, NEW place, NEW kind, NEW seen, NEW dirty, NEW found, NEW m, NEW c,
           NEW seen2, NEW dirty2, NEW rows2, NEW x,
           Turned(S, place, kind, seen, dirty, found, m, c, seen2, dirty2, rows2, x)
    PROVE  Leaves(kind, seen2, place, S \ {c}, dirty2, m - x, rows2)
              = Leaves(kind, seen, place, S, dirty, m, found)
  <1>0. /\ S \in SUBSET Charges /\ m \in Nat /\ c \in S /\ x \in Nat
        /\ \A e \in S : /\ place[e] \in Nat /\ place[c] <= place[e]
                        /\ seen[e].paid \in Nat /\ seen[e].amount \in Nat /\ seen[e].paid <= seen[e].amount
        /\ \A e, d \in S : place[e] = place[d] => e = d
        /\ x = Lesser(m, RoomOf(kind, seen)[c])
        /\ \A e \in Charges \ {c} : /\ seen2[e] = seen[e] /\ rows2[e] = found[e]
                                    /\ e \in dirty2 <=> e \in dirty
        /\ (IF c \in dirty2 THEN seen2[c].paid ELSE rows2[c].paid)
              = IF kind = "refund" THEN seen[c].paid - x ELSE seen[c].paid + x
    BY DEF Turned
  <1>9. S \in SUBSET Charges /\ c \in S
    BY <1>0
  <1>10. ASSUME NEW e \in Charges, e # c
         PROVE  seen2[e] = seen[e] /\ rows2[e] = found[e] /\ (e \in dirty2 <=> e \in dirty)
    <2>1. e \in Charges \ {c}
      BY <1>10
    <2>2. \A d \in Charges \ {c} : /\ seen2[d] = seen[d] /\ rows2[d] = found[d]
                                   /\ d \in dirty2 <=> d \in dirty
      BY <1>0
    <2> QED BY <2>1, <2>2
  <1> DEFINE room == RoomOf(kind, seen)
             rest == RoomOf(kind, seen2)
  <1>1. \A e \in S : room[e] \in Nat
    BY <1>0 DEF RoomOf
  <1>2. \A e \in S \ {c} : rest[e] = room[e]
    <2>1. \A e \in S \ {c} : e \in Charges /\ seen2[e] = seen[e]
      BY <1>9, <1>10
    <2> QED BY <2>1 DEF RoomOf
  <1>3. x = IF m <= room[c] THEN m ELSE room[c]
    BY <1>0 DEF Lesser
  <1> HIDE DEF room, rest
  <1>4. /\ Shares(m, room, place, S)[c] = x
        /\ \A e \in S \ {c} : Shares(m - x, rest, place, S \ {c})[e] = Shares(m, room, place, S)[e]
    <2>1. TurnOf(S, room, m, place, c, rest, x)
      BY <1>0, <1>1, <1>2, <1>3 DEF TurnOf
    <2> QED BY <2>1, TurnShares
  <1>5. \A e \in Charges : Leaves(kind, seen, place, S, dirty, m, found)[e]
                              = IF e \in S
                                THEN IF kind = "refund" THEN seen[e].paid - Shares(m, room, place, S)[e]
                                     ELSE seen[e].paid + Shares(m, room, place, S)[e]
                                ELSE IF e \in dirty THEN seen[e].paid ELSE found[e].paid
    BY DEF Leaves, room
  <1>6. \A e \in Charges : Leaves(kind, seen2, place, S \ {c}, dirty2, m - x, rows2)[e]
                              = IF e \in S \ {c}
                                THEN IF kind = "refund"
                                     THEN seen2[e].paid - Shares(m - x, rest, place, S \ {c})[e]
                                     ELSE seen2[e].paid + Shares(m - x, rest, place, S \ {c})[e]
                                ELSE IF e \in dirty2 THEN seen2[e].paid ELSE rows2[e].paid
    BY DEF Leaves, rest
  <1>7. ASSUME NEW e \in Charges
        PROVE  Leaves(kind, seen2, place, S \ {c}, dirty2, m - x, rows2)[e]
                 = Leaves(kind, seen, place, S, dirty, m, found)[e]
    <2>1. CASE e = c
      <3>1. e \in S /\ e \notin S \ {c}
        BY <1>0, <2>1
      <3>2. Leaves(kind, seen, place, S, dirty, m, found)[e]
               = IF kind = "refund" THEN seen[c].paid - x ELSE seen[c].paid + x
        BY <1>4, <1>5, <2>1, <3>1
      <3>3. Leaves(kind, seen2, place, S \ {c}, dirty2, m - x, rows2)[e]
               = IF c \in dirty2 THEN seen2[c].paid ELSE rows2[c].paid
        BY <1>6, <2>1, <3>1
      <3> QED BY <1>0, <3>2, <3>3
    <2>2. CASE e # c /\ e \in S
      <3>1. /\ e \in S \ {c} /\ seen2[e] = seen[e]
            /\ Shares(m - x, rest, place, S \ {c})[e] = Shares(m, room, place, S)[e]
        BY <1>4, <1>10, <2>2
      <3> QED BY <1>5, <1>6, <2>2, <3>1
    <2>3. CASE e \notin S
      <3>1. e \notin S \ {c} /\ seen2[e] = seen[e] /\ rows2[e] = found[e] /\ (e \in dirty2 <=> e \in dirty)
        BY <1>9, <1>10, <2>3
      <3> QED BY <1>5, <1>6, <2>3, <3>1
    <2> QED BY <2>1, <2>2, <2>3
  <1> QED BY <1>7 DEF Leaves

LEMMA TurnView ==
    ASSUME Inv, FifoInv, Calm, AtWork, (Solo /\ AtWork)', NEW h \in Handlers, NEW c \in Charges,
           WebhookApply(h, c) \/ OfflineApply(h, c) \/ RefundReverse(h, c)
    PROVE  UNCHANGED Account!account
  <1> DEFINE s == hs[h]
             r == s.seen[c]
             x == Lesser(s.remaining, RoomOf(s.kind, s.seen)[c])
             t == hs'[h]
  <1>1. Working(h) /\ First(h, c) /\ c \in hs[h].todo /\ UNCHANGED pay
    BY DEF WebhookApply, OfflineApply, RefundReverse, TxVisit, First
  <1>2. hs[h].pc = "loop" /\ LoopOK(h) /\ Solo
    BY <1>1, CalmWorld DEF Working, FifoInv, Looks
  <1>3. /\ hs[h].remaining \in Nat \ {0} /\ hs[h].seen \in [Charges -> Row]
        /\ hs[h].todo \in SUBSET Charges /\ hs[h].dirty \in SUBSET Charges
        /\ hs \in [Handlers -> HandlerState] /\ charge \in [Charges -> Row]
    BY <1>1, WorkingFacts DEF Inv, TypeOK, HandlerState
  <1>4. \A e \in hs[h].todo : /\ hs[h].seen[e].paid \in Nat /\ hs[h].seen[e].amount \in Nat
                              /\ hs[h].seen[e].paid <= hs[h].seen[e].amount
    BY <1>3 DEF Inv, HandlerInv, Consistent, Row
  <1>5. RoomOf(hs[h].kind, hs[h].seen)[c] = IF hs[h].kind = "refund" THEN r.paid ELSE r.amount - r.paid
    BY DEF RoomOf
  <1>6. x \in Nat
    BY <1>1, <1>3, <1>4, <1>5 DEF Lesser
  <1>7. /\ hs[h].kind # "refund" => Apply(r, hs[h].remaining).paid = r.paid + x
        /\ hs[h].kind = "refund" => Reverse(r, hs[h].remaining).paid = r.paid - x
    <2>1. hs[h].kind # "refund" => Apply(r, hs[h].remaining).paid = r.paid + x
      BY <1>5 DEF Apply, Allocated
    <2>2. hs[h].kind = "refund" => Reverse(r, hs[h].remaining).paid = r.paid - Lesser(r.paid, hs[h].remaining)
      BY DEF Reverse, Allocated
    <2>3. hs[h].kind = "refund" => Lesser(r.paid, hs[h].remaining) = x
      BY <1>1, <1>3, <1>4, <1>5 DEF Lesser
    <2> QED BY <2>1, <2>2, <2>3
  <1>8. /\ t.kind = s.kind /\ t.p = s.p /\ t.pc = "loop" /\ t.place = s.place
        /\ t.todo = s.todo \ {c} /\ t.remaining = s.remaining - x
        /\ \A e \in Charges \ {c} : /\ t.seen[e] = s.seen[e] /\ charge'[e] = charge[e]
                                    /\ e \in t.dirty <=> e \in s.dirty
        /\ charge'[c].amount = charge[c].amount /\ charge'[c].due = charge[c].due
        /\ (IF c \in t.dirty THEN t.seen[c].paid ELSE charge'[c].paid)
              = IF s.kind = "refund" THEN r.paid - x ELSE r.paid + x
    <2>1. CASE WebhookApply(h, c)
      <3> DEFINE new == Apply(r, hs[h].remaining)
      <3>1. /\ hs[h].kind = "succeeded" /\ charge' = [charge EXCEPT ![c] = Written(charge[c], new)]
            /\ Loop(h, hs[h].seen, hs[h].place, hs[h].todo \ {c}, {}, hs[h].remaining - (new.paid - r.paid))
        BY <2>1 DEF WebhookApply
      <3>2. new.paid = r.paid + x /\ r.paid \in Nat
        BY <1>1, <1>4, <1>7, <3>1
      <3> HIDE DEF new, x
      <3>3. /\ Written(charge[c], new).amount = charge[c].amount
            /\ Written(charge[c], new).due = charge[c].due /\ Written(charge[c], new).paid = new.paid
        BY DEF Written, Allocated
      <3>4. /\ t.kind = s.kind /\ t.p = s.p /\ t.pc = "loop" /\ t.place = s.place /\ t.seen = s.seen
            /\ t.todo = s.todo \ {c} /\ t.dirty = {} /\ t.remaining = s.remaining - (new.paid - r.paid)
        BY <3>1, Looped
      <3>5. s.dirty = {}
        BY <1>2, <3>1 DEF LoopOK
      <3>6. new.paid - r.paid = x
        BY <1>6, <3>2
      <3>7. charge'[c] = Written(charge[c], new) /\ \A e \in Charges \ {c} : charge'[e] = charge[e]
        BY <1>3, <3>1
      <3> HIDE DEF r, s, t
      <3> QED BY <1>6, <3>1, <3>2, <3>3, <3>4, <3>5, <3>6, <3>7 DEF s
    <2>2. ASSUME NEW new, NEW moved, TxVisit(h, c, new, moved), moved = x,
                 new.paid = IF hs[h].kind = "refund" THEN r.paid - x ELSE r.paid + x
          PROVE  /\ t.kind = s.kind /\ t.p = s.p /\ t.pc = "loop" /\ t.place = s.place
                 /\ t.todo = s.todo \ {c} /\ t.remaining = s.remaining - x
                 /\ \A e \in Charges \ {c} : /\ t.seen[e] = s.seen[e] /\ charge'[e] = charge[e]
                                             /\ e \in t.dirty <=> e \in s.dirty
                 /\ charge'[c].amount = charge[c].amount /\ charge'[c].due = charge[c].due
                 /\ (IF c \in t.dirty THEN t.seen[c].paid ELSE charge'[c].paid)
                       = IF s.kind = "refund" THEN r.paid - x ELSE r.paid + x
      <3>1. /\ Loop(h, [hs[h].seen EXCEPT ![c] = new], hs[h].place, hs[h].todo \ {c},
                    hs[h].dirty \union {c}, hs[h].remaining - moved)
            /\ UNCHANGED charge
        BY <2>2 DEF TxVisit
      <3> HIDE DEF x
      <3>2. /\ t.kind = s.kind /\ t.p = s.p /\ t.pc = "loop" /\ t.place = s.place
            /\ t.seen = [s.seen EXCEPT ![c] = new] /\ t.todo = s.todo \ {c}
            /\ t.dirty = s.dirty \union {c} /\ t.remaining = s.remaining - moved
        BY <3>1, Looped
      <3>3. t.seen[c] = new /\ \A e \in Charges \ {c} : t.seen[e] = s.seen[e]
        BY <1>3, <3>2
      <3> HIDE DEF r, t
      <3> QED BY <2>2, <3>1, <3>2, <3>3
    <2>3. CASE OfflineApply(h, c)
      <3> DEFINE new == Apply(r, hs[h].remaining)
      <3>1. hs[h].kind = "offline" /\ TxVisit(h, c, new, new.paid - r.paid)
        BY <2>3 DEF OfflineApply
      <3>2. new.paid = r.paid + x /\ r.paid \in Nat
        BY <1>1, <1>4, <1>7, <3>1
      <3> HIDE DEF new, x
      <3>3. new.paid - r.paid = x
        BY <1>6, <3>2
      <3> QED BY <2>2, <3>1, <3>2, <3>3
    <2>4. CASE RefundReverse(h, c)
      <3> DEFINE new == Reverse(r, hs[h].remaining)
      <3>1. hs[h].kind = "refund" /\ TxVisit(h, c, new, r.paid - new.paid)
        BY <2>4 DEF RefundReverse
      <3>2. new.paid = r.paid - x /\ r.paid \in Nat
        BY <1>1, <1>4, <1>7, <3>1
      <3> HIDE DEF new, x
      <3>3. r.paid - new.paid = x
        BY <1>6, <3>2
      <3> QED BY <2>2, <3>1, <3>2, <3>3
    <2> QED BY <2>1, <2>3, <2>4
  <1>9. Leaves(t.kind, t.seen, t.place, t.todo, t.dirty, t.remaining, charge')
          = Leaves(s.kind, s.seen, s.place, s.todo, s.dirty, s.remaining, charge)
    <2>1. \A e, d \in s.todo : s.place[e] \in Nat /\ (s.place[e] = s.place[d] => e = d)
      BY <1>2 DEF LoopOK, Sorted
    <2>2. \A e \in s.todo : s.place[c] <= s.place[e]
      BY <1>1 DEF First
    <2>3. s.todo \in SUBSET Charges /\ s.remaining \in Nat /\ c \in s.todo
      BY <1>1, <1>3
    <2>4. \A e \in s.todo : s.place[e] \in Nat
      BY <2>1
    <2>5. \A e, d \in s.todo : s.place[e] = s.place[d] => e = d
      BY <2>1
    <2>6. Leaves(s.kind, t.seen, s.place, s.todo \ {c}, t.dirty, s.remaining - x, charge')
            = Leaves(s.kind, s.seen, s.place, s.todo, s.dirty, s.remaining, charge)
      <3>1. x = Lesser(s.remaining, RoomOf(s.kind, s.seen)[c])
        OBVIOUS
      <3> HIDE DEF t, x
      <3>2. Turned(s.todo, s.place, s.kind, s.seen, s.dirty, charge, s.remaining, c,
                   t.seen, t.dirty, charge', x)
        BY <1>4, <1>6, <1>8, <2>2, <2>3, <2>4, <2>5, <3>1 DEF Turned
      <3> QED BY <3>2, TurnLeaves
    <2> HIDE DEF s, t, x
    <2> QED BY <1>8, <2>6
  <1>10. UNCHANGED <<Amounts, Dues>>
    <2>1. \A e \in Charges : charge'[e].amount = charge[e].amount /\ charge'[e].due = charge[e].due
      BY <1>8
    <2> QED BY <2>1, SameRows
  <1>11. Bars' = Bars
    <2>1. Bars = Leaves(s.kind, s.seen, s.place, s.todo, s.dirty, s.remaining, charge)
      BY <1>2, ViewLoop
    <2>2. Bars' = Leaves(t.kind, t.seen, t.place, t.todo, t.dirty, t.remaining, charge')
      BY <1>8, ViewLoopNext
    <2> QED BY <1>9, <2>1, <2>2
  <1>12. MoneySettled' = MoneySettled
    <2>1. MoneySettled = SettledBy(s.kind, s.p, Completed)
      BY <1>2, ViewLoop
    <2>2. MoneySettled' = SettledBy(t.kind, t.p, Completed')
      BY <1>8, ViewLoopNext
    <2>3. Completed' = Completed
      BY <1>1 DEF Completed
    <2> QED BY <1>8, <2>1, <2>2, <2>3
  <1> QED BY <1>10, <1>11, <1>12, Stutter


(* The loop is over: what it meant to leave is what it has left, and the   *)
(* commit publishes it.                                                    *)
LEMMA NothingLeft ==
    ASSUME Inv, NEW h \in Handlers, LoopOver(h), NEW c \in hs[h].todo
    PROVE  Shares(hs[h].remaining, RoomOf(hs[h].kind, hs[h].seen), hs[h].place, hs[h].todo)[c] = 0
  <1> DEFINE s == hs[h]
             room == RoomOf(s.kind, s.seen)
             B == Before(s.place, s.todo, c)
  <1>1. s.remaining \in Int /\ s.todo \in SUBSET Charges /\ s.seen \in [Charges -> Row]
    BY DEF Inv, TypeOK, HandlerState
  <1>2. ~(s.remaining > 0)
    BY DEF LoopOver, Working
  <1>3. ASSUME NEW e \in s.todo PROVE room[e] \in Nat
    <2>1. e \in Charges /\ s.seen[e].paid \in Nat /\ s.seen[e].amount \in Nat
          /\ s.seen[e].paid <= s.seen[e].amount
      BY <1>1 DEF Inv, HandlerInv, Consistent, Row
    <2>2. room[e] = IF s.kind = "refund" THEN s.seen[e].paid ELSE s.seen[e].amount - s.seen[e].paid
      BY <2>1 DEF RoomOf
    <2> HIDE DEF s, room
    <2> QED BY <2>1, <2>2
  <1>4. SumOf(room, B) \in Nat
    <2>1. IsFiniteSet(s.todo) /\ B \in SUBSET s.todo
      BY <1>1, ChargesFinite, FS_Subset DEF Before
    <2> HIDE DEF s, room, B
    <2> QED BY <1>3, <2>1, SumOfNat
  <1>5. Shares(s.remaining, room, s.place, s.todo)[c] = Clamp(s.remaining - SumOf(room, B), room[c])
    BY DEF Shares
  <1> DEFINE x == s.remaining - SumOf(room, B)
             top == room[c]
  <1>6. x \in Int /\ x <= 0 /\ top \in Nat
    <2> HIDE DEF room, B
    <2> QED BY <1>1, <1>2, <1>3, <1>4
  <1>7. Clamp(x, top) = 0
    <2> HIDE DEF x, top
    <2> QED BY <1>6, Clamped
  <1> QED BY <1>5, <1>7

LEMMA EndView ==
    ASSUME Inv, FifoInv, Calm, AtWork, NEW h \in Handlers,
           WebhookDone(h) \/ OfflineCommit(h) \/ RefundCommit(h)
    PROVE  UNCHANGED Account!account
  <1> DEFINE s == hs[h]
  <1>1. /\ hs[h].pc = "loop" /\ LoopOver(h) /\ hs' = [hs EXCEPT ![h] = Idle]
        /\ hs[h].kind \in {"succeeded", "offline", "refund"}
    BY DEF WebhookDone, OfflineCommit, RefundCommit, Commit, LoopOver
  <1>2. LoopOK(h) /\ Solo
    BY <1>1, CalmWorld DEF FifoInv, Looks
  <1>3. /\ hs \in [Handlers -> HandlerState] /\ charge \in [Charges -> Row]
        /\ pay \in [Payments -> PayStatus] /\ hs[h].p \in Payments
    BY <1>1 DEF Inv, TypeOK, HandlerInv
  <1>4. \A c \in hs[h].todo : c \notin hs[h].dirty /\ hs[h].seen[c] = charge[c]
    BY <1>2 DEF LoopOK
  <1>5. \A c \in Charges : /\ charge'[c].paid = IF c \in hs[h].dirty THEN hs[h].seen[c].paid
                                                ELSE charge[c].paid
                           /\ charge'[c].amount = charge[c].amount /\ charge'[c].due = charge[c].due
    <2>1. CASE WebhookDone(h)
      <3>1. hs[h].dirty = {} /\ UNCHANGED charge
        BY <1>2, <2>1 DEF WebhookDone, LoopOK
      <3> QED BY <3>1
    <2>2. CASE OfflineCommit(h) \/ RefundCommit(h)
      <3>1. charge' = [c \in Charges |-> IF c \in hs[h].dirty THEN Written(charge[c], hs[h].seen[c])
                                         ELSE charge[c]]
        BY <2>2 DEF OfflineCommit, RefundCommit, Commit
      <3>2. \A c \in Charges : /\ Written(charge[c], hs[h].seen[c]).paid = hs[h].seen[c].paid
                               /\ Written(charge[c], hs[h].seen[c]).amount = charge[c].amount
                               /\ Written(charge[c], hs[h].seen[c]).due = charge[c].due
        BY DEF Written, Allocated
      <3> QED BY <3>1, <3>2
    <2> QED BY <2>1, <2>2
  <1>6. Bars = Paids(charge')
    <2>1. Bars = Leaves(s.kind, s.seen, s.place, s.todo, s.dirty, s.remaining, charge)
      BY <1>1, <1>2, ViewLoop
    <2>2. ASSUME NEW c \in Charges PROVE Bars[c] = charge'[c].paid
      <3>1. CASE c \in s.todo
        <4>1. Shares(s.remaining, RoomOf(s.kind, s.seen), s.place, s.todo)[c] = 0
          BY <1>1, <3>1, NothingLeft
        <4>2. s.seen[c].paid = charge[c].paid /\ charge[c].paid \in Nat /\ charge'[c].paid = charge[c].paid
          BY <1>3, <1>4, <1>5, <3>1 DEF Row
        <4>3. Bars[c] = IF s.kind = "refund"
                        THEN s.seen[c].paid - Shares(s.remaining, RoomOf(s.kind, s.seen), s.place, s.todo)[c]
                        ELSE s.seen[c].paid + Shares(s.remaining, RoomOf(s.kind, s.seen), s.place, s.todo)[c]
          BY <2>1, <3>1 DEF Leaves
        <4> HIDE DEF s
        <4> QED BY <4>1, <4>2, <4>3
      <3>2. CASE c \notin s.todo
        BY <1>5, <2>1, <3>2 DEF Leaves
      <3> QED BY <3>1, <3>2
    <2> QED BY <2>2 DEF Paids, Bars
  <1>7. \A g \in Handlers : hs'[g].pc = "idle"
    BY <1>1, <1>2, <1>3, IdleOK DEF Solo
  <1>8. Bars' = Paids(charge)' /\ MoneySettled' = Completed'
    <2>1. \A g \in Handlers : hs'[g].pc # "loop"
      BY <1>7
    <2>2. Reading' = {}
      BY <1>7 DEF Reading
    <2>3. PaymentsOf(Reading)' = {}
      BY <2>2 DEF PaymentsOf
    <2>4. Bars' = Paids(charge)' /\ MoneySettled' = Completed' \ PaymentsOf(Reading)'
      BY <2>1, ViewFreeNext
    <2> QED BY <2>3, <2>4
  <1>9. MoneySettled = Completed'
    <2>1. MoneySettled = SettledBy(hs[h].kind, hs[h].p, Completed)
      BY <1>1, <1>2, ViewLoop
    <2>2. CASE WebhookDone(h)
      <3>1. hs[h].kind = "succeeded" /\ UNCHANGED pay
        BY <2>2 DEF WebhookDone
      <3> QED BY <2>1, <3>1 DEF SettledBy, Completed
    <2>3. CASE OfflineCommit(h)
      <3>1. hs[h].kind = "offline" /\ pay' = [pay EXCEPT ![hs[h].p] = "completed"]
        BY <2>3 DEF OfflineCommit, Commit
      <3>2. Completed' = Completed \union {hs[h].p}
        BY <1>3, <3>1 DEF Completed
      <3> QED BY <2>1, <3>1, <3>2 DEF SettledBy
    <2>4. CASE RefundCommit(h)
      <3>1. hs[h].kind = "refund" /\ pay' = [pay EXCEPT ![hs[h].p] = "refunded"]
        BY <2>4 DEF RefundCommit, Commit
      <3>2. Completed' = Completed \ {hs[h].p}
        BY <1>3, <3>1 DEF Completed
      <3> QED BY <2>1, <3>1, <3>2 DEF SettledBy
    <2> QED BY <2>2, <2>3, <2>4
  <1>10. UNCHANGED <<Amounts, Dues>>
    BY <1>5, SameRows
  <1> QED BY <1>6, <1>8, <1>9, <1>10, Stutter

LEMMA AccountInit == Init => Account!AInit
  <1> SUFFICES ASSUME Init PROVE Account!AInit
    OBVIOUS
  <1>1. /\ charge = [c \in Charges |-> NoRow] /\ pay = [p \in Payments |-> "none"]
        /\ \A h \in Handlers : hs[h].pc = "idle"
    BY IdleOK DEF Init
  <1>2. Completed = {} /\ Reading = {} /\ PaymentsOf({}) = {}
    BY <1>1 DEF Completed, Reading, PaymentsOf
  <1>3. Bars = Paids(charge) /\ MoneySettled = {}
    BY <1>1, <1>2, ViewFree
  <1>4. /\ Amounts = [c \in Charges |-> 0] /\ Dues = [c \in Charges |-> 0]
        /\ Bars = [c \in Charges |-> 0]
    BY <1>1, <1>3 DEF Amounts, Dues, Paids, NoRow
  <1> QED BY <1>3, <1>4 DEF Account!AInit, Amounts, Dues, Bars, MoneySettled

LEMMA AccountStep ==
    Inv /\ FifoInv /\ CalmInv /\ FifoInv' /\ CalmInv' /\ [Next]_vars /\ Calm
        => Account!ANext \/ UNCHANGED Account!account
  <1> SUFFICES ASSUME Inv, FifoInv, CalmInv, FifoInv', CalmInv', [Next]_vars, Calm
               PROVE  Account!ANext \/ UNCHANGED Account!account
    OBVIOUS
  <1>1. AtWork /\ Told /\ Solo
    BY CalmWorld DEF CalmInv, FifoInv
  <1>2. CASE UNCHANGED vars \/ Tick \/ LateFeeScan
    <2>1. UNCHANGED <<charge, hs, pay>>
      BY <1>2 DEF vars, Tick, LateFeeScan
    <2> QED BY <2>1, QuietView DEF Completed
  <1>3. ASSUME NEW m \in Months, PostRent(m) \/ LateFeePost(m)
        PROVE  Account!ANext \/ UNCHANGED Account!account
    BY <1>3, PostView DEF Account!ANext
  <1>4. ASSUME NEW p \in Online, Portal(p) \/ Stripe(p) PROVE UNCHANGED Account!account
    BY <1>1, <1>4, PortalCalm, StripeCalm, QuietView
  <1>5. ASSUME NEW h \in Handlers, Handler(h)
        PROVE  Account!ANext \/ UNCHANGED Account!account
    <2>1. (Solo /\ AtWork)'
      <3>1. UNCHANGED faults
        BY SameWorld
      <3> QED BY <3>1, CalmWorld DEF CalmInv, FifoInv, Calm
    <2>2. ~HandlerDies(h)
      BY CalmWorld DEF HandlerDies
    <2>3. CASE ReadCharges(h)
      BY <1>1, <2>1, <2>3, ReadView DEF Account!ANext
    <2>4. CASE StripeRefund(h)
      BY <1>1, <2>4, StripeRefundView
    <2>5. ASSUME NEW c \in Charges, WebhookApply(h, c) \/ OfflineApply(h, c) \/ RefundReverse(h, c)
          PROVE  UNCHANGED Account!account
      BY <1>1, <2>1, <2>5, TurnView
    <2>6. CASE WebhookDone(h) \/ OfflineCommit(h) \/ RefundCommit(h)
      BY <1>1, <2>6, EndView
    <2>7. CASE \/ \E p \in Online : EventSucceeded(h, p)
               \/ \E p \in Offline : RecordOffline(h, p)
               \/ \E p \in Payments : RequestRefund(h, p)
      BY <1>1, <2>7, EnterView
    <2> QED BY <1>5, <2>2, <2>3, <2>4, <2>5, <2>6, <2>7 DEF Handler, Progress
  <1> QED BY <1>2, <1>3, <1>4, <1>5 DEF Next

(* With one handler at a time, never cut off, and each event delivered     *)
(* once and in order, the row-by-row handlers do to the charges exactly    *)
(* what RentAccount promises: a payment is credited once, whole, to the    *)
(* oldest charges, a refund is taken from the newest, and nothing else     *)
(* moves money.                                                            *)
THEOREM LedgerImplementsAccount == Spec => ImplementsAccount
  <1> DEFINE A == Calm => Account!ANext
             View == Account!account
  <1>1. Inv /\ FifoInv /\ CalmInv /\ FifoInv' /\ CalmInv' /\ [Next]_vars => A \/ UNCHANGED View
    BY AccountStep
  <1> HIDE DEF A, View
  <1>2. Spec => Account!AInit /\ [][A]_View
    BY <1>1, InitInv, NextInv, InitFifo, NextFifo, InitCalm, NextCalm, AccountInit, PTL DEF Spec
  <1> QED BY <1>2 DEF A, View, ImplementsAccount

-----------------------------------------------------------------------------

(* The steps at which a run holds a row, and those after its opt-out check. *)
Holding == {"cooldown", "caps", "attempt", "sending", "ok", "error"}
Cleared == {"create", "cooldown", "caps", "attempt", "sending"}

(* What is true of every run, beside its type.                             *)
RunOK(t) ==
    /\ task[t].kind = "forward" => task[t].app \in Apps
    /\ task[t].step = "mark" => task[t].kind = "forward"
    /\ task[t].step \in Holding => task[t].row \in Rows /\ status[task[t].row] # "none"
    /\ task[t].silent \subseteq optOut
    /\ task[t].step \in Cleared /\ task[t].kind # "confirmation" => task[t].to \notin task[t].silent

RunsOK  == \A t \in Tasks : RunOK(t)
QueueOK == \A r \in queue : status[r] # "none"

RelayInv == RelayTypeOK /\ RunsOK /\ QueueOK

-----------------------------------------------------------------------------
(* The values a run takes.                                                 *)

LEMMA Values ==
    /\ NoRun \in Run /\ Turn \in Run /\ NoMessage \in Message
    /\ NoRun.step = "idle" /\ NoRun.kind = "none" /\ NoRun.silent = {}
    /\ Turn.step = "next" /\ Turn.kind = "none" /\ Turn.silent = {}
BY DEF NoRun, Turn, Run, NoMessage, Message, Asked, Steps

LEMMA RelayInitInv == RelayInit => RelayInv
<1> SUFFICES ASSUME RelayInit PROVE RelayInv
  OBVIOUS
<1> USE DEF RelayInit
<1>1. RelayTypeOK
  <2>1. task \in [Tasks -> Run]
    BY Values
  <2>2. msg \in [Rows -> Message]
    BY Values
  <2>3. up \in BOOLEAN
    BY RelayAssumption DEF RelayAssumption
  <2>4. /\ status \in [Rows -> Statuses] /\ why \in [Rows -> Reasons]
        /\ attempts \in [Rows -> Nat] /\ age \in [Rows -> 0 .. 2]
        /\ delivered \in [Rows -> Nat]
    BY DEF Statuses, Reasons
  <2> QED BY <2>1, <2>2, <2>3, <2>4 DEF RelayTypeOK
<1>2. RunsOK
  BY Values DEF RunsOK, RunOK, Holding, Cleared
<1>3. QueueOK
  BY DEF QueueOK
<1> QED BY <1>1, <1>2, <1>3 DEF RelayInv

(* A step that changes one run, or none, keeps the others as they are when *)
(* it removes no row and no phone's opt-out.                               *)
LEMMA OneRun ==
    ASSUME RelayInv, NEW t \in Tasks, NEW run \in Run,
           task' = [task EXCEPT ![t] = run],
           \A r \in Rows : status[r] # "none" => status'[r] # "none",
           optOut \subseteq optOut',
           RunOK(t)'
    PROVE  RunsOK' /\ task' \in [Tasks -> Run]
<1>1. task' \in [Tasks -> Run] /\ task'[t] = run
  BY DEF RelayInv, RelayTypeOK
<1>2. ASSUME NEW u \in Tasks, u # t PROVE RunOK(u)'
  <2>1. task'[u] = task[u] /\ task[u] \in Run
    BY <1>2 DEF RelayInv, RelayTypeOK
  <2>2. RunOK(u)
    BY DEF RelayInv, RunsOK
  <2> QED BY <2>1, <2>2 DEF RunOK
<1> QED BY <1>1, <1>2 DEF RunsOK

LEMMA GotoRun ==
    ASSUME RelayInv, NEW t \in Tasks, NEW step \in Steps, Goto(t, step)
    PROVE  \E run \in Run :
              /\ task' = [task EXCEPT ![t] = run]
              /\ task'[t] = run /\ run.step = step /\ run.kind = task[t].kind
              /\ run.to = task[t].to /\ run.app = task[t].app
              /\ run.row = task[t].row /\ run.silent = task[t].silent
<1> DEFINE run == [task[t] EXCEPT !.step = step]
<1>1. task[t] \in Run
  BY DEF RelayInv, RelayTypeOK
<1>2. run \in Run /\ task' = [task EXCEPT ![t] = run] /\ task'[t] = run
  BY <1>1 DEF RelayInv, RelayTypeOK, Run, Goto
<1>3. /\ run.step = step /\ run.kind = task[t].kind /\ run.to = task[t].to
      /\ run.app = task[t].app /\ run.row = task[t].row /\ run.silent = task[t].silent
  BY <1>1 DEF Run
<1> QED BY <1>2, <1>3

LEMMA BeginRun ==
    ASSUME RelayInv, NEW t \in Tasks, NEW step \in Steps, NEW kind \in Asked,
           NEW to \in Phones \union {"none"}, NEW app \in Apps \union {"none"},
           NEW row \in Rows \union {0}, Begin(t, step, kind, to, app, row)
    PROVE  \E run \in Run :
              /\ task' = [task EXCEPT ![t] = run]
              /\ task'[t] = run /\ run.step = step /\ run.kind = kind
              /\ run.to = to /\ run.app = app /\ run.row = row /\ run.silent = optOut
<1> DEFINE run == [step |-> step, kind |-> kind, to |-> to, app |-> app, row |-> row,
                   silent |-> optOut]
<1>1. run \in Run
  BY DEF RelayInv, RelayTypeOK, Run
<1>2. task' = [task EXCEPT ![t] = run] /\ task'[t] = run
  BY DEF Begin, RelayInv, RelayTypeOK
<1> QED BY <1>1, <1>2

(* The common shapes of a step: the run goes on, or it ends.               *)
LEMMA GotoKeeps ==
    ASSUME RelayInv, NEW t \in Tasks, NEW step \in Steps, Goto(t, step),
           \A r \in Rows : status[r] # "none" => status'[r] # "none",
           optOut' = optOut,
           step = "mark" => task[t].kind = "forward",
           step \in Holding => task[t].step \in Holding,
           step \in Cleared /\ task[t].step \notin Cleared =>
               task[t].kind = "confirmation" \/ task[t].to \notin optOut
    PROVE  RunsOK' /\ task' \in [Tasks -> Run]
<1>1. PICK run \in Run :
         /\ task' = [task EXCEPT ![t] = run]
         /\ task'[t] = run /\ run.step = step /\ run.kind = task[t].kind
         /\ run.to = task[t].to /\ run.app = task[t].app
         /\ run.row = task[t].row /\ run.silent = task[t].silent
  BY GotoRun
<1>2. RunOK(t)
  BY DEF RelayInv, RunsOK
<1>3. RunOK(t)'
  BY <1>1, <1>2 DEF RunOK
<1> QED BY <1>1, <1>3, OneRun

LEMMA EndKeeps ==
    ASSUME RelayInv, NEW t \in Tasks, NEW run \in {NoRun, Turn},
           task' = [task EXCEPT ![t] = run],
           \A r \in Rows : status[r] # "none" => status'[r] # "none",
           optOut' = optOut
    PROVE  RunsOK' /\ task' \in [Tasks -> Run]
<1>1. task'[t] = run
  BY DEF RelayInv, RelayTypeOK
<1>2. RunOK(t)'
  BY <1>1, Values DEF RunOK, Holding, Cleared
<1> QED BY <1>2, OneRun, Values

LEMMA FinishKeeps ==
    ASSUME RelayInv, NEW t \in Tasks, Finish(t),
           \A r \in Rows : status[r] # "none" => status'[r] # "none",
           optOut' = optOut
    PROVE  RunsOK' /\ task' \in [Tasks -> Run] /\ inFlight' \subseteq inFlight
<1>1. \E run \in {NoRun, Turn} : task' = [task EXCEPT ![t] = run]
  BY DEF Finish
<1>2. inFlight' \subseteq inFlight
  BY DEF Finish
<1> QED BY <1>1, <1>2, EndKeeps

LEMMA WriteKeeps ==
    ASSUME RelayInv, NEW r, NEW st \in Statuses \ {"none"}, NEW reason \in Reasons,
           Write(r, st, reason)
    PROVE  /\ status' \in [Rows -> Statuses] /\ why' \in [Rows -> Reasons]
           /\ \A s \in Rows : status[s] # "none" => status'[s] # "none"
BY DEF RelayInv, RelayTypeOK, Write

LEMMA QueueKeeps ==
    ASSUME RelayInv, queue' \subseteq queue,
           \A r \in Rows : status[r] # "none" => status'[r] # "none"
    PROVE  QueueOK'
BY DEF RelayInv, RelayTypeOK, QueueOK

-----------------------------------------------------------------------------
(* One lemma for each group of steps.                                      *)

LEMMA RequestInv == RelayInv /\ Request => RelayInv'
<1> SUFFICES ASSUME RelayInv, Request PROVE RelayInv'
  OBVIOUS
<1> USE DEF db, rows, people, world
<1>1. ASSUME NEW t \in Callers, NEW p \in Phones, NEW kind \in {"link", "confirmation"},
             RequestReply(t, kind, p)
      PROVE  RelayInv'
  <2>1. Begin(t, "reserve", kind, p, "none", 0)
    BY <1>1 DEF RequestReply
  <2>2. t \in Tasks /\ kind \in Asked /\ "reserve" \in Steps
    BY DEF Tasks, Asked, Kinds, Steps
  <2>3. PICK run \in Run :
              /\ task' = [task EXCEPT ![t] = run]
              /\ task'[t] = run /\ run.step = "reserve" /\ run.kind = kind
              /\ run.to = p /\ run.app = "none" /\ run.row = 0 /\ run.silent = optOut
    BY <2>1, <2>2, BeginRun
  <2>4. RunOK(t)'
    BY <1>1, <2>3 DEF RequestReply, RunOK, Holding, Cleared
  <2>5. RunsOK' /\ task' \in [Tasks -> Run]
    BY <1>1, <2>2, <2>3, <2>4, OneRun DEF RequestReply
  <2> QED BY <1>1, <2>5 DEF RequestReply, RelayInv, RelayTypeOK, QueueOK
<1>2. ASSUME NEW t \in Callers, NEW a \in Apps, RequestForward(t, a) PROVE RelayInv'
  <2>1. Begin(t, "reserve", "forward", Owner, a, 0)
    BY <1>2 DEF RequestForward
  <2>2. t \in Tasks /\ "forward" \in Asked /\ "reserve" \in Steps /\ Owner \in Phones
    BY RelayAssumption DEF Tasks, Asked, Kinds, Steps, RelayAssumption
  <2>3. PICK run \in Run :
              /\ task' = [task EXCEPT ![t] = run]
              /\ task'[t] = run /\ run.step = "reserve" /\ run.kind = "forward"
              /\ run.to = Owner /\ run.app = a /\ run.row = 0 /\ run.silent = optOut
    BY <2>1, <2>2, BeginRun
  <2>4. RunOK(t)'
    BY <1>2, <2>3 DEF RequestForward, RunOK, Holding, Cleared
  <2>5. RunsOK' /\ task' \in [Tasks -> Run]
    BY <1>2, <2>2, <2>3, <2>4, OneRun DEF RequestForward
  <2> QED BY <1>2, <2>5 DEF RequestForward, RelayInv, RelayTypeOK, QueueOK
<1> QED BY <1>1, <1>2 DEF Request

LEMMA ReserveInv == ASSUME RelayInv, NEW t \in Tasks, Reserve(t) PROVE RelayInv'
<1> USE DEF db, rows, people, world
<1>1. FlightKey(t) \in (Phones \union {"none"}) \X Asked
  <2>1. task[t] \in Run
    BY DEF RelayInv, RelayTypeOK
  <2> QED BY <2>1 DEF FlightKey, Run
<1>2. inFlight' \subseteq (Phones \union {"none"}) \X Asked
  BY <1>1 DEF Reserve, RelayInv, RelayTypeOK
<1>3. RunsOK' /\ task' \in [Tasks -> Run]
  <2>1. CASE FlightKey(t) \in inFlight
    BY <2>1, EndKeeps DEF Reserve
  <2>2. CASE FlightKey(t) \notin inFlight
    <3>1. Goto(t, "opt-out") /\ "opt-out" \in Steps
      BY <2>2 DEF Reserve, Steps
    <3> QED BY <3>1, GotoKeeps DEF Reserve, Holding, Cleared
  <2> QED BY <2>1, <2>2
<1> QED BY <1>2, <1>3 DEF Reserve, RelayInv, RelayTypeOK, QueueOK

LEMMA CheckOptOutInv == ASSUME RelayInv, NEW t \in Tasks, CheckOptOut(t) PROVE RelayInv'
<1> USE DEF db, rows, people, world
<1>1. RunsOK' /\ task' \in [Tasks -> Run] /\ inFlight' \subseteq inFlight
  <2>1. CASE task[t].kind # "confirmation" /\ task[t].to \in optOut
    BY <2>1, FinishKeeps DEF CheckOptOut
  <2>2. CASE ~(task[t].kind # "confirmation" /\ task[t].to \in optOut)
    <3>1. Goto(t, "create") /\ "create" \in Steps /\ UNCHANGED inFlight
      BY <2>2 DEF CheckOptOut, Steps
    <3> QED BY <2>2, <3>1, GotoKeeps DEF CheckOptOut, Holding, Cleared
  <2> QED BY <2>1, <2>2
<1> QED BY <1>1 DEF CheckOptOut, RelayInv, RelayTypeOK, QueueOK

LEMMA CreateRowInv == ASSUME RelayInv, NEW t \in Tasks, NEW r \in Rows, CreateRow(t, r) PROVE RelayInv'
<1> USE DEF db, rows, people, world
<1> DEFINE run == [step |-> IF task[t].kind = "link" THEN "cooldown" ELSE "caps",
                   kind |-> task[t].kind, to |-> task[t].to, app |-> task[t].app,
                   row |-> r, silent |-> task[t].silent]
<1>1. task[t] \in Run /\ task[t].step = "create" /\ RunOK(t)
  BY DEF RelayInv, RelayTypeOK, RunsOK, CreateRow, At
<1>2. run \in Run /\ task' = [task EXCEPT ![t] = run] /\ task'[t] = run
  BY <1>1 DEF CreateRow, Run, Steps, RelayInv, RelayTypeOK
<1>3. /\ msg' \in [Rows -> Message] /\ status' \in [Rows -> Statuses] /\ beat' \in BOOLEAN
      /\ status'[r] # "none"
      /\ \A s \in Rows : status[s] # "none" => status'[s] # "none"
  BY <1>1 DEF CreateRow, RelayInv, RelayTypeOK, Message, Statuses, Run
<1>4. RunOK(t)'
  <2>1. run.step \in Cleared /\ run.step # "mark" /\ task[t].step \in Cleared
    BY <1>1 DEF Cleared
  <2> QED BY <1>1, <1>2, <1>3, <2>1 DEF RunOK, CreateRow
<1> HIDE DEF run
<1>5. RunsOK' /\ task' \in [Tasks -> Run]
  BY <1>2, <1>3, <1>4, OneRun DEF CreateRow
<1>6. QueueOK'
  BY <1>3, QueueKeeps DEF CreateRow
<1> QED BY <1>3, <1>5, <1>6 DEF CreateRow, RelayInv, RelayTypeOK

LEMMA CooldownInv == ASSUME RelayInv, NEW t \in Tasks, Cooldown(t) PROVE RelayInv'
<1> USE DEF db, rows, people, world
<1>1. /\ RunsOK' /\ task' \in [Tasks -> Run] /\ inFlight' \subseteq inFlight
      /\ status' \in [Rows -> Statuses] /\ why' \in [Rows -> Reasons]
      /\ attempts' \in [Rows -> Nat]
      /\ \A s \in Rows : status[s] # "none" => status'[s] # "none"
  <2>1. CASE Finish(t) /\ Write(RowOf(t), "failed", "cooldown")
             /\ attempts' = [attempts EXCEPT ![RowOf(t)] = MaxAttempts]
    <3>1. "failed" \in Statuses \ {"none"} /\ "cooldown" \in Reasons
      BY DEF Statuses, Reasons
    <3>2. /\ status' \in [Rows -> Statuses] /\ why' \in [Rows -> Reasons]
          /\ \A s \in Rows : status[s] # "none" => status'[s] # "none"
      BY <2>1, <3>1, WriteKeeps
    <3>3. attempts' \in [Rows -> Nat]
      BY <2>1, RelayAssumption DEF RelayInv, RelayTypeOK, RelayAssumption
    <3> QED BY <2>1, <3>2, <3>3, FinishKeeps DEF Cooldown
  <2>2. CASE Goto(t, "caps") /\ UNCHANGED <<status, why, attempts, inFlight>>
    <3>1. "caps" \in Steps /\ task[t].step \in Holding /\ task[t].step \in Cleared
      BY DEF Cooldown, At, Steps, Holding, Cleared
    <3>2. RunsOK' /\ task' \in [Tasks -> Run]
      BY <2>2, <3>1, GotoKeeps DEF Cooldown
    <3> QED BY <2>2, <3>2 DEF RelayInv, RelayTypeOK
  <2> QED BY <2>1, <2>2 DEF Cooldown
<1>2. QueueOK'
  BY <1>1, QueueKeeps DEF Cooldown
<1> QED BY <1>1, <1>2 DEF Cooldown, RelayInv, RelayTypeOK

LEMMA CheckCapsInv == ASSUME RelayInv, NEW t \in Tasks, CheckCaps(t) PROVE RelayInv'
<1> USE DEF db, rows, people, world
<1>1. /\ RunsOK' /\ task' \in [Tasks -> Run] /\ inFlight' \subseteq inFlight
      /\ status' \in [Rows -> Statuses] /\ why' \in [Rows -> Reasons]
      /\ \A s \in Rows : status[s] # "none" => status'[s] # "none"
  <2>1. CASE Goto(t, "attempt") /\ UNCHANGED <<status, why, inFlight>>
    <3>1. "attempt" \in Steps /\ task[t].step \in Holding /\ task[t].step \in Cleared
      BY DEF CheckCaps, At, Steps, Holding, Cleared
    <3>2. RunsOK' /\ task' \in [Tasks -> Run]
      BY <2>1, <3>1, GotoKeeps DEF CheckCaps
    <3> QED BY <2>1, <3>2 DEF RelayInv, RelayTypeOK
  <2>2. CASE Finish(t) /\ UNCHANGED <<status, why>>
    BY <2>2, FinishKeeps DEF CheckCaps, RelayInv, RelayTypeOK
  <2>3. CASE Finish(t) /\ Write(RowOf(t), "deferred", "cap")
    <3>1. "deferred" \in Statuses \ {"none"} /\ "cap" \in Reasons
      BY DEF Statuses, Reasons
    <3>2. /\ status' \in [Rows -> Statuses] /\ why' \in [Rows -> Reasons]
          /\ \A s \in Rows : status[s] # "none" => status'[s] # "none"
      BY <2>3, <3>1, WriteKeeps
    <3> QED BY <2>3, <3>2, FinishKeeps DEF CheckCaps
  <2> QED BY <2>1, <2>2, <2>3 DEF CheckCaps
<1>2. QueueOK'
  BY <1>1, QueueKeeps DEF CheckCaps
<1> QED BY <1>1, <1>2 DEF CheckCaps, RelayInv, RelayTypeOK

LEMMA AttemptInv == ASSUME RelayInv, NEW t \in Tasks, Attempt(t) PROVE RelayInv'
<1> USE DEF db, rows, people, world
<1>1. sends' \in Nat
  BY DEF Attempt, RelayInv, RelayTypeOK
<1>2. /\ RunsOK' /\ task' \in [Tasks -> Run] /\ inFlight' \subseteq inFlight
      /\ status' \in [Rows -> Statuses] /\ why' \in [Rows -> Reasons]
      /\ attempts' \in [Rows -> Nat]
      /\ \A s \in Rows : status[s] # "none" => status'[s] # "none"
  <2>1. CASE up
    <3>1. "sending" \in Steps /\ task[t].step \in Holding /\ task[t].step \in Cleared
      BY DEF Attempt, At, Steps, Holding, Cleared
    <3>2. Goto(t, "sending") /\ UNCHANGED <<status, why, inFlight>>
      BY <2>1 DEF Attempt
    <3>3. RunsOK' /\ task' \in [Tasks -> Run]
      BY <3>1, <3>2, GotoKeeps DEF Attempt
    <3>4. attempts' \in [Rows -> Nat]
      BY <2>1 DEF Attempt, RelayInv, RelayTypeOK
    <3> QED BY <3>2, <3>3, <3>4 DEF RelayInv, RelayTypeOK
  <2>2. CASE ~up
    <3>1. "deferred" \in Statuses \ {"none"} /\ "unavailable" \in Reasons
      BY DEF Statuses, Reasons
    <3>2. Finish(t) /\ Write(RowOf(t), "deferred", "unavailable") /\ UNCHANGED attempts
      BY <2>2 DEF Attempt
    <3>3. /\ status' \in [Rows -> Statuses] /\ why' \in [Rows -> Reasons]
          /\ \A s \in Rows : status[s] # "none" => status'[s] # "none"
      BY <3>1, <3>2, WriteKeeps
    <3>4. RunsOK' /\ task' \in [Tasks -> Run] /\ inFlight' \subseteq inFlight
      BY <3>2, <3>3, FinishKeeps DEF Attempt
    <3> QED BY <3>2, <3>3, <3>4 DEF RelayInv, RelayTypeOK
  <2> QED BY <2>1, <2>2
<1>3. QueueOK'
  BY <1>2, QueueKeeps DEF Attempt
<1> QED BY <1>1, <1>2, <1>3 DEF Attempt, RelayInv, RelayTypeOK

LEMMA SendInv ==
    ASSUME RelayInv, NEW t \in Tasks, NEW result \in SendResults, Send(t, result)
    PROVE  RelayInv'
<1> USE DEF db, rows, people, world
<1>1. delivered' \in [Rows -> Nat]
  <2>1. RowOf(t) \in Rows
    BY DEF Send, At, RowOf, Holding, RelayInv, RunsOK, RunOK
  <2> QED BY <2>1 DEF Send, RelayInv, RelayTypeOK
<1>2. PICK step \in {"ok", "error"} : Goto(t, step)
  BY DEF Send
<1>3. step \in Steps /\ step # "mark" /\ step \notin Cleared /\ task[t].step \in Holding
  BY DEF Send, At, Steps, Holding, Cleared
<1>4. RunsOK' /\ task' \in [Tasks -> Run]
  BY <1>2, <1>3, GotoKeeps DEF Send
<1> QED BY <1>1, <1>4 DEF Send, RelayInv, RelayTypeOK, QueueOK

LEMMA RecordSentInv == ASSUME RelayInv, NEW t \in Tasks, RecordSent(t) PROVE RelayInv'
<1> USE DEF db, rows, people, world
<1>1. /\ status' \in [Rows -> Statuses] /\ why' \in [Rows -> Reasons]
      /\ \A s \in Rows : status[s] # "none" => status'[s] # "none"
  <2>1. "sent" \in Statuses \ {"none"} /\ "none" \in Reasons /\ Write(RowOf(t), "sent", "none")
    BY DEF RecordSent, Statuses, Reasons
  <2> QED BY <2>1, WriteKeeps
<1>2. age' \in [Rows -> 0 .. 2]
  <2>1. 0 \in 0 .. 2
    OBVIOUS
  <2> QED BY <2>1 DEF RecordSent, RelayInv, RelayTypeOK
<1>3. RunsOK' /\ task' \in [Tasks -> Run] /\ inFlight' \subseteq inFlight
  <2>1. CASE task[t].kind = "forward"
    <3>1. Goto(t, "mark") /\ "mark" \in Steps /\ "mark" \notin Holding /\ "mark" \notin Cleared
      BY <2>1 DEF RecordSent, Steps, Holding, Cleared
    <3>2. RunsOK' /\ task' \in [Tasks -> Run]
      BY <1>1, <2>1, <3>1, GotoKeeps DEF RecordSent
    <3> QED BY <2>1, <3>2 DEF RecordSent
  <2>2. CASE task[t].kind # "forward"
    BY <1>1, <2>2, FinishKeeps DEF RecordSent
  <2> QED BY <2>1, <2>2
<1>4. QueueOK'
  BY <1>1, QueueKeeps DEF RecordSent
<1> QED BY <1>1, <1>2, <1>3, <1>4 DEF RecordSent, RelayInv, RelayTypeOK

LEMMA RecordFailedInv == ASSUME RelayInv, NEW t \in Tasks, RecordFailed(t) PROVE RelayInv'
<1> USE DEF db, rows, people, world
<1>1. /\ status' \in [Rows -> Statuses] /\ why' \in [Rows -> Reasons]
      /\ \A s \in Rows : status[s] # "none" => status'[s] # "none"
  <2>1. /\ "failed" \in Statuses \ {"none"} /\ "error" \in Reasons
        /\ Write(RowOf(t), "failed", "error")
    BY DEF RecordFailed, Statuses, Reasons
  <2> QED BY <2>1, WriteKeeps
<1>2. RunsOK' /\ task' \in [Tasks -> Run] /\ inFlight' \subseteq inFlight
  BY <1>1, FinishKeeps DEF RecordFailed
<1>3. QueueOK'
  BY <1>1, QueueKeeps DEF RecordFailed
<1> QED BY <1>1, <1>2, <1>3 DEF RecordFailed, RelayInv, RelayTypeOK

LEMMA MarkForwardedInv == ASSUME RelayInv, NEW t \in Tasks, MarkForwarded(t) PROVE RelayInv'
<1> USE DEF db, rows, people, world
<1>1. task[t].app \in Apps
  BY DEF MarkForwarded, At, RelayInv, RunsOK, RunOK
<1>2. RunsOK' /\ task' \in [Tasks -> Run]
  BY EndKeeps DEF MarkForwarded
<1> QED BY <1>1, <1>2 DEF MarkForwarded, RelayInv, RelayTypeOK, QueueOK

LEMMA GuardedInv == ASSUME RelayInv, NEW t \in Tasks, Guarded(t) PROVE RelayInv'
BY ReserveInv, CheckOptOutInv, CreateRowInv, CooldownInv, CheckCapsInv, AttemptInv, SendInv,
   RecordSentInv, RecordFailedInv, MarkForwardedInv DEF Guarded

LEMMA SweepInv == RelayInv /\ SweepStep => RelayInv'
<1> SUFFICES ASSUME RelayInv, SweepStep PROVE RelayInv'
  OBVIOUS
<1> USE DEF db, rows, people, world
<1>0. Sweep \in Tasks
  BY DEF Tasks
<1>1. CASE SweepScan
  <2>1. RunsOK' /\ task' \in [Tasks -> Run]
    BY <1>0, <1>1, EndKeeps DEF SweepScan
  <2>2. queue' \subseteq Rows /\ \A r \in queue' : status[r] # "none"
    BY <1>1 DEF SweepScan, Candidates, Candidate
  <2> QED BY <1>1, <2>1, <2>2 DEF SweepScan, RelayInv, RelayTypeOK, QueueOK
<1>2. ASSUME NEW r \in Rows, SweepRow(r) PROVE RelayInv'
  <2>1. status[r] # "none" /\ queue' \subseteq queue
    BY <1>2 DEF SweepRow, RelayInv, QueueOK
  <2>2. CASE msg[r].to \in optOut
    <3>1. "failed" \in Statuses \ {"none"} /\ "opted out" \in Reasons
      BY DEF Statuses, Reasons
    <3>2. /\ status' \in [Rows -> Statuses] /\ why' \in [Rows -> Reasons]
          /\ \A s \in Rows : status[s] # "none" => status'[s] # "none"
      BY <1>2, <2>2, <3>1, WriteKeeps DEF SweepRow
    <3>3. attempts' \in [Rows -> Nat] /\ UNCHANGED task
      BY <1>2, <2>2, RelayAssumption DEF SweepRow, RelayInv, RelayTypeOK, RelayAssumption
    <3>4. RunsOK'
      <4> SUFFICES ASSUME NEW u \in Tasks PROVE RunOK(u)'
        BY DEF RunsOK
      <4>1. RunOK(u) /\ task'[u] = task[u]
        BY <3>3 DEF RelayInv, RunsOK
      <4> QED BY <1>2, <3>2, <4>1 DEF RunOK, SweepRow
    <3>5. QueueOK'
      BY <2>1, <3>2, QueueKeeps
    <3> QED BY <1>2, <2>1, <3>2, <3>3, <3>4, <3>5 DEF SweepRow, RelayInv, RelayTypeOK
  <2>3. CASE msg[r].to \notin optOut
    <3>1. Begin(Sweep, "caps", "retry", msg[r].to, "none", r) /\ UNCHANGED <<status, why, attempts>>
      BY <1>2, <2>3 DEF SweepRow
    <3>2. PICK to \in Phones \union {"none"} : to = msg[r].to
      BY DEF RelayInv, RelayTypeOK, Message
    <3>0. "caps" \in Steps /\ "retry" \in Asked /\ "none" \in Apps \union {"none"}
          /\ r \in Rows \union {0} /\ Begin(Sweep, "caps", "retry", to, "none", r)
      BY <3>1, <3>2 DEF Steps, Asked
    <3>3. PICK run \in Run :
                /\ task' = [task EXCEPT ![Sweep] = run]
                /\ task'[Sweep] = run /\ run.step = "caps" /\ run.kind = "retry"
                /\ run.to = to /\ run.app = "none" /\ run.row = r
                /\ run.silent = optOut
      BY <1>0, <3>0, BeginRun
    <3>4. RunOK(Sweep)'
      BY <1>2, <2>1, <2>3, <3>1, <3>2, <3>3 DEF RunOK, SweepRow
    <3>5. RunsOK' /\ task' \in [Tasks -> Run]
      BY <1>0, <1>2, <3>1, <3>3, <3>4, OneRun DEF SweepRow
    <3> QED BY <1>2, <2>1, <3>1, <3>5 DEF SweepRow, RelayInv, RelayTypeOK, QueueOK
  <2> QED BY <2>2, <2>3
<1>3. CASE SweepEnd
  <2>1. RunsOK' /\ task' \in [Tasks -> Run]
    <3>1. CASE Begin(Sweep, "reserve", "heartbeat", Owner, "none", 0)
      <4>1. "reserve" \in Steps /\ "heartbeat" \in Asked /\ Owner \in Phones
        BY RelayAssumption DEF Steps, Asked, Kinds, RelayAssumption
      <4>2. PICK run \in Run :
                  /\ task' = [task EXCEPT ![Sweep] = run]
                  /\ task'[Sweep] = run /\ run.step = "reserve" /\ run.kind = "heartbeat"
                  /\ run.to = Owner /\ run.app = "none" /\ run.row = 0 /\ run.silent = optOut
        BY <1>0, <3>1, <4>1, BeginRun
      <4>3. RunOK(Sweep)'
        BY <1>3, <4>2 DEF SweepEnd, RunOK, Holding, Cleared
      <4> QED BY <1>0, <1>3, <4>2, <4>3, OneRun DEF SweepEnd
    <3>2. CASE task' = [task EXCEPT ![Sweep] = NoRun]
      BY <1>0, <1>3, <3>2, EndKeeps DEF SweepEnd
    <3> QED BY <1>3, <3>1, <3>2 DEF SweepEnd
  <2> QED BY <1>3, <2>1 DEF SweepEnd, RelayInv, RelayTypeOK, QueueOK
<1> QED BY <1>1, <1>2, <1>3 DEF SweepStep

LEMMA WorldInv ==
    RelayInv /\ ((\E p \in Stoppers : OptOut(p) \/ OptIn(p)) \/ HourPasses \/ DayPasses \/ Crash)
        => RelayInv'
<1> USE DEF db, rows, people, world, memory
<1>1. ASSUME RelayInv, NEW p \in Stoppers, OptOut(p) PROVE RelayInv'
  <2>1. p \in Phones
    BY RelayAssumption DEF RelayAssumption
  <2>2. RunsOK'
    <3> SUFFICES ASSUME NEW u \in Tasks PROVE RunOK(u)'
      BY DEF RunsOK
    <3> QED BY <1>1 DEF OptOut, RelayInv, RunsOK, RunOK
  <2> QED BY <1>1, <2>1, <2>2 DEF OptOut, RelayInv, RelayTypeOK, QueueOK
<1>2. ASSUME RelayInv, NEW p \in Stoppers, OptIn(p) PROVE RelayInv'
  <2>1. ASSUME NEW u \in Tasks
        PROVE  /\ task'[u] \in Run /\ RunOK(u)'
    <3>1. task[u] \in Run /\ RunOK(u)
      BY <1>2 DEF RelayInv, RelayTypeOK, RunsOK
    <3>2. /\ task'[u].step = task[u].step /\ task'[u].kind = task[u].kind
          /\ task'[u].to = task[u].to /\ task'[u].app = task[u].app
          /\ task'[u].row = task[u].row /\ task'[u].silent = task[u].silent \ {p}
          /\ task'[u] \in Run
      BY <1>2, <3>1 DEF OptIn, Run
    <3> QED BY <1>2, <3>1, <3>2 DEF OptIn, RunOK
  <2>2. task' \in [Tasks -> Run]
    BY <1>2, <2>1 DEF OptIn
  <2> QED BY <1>2, <2>1, <2>2 DEF OptIn, RelayInv, RelayTypeOK, RunsOK, QueueOK
<1>3. ASSUME RelayInv, NEW from \in 0 .. 2, NEW to \in 0 .. 2, Older(from, to)
      PROVE  age' \in [Rows -> 0 .. 2]
  BY <1>3 DEF Older, RelayInv, RelayTypeOK
<1>4. ASSUME RelayInv, HourPasses \/ DayPasses PROVE RelayInv'
  <2>1. age' \in [Rows -> 0 .. 2] /\ beat' \in BOOLEAN
    <3>1. 0 \in 0 .. 2 /\ 1 \in 0 .. 2 /\ 2 \in 0 .. 2
      OBVIOUS
    <3>2. Older(0, 1) \/ Older(1, 2)
      BY <1>4 DEF HourPasses, DayPasses
    <3>3. age' \in [Rows -> 0 .. 2]
      BY <1>3, <1>4, <3>1, <3>2
    <3> QED BY <1>4, <3>3 DEF HourPasses, DayPasses, RelayInv, RelayTypeOK
  <2>2. UNCHANGED <<msg, status, attempts, why, people, memory, world>>
    BY <1>4 DEF HourPasses, DayPasses
  <2>3. RunsOK'
    <3> SUFFICES ASSUME NEW u \in Tasks PROVE RunOK(u)'
      BY DEF RunsOK
    <3> QED BY <1>4, <2>2 DEF RelayInv, RunsOK, RunOK
  <2> QED BY <1>4, <2>1, <2>2, <2>3 DEF RelayInv, RelayTypeOK, QueueOK
<1>5. ASSUME RelayInv, Crash PROVE RelayInv'
  <2>1. task' \in [Tasks -> Run] /\ \A u \in Tasks : task'[u] = NoRun
    BY <1>5, Values DEF Crash
  <2>2. RunsOK'
    BY <2>1, Values DEF RunsOK, RunOK, Holding, Cleared
  <2>3. up' \in BOOLEAN /\ crashes' \in Nat
    BY <1>5, RelayAssumption DEF Crash, RelayAssumption, RelayInv, RelayTypeOK
  <2> QED BY <1>5, <2>1, <2>2, <2>3 DEF Crash, RelayInv, RelayTypeOK, QueueOK
<1> QED BY <1>1, <1>2, <1>4, <1>5

LEMMA StutterInv == RelayInv /\ UNCHANGED relayVars => RelayInv'
<1> SUFFICES ASSUME RelayInv, UNCHANGED relayVars PROVE RelayInv'
  OBVIOUS
<1> USE DEF relayVars, db, rows, people, world, memory
<1>1. RunsOK'
  BY DEF RelayInv, RunsOK, RunOK
<1> QED BY <1>1 DEF RelayInv, RelayTypeOK, QueueOK

-----------------------------------------------------------------------------
(* The typing of every reachable state of the ledger and of its runs.      *)
THEOREM RelayTypeCorrect == RelaySpec => []RelayTypeOK
<1>1. RelayInv /\ [RelayNext]_relayVars => RelayInv'
  BY RequestInv, GuardedInv, SweepInv, WorldInv, StutterInv DEF RelayNext
<1>2. RelayInv => RelayTypeOK
  BY DEF RelayInv
<1> QED BY RelayInitInv, <1>1, <1>2, PTL DEF RelaySpec

(* No text goes out to a phone that opted out before its run, or the       *)
(* sweep's turn, began and stayed so, an asked-for confirmation excepted.  *)
THEOREM OptOutHolds == RelaySpec => []OptOutRespected
<1>1. RelayInv /\ [RelayNext]_relayVars => RelayInv'
  BY RequestInv, GuardedInv, SweepInv, WorldInv, StutterInv DEF RelayNext
<1>2. RelayInv => OptOutRespected
  BY DEF RelayInv, RunsOK, RunOK, OptOutRespected, At, Cleared
<1> QED BY RelayInitInv, <1>1, <1>2, PTL DEF RelaySpec

-----------------------------------------------------------------------------
(* The caps.  A run that has passed them will add a row to the count: what *)
(* is bounded in every state is the rows sent plus the runs on their way.  *)

Past      == {t \in Tasks : task[t].step \in {"attempt", "sending", "ok"}}
PastLinks == {t \in Past : Kind(task[t].row) = "link"}

Bounded(S, P, cap) == Cardinality(S) + Cardinality(P) <= cap + Others

CapInv == /\ Bounded(SentWithin(0), Past, Least1(HourlyCap))
          /\ Bounded(SentWithin(1), Past, Least1(DailyCap))
          /\ Bounded(SentLinks, PastLinks, EffectiveCap("link"))

LEMMA TasksFinite ==
    /\ IsFiniteSet(Tasks) /\ Cardinality(Tasks) \in Nat /\ Cardinality(Tasks) >= 1
    /\ Others \in Nat
<1>1. IsFiniteSet(Callers \union {Sweep}) /\ IsFiniteSet(Callers)
  BY RelayAssumption, FS_AddElement DEF RelayAssumption
<1>2. Cardinality(Callers) \in Nat
  BY <1>1, FS_CardinalityType
<1>3. Cardinality(Callers \union {Sweep}) = Cardinality(Callers) + 1
  BY <1>1, RelayAssumption, FS_AddElement DEF RelayAssumption
<1> QED BY <1>1, <1>2, <1>3 DEF Tasks, Others

LEMMA RowsFinite ==
    ASSUME NEW S \in SUBSET Rows
    PROVE  IsFiniteSet(S) /\ Cardinality(S) \in Nat
<1>1. IsFiniteSet(Rows)
  BY RelayAssumption, FS_Interval DEF Rows, RelayAssumption
<1> QED BY <1>1, FS_Subset, FS_CardinalityType

LEMMA RunsFinite ==
    ASSUME NEW P \in SUBSET Tasks
    PROVE  IsFiniteSet(P) /\ Cardinality(P) \in Nat /\ Cardinality(P) <= Cardinality(Tasks)
BY TasksFinite, FS_Subset, FS_CardinalityType

LEMMA Smaller ==
    ASSUME NEW S, IsFiniteSet(S), NEW T, T \subseteq S
    PROVE  Cardinality(T) <= Cardinality(S)
BY FS_Subset

LEMMA CapNumbers ==
    /\ Least1(HourlyCap) \in Nat \ {0} /\ Least1(DailyCap) \in Nat \ {0}
    /\ EffectiveCap("link") \in Nat \ {0} /\ EffectiveCap("link") = Least1(HourlyCap - 2)
    /\ \A kind : EffectiveCap(kind) \in Nat /\ EffectiveCap(kind) <= Least1(HourlyCap)
    /\ DailyCap \in Nat /\ DailyCap <= Least1(DailyCap)
BY RelayAssumption DEF RelayAssumption, Least1, EffectiveCap

(* The count and the runs shrink.                                          *)
LEMMA BoundedShrinks ==
    ASSUME NEW S \in SUBSET Rows, NEW T \in SUBSET Rows, T \subseteq S,
           NEW P \in SUBSET Tasks, NEW Q \in SUBSET Tasks, Q \subseteq P,
           NEW cap \in Nat, Bounded(S, P, cap)
    PROVE  Bounded(T, Q, cap)
<1>1. Cardinality(T) <= Cardinality(S) /\ Cardinality(T) \in Nat /\ Cardinality(S) \in Nat
  BY RowsFinite, Smaller
<1>2. Cardinality(Q) <= Cardinality(P) /\ Cardinality(Q) \in Nat /\ Cardinality(P) \in Nat
  BY RunsFinite, Smaller
<1> QED BY <1>1, <1>2, TasksFinite DEF Bounded

(* One run leaves, one row is counted.                                     *)
LEMMA BoundedMoves ==
    ASSUME NEW S \in SUBSET Rows, NEW r \in Rows,
           NEW T \in SUBSET Rows, T \subseteq S \union {r},
           NEW P \in SUBSET Tasks, NEW t \in P,
           NEW Q \in SUBSET Tasks, Q \subseteq P \ {t},
           NEW cap \in Nat, Bounded(S, P, cap)
    PROVE  Bounded(T, Q, cap)
<1>1. /\ Cardinality(S) \in Nat /\ Cardinality(T) \in Nat
      /\ Cardinality(T) <= Cardinality(S \union {r})
      /\ Cardinality(S \union {r}) <= Cardinality(S) + 1
  <2>1. IsFiniteSet(S) /\ IsFiniteSet(S \union {r}) /\ Cardinality(S) \in Nat
    BY RowsFinite
  <2>2. Cardinality(S \union {r}) = IF r \in S THEN Cardinality(S) ELSE Cardinality(S) + 1
    BY <2>1, FS_AddElement
  <2> QED BY <2>1, <2>2, RowsFinite, Smaller
<1>2. /\ Cardinality(P) \in Nat /\ Cardinality(Q) \in Nat
      /\ Cardinality(Q) <= Cardinality(P \ {t})
      /\ Cardinality(P \ {t}) = Cardinality(P) - 1
  <2>1. IsFiniteSet(P) /\ IsFiniteSet(P \ {t})
    BY RunsFinite
  <2> QED BY <2>1, RunsFinite, Smaller, FS_RemoveElement
<1>3. Cardinality(S \union {r}) \in Nat /\ Cardinality(P \ {t}) \in Nat
  BY RowsFinite, RunsFinite
<1> QED BY <1>1, <1>2, <1>3, TasksFinite DEF Bounded

(* A run passes the cap: the count was below it, and there are only so     *)
(* many runs.                                                              *)
LEMMA BoundedPasses ==
    ASSUME NEW S \in SUBSET Rows, NEW P \in SUBSET Tasks, NEW cap \in Nat,
           Cardinality(S) < cap
    PROVE  Bounded(S, P, cap)
<1>1. Cardinality(S) \in Nat /\ Cardinality(P) \in Nat /\ Cardinality(P) <= Cardinality(Tasks)
  BY RowsFinite, RunsFinite
<1>2. Others = Cardinality(Tasks) - 1 /\ Cardinality(Tasks) \in Nat
  BY TasksFinite DEF Others
<1> QED BY <1>1, <1>2 DEF Bounded

LEMMA Subsets ==
    /\ \A a : SentWithin(a) \in SUBSET Rows
    /\ SentLinks \in SUBSET Rows /\ Past \in SUBSET Tasks /\ PastLinks \in SUBSET Tasks
    /\ PastLinks \subseteq Past
BY DEF SentWithin, SentLinks, Past, PastLinks

(* A step that sends nothing and passes nobody through the caps.           *)
LEMMA Quiet ==
    ASSUME RelayInv, CapInv,
           \A r \in Rows : status'[r] = "sent" =>
               status[r] = "sent" /\ age'[r] >= age[r] /\ msg'[r] = msg[r],
           \A r \in Rows : age[r] \in Nat /\ age'[r] \in Nat,
           \A t \in Past' : /\ t \in Past /\ task'[t].row = task[t].row
                            /\ msg'[task[t].row] = msg[task[t].row]
    PROVE  CapInv'
<1>1. SentWithin(0)' \subseteq SentWithin(0) /\ SentWithin(1)' \subseteq SentWithin(1)
  BY DEF SentWithin
<1>2. SentLinks' \subseteq SentLinks
  BY <1>1 DEF SentLinks, SentWithin, Kind
<1>3. Past' \subseteq Past /\ PastLinks' \subseteq PastLinks
  BY DEF PastLinks, Kind
<1>4. /\ SentWithin(0)' \in SUBSET Rows /\ SentWithin(1)' \in SUBSET Rows
      /\ SentLinks' \in SUBSET Rows /\ Past' \in SUBSET Tasks /\ PastLinks' \in SUBSET Tasks
  BY DEF SentWithin, SentLinks, Past, PastLinks
<1>5. Bounded(SentWithin(0)', Past', Least1(HourlyCap))
  BY <1>1, <1>3, <1>4, Subsets, CapNumbers, BoundedShrinks DEF CapInv
<1>6. Bounded(SentWithin(1)', Past', Least1(DailyCap))
  BY <1>1, <1>3, <1>4, Subsets, CapNumbers, BoundedShrinks DEF CapInv
<1>7. Bounded(SentLinks', PastLinks', EffectiveCap("link"))
  BY <1>2, <1>3, <1>4, Subsets, CapNumbers, BoundedShrinks DEF CapInv
<1> QED BY <1>5, <1>6, <1>7 DEF CapInv, Bounded

LEMMA Ages == RelayInv => \A r \in Rows : age[r] \in Nat
BY DEF RelayInv, RelayTypeOK

(* The same for a step of one run.                                         *)
LEMMA QuietRun ==
    ASSUME RelayInv, RelayInv', CapInv, NEW t \in Tasks,
           \A u \in Tasks \ {t} : task'[u] = task[u],
           task'[t].step \in {"attempt", "sending", "ok"} =>
               /\ task[t].step \in {"attempt", "sending", "ok"}
               /\ task'[t].row = task[t].row,
           \A r \in Rows : status'[r] = "sent" => status[r] = "sent" /\ age'[r] = age[r],
           \A r \in Rows : status[r] # "none" => msg'[r] = msg[r]
    PROVE  CapInv'
<1>1. \A r \in Rows : status'[r] = "sent" =>
          status[r] = "sent" /\ age'[r] >= age[r] /\ msg'[r] = msg[r]
  BY Ages
<1>2. ASSUME NEW u \in Past'
      PROVE  /\ u \in Past /\ task'[u].row = task[u].row
             /\ msg'[task[u].row] = msg[task[u].row]
  <2>1. u \in Tasks /\ task'[u].step \in {"attempt", "sending", "ok"}
    BY <1>2 DEF Past
  <2>2. u \in Past /\ task'[u].row = task[u].row
    BY <2>1 DEF Past
  <2>3. task[u].row \in Rows /\ status[task[u].row] # "none"
    BY <2>1, <2>2 DEF Past, RelayInv, RunsOK, RunOK, Holding
  <2> QED BY <2>2, <2>3
<1>3. \A r \in Rows : age[r] \in Nat /\ age'[r] \in Nat
  BY Ages DEF RelayInv, RelayTypeOK
<1> QED BY <1>1, <1>2, <1>3, Quiet

LEMMA NotPast ==
    /\ NoRun.step \notin {"attempt", "sending", "ok"}
    /\ Turn.step \notin {"attempt", "sending", "ok"}
BY Values

(* What Goto, Begin and Finish do to the runs.                             *)
LEMMA OneRunMoves ==
    ASSUME RelayInv, NEW t \in Tasks
    PROVE  /\ \A step : Goto(t, step) =>
                 /\ \A u \in Tasks \ {t} : task'[u] = task[u]
                 /\ task'[t].step = step /\ task'[t].row = task[t].row
           /\ Finish(t) =>
                 /\ \A u \in Tasks \ {t} : task'[u] = task[u]
                 /\ task'[t].step \notin {"attempt", "sending", "ok"}
           /\ task' = [task EXCEPT ![t] = NoRun] \/ task' = [task EXCEPT ![t] = Turn] =>
                 /\ \A u \in Tasks \ {t} : task'[u] = task[u]
                 /\ task'[t].step \notin {"attempt", "sending", "ok"}
           /\ \A step, kind, to, app, row : Begin(t, step, kind, to, app, row) =>
                 /\ \A u \in Tasks \ {t} : task'[u] = task[u]
                 /\ task'[t].step = step
<1>1. task[t] \in Run
  BY DEF RelayInv, RelayTypeOK
<1>2. ASSUME NEW step, Goto(t, step)
      PROVE  /\ \A u \in Tasks \ {t} : task'[u] = task[u]
             /\ task'[t].step = step /\ task'[t].row = task[t].row
  BY <1>1, <1>2 DEF Goto, RelayInv, RelayTypeOK, Run
<1>3. ASSUME Finish(t)
      PROVE  /\ \A u \in Tasks \ {t} : task'[u] = task[u]
             /\ task'[t].step \notin {"attempt", "sending", "ok"}
  <2>1. PICK run \in {NoRun, Turn} : task' = [task EXCEPT ![t] = run]
    BY <1>3 DEF Finish
  <2> QED BY <2>1, NotPast DEF RelayInv, RelayTypeOK
<1>4. ASSUME NEW run \in {NoRun, Turn}, task' = [task EXCEPT ![t] = run]
      PROVE  /\ \A u \in Tasks \ {t} : task'[u] = task[u]
             /\ task'[t].step \notin {"attempt", "sending", "ok"}
  BY <1>4, NotPast DEF RelayInv, RelayTypeOK
<1>5. ASSUME NEW step, NEW kind, NEW to, NEW app, NEW row, Begin(t, step, kind, to, app, row)
      PROVE  /\ \A u \in Tasks \ {t} : task'[u] = task[u]
             /\ task'[t].step = step
  BY <1>5 DEF Begin, RelayInv, RelayTypeOK
<1> QED BY <1>2, <1>3, <1>4, <1>5

(* A row that is written anything but "sent" adds nothing to the counts.   *)
LEMMA WriteQuiet ==
    ASSUME RelayInv, NEW r, NEW st, st # "sent", NEW reason, Write(r, st, reason)
    PROVE  \A s \in Rows : status'[s] = "sent" => status[s] = "sent"
BY DEF Write, RelayInv, RelayTypeOK

LEMMA QuietSteps ==
    ASSUME RelayInv, RelayInv', CapInv, NEW t \in Tasks,
           \/ Reserve(t) \/ CheckOptOut(t) \/ Cooldown(t) \/ Attempt(t)
           \/ (\E r \in Rows : CreateRow(t, r)) \/ (\E res \in SendResults : Send(t, res))
           \/ RecordFailed(t) \/ MarkForwarded(t)
    PROVE  CapInv'
<1> USE DEF db, rows, people, world
<1>1. CASE Reserve(t)
  <2>1. \/ task' = [task EXCEPT ![t] = NoRun]
        \/ Goto(t, "opt-out")
    BY <1>1 DEF Reserve
  <2> QED BY <1>1, <2>1, OneRunMoves, QuietRun DEF Reserve
<1>2. CASE CheckOptOut(t)
  <2>1. Finish(t) \/ Goto(t, "create")
    BY <1>2 DEF CheckOptOut
  <2> QED BY <1>2, <2>1, OneRunMoves, QuietRun DEF CheckOptOut
<1>3. CASE Cooldown(t)
  <2>1. \/ Finish(t) /\ Write(RowOf(t), "failed", "cooldown")
        \/ Goto(t, "caps") /\ UNCHANGED status
    BY <1>3 DEF Cooldown
  <2>2. \A s \in Rows : status'[s] = "sent" => status[s] = "sent"
    BY <2>1, WriteQuiet
  <2> QED BY <1>3, <2>1, <2>2, OneRunMoves, QuietRun DEF Cooldown
<1>4. CASE Attempt(t)
  <2>1. \/ Goto(t, "sending") /\ UNCHANGED status
        \/ Finish(t) /\ Write(RowOf(t), "deferred", "unavailable")
    BY <1>4 DEF Attempt
  <2>2. \A s \in Rows : status'[s] = "sent" => status[s] = "sent"
    BY <2>1, WriteQuiet
  <2> QED BY <1>4, <2>1, <2>2, OneRunMoves, QuietRun DEF Attempt, At
<1>5. ASSUME NEW r \in Rows, CreateRow(t, r) PROVE CapInv'
  <2>1. /\ \A u \in Tasks \ {t} : task'[u] = task[u]
        /\ task'[t].step \notin {"attempt", "sending", "ok"}
    BY <1>5 DEF CreateRow, RelayInv, RelayTypeOK
  <2>2. \A s \in Rows : status'[s] = "sent" => status[s] = "sent"
    BY <1>5 DEF CreateRow, RelayInv, RelayTypeOK
  <2>3. \A s \in Rows : status[s] # "none" => msg'[s] = msg[s]
    BY <1>5 DEF CreateRow, RelayInv, RelayTypeOK
  <2> QED BY <1>5, <2>1, <2>2, <2>3, QuietRun DEF CreateRow
<1>6. ASSUME NEW res \in SendResults, Send(t, res) PROVE CapInv'
  <2>1. Goto(t, "ok") \/ Goto(t, "error")
    BY <1>6 DEF Send
  <2> QED BY <1>6, <2>1, OneRunMoves, QuietRun DEF Send, At
<1>7. CASE RecordFailed(t)
  <2>1. Finish(t) /\ Write(RowOf(t), "failed", "error")
    BY <1>7 DEF RecordFailed
  <2>2. \A s \in Rows : status'[s] = "sent" => status[s] = "sent"
    BY <2>1, WriteQuiet
  <2> QED BY <1>7, <2>1, <2>2, OneRunMoves, QuietRun DEF RecordFailed
<1>8. CASE MarkForwarded(t)
  BY <1>8, OneRunMoves, QuietRun DEF MarkForwarded
<1> QED BY <1>1, <1>2, <1>3, <1>4, <1>5, <1>6, <1>7, <1>8

(* A run passes the caps: each count it was shown was below its cap.       *)
LEMMA CheckCapsCaps == ASSUME RelayInv, RelayInv', CapInv, NEW t \in Tasks, CheckCaps(t) PROVE CapInv'
<1> USE DEF db, rows, people, world
<1>1. CASE Capped(RowOf(t))
  <2>1. /\ Finish(t)
        /\ UNCHANGED status \/ Write(RowOf(t), "deferred", "cap")
    BY <1>1 DEF CheckCaps
  <2>2. \A s \in Rows : status'[s] = "sent" => status[s] = "sent"
    BY <2>1, WriteQuiet
  <2> QED BY <1>1, <2>1, <2>2, OneRunMoves, QuietRun DEF CheckCaps
<1>2. CASE ~Capped(RowOf(t))
  <2>1. Goto(t, "attempt") /\ UNCHANGED <<status, why, msg, age>>
    BY <1>2 DEF CheckCaps
  <2>2. /\ SentWithin(0)' = SentWithin(0) /\ SentWithin(1)' = SentWithin(1)
        /\ SentLinks' = SentLinks
    BY <2>1 DEF SentWithin, SentLinks, Kind
  <2>3. Past' \in SUBSET Tasks /\ PastLinks' \in SUBSET Tasks
    BY DEF Past, PastLinks
  <2>4. /\ Cardinality(SentWithin(0)) < EffectiveCap(Kind(RowOf(t)))
        /\ Cardinality(SentWithin(1)) < DailyCap
    <3>1. /\ Cardinality(SentWithin(0)) \in Nat /\ Cardinality(SentWithin(1)) \in Nat
          /\ EffectiveCap(Kind(RowOf(t))) \in Nat
      BY Subsets, RowsFinite, CapNumbers
    <3> QED BY <1>2, <3>1, CapNumbers DEF Capped
  <2>5. /\ Cardinality(SentWithin(0)) < Least1(HourlyCap)
        /\ Cardinality(SentWithin(1)) < Least1(DailyCap)
    <3>1. Cardinality(SentWithin(0)) \in Nat /\ Cardinality(SentWithin(1)) \in Nat
      BY Subsets, RowsFinite
    <3> QED BY <2>4, <3>1, CapNumbers
  <2>6. Bounded(SentWithin(0), Past', Least1(HourlyCap))
    BY <2>3, <2>5, Subsets, CapNumbers, BoundedPasses
  <2>7. Bounded(SentWithin(1), Past', Least1(DailyCap))
    BY <2>3, <2>5, Subsets, CapNumbers, BoundedPasses
  <2>8. Bounded(SentLinks, PastLinks', EffectiveCap("link"))
    <3>0. RowOf(t) = task[t].row /\ task'[t].row = task[t].row /\ \A u \in Tasks \ {t} : task'[u] = task[u]
      BY <2>1, OneRunMoves DEF RowOf
    <3>1. CASE Kind(RowOf(t)) = "link"
      <4>1. Cardinality(SentLinks) < EffectiveCap("link")
        <5>1. /\ Cardinality(SentLinks) \in Nat /\ Cardinality(SentWithin(0)) \in Nat
              /\ Cardinality(SentLinks) <= Cardinality(SentWithin(0))
          BY Subsets, RowsFinite, Smaller DEF SentLinks
        <5> QED BY <2>4, <3>1, <5>1, CapNumbers
      <4> QED BY <2>3, <4>1, Subsets, CapNumbers, BoundedPasses
    <3>2. CASE Kind(RowOf(t)) # "link"
      <4>1. PastLinks' \subseteq PastLinks
        BY <2>1, <3>0, <3>2 DEF PastLinks, Past, Kind
      <4> QED BY <2>3, <4>1, Subsets, CapNumbers, BoundedShrinks DEF CapInv
    <3> QED BY <3>1, <3>2
  <2> QED BY <2>2, <2>6, <2>7, <2>8 DEF CapInv, Bounded
<1> QED BY <1>1, <1>2

(* A send is recorded: the run leaves as its row begins to count.          *)
LEMMA RecordSentCaps == ASSUME RelayInv, RelayInv', CapInv, NEW t \in Tasks, RecordSent(t) PROVE CapInv'
<1> USE DEF db, rows, people, world
<1>1. task[t].row \in Rows /\ t \in Past
  BY DEF RelayInv, RunsOK, RunOK, Holding, RecordSent, At, Past
<1>2. /\ \A u \in Tasks \ {t} : task'[u] = task[u]
      /\ task'[t].step \notin {"attempt", "sending", "ok"}
  <2>1. Goto(t, "mark") \/ Finish(t)
    BY DEF RecordSent
  <2> QED BY <2>1, OneRunMoves
<1>3. /\ UNCHANGED msg
      /\ \A s \in Rows \ {task[t].row} : status'[s] = status[s] /\ age'[s] = age[s]
  BY <1>1 DEF RecordSent, Write, RowOf, RelayInv, RelayTypeOK
<1>4. /\ Past' \subseteq Past \ {t} /\ Past' \in SUBSET Tasks
      /\ PastLinks' \subseteq PastLinks \ {t} /\ PastLinks' \in SUBSET Tasks
  BY <1>2, <1>3 DEF Past, PastLinks, Kind
<1>5. /\ SentWithin(0)' \subseteq SentWithin(0) \union {task[t].row}
      /\ SentWithin(1)' \subseteq SentWithin(1) \union {task[t].row}
      /\ SentWithin(0)' \in SUBSET Rows /\ SentWithin(1)' \in SUBSET Rows
      /\ SentLinks' \in SUBSET Rows
  BY <1>3 DEF SentWithin, SentLinks
<1>6. Bounded(SentWithin(0)', Past', Least1(HourlyCap))
  BY <1>1, <1>4, <1>5, Subsets, CapNumbers, BoundedMoves DEF CapInv
<1>7. Bounded(SentWithin(1)', Past', Least1(DailyCap))
  BY <1>1, <1>4, <1>5, Subsets, CapNumbers, BoundedMoves DEF CapInv
<1>8. Bounded(SentLinks', PastLinks', EffectiveCap("link"))
  <2>1. CASE Kind(task[t].row) = "link"
    <3>1. t \in PastLinks
      BY <1>1, <2>1 DEF PastLinks
    <3>2. SentLinks' \subseteq SentLinks \union {task[t].row}
      BY <1>3, <1>5 DEF SentLinks, SentWithin, Kind
    <3> QED BY <1>1, <1>4, <1>5, <3>1, <3>2, Subsets, CapNumbers, BoundedMoves DEF CapInv
  <2>2. CASE Kind(task[t].row) # "link"
    <3>1. SentLinks' \subseteq SentLinks
      BY <1>3, <1>5, <2>2 DEF SentLinks, SentWithin, Kind
    <3>2. PastLinks' \subseteq PastLinks
      BY <1>4
    <3> QED BY <1>4, <1>5, <3>1, <3>2, Subsets, CapNumbers, BoundedShrinks DEF CapInv
  <2> QED BY <2>1, <2>2
<1> QED BY <1>6, <1>7, <1>8 DEF CapInv, Bounded

LEMMA RequestCaps == RelayInv /\ RelayInv' /\ CapInv /\ Request => CapInv'
<1> SUFFICES ASSUME RelayInv, RelayInv', CapInv, Request PROVE CapInv'
  OBVIOUS
<1> USE DEF db, rows, people, world
<1>1. PICK t \in Callers :
         /\ \E kind, to, app : Begin(t, "reserve", kind, to, app, 0)
         /\ UNCHANGED rows
  BY DEF Request, RequestReply, RequestForward
<1>2. t \in Tasks
  BY DEF Tasks
<1> QED BY <1>1, <1>2, OneRunMoves, QuietRun

LEMMA SweepCaps == RelayInv /\ RelayInv' /\ CapInv /\ SweepStep => CapInv'
<1> SUFFICES ASSUME RelayInv, RelayInv', CapInv, SweepStep PROVE CapInv'
  OBVIOUS
<1> USE DEF db, rows, people, world
<1>0. Sweep \in Tasks
  BY DEF Tasks
<1>1. CASE SweepScan
  BY <1>0, <1>1, OneRunMoves, QuietRun DEF SweepScan
<1>2. ASSUME NEW r \in Rows, SweepRow(r) PROVE CapInv'
  <2>1. CASE msg[r].to \in optOut
    <3>1. Write(r, "failed", "opted out") /\ UNCHANGED <<task, msg, age>>
      BY <1>2, <2>1 DEF SweepRow
    <3>2. \A s \in Rows : status'[s] = "sent" => status[s] = "sent"
      BY <3>1, WriteQuiet
    <3> QED BY <1>0, <3>1, <3>2, QuietRun
  <2>2. CASE msg[r].to \notin optOut
    <3>1. Begin(Sweep, "caps", "retry", msg[r].to, "none", r) /\ UNCHANGED <<status, msg, age>>
      BY <1>2, <2>2 DEF SweepRow
    <3>2. /\ \A u \in Tasks \ {Sweep} : task'[u] = task[u]
          /\ task'[Sweep].step = "caps"
      BY <1>0, <3>1, OneRunMoves
    <3> QED BY <1>0, <3>1, <3>2, QuietRun
  <2> QED BY <2>1, <2>2
<1>3. CASE SweepEnd
  <2>1. \/ Begin(Sweep, "reserve", "heartbeat", Owner, "none", 0)
        \/ task' = [task EXCEPT ![Sweep] = NoRun]
    BY <1>3 DEF SweepEnd
  <2>2. /\ \A u \in Tasks \ {Sweep} : task'[u] = task[u]
        /\ task'[Sweep].step \notin {"attempt", "sending", "ok"}
    BY <1>0, <2>1, OneRunMoves
  <2> QED BY <1>0, <1>3, <2>2, QuietRun DEF SweepEnd
<1> QED BY <1>1, <1>2, <1>3 DEF SweepStep

LEMMA WorldCaps ==
    RelayInv /\ RelayInv' /\ CapInv
        /\ (\/ (\E p \in Stoppers : OptOut(p) \/ OptIn(p)) \/ HourPasses \/ DayPasses \/ Crash
            \/ UNCHANGED relayVars)
        => CapInv'
<1> USE DEF db, rows, people, world, memory, relayVars
<1> SUFFICES ASSUME RelayInv, RelayInv', CapInv,
                    \/ (\E p \in Stoppers : OptOut(p) \/ OptIn(p)) \/ HourPasses \/ DayPasses
                    \/ Crash \/ UNCHANGED relayVars
             PROVE  CapInv'
  OBVIOUS
<1>1. \A r \in Rows : age[r] \in Nat /\ age'[r] \in Nat
  BY DEF RelayInv, RelayTypeOK
<1>2. UNCHANGED <<status, msg>>
  BY DEF OptOut, OptIn, HourPasses, DayPasses, Crash
<1>3. \A r \in Rows : age'[r] >= age[r]
  BY <1>1 DEF OptOut, OptIn, HourPasses, DayPasses, Crash, Older
<1>4. \A u \in Past' : u \in Past /\ task'[u].row = task[u].row
  <2>1. CASE \E p \in Stoppers : OptIn(p)
    <3>1. PICK p \in Stoppers : OptIn(p)
      BY <2>1
    <3>2. ASSUME NEW u \in Tasks
          PROVE  task'[u].step = task[u].step /\ task'[u].row = task[u].row
      <4>1. task[u] \in Run
        BY DEF RelayInv, RelayTypeOK
      <4> QED BY <3>1, <4>1 DEF OptIn, Run
    <3> QED BY <3>2 DEF Past
  <2>2. CASE UNCHANGED task
    BY <2>2 DEF Past
  <2>3. CASE Crash
    BY <2>3, NotPast DEF Crash, Past
  <2> QED BY <2>1, <2>2, <2>3 DEF OptOut, HourPasses, DayPasses
<1> QED BY <1>1, <1>2, <1>3, <1>4, Quiet

LEMMA InitCaps == RelayInit => CapInv
<1> SUFFICES ASSUME RelayInit PROVE CapInv
  OBVIOUS
<1>1. /\ SentWithin(0) = {} /\ SentWithin(1) = {} /\ SentLinks = {}
      /\ Past = {} /\ PastLinks = {}
  BY NotPast DEF RelayInit, SentWithin, SentLinks, Past, PastLinks
<1>2. Cardinality({}) = 0
  BY FS_EmptySet
<1> QED BY <1>1, <1>2, TasksFinite, CapNumbers DEF CapInv, Bounded

(* However many runs race past the caps, with retries, crashes and rows of *)
(* every kind: the hour, the links' share of it and the day are exceeded   *)
(* by at most the number of the other runs.                                *)
THEOREM CapsHold == RelaySpec => []CapOvershootBounded
<1>1. RelayInv /\ CapInv /\ [RelayNext]_relayVars => RelayInv' /\ CapInv'
  <2> SUFFICES ASSUME RelayInv, CapInv, [RelayNext]_relayVars PROVE RelayInv' /\ CapInv'
    OBVIOUS
  <2>1. RelayInv'
    BY RequestInv, GuardedInv, SweepInv, WorldInv, StutterInv DEF RelayNext
  <2>2. ASSUME NEW t \in Tasks, Guarded(t) PROVE CapInv'
    BY <2>1, <2>2, QuietSteps, CheckCapsCaps, RecordSentCaps DEF Guarded
  <2> QED BY <2>1, <2>2, RequestCaps, SweepCaps, WorldCaps DEF RelayNext
<1>2. CapInv => CapOvershootBounded
  <2>1. /\ Cardinality(SentWithin(0)) \in Nat /\ Cardinality(SentWithin(1)) \in Nat
        /\ Cardinality(SentLinks) \in Nat
        /\ Cardinality(Past) \in Nat /\ Cardinality(PastLinks) \in Nat
    BY Subsets, RowsFinite, RunsFinite
  <2> QED BY <2>1, CapNumbers, TasksFinite
          DEF CapInv, Bounded, CapOvershootBounded, HourHolds, LinksHold, DayHolds
<1> QED BY RelayInitInv, InitCaps, <1>1, <1>2, PTL DEF RelaySpec
-----------------------------------------------------------------------------
(* That a text goes out once.                                              *)

Holds(t) == task[t].step \in Holding
Open     == {"pending", "deferred", "failed"}

(* A row has at most one run that holds it, and no queued row has any; the *)
(* row of a request stays pending until that run has written it, which is  *)
(* what makes its age tell the sweep that the row was abandoned.           *)
Apart     == \A t, u \in Tasks : Holds(t) /\ Holds(u) /\ task[t].row = task[u].row => t = u
HeldOpen  == \A t \in Tasks : Holds(t) => /\ status[task[t].row] \in Open
                                          /\ t # Sweep => status[task[t].row] = "pending"
QueueFree == \A r \in queue : /\ status[r] \in Open
                              /\ \A t \in Tasks : Holds(t) => task[t].row # r

(* A row that went out in this life of the server is recorded as sent, or  *)
(* the run that sent it is about to.                                       *)
Answered(r) == status[r] = "sent" \/ \E t \in Tasks : task[t].step = "ok" /\ task[t].row = r
SentOK == \A r \in Rows : /\ delivered[r] <= 1 + crashes
                          /\ ~Answered(r) => delivered[r] <= crashes

DeliveryInv == Apart /\ HeldOpen /\ QueueFree /\ SentOK

LEMMA NotHolding ==
    /\ NoRun.step \notin Holding /\ Turn.step \notin Holding
    /\ "ok" \in Holding /\ "sent" \notin Open
BY Values DEF Holding, Open

LEMMA InitDelivery == RelayInit => DeliveryInv
<1> SUFFICES ASSUME RelayInit PROVE DeliveryInv
  OBVIOUS
<1>1. \A t \in Tasks : ~Holds(t)
  BY NotHolding DEF RelayInit, Holds
<1>2. SentOK
  BY DEF RelayInit, SentOK
<1> QED BY <1>1, <1>2 DEF RelayInit, DeliveryInv, Apart, HeldOpen, QueueFree

(* What Goto, Begin and Finish do to the rows that are held.               *)
LEMMA HeldMoves ==
    ASSUME RelayInv, NEW t \in Tasks
    PROVE  /\ \A step : Goto(t, step) =>
                 /\ \A u \in Tasks \ {t} : task'[u] = task[u]
                 /\ task'[t].step = step /\ task'[t].row = task[t].row
           /\ Finish(t) \/ task' = [task EXCEPT ![t] = NoRun] \/ task' = [task EXCEPT ![t] = Turn] =>
                 /\ \A u \in Tasks \ {t} : task'[u] = task[u]
                 /\ task'[t].step \notin Holding
           /\ \A step, kind, to, app, row : Begin(t, step, kind, to, app, row) =>
                 /\ \A u \in Tasks \ {t} : task'[u] = task[u]
                 /\ task'[t].step = step /\ task'[t].row = row
<1>1. task \in [Tasks -> Run] /\ task[t] \in Run
  BY DEF RelayInv, RelayTypeOK
<1>2. ASSUME NEW step, Goto(t, step)
      PROVE  /\ \A u \in Tasks \ {t} : task'[u] = task[u]
             /\ task'[t].step = step /\ task'[t].row = task[t].row
  BY <1>1, <1>2 DEF Goto, Run
<1>3. ASSUME Finish(t) \/ task' = [task EXCEPT ![t] = NoRun] \/ task' = [task EXCEPT ![t] = Turn]
      PROVE  /\ \A u \in Tasks \ {t} : task'[u] = task[u]
             /\ task'[t].step \notin Holding
  <2>1. PICK run \in {NoRun, Turn} : task' = [task EXCEPT ![t] = run]
    BY <1>3 DEF Finish
  <2> QED BY <1>1, <2>1, NotHolding
<1>4. ASSUME NEW step, NEW kind, NEW to, NEW app, NEW row, Begin(t, step, kind, to, app, row)
      PROVE  /\ \A u \in Tasks \ {t} : task'[u] = task[u]
             /\ task'[t].step = step /\ task'[t].row = row
  BY <1>1, <1>4 DEF Begin
<1> QED BY <1>2, <1>3, <1>4

(* A run that sends nothing: it goes on with its row, or writes the row    *)
(* and lets it go.                                                         *)
LEMMA RunDelivers ==
    ASSUME RelayInv, DeliveryInv, NEW t \in Tasks, task[t].step # "ok",
           UNCHANGED <<queue, delivered, crashes>>,
           \A u \in Tasks \ {t} : task'[u] = task[u],
           Holds(t)' => /\ Holds(t) /\ task'[t].row = task[t].row /\ UNCHANGED status,
           \A r \in Rows : status'[r] # status[r] => Holds(t) /\ r = task[t].row
    PROVE  DeliveryInv'
<1>1. \A u \in Tasks : Holds(u)' => Holds(u) /\ task'[u].row = task[u].row
  BY DEF Holds
<1>2. \A u \in Tasks : Holds(u) => task[u].row \in Rows
  BY DEF RelayInv, RunsOK, RunOK, Holds
<1>3. \A u \in Tasks : Holds(u)' => status'[task[u].row] = status[task[u].row]
  <2> SUFFICES ASSUME NEW u \in Tasks, Holds(u)', status'[task[u].row] # status[task[u].row]
               PROVE  FALSE
    OBVIOUS
  <2>1. Holds(u) /\ Holds(t) /\ task[u].row = task[t].row
    BY <1>1, <1>2
  <2>2. u = t
    BY <2>1 DEF DeliveryInv, Apart
  <2> QED BY <2>2
<1>4. Apart'
  BY <1>1 DEF DeliveryInv, Apart
<1>5. HeldOpen'
  BY <1>1, <1>3 DEF DeliveryInv, HeldOpen
<1>6. QueueFree'
  <2> SUFFICES ASSUME NEW r \in queue PROVE /\ status'[r] \in Open
                                            /\ \A u \in Tasks : Holds(u)' => task'[u].row # r
    BY DEF QueueFree
  <2>1. r \in Rows /\ status[r] \in Open /\ \A u \in Tasks : Holds(u) => task[u].row # r
    BY DEF DeliveryInv, QueueFree, RelayInv, RelayTypeOK
  <2> QED BY <1>1, <2>1
<1>7. SentOK'
  <2> SUFFICES ASSUME NEW r \in Rows, ~Answered(r)' PROVE delivered[r] <= crashes
    BY DEF DeliveryInv, SentOK
  <2>1. ASSUME status[r] = "sent" PROVE FALSE
    <3>1. Holds(t) /\ r = task[t].row
      BY <2>1 DEF Answered
    <3> QED BY <2>1, <3>1, NotHolding DEF DeliveryInv, HeldOpen
  <2>2. ~Answered(r)
    BY <2>1 DEF Answered
  <2> QED BY <2>2 DEF DeliveryInv, SentOK
<1> QED BY <1>4, <1>5, <1>6, <1>7 DEF DeliveryInv

(* Writing the row of a run changes no other row.                          *)
LEMMA WritesOne ==
    ASSUME RelayInv, NEW r, NEW st, NEW reason, Write(r, st, reason)
    PROVE  \A s \in Rows : status'[s] # status[s] => s = r
BY DEF Write, RelayInv, RelayTypeOK

LEMMA QuietDelivery ==
    ASSUME RelayInv, DeliveryInv, NEW t \in Tasks,
           \/ Reserve(t) \/ CheckOptOut(t) \/ Cooldown(t) \/ CheckCaps(t) \/ Attempt(t)
           \/ RecordFailed(t) \/ MarkForwarded(t)
    PROVE  DeliveryInv'
<1> USE DEF db, rows, people, world
<1>1. CASE Reserve(t)
  <2>1. task' = [task EXCEPT ![t] = NoRun] \/ Goto(t, "opt-out")
    BY <1>1 DEF Reserve
  <2>2. \A u \in Tasks \ {t} : task'[u] = task[u]
    BY <2>1, HeldMoves
  <2>3. ~Holds(t)' /\ task[t].step # "ok"
    BY <1>1, <2>1, HeldMoves DEF Reserve, At, Holds, Holding
  <2> QED BY <1>1, <2>2, <2>3, RunDelivers DEF Reserve
<1>2. CASE CheckOptOut(t)
  <2>1. Finish(t) \/ Goto(t, "create")
    BY <1>2 DEF CheckOptOut
  <2>2. \A u \in Tasks \ {t} : task'[u] = task[u]
    BY <2>1, HeldMoves
  <2>3. ~Holds(t)' /\ task[t].step # "ok"
    BY <1>2, <2>1, HeldMoves DEF CheckOptOut, At, Holds, Holding
  <2> QED BY <1>2, <2>2, <2>3, RunDelivers DEF CheckOptOut
<1>3. CASE Cooldown(t)
  <2>0. Holds(t) /\ task[t].step # "ok"
    BY <1>3 DEF Cooldown, At, Holds, Holding
  <2>1. CASE Goto(t, "caps") /\ UNCHANGED status
    BY <1>3, <2>0, <2>1, HeldMoves, RunDelivers DEF Cooldown
  <2>2. CASE Finish(t) /\ Write(RowOf(t), "failed", "cooldown")
    <3>1. \A s \in Rows : status'[s] # status[s] => s = task[t].row
      BY <2>2, WritesOne DEF RowOf
    <3>2. ~Holds(t)' /\ \A u \in Tasks \ {t} : task'[u] = task[u]
      BY <2>2, HeldMoves DEF Holds
    <3> QED BY <1>3, <2>0, <3>1, <3>2, RunDelivers DEF Cooldown
  <2> QED BY <1>3, <2>1, <2>2 DEF Cooldown
<1>4. CASE CheckCaps(t)
  <2>0. Holds(t) /\ task[t].step # "ok"
    BY <1>4 DEF CheckCaps, At, Holds, Holding
  <2>1. CASE Goto(t, "attempt") /\ UNCHANGED status
    BY <1>4, <2>0, <2>1, HeldMoves, RunDelivers DEF CheckCaps
  <2>2. CASE Finish(t) /\ (UNCHANGED status \/ Write(RowOf(t), "deferred", "cap"))
    <3>1. \A s \in Rows : status'[s] # status[s] => s = task[t].row
      BY <2>2, WritesOne DEF RowOf
    <3>2. ~Holds(t)' /\ \A u \in Tasks \ {t} : task'[u] = task[u]
      BY <2>2, HeldMoves DEF Holds
    <3> QED BY <1>4, <2>0, <3>1, <3>2, RunDelivers DEF CheckCaps
  <2> QED BY <1>4, <2>1, <2>2 DEF CheckCaps
<1>5. CASE Attempt(t)
  <2>0. Holds(t) /\ task[t].step # "ok"
    BY <1>5 DEF Attempt, At, Holds, Holding
  <2>1. CASE Goto(t, "sending") /\ UNCHANGED status
    BY <1>5, <2>0, <2>1, HeldMoves, RunDelivers DEF Attempt
  <2>2. CASE Finish(t) /\ Write(RowOf(t), "deferred", "unavailable")
    <3>1. \A s \in Rows : status'[s] # status[s] => s = task[t].row
      BY <2>2, WritesOne DEF RowOf
    <3>2. ~Holds(t)' /\ \A u \in Tasks \ {t} : task'[u] = task[u]
      BY <2>2, HeldMoves DEF Holds
    <3> QED BY <1>5, <2>0, <3>1, <3>2, RunDelivers DEF Attempt
  <2> QED BY <1>5, <2>1, <2>2 DEF Attempt
<1>6. CASE RecordFailed(t)
  <2>0. Holds(t) /\ task[t].step # "ok"
    BY <1>6 DEF RecordFailed, At, Holds, Holding
  <2>2. Finish(t) /\ Write(RowOf(t), "failed", "error")
    BY <1>6 DEF RecordFailed
  <2>3. \A s \in Rows : status'[s] # status[s] => s = task[t].row
    BY <2>2, WritesOne DEF RowOf
  <2>4. ~Holds(t)' /\ \A u \in Tasks \ {t} : task'[u] = task[u]
    BY <2>2, HeldMoves DEF Holds
  <2> QED BY <1>6, <2>0, <2>3, <2>4, RunDelivers DEF RecordFailed
<1>7. CASE MarkForwarded(t)
  <2>1. task' = [task EXCEPT ![t] = NoRun] /\ task[t].step # "ok"
    BY <1>7 DEF MarkForwarded, At
  <2>2. ~Holds(t)' /\ \A u \in Tasks \ {t} : task'[u] = task[u]
    BY <2>1, HeldMoves DEF Holds
  <2> QED BY <1>7, <2>1, <2>2, RunDelivers DEF MarkForwarded
<1> QED BY <1>1, <1>2, <1>3, <1>4, <1>5, <1>6, <1>7

(* A new row is nobody's: it did not exist.                                *)
LEMMA CreateDelivery ==
    ASSUME RelayInv, DeliveryInv, NEW t \in Tasks, NEW r \in Rows, CreateRow(t, r)
    PROVE  DeliveryInv'
<1> USE DEF db, rows, people, world
<1>1. /\ task[t].step = "create" /\ status[r] = "none"
      /\ UNCHANGED <<queue, delivered, crashes>>
  BY DEF CreateRow, At
<1>2. /\ \A u \in Tasks \ {t} : task'[u] = task[u]
      /\ task'[t].row = r /\ task'[t].step \in {"cooldown", "caps"}
  BY DEF CreateRow, RelayInv, RelayTypeOK
<1>3. status'[r] = "pending" /\ \A s \in Rows \ {r} : status'[s] = status[s]
  BY DEF CreateRow, RelayInv, RelayTypeOK
<1>4. ASSUME NEW u \in Tasks \ {t}, Holds(u)'
      PROVE  Holds(u) /\ task'[u].row = task[u].row /\ task[u].row \in Rows \ {r}
  <2>1. Holds(u) /\ task'[u].row = task[u].row
    BY <1>2, <1>4 DEF Holds
  <2>2. task[u].row \in Rows /\ status[task[u].row] # "none"
    BY <2>1 DEF Holds, RelayInv, RunsOK, RunOK
  <2> QED BY <1>1, <2>1, <2>2
<1>5. Apart'
  BY <1>2, <1>4 DEF DeliveryInv, Apart
<1>6. HeldOpen'
  <2> SUFFICES ASSUME NEW u \in Tasks, Holds(u)'
               PROVE  /\ status'[task'[u].row] \in Open
                      /\ u # Sweep => status'[task'[u].row] = "pending"
    BY DEF HeldOpen
  <2>1. CASE u = t
    BY <1>2, <1>3, <2>1 DEF Open
  <2>2. CASE u # t
    BY <1>3, <1>4, <2>2 DEF DeliveryInv, HeldOpen
  <2> QED BY <2>1, <2>2
<1>7. QueueFree'
  <2> SUFFICES ASSUME NEW s \in queue PROVE /\ status'[s] \in Open
                                            /\ \A u \in Tasks : Holds(u)' => task'[u].row # s
    BY <1>1 DEF QueueFree
  <2>1. s \in Rows \ {r} /\ status[s] \in Open /\ \A u \in Tasks : Holds(u) => task[u].row # s
    BY <1>1 DEF DeliveryInv, QueueFree, RelayInv, RelayTypeOK, Open
  <2> QED BY <1>2, <1>3, <1>4, <2>1
<1>8. SentOK'
  <2> SUFFICES ASSUME NEW s \in Rows, ~Answered(s)' PROVE delivered[s] <= crashes
    BY <1>1 DEF DeliveryInv, SentOK
  <2>1. status[s] # "sent"
    BY <1>1, <1>3 DEF Answered
  <2>2. ~Answered(s)
    BY <1>1, <1>2, <2>1 DEF Answered
  <2> QED BY <2>2 DEF DeliveryInv, SentOK
<1> QED BY <1>5, <1>6, <1>7, <1>8 DEF DeliveryInv

(* The send itself: the row had not gone out in this life, since it is     *)
(* open and no other run holds it.                                         *)
LEMMA SendDelivery ==
    ASSUME RelayInv, DeliveryInv, NEW t \in Tasks, NEW result \in SendResults, result # "late",
           Send(t, result)
    PROVE  DeliveryInv'
<1> USE DEF db, rows, people, world
<1>0. /\ Holds(t) /\ task[t].step = "sending" /\ task[t].row \in Rows
      /\ UNCHANGED <<status, queue, crashes>>
  BY DEF Send, At, Holds, Holding, RelayInv, RunsOK, RunOK
<1>1. CASE result # "ok"
  <2>1. Goto(t, "error") /\ UNCHANGED delivered
    BY <1>1, RelayAssumption DEF Send, RelayAssumption
  <2> QED BY <1>0, <2>1, HeldMoves, RunDelivers
<1>2. CASE result = "ok"
  <2>1. /\ Goto(t, "ok") /\ delivered' = [delivered EXCEPT ![task[t].row] = @ + 1]
    BY <1>2 DEF Send, RowOf
  <2>2. /\ \A u \in Tasks \ {t} : task'[u] = task[u]
        /\ task'[t].step = "ok" /\ task'[t].row = task[t].row
    BY <2>1, HeldMoves
  <2>3. \A u \in Tasks : (Holds(u)' <=> Holds(u)) /\ task'[u].row = task[u].row
    BY <1>0, <2>2, NotHolding DEF Holds
  <2>4. Apart' /\ HeldOpen' /\ QueueFree'
    BY <1>0, <2>3 DEF DeliveryInv, Apart, HeldOpen, QueueFree
  <2>5. ~Answered(task[t].row)
    <3>1. status[task[t].row] # "sent"
      BY <1>0, NotHolding DEF DeliveryInv, HeldOpen
    <3>2. ASSUME NEW u \in Tasks, task[u].step = "ok", task[u].row = task[t].row PROVE FALSE
      <4>1. Holds(u)
        BY <3>2, NotHolding DEF Holds
      <4>2. u = t
        BY <1>0, <3>2, <4>1 DEF DeliveryInv, Apart
      <4> QED BY <1>0, <3>2, <4>2
    <3> QED BY <3>1, <3>2 DEF Answered
  <2>6. SentOK'
    <3> SUFFICES ASSUME NEW r \in Rows
                 PROVE  delivered'[r] <= 1 + crashes /\ (~Answered(r)' => delivered'[r] <= crashes)
      BY <1>0 DEF SentOK
    <3>0. delivered[r] \in Nat /\ crashes \in Nat /\ delivered \in [Rows -> Nat]
      BY DEF RelayInv, RelayTypeOK
    <3>1. CASE r = task[t].row
      <4>1. delivered[r] <= crashes
        BY <2>5, <3>1 DEF DeliveryInv, SentOK
      <4>2. delivered'[r] = delivered[r] + 1
        BY <2>1, <3>0, <3>1
      <4>3. Answered(r)'
        BY <2>2, <3>1 DEF Answered
      <4> QED BY <3>0, <4>1, <4>2, <4>3
    <3>2. CASE r # task[t].row
      <4>1. delivered'[r] = delivered[r]
        BY <2>1, <3>0, <3>2
      <4>2. Answered(r) => Answered(r)'
        BY <1>0, <2>2 DEF Answered
      <4> QED BY <4>1, <4>2 DEF DeliveryInv, SentOK
    <3> QED BY <3>1, <3>2
  <2> QED BY <2>4, <2>6 DEF DeliveryInv
<1> QED BY <1>1, <1>2

LEMMA RecordDelivery ==
    ASSUME RelayInv, DeliveryInv, NEW t \in Tasks, RecordSent(t)
    PROVE  DeliveryInv'
<1> USE DEF db, rows, people, world
<1>1. /\ Holds(t) /\ task[t].row \in Rows
      /\ UNCHANGED <<queue, delivered, crashes>>
      /\ status' = [status EXCEPT ![task[t].row] = "sent"]
  BY DEF RecordSent, Write, RowOf, At, Holds, Holding, RelayInv, RunsOK, RunOK
<1>2. (\A u \in Tasks \ {t} : task'[u] = task[u]) /\ ~Holds(t)'
  <2>1. Goto(t, "mark") \/ Finish(t)
    BY DEF RecordSent
  <2> QED BY <2>1, HeldMoves DEF Holds, Holding
<1>3. status'[task[t].row] = "sent" /\ \A r \in Rows \ {task[t].row} : status'[r] = status[r]
  BY <1>1 DEF RelayInv, RelayTypeOK
<1>4. ASSUME NEW u \in Tasks, Holds(u)'
      PROVE  Holds(u) /\ task'[u].row = task[u].row /\ task[u].row \in Rows \ {task[t].row}
  <2>1. u # t /\ Holds(u) /\ task'[u].row = task[u].row
    BY <1>2, <1>4 DEF Holds
  <2>2. task[u].row \in Rows /\ task[u].row # task[t].row
    BY <1>1, <2>1 DEF Holds, RelayInv, RunsOK, RunOK, DeliveryInv, Apart
  <2> QED BY <2>1, <2>2
<1>5. Apart' /\ HeldOpen'
  BY <1>3, <1>4 DEF DeliveryInv, Apart, HeldOpen
<1>6. QueueFree'
  <2> SUFFICES ASSUME NEW r \in queue PROVE /\ status'[r] \in Open
                                            /\ \A u \in Tasks : Holds(u)' => task'[u].row # r
    BY <1>1 DEF QueueFree
  <2>1. r \in Rows \ {task[t].row} /\ status[r] \in Open
        /\ \A u \in Tasks : Holds(u) => task[u].row # r
    BY <1>1 DEF DeliveryInv, QueueFree, RelayInv, RelayTypeOK
  <2> QED BY <1>3, <1>4, <2>1
<1>7. SentOK'
  <2> SUFFICES ASSUME NEW r \in Rows, ~Answered(r)' PROVE delivered[r] <= crashes
    BY <1>1 DEF DeliveryInv, SentOK
  <2>1. ~Answered(r)
    BY <1>2, <1>3 DEF Answered
  <2> QED BY <2>1 DEF DeliveryInv, SentOK
<1> QED BY <1>5, <1>6, <1>7 DEF DeliveryInv

LEMMA GuardedDelivery ==
    ASSUME RelayInv, DeliveryInv, NEW t \in Tasks, Guarded(t), "late" \notin SendResults
    PROVE  DeliveryInv'
BY QuietDelivery, CreateDelivery, SendDelivery, RecordDelivery DEF Guarded

LEMMA RequestDelivery == RelayInv /\ DeliveryInv /\ Request => DeliveryInv'
<1> SUFFICES ASSUME RelayInv, DeliveryInv, Request PROVE DeliveryInv'
  OBVIOUS
<1> USE DEF db, rows, people, world
<1>1. PICK t \in Callers :
         /\ \E kind, to, app : Begin(t, "reserve", kind, to, app, 0)
         /\ At(t, "idle") /\ UNCHANGED <<status, queue, delivered, crashes>>
  BY DEF Request, RequestReply, RequestForward
<1>2. t \in Tasks
  BY DEF Tasks
<1>3. /\ \A u \in Tasks \ {t} : task'[u] = task[u]
      /\ task'[t].step = "reserve"
  BY <1>1, <1>2, HeldMoves
<1>4. task[t].step # "ok" /\ ~Holds(t)'
  BY <1>1, <1>3 DEF At, Holds, Holding
<1> QED BY <1>1, <1>2, <1>3, <1>4, RunDelivers

(* The sweep takes rows that nobody holds: a row of a request is pending,  *)
(* and a pending row is taken only when its run is gone.                   *)
LEMMA SweepDelivery == RelayInv /\ DeliveryInv /\ SweepStep => DeliveryInv'
<1> SUFFICES ASSUME RelayInv, DeliveryInv, SweepStep PROVE DeliveryInv'
  OBVIOUS
<1> USE DEF db, rows, people, world
<1>0. Sweep \in Tasks
  BY DEF Tasks
<1>1. CASE SweepScan
  <2>1. /\ task' = [task EXCEPT ![Sweep] = Turn] /\ task[Sweep].step = "idle"
        /\ UNCHANGED <<status, delivered, crashes>>
        /\ queue' \subseteq Candidates
    BY <1>1 DEF SweepScan, At
  <2>2. (\A u \in Tasks \ {Sweep} : task'[u] = task[u]) /\ ~Holds(Sweep)' /\ ~Holds(Sweep)
    BY <1>0, <2>1, HeldMoves DEF Holds, Holding
  <2>3. \A u \in Tasks : Holds(u)' => Holds(u) /\ u # Sweep /\ task'[u].row = task[u].row
    BY <2>2 DEF Holds
  <2>4. Apart' /\ HeldOpen'
    BY <2>1, <2>3 DEF DeliveryInv, Apart, HeldOpen
  <2>5. QueueFree'
    <3> SUFFICES ASSUME NEW r \in Candidates, NEW u \in Tasks
                 PROVE  status[r] \in Open /\ (Holds(u)' => task'[u].row # r)
      BY <1>0, <2>1 DEF QueueFree
    <3>1. status[r] \in Open /\ (status[r] = "pending" => task[u].row # r)
      BY DEF Candidates, Candidate, Open, RowOf
    <3>2. Holds(u)' => status[task[u].row] = "pending"
      BY <2>3 DEF DeliveryInv, HeldOpen
    <3> QED BY <2>3, <3>1, <3>2
  <2>6. SentOK'
    <3> SUFFICES ASSUME NEW r \in Rows, Answered(r) PROVE Answered(r)'
      BY <2>1 DEF DeliveryInv, SentOK
    <3> QED BY <2>1, <2>2, NotHolding DEF Answered
  <2> QED BY <2>4, <2>5, <2>6 DEF DeliveryInv
<1>2. ASSUME NEW r \in Rows, SweepRow(r) PROVE DeliveryInv'
  <2>1. /\ task[Sweep].step = "next" /\ r \in queue /\ queue' = queue \ {r}
        /\ UNCHANGED <<delivered, crashes>>
    BY <1>2 DEF SweepRow, At
  <2>2. status[r] \in Open /\ \A u \in Tasks : Holds(u) => task[u].row # r
    BY <2>1 DEF DeliveryInv, QueueFree
  <2>3. CASE msg[r].to \in optOut
    <3>1. UNCHANGED task /\ status' = [status EXCEPT ![r] = "failed"]
      BY <1>2, <2>3 DEF SweepRow, Write
    <3>2. \A s \in Rows \ {r} : status'[s] = status[s]
      BY <3>1 DEF RelayInv, RelayTypeOK
    <3>3. \A u \in Tasks : Holds(u) => task[u].row \in Rows \ {r}
      BY <2>2 DEF Holds, RelayInv, RunsOK, RunOK
    <3>4. Apart' /\ HeldOpen'
      BY <3>1, <3>2, <3>3 DEF DeliveryInv, Apart, HeldOpen, Holds
    <3>5. QueueFree'
      BY <2>1, <3>1, <3>2 DEF DeliveryInv, QueueFree, Holds, RelayInv, RelayTypeOK
    <3>6. SentOK'
      <4> SUFFICES ASSUME NEW s \in Rows, Answered(s) PROVE Answered(s)'
        BY <2>1 DEF DeliveryInv, SentOK
      <4> QED BY <2>2, <3>1, <3>2, NotHolding DEF Answered
    <3> QED BY <3>4, <3>5, <3>6 DEF DeliveryInv
  <2>4. CASE msg[r].to \notin optOut
    <3>1. Begin(Sweep, "caps", "retry", msg[r].to, "none", r) /\ UNCHANGED status
      BY <1>2, <2>4 DEF SweepRow
    <3>2. /\ \A u \in Tasks \ {Sweep} : task'[u] = task[u]
          /\ task'[Sweep].step = "caps" /\ task'[Sweep].row = r
      BY <1>0, <3>1, HeldMoves
    <3>3. \A u \in Tasks \ {Sweep} : Holds(u)' => Holds(u) /\ task'[u].row = task[u].row /\ task[u].row # r
      BY <2>2, <3>2 DEF Holds
    <3>4. Apart'
      BY <3>2, <3>3 DEF DeliveryInv, Apart
    <3>5. HeldOpen'
      BY <2>2, <3>1, <3>2, <3>3 DEF DeliveryInv, HeldOpen
    <3>6. QueueFree'
      <4> SUFFICES ASSUME NEW s \in queue \ {r}, NEW u \in Tasks
                   PROVE  status[s] \in Open /\ (Holds(u)' => task'[u].row # s)
        BY <1>0, <2>1, <3>1 DEF QueueFree
      <4>1. status[s] \in Open /\ (Holds(u) => task[u].row # s)
        BY DEF DeliveryInv, QueueFree
      <4> QED BY <3>2, <3>3, <4>1
    <3>7. SentOK'
      <4> SUFFICES ASSUME NEW s \in Rows, Answered(s) PROVE Answered(s)'
        BY <2>1 DEF DeliveryInv, SentOK
      <4> QED BY <2>1, <3>1, <3>2 DEF Answered
    <3> QED BY <3>4, <3>5, <3>6, <3>7 DEF DeliveryInv
  <2> QED BY <2>3, <2>4
<1>3. CASE SweepEnd
  <2>1. /\ \/ Begin(Sweep, "reserve", "heartbeat", Owner, "none", 0)
           \/ task' = [task EXCEPT ![Sweep] = NoRun]
        /\ queue' = {} /\ task[Sweep].step = "next" /\ UNCHANGED <<status, delivered, crashes>>
    BY <1>3 DEF SweepEnd, At
  <2>2. (\A u \in Tasks \ {Sweep} : task'[u] = task[u]) /\ ~Holds(Sweep)'
    BY <1>0, <2>1, HeldMoves DEF Holds, Holding
  <2>3. \A u \in Tasks : Holds(u)' => Holds(u) /\ task'[u].row = task[u].row
    BY <2>2 DEF Holds
  <2>4. Apart' /\ HeldOpen'
    BY <2>1, <2>3 DEF DeliveryInv, Apart, HeldOpen
  <2>5. SentOK'
    <3> SUFFICES ASSUME NEW r \in Rows, Answered(r) PROVE Answered(r)'
      BY <2>1 DEF DeliveryInv, SentOK
    <3> QED BY <2>1, <2>2 DEF Answered
  <2> QED BY <2>1, <2>4, <2>5 DEF DeliveryInv, QueueFree
<1> QED BY <1>1, <1>2, <1>3 DEF SweepStep

(* A crash starts a life in which nothing has gone out yet.                *)
LEMMA WorldDelivery ==
    RelayInv /\ DeliveryInv
        /\ (\/ (\E p \in Stoppers : OptOut(p) \/ OptIn(p)) \/ HourPasses \/ DayPasses \/ Crash
            \/ UNCHANGED relayVars)
        => DeliveryInv'
<1> USE DEF db, rows, people, world, memory, relayVars
<1> SUFFICES ASSUME RelayInv, DeliveryInv,
                    \/ (\E p \in Stoppers : OptOut(p) \/ OptIn(p)) \/ HourPasses \/ DayPasses
                    \/ Crash \/ UNCHANGED relayVars
             PROVE  DeliveryInv'
  OBVIOUS
<1>1. CASE Crash
  <2>1. /\ UNCHANGED <<status, delivered>> /\ crashes' = crashes + 1 /\ queue' = {}
        /\ task' = [t \in Tasks |-> NoRun]
    BY <1>1 DEF Crash
  <2>2. \A t \in Tasks : ~Holds(t)'
    BY <2>1, NotHolding DEF Holds
  <2>3. SentOK'
    <3> SUFFICES ASSUME NEW r \in Rows
                 PROVE  delivered[r] <= 1 + crashes' /\ delivered[r] <= crashes'
      BY <2>1 DEF SentOK
    <3>1. delivered[r] \in Nat /\ crashes \in Nat /\ delivered[r] <= 1 + crashes
      BY DEF RelayInv, RelayTypeOK, DeliveryInv, SentOK
    <3> QED BY <2>1, <3>1
  <2> QED BY <2>1, <2>2, <2>3 DEF DeliveryInv, Apart, HeldOpen, QueueFree
<1>2. CASE ~Crash
  <2>1. /\ UNCHANGED <<status, queue, delivered, crashes>>
        /\ \A u \in Tasks : task'[u].step = task[u].step /\ task'[u].row = task[u].row
    <3>1. CASE \E p \in Stoppers : OptIn(p)
      <4>1. PICK p \in Stoppers : OptIn(p)
        BY <3>1
      <4>2. ASSUME NEW u \in Tasks
            PROVE  task'[u].step = task[u].step /\ task'[u].row = task[u].row
        <5>1. task[u] \in Run
          BY DEF RelayInv, RelayTypeOK
        <5> QED BY <4>1, <5>1 DEF OptIn, Run
      <4> QED BY <4>1, <4>2 DEF OptIn
    <3>2. CASE ~\E p \in Stoppers : OptIn(p)
      BY <1>2, <3>2 DEF OptOut, HourPasses, DayPasses
    <3> QED BY <3>1, <3>2
  <2>2. \A u \in Tasks : Holds(u)' <=> Holds(u)
    BY <2>1 DEF Holds
  <2>3. Apart' /\ HeldOpen'
    BY <2>1, <2>2 DEF DeliveryInv, Apart, HeldOpen
  <2>4. QueueFree'
    BY <2>1, <2>2 DEF DeliveryInv, QueueFree
  <2>5. SentOK'
    BY <2>1 DEF DeliveryInv, SentOK, Answered
  <2> QED BY <2>3, <2>4, <2>5 DEF DeliveryInv
<1> QED BY <1>1, <1>2

(* With any number of callers, retries, sweeps and crashes, a row's text   *)
(* reaches the phone at most once in each life of the server, as long as   *)
(* no send is killed after its text went out (osascript's timeout).        *)
THEOREM TextsGoOutOnce ==
    ASSUME "late" \notin SendResults
    PROVE  RelaySpec => []DeliveredOnce
<1>1. RelayInv /\ DeliveryInv /\ [RelayNext]_relayVars => RelayInv' /\ DeliveryInv'
  <2> SUFFICES ASSUME RelayInv, DeliveryInv, [RelayNext]_relayVars PROVE RelayInv' /\ DeliveryInv'
    OBVIOUS
  <2>1. RelayInv'
    BY RequestInv, GuardedInv, SweepInv, WorldInv, StutterInv DEF RelayNext
  <2>2. DeliveryInv'
    BY RequestDelivery, GuardedDelivery, SweepDelivery, WorldDelivery DEF RelayNext
  <2> QED BY <2>1, <2>2
<1>2. DeliveryInv => DeliveredOnce
  BY DEF DeliveryInv, SentOK, DeliveredOnce
<1> QED BY RelayInitInv, InitDelivery, <1>1, <1>2, PTL DEF RelaySpec
=============================================================================
