-------------------------- MODULE RentPages_proofs --------------------------
(***************************************************************************)
(* Proofs about the rent pages, as they run in TenantPortal, for any tabs, *)
(* requests, amounts and mishaps.                                          *)
(*                                                                         *)
(* Nothing the run checks is inductive. What is owed to the past is        *)
(* counted where it waits: a request that is about to debit, a page whose  *)
(* form asks to try again (MeantInv); a debit whose id is in one request's *)
(* hands and in no row yet (StripeInv); a Plaid item that a link request   *)
(* still has to save, or one two requests have read together (BankInv).    *)
(* All of it rests on the stages a request goes through and what it knows  *)
(* at each (RentTyped).                                                    *)
(*                                                                         *)
(* The other half of the portal can only end the lease, so its steps leave *)
(* the invariant as it was.                                                *)
(***************************************************************************)
EXTENDS TenantPortal, FiniteSetTheorems, SequenceTheorems, TLAPS

-----------------------------------------------------------------------------
(* The rent pages: types                                                   *)

RentPcs == {"idle", "lease", "bank", "row", "stripe", "store", "read", "remove", "obtain", "save",
            "clear", "put", "check", "write", "reverse"}
RentReqs ==
  [op : Op \cup {"none"}, scr : Screens \cup {Nobody}, pc : RentPcs, meth : {"none", "bank", "card"},
   amt : Amounts \cup {0}, pid : Nat, item : Nat, fresh : Nat, cust : Nat, pm : Nat, debit : Nat, val : Nat]
PageNeeds == {"lease", "bank", "profile", "rows", "balance", "list", "owes"}
RentScreens ==
  [at : {"none", "pay", "settings", "history", "desk"}, need : SUBSET PageNeeds, lease : BOOLEAN,
   bank : BOOLEAN, prof : Nat, owes : BOOLEAN, done : SUBSET Nat, busy : SUBSET Op, again : SUBSET Op,
   widget : BOOLEAN, claim : Nat]

\* which stages a request of each kind goes through, and what it knows there
InTurn(q) ==
  \/ q.op = "none" /\ q.pc = "idle"
  \/ /\ q.op = "pay" /\ q.pc \in {"lease", "bank", "row", "stripe", "store"}
     /\ q.amt \in Amounts /\ q.meth \in {"bank", "card"}
     /\ q.pc \in {"bank", "stripe", "store"} => q.meth = "bank"
     /\ q.pc \in {"stripe", "store"} => q.pid >= 1
     /\ q.pc = "store" => q.debit >= 1
  \/ /\ q.op = "link" /\ q.pc \in {"read", "remove", "obtain", "save"}
     /\ q.pc = "remove" => q.item >= 1
     /\ q.pc = "save" => q.fresh >= 1 /\ q.pm >= 1
  \/ /\ q.op = "unlink" /\ q.pc \in {"read", "remove", "clear"}
     /\ q.pc # "read" => q.item >= 1
  \/ q.op = "profile" /\ q.pc = "put"
  \/ q.op = "password" /\ q.pc \in {"check", "put"}
  \/ q.op = "record" /\ q.pc = "write" /\ q.amt \in Amounts
  \/ /\ q.op = "refund" /\ q.pc \in {"check", "stripe", "reverse"} /\ q.pid >= 1
     /\ q.pc = "stripe" => q.debit >= 1

\* how many of each thing there are so far
Sizes == [pays |-> Len(pays), debits |-> Len(debits), items |-> Len(items), sources |-> Len(sources),
          custs |-> custs]
Counts == [pays : Nat, debits : Nat, items : Nat, sources : Nat, custs : Nat]
Grow(m, n) ==
  /\ m.pays <= n.pays /\ m.debits <= n.debits /\ m.items <= n.items /\ m.sources <= n.sources
  /\ m.custs <= n.custs
Below(q, n) ==
  /\ q.pid <= n.pays /\ q.debit <= n.debits /\ q.item <= n.items /\ q.fresh <= n.items
  /\ q.cust <= n.custs /\ q.pm <= n.sources
Shows(p, n) == p.claim <= n.pays /\ p.done \subseteq 1..n.pays

RentReqOK(q, n) == q \in RentReqs /\ InTurn(q) /\ Below(q, n)
RentPageOK(p, n) == p \in RentScreens /\ Shows(p, n)
RentReqsTyped == req \in [Reqs -> RentReqs] /\ \A r \in Reqs : RentReqOK(req[r], Sizes)
RentPagesTyped == page \in [Screens -> RentScreens] /\ \A s \in Screens : RentPageOK(page[s], Sizes)

Debit == [amt : Amounts, st : {"processing", "succeeded", "failed", "refunded"}]
Budgets == [presses : Nat, visits : Nat, haps : Nat]
MoneyTyped ==
  /\ paid \in 0..Due /\ pays \in Seq(Payment) /\ debits \in Seq(Debit)
  /\ \A i \in Pays : pays[i].debit <= Len(debits)
LinkTyped ==
  /\ items \in Seq(BOOLEAN) /\ sources \in Seq(Nat) /\ custs \in Nat
  /\ bank \in [item : 0..Len(items), cust : 0..custs, pm : 0..Len(sources)]
RestTyped ==
  /\ cast \in Casts /\ lease \in BOOLEAN /\ login \in [prof : Nat, pw : Nat] /\ budget \in Budgets
  /\ wishes \in Nat /\ strays \in Nat
RentTyped == MoneyTyped /\ LinkTyped /\ RestTyped /\ RentReqsTyped /\ RentPagesTyped

LEMMA RentFacts ==
  /\ Amounts \subseteq Nat \ {0} /\ Due \in Nat /\ IsFiniteSet(Screens) /\ IsFiniteSet(Reqs)
  /\ \A c \in Casts : c.presses \in Nat /\ c.visits \in Nat /\ c.haps \in Nat
BY RentPagesAssumption DEF RentPagesAssumption

LEMMA SizesTyped == ASSUME MoneyTyped, LinkTyped
  PROVE Sizes \in Counts
BY DEF MoneyTyped, LinkTyped, Sizes, Counts

LEMMA SizesTyped2 == ASSUME MoneyTyped', LinkTyped'
  PROVE Sizes' \in Counts
BY DEF MoneyTyped, LinkTyped, Sizes, Counts

\* nothing a request or a page knows of goes away
LEMMA BelowGrows == ASSUME NEW q, NEW m, NEW n, RentReqOK(q, m), Grow(m, n),
    m \in Counts, n \in Counts
  PROVE RentReqOK(q, n)
BY DEF RentReqOK, Below, Grow, RentReqs, Counts

LEMMA ShowsGrows == ASSUME NEW p, NEW m, NEW n, RentPageOK(p, m), Grow(m, n),
    m \in Counts, n \in Counts
  PROVE RentPageOK(p, n)
<1>1. 1..m.pays \subseteq 1..n.pays
  BY DEF Grow, Counts
<1>2. p.claim <= n.pays
  BY DEF RentPageOK, Shows, Grow, RentScreens, Counts
<1> QED BY <1>1, <1>2 DEF RentPageOK, Shows

\* a request goes on, pages stay
LEMMA ReqGoes == ASSUME RentTyped, MoneyTyped', LinkTyped', Grow(Sizes, Sizes'), NEW r \in Reqs, NEW new,
    RentReqOK(new, Sizes'), Goes(r, new)
  PROVE RentReqsTyped'
<1>1. \A x \in Reqs : req'[x] = IF x = r THEN new ELSE req[x]
  BY DEF Goes, RentTyped, RentReqsTyped
<1>2. \A x \in Reqs : RentReqOK(req[x], Sizes')
  BY BelowGrows, SizesTyped, SizesTyped2 DEF RentTyped, RentReqsTyped
<1>3. req' \in [Reqs -> RentReqs]
  BY DEF Goes, RentTyped, RentReqsTyped, RentReqOK
<1> QED BY <1>1, <1>2, <1>3 DEF RentReqsTyped

LEMMA ReqsStay == ASSUME RentTyped, MoneyTyped', LinkTyped', Grow(Sizes, Sizes'), req' = req
  PROVE RentReqsTyped'
<1>2. \A x \in Reqs : RentReqOK(req[x], Sizes')
  BY BelowGrows, SizesTyped, SizesTyped2 DEF RentTyped, RentReqsTyped
<1> QED BY <1>2 DEF RentReqsTyped, RentTyped

\* a page changes, the others stay
LEMMA PageChanges == ASSUME RentTyped, MoneyTyped', LinkTyped', Grow(Sizes, Sizes'), NEW s, NEW new,
    RentPageOK(new, Sizes'), page' = [page EXCEPT ![s] = new]
  PROVE RentPagesTyped'
<1>1. \A x \in Screens : page'[x] = IF x = s THEN new ELSE page[x]
  BY DEF RentTyped, RentPagesTyped
<1>2. \A x \in Screens : RentPageOK(page[x], Sizes')
  BY ShowsGrows, SizesTyped, SizesTyped2 DEF RentTyped, RentPagesTyped
<1>3. page' \in [Screens -> RentScreens]
  BY DEF RentTyped, RentPagesTyped, RentPageOK
<1> QED BY <1>1, <1>2, <1>3 DEF RentPagesTyped

LEMMA PagesStay == ASSUME RentTyped, MoneyTyped', LinkTyped', Grow(Sizes, Sizes'), page' = page
  PROVE RentPagesTyped'
<1>2. \A x \in Screens : RentPageOK(page[x], Sizes')
  BY ShowsGrows, SizesTyped, SizesTyped2 DEF RentTyped, RentPagesTyped
<1> QED BY <1>2 DEF RentPagesTyped, RentTyped

LEMMA RentIdle == \A n \in Counts : RentReqOK(Idle, n)
BY DEF RentReqOK, RentReqs, Idle, InTurn, Below, RentPcs, Nobody, Counts

LEMMA ClosedOK == \A n \in Counts : RentPageOK(Closed, n)
BY DEF RentPageOK, RentScreens, Closed, Shows, Counts

LEMMA HearsOK == ASSUME NEW p, NEW q, NEW n, NEW ok \in BOOLEAN, RentPageOK(p, n), RentReqOK(q, n), q.op \in Op
  PROVE RentPageOK(Hears(p, q, ok), n)
<1> DEFINE p1 == [p EXCEPT !.busy = @ \ {q.op}]
<1>1. RentPageOK(p1, n)
  BY DEF RentPageOK, RentScreens, Shows
<1> HIDE DEF p1
<1>2. CASE ~ok
  <2>1. Hears(p, q, ok) = [p1 EXCEPT !.again = @ \cup {q.op}]
    BY <1>2 DEF Hears, p1, DeskOp
  <2> QED BY <1>1, <2>1 DEF RentPageOK, RentScreens, Shows
<1>3. CASE ok /\ q.op = "pay"
  <2>1. Hears(p, q, ok) = [p1 EXCEPT !.claim = q.pid]
    BY <1>3 DEF Hears, p1, Submitted, DeskOp
  <2> QED BY <1>1, <2>1 DEF RentPageOK, RentScreens, Shows, RentReqOK, RentReqs, Below
<1>4. CASE ok /\ q.op \in {"link", "unlink", "profile", "password"}
  <2>1. \/ Hears(p, q, ok) = [p1 EXCEPT !.bank = TRUE]
        \/ Hears(p, q, ok) = [p1 EXCEPT !.bank = FALSE]
        \/ Hears(p, q, ok) = [p1 EXCEPT !.prof = q.val]
        \/ Hears(p, q, ok) = p1
    BY <1>4 DEF Hears, p1, DeskOp
  <2> QED BY <1>1, <2>1 DEF RentPageOK, RentScreens, Shows, RentReqOK, RentReqs
<1>5. CASE ok /\ q.op \in DeskOp
  <2>1. q.op # "pay" /\ q.op \notin {"link", "unlink", "profile", "password"}
    BY <1>5 DEF DeskOp
  <2>2. Hears(p, q, ok) = Recorded(p1, q.op)
    BY <1>5, <2>1 DEF Hears, p1
  <2>3. Wants("desk") \in SUBSET PageNeeds
    BY DEF Wants, PageNeeds
  <2> DEFINE new == Recorded(p1, q.op)
  <2>4. p1 \in RentScreens /\ Shows(p1, n)
    BY <1>1 DEF RentPageOK
  <2>5. new \in RentScreens /\ new.claim = p1.claim /\ new.done = p1.done
    <3> HIDE DEF PageNeeds
    <3> QED BY <2>3, <2>4 DEF Recorded, RentScreens
  <2> HIDE DEF new
  <2>6. RentPageOK(new, n)
    BY <2>4, <2>5 DEF RentPageOK, Shows
  <2> QED BY <2>2, <2>6 DEF new
<1> QED BY <1>2, <1>3, <1>4, <1>5 DEF Op, TabOp, DeskOp

LEMMA HeardTyped == ASSUME RentTyped, MoneyTyped', LinkTyped', Grow(Sizes, Sizes'), NEW q, NEW ok \in BOOLEAN,
    RentReqOK(q, Sizes'), q.op \in Op, page' = Heard(q, ok)
  PROVE RentPagesTyped'
<1>1. CASE q.scr = Nobody
  BY <1>1, PagesStay DEF Heard
<1>2. CASE q.scr # Nobody
  <2>1. q.scr \in Screens
    BY <1>2 DEF RentReqOK, RentReqs
  <2>2. page' = [page EXCEPT ![q.scr] = Hears(page[q.scr], q, ok)]
    BY <1>2 DEF Heard
  <2>3. RentPageOK(page[q.scr], Sizes')
    BY <2>1, ShowsGrows, SizesTyped, SizesTyped2 DEF RentTyped, RentPagesTyped
  <2>4. RentPageOK(Hears(page[q.scr], q, ok), Sizes')
    BY <2>3, HearsOK
  <2> QED BY <2>2, <2>4, PageChanges
<1> QED BY <1>1, <1>2

\* a request ends, and its page hears of it
LEMMA EndsTyped == ASSUME RentTyped, MoneyTyped', LinkTyped', Grow(Sizes, Sizes'), NEW r \in Reqs, NEW ok \in BOOLEAN,
    req[r].op \in Op, Ends(r, ok)
  PROVE RentReqsTyped' /\ RentPagesTyped'
<1>1. RentReqOK(req[r], Sizes')
  BY BelowGrows, SizesTyped, SizesTyped2 DEF RentTyped, RentReqsTyped
<1>2. RentPagesTyped'
  BY <1>1, HeardTyped DEF Ends
<1>3. RentReqOK(Idle, Sizes')
  BY RentIdle, SizesTyped2
<1>4. RentReqsTyped'
  BY <1>3, ReqGoes DEF Ends
<1> QED BY <1>2, <1>4

-----------------------------------------------------------------------------
(* The rent pages: every step keeps the types                              *)

LEMMA GrowSame == ASSUME MoneyTyped, LinkTyped PROVE Grow(Sizes, Sizes)
BY DEF Grow, Sizes, MoneyTyped, LinkTyped

LEMMA StoresStay == ASSUME RentTyped, UNCHANGED <<money, link>>
  PROVE MoneyTyped' /\ LinkTyped' /\ Sizes' = Sizes /\ Grow(Sizes, Sizes')
<1>1. MoneyTyped' /\ LinkTyped' /\ Sizes' = Sizes
  BY DEF RentTyped, MoneyTyped, LinkTyped, Sizes, money, link, Pays
<1> QED BY <1>1, GrowSame DEF RentTyped

\* a count goes up
LEMMA SpendTyped == ASSUME RestTyped, NEW k \in {"presses", "visits", "haps"}, Spend(k, cast[k])
  PROVE budget' \in Budgets
BY DEF Spend, RestTyped, Budgets

LEMMA UnheardOK == ASSUME NEW q, NEW n, RentReqOK(q, n) PROVE RentReqOK([q EXCEPT !.scr = Nobody], n)
<1> DEFINE new == [q EXCEPT !.scr = Nobody]
<1>1. new \in RentReqs
  BY DEF RentReqOK, RentReqs
<1>2. /\ new.op = q.op /\ new.pc = q.pc /\ new.meth = q.meth /\ new.amt = q.amt /\ new.pid = q.pid
      /\ new.item = q.item /\ new.fresh = q.fresh /\ new.cust = q.cust /\ new.pm = q.pm /\ new.debit = q.debit
  BY DEF RentReqOK, RentReqs
<1> HIDE DEF new
<1>3. InTurn(new) /\ Below(new, n)
  BY <1>2 DEF RentReqOK, InTurn, Below
<1> QED BY <1>1, <1>3 DEF RentReqOK, new

LEMMA OpenTyped == ASSUME RentTyped, NEW s \in Screens, NEW at \in {"pay", "settings", "history", "desk"}, Open(s, at)
  PROVE RentTyped'
<1>1. MoneyTyped' /\ LinkTyped' /\ Sizes' = Sizes /\ Grow(Sizes, Sizes')
  BY StoresStay DEF Open
<1>2. RestTyped'
  BY SpendTyped DEF Open, RentTyped, RestTyped
<1>3. RentPagesTyped'
  <2>1. Wants(at) \in SUBSET PageNeeds
    BY DEF Wants, PageNeeds
  <2>2. RentPageOK(Closed, Sizes')
    BY ClosedOK, <1>1, SizesTyped2
  <2> DEFINE new == [Closed EXCEPT !.at = at, !.need = Wants(at)]
  <2>3. RentPageOK(new, Sizes')
    BY <2>1, <2>2 DEF RentPageOK, RentScreens, Shows
  <2>4. page' = [page EXCEPT ![s] = new]
    BY DEF Open
  <2> HIDE DEF new
  <2> QED BY <1>1, <2>3, <2>4, PageChanges
<1>4. RentReqsTyped'
  <2>1. \A r \in Reqs : RentReqOK(req[r], Sizes')
    BY <1>1 DEF RentTyped, RentReqsTyped
  <2>2. \A r \in Reqs : req'[r] = IF req[r].scr = s THEN [req[r] EXCEPT !.scr = Nobody] ELSE req[r]
    BY DEF Open
  <2>3. \A r \in Reqs : RentReqOK(req'[r], Sizes')
    BY <2>1, <2>2, UnheardOK
  <2>4. req' \in [Reqs -> RentReqs]
    <3>1. req' = [r \in Reqs |-> req'[r]]
      BY DEF Open
    <3>2. \A r \in Reqs : req'[r] \in RentReqs
      BY <2>3 DEF RentReqOK
    <3> HIDE DEF RentReqs
    <3> QED BY <3>1, <3>2
  <2> QED BY <2>3, <2>4 DEF RentReqsTyped
<1> QED BY <1>1, <1>2, <1>3, <1>4 DEF RentTyped

LEMMA CompletedIn == Completed \subseteq 1..Sizes.pays
BY DEF Completed, Pays, Sizes

LEMMA LoadTyped == ASSUME RentTyped, NEW s \in Screens, NEW k, Load(s, k) \/ LoadFails(s, k)
  PROVE RentTyped'
<1>1. MoneyTyped' /\ LinkTyped' /\ Sizes' = Sizes /\ Grow(Sizes, Sizes')
  BY StoresStay DEF Load, LoadFails
<1>2. RestTyped'
  BY SpendTyped DEF Load, LoadFails, RentTyped, RestTyped
<1>3. RentReqsTyped'
  BY <1>1, ReqsStay DEF Load, LoadFails
<1> DEFINE p == page[s]
           p1 == [p EXCEPT !.need = @ \ {k}]
<1>4. RentPageOK(p, Sizes') /\ RentPageOK(p1, Sizes') /\ k \in PageNeeds
  BY <1>1 DEF RentTyped, RentPagesTyped, RentPageOK, RentScreens, Shows, Load, LoadFails
<1>5. RentPagesTyped'
  <2>1. CASE LoadFails(s, k)
    <3>1. page' = [page EXCEPT ![s] = p1]
      BY <2>1 DEF LoadFails
    <3> HIDE DEF p, p1
    <3> QED BY <1>1, <1>4, <3>1, PageChanges
  <2>2. CASE Load(s, k)
    <3> DEFINE new == Loaded(p, k)
    <3>1. page' = [page EXCEPT ![s] = new]
      BY <2>2 DEF Load
    <3>2. RentPageOK(new, Sizes')
      <4> HIDE DEF p1
      <4>1. CASE k = "lease"
        <5>1. new = [p1 EXCEPT !.lease = lease]
          BY <4>1 DEF Loaded, p1
        <5> HIDE DEF new
        <5> QED BY <1>4, <5>1 DEF RentPageOK, RentScreens, Shows, RentTyped, RestTyped
      <4>2. CASE k = "bank"
        <5>1. new = [p1 EXCEPT !.bank = bank.item # 0]
          BY <4>2 DEF Loaded, p1
        <5> HIDE DEF new
        <5> QED BY <1>4, <5>1 DEF RentPageOK, RentScreens, Shows
      <4>3. CASE k = "profile"
        <5>1. new = Profiled(p1)
          BY <4>3 DEF Loaded, p1
        <5>2. new = [p1 EXCEPT !.prof = login.prof, !.bank = bank.item # 0]
          BY <5>1 DEF Profiled
        <5> HIDE DEF new
        <5> QED BY <1>4, <5>2 DEF RentPageOK, RentScreens, Shows, RentTyped, RestTyped
      <4>4. CASE k \in {"list", "rows"}
        <5>1. new = [p1 EXCEPT !.done = Completed]
          BY <4>4 DEF Loaded, p1
        <5>2. Completed \subseteq 1..Sizes'.pays /\ Completed \subseteq Nat
          BY <1>1, CompletedIn DEF Completed, Pays
        <5> HIDE DEF new
        <5> QED BY <1>4, <5>1, <5>2 DEF RentPageOK, RentScreens, Shows
      <4>5. CASE k \in {"owes", "balance"}
        <5>1. new = [p1 EXCEPT !.owes = Overdue]
          BY <4>5 DEF Loaded, p1
        <5>2. Overdue \in BOOLEAN
          BY DEF Overdue, RentTyped, RestTyped
        <5> HIDE DEF new
        <5> QED BY <1>4, <5>1, <5>2 DEF RentPageOK, RentScreens, Shows
      <4> QED BY <1>4, <4>1, <4>2, <4>3, <4>4, <4>5 DEF PageNeeds
    <3> HIDE DEF new
    <3> QED BY <1>1, <3>1, <3>2, PageChanges
  <2> QED BY <2>1, <2>2 DEF Load
<1> QED BY <1>1, <1>2, <1>3, <1>5 DEF RentTyped

\* a press sends a request from the page it was made on
LEMMA SendsTyped == ASSUME RentTyped, NEW s \in Screens, NEW r \in Reqs, NEW q, RentReqOK(q, Sizes), q.op \in Op,
    UNCHANGED <<money, link>>, Sends(s, r, q)
  PROVE RentReqsTyped' /\ RentPagesTyped'
<1>1. MoneyTyped' /\ LinkTyped' /\ Sizes' = Sizes /\ Grow(Sizes, Sizes')
  BY StoresStay
<1>2. RentReqOK([q EXCEPT !.scr = s], Sizes')
  BY <1>1 DEF RentReqOK, RentReqs, InTurn, Below
<1>3. RentReqsTyped'
  BY <1>1, <1>2, ReqGoes DEF Sends
<1> DEFINE new == [page[s] EXCEPT !.busy = @ \cup {q.op}]
<1>4. RentPageOK(new, Sizes')
  BY <1>1 DEF RentTyped, RentPagesTyped, RentPageOK, RentScreens, Shows
<1>5. page' = [page EXCEPT ![s] = new]
  BY DEF Sends
<1> HIDE DEF new
<1> QED BY <1>1, <1>3, <1>4, <1>5, PageChanges

Presses(s, r) ==
  \/ PressPay(s, r) \/ WidgetSuccess(s, r) \/ PressUnlink(s, r)
  \/ PressProfile(s, r) \/ PressPassword(s, r)
  \/ PressRecord(s, r) \/ PressRefund(s, r)

\* what is sent
LEMMA PressSends == ASSUME RentTyped, NEW s \in Screens, NEW r \in Reqs,
    PressPay(s, r) \/ PressUnlink(s, r) \/ PressProfile(s, r) \/ PressPassword(s, r) \/ PressRecord(s, r) \/ PressRefund(s, r)
  PROVE \E q \in RentReqs :
          /\ RentReqOK(q, Sizes) /\ Sends(s, r, q) /\ q.op \in Op \ {"link"} /\ q.debit = 0
          /\ q.pc \in {"lease", "read", "put", "check", "write"} /\ Press(s, q.op)
          /\ IF q.op \in {"pay", "record"} THEN Wish(s, q.op) ELSE wishes' = wishes
<1>1. RentReqOK(Idle, Sizes)
  BY RentIdle, SizesTyped DEF RentTyped
<1>2. page[s] \in RentScreens /\ Shows(page[s], Sizes)
  BY DEF RentTyped, RentPagesTyped, RentPageOK
<1>3. CASE PressPay(s, r)
  <2>1. PICK meth \in {"card", "bank"}, a \in Amounts : Sends(s, r, [Idle EXCEPT !.op = "pay", !.pc = "lease", !.meth = meth, !.amt = a])
    BY <1>3 DEF PressPay
  <2> DEFINE q == [Idle EXCEPT !.op = "pay", !.pc = "lease", !.meth = meth, !.amt = a]
  <2>2. RentReqOK(q, Sizes)
    BY <1>1, RentFacts DEF RentReqOK, RentReqs, InTurn, Below, Idle, Op, TabOp, RentPcs
  <2>3. q.op = "pay" /\ q.pc = "lease" /\ q.debit = 0
    BY DEF Idle
  <2> HIDE DEF q
  <2>4. q \in RentReqs /\ Sends(s, r, q) /\ "pay" \in Op
    BY <2>1, <2>2 DEF q, RentReqOK, Op, TabOp
  <2> QED BY <1>3, <2>2, <2>3, <2>4 DEF PressPay
<1>4. CASE PressUnlink(s, r)
  <2> DEFINE q == [Idle EXCEPT !.op = "unlink", !.pc = "read"]
  <2>2. RentReqOK(q, Sizes)
    BY <1>1 DEF RentReqOK, RentReqs, InTurn, Below, Idle, Op, TabOp, RentPcs
  <2>3. q.op = "unlink" /\ q.pc = "read" /\ q.debit = 0
    BY DEF Idle
  <2>5. Sends(s, r, q)
    BY <1>4 DEF PressUnlink
  <2> HIDE DEF q
  <2>4. q \in RentReqs /\ "unlink" \in Op
    BY <2>2 DEF RentReqOK, Op, TabOp
  <2> QED BY <1>4, <2>2, <2>3, <2>4, <2>5 DEF PressUnlink
<1>5. CASE PressProfile(s, r)
  <2>1. PICK v \in {page[s].prof, 2, 3} : Sends(s, r, [Idle EXCEPT !.op = "profile", !.pc = "put", !.val = v])
    BY <1>5 DEF PressProfile
  <2> DEFINE q == [Idle EXCEPT !.op = "profile", !.pc = "put", !.val = v]
  <2>2. RentReqOK(q, Sizes)
    <3>1. v \in Nat
      BY <1>2 DEF RentScreens
    <3> QED BY <1>1, <3>1 DEF RentReqOK, RentReqs, InTurn, Below, Idle, Op, TabOp, RentPcs
  <2>3. q.op = "profile" /\ q.pc = "put" /\ q.debit = 0
    BY DEF Idle
  <2> HIDE DEF q
  <2>4. q \in RentReqs /\ Sends(s, r, q) /\ "profile" \in Op
    BY <2>1, <2>2 DEF q, RentReqOK, Op, TabOp
  <2> QED BY <1>5, <2>2, <2>3, <2>4 DEF PressProfile
<1>6. CASE PressPassword(s, r)
  <2>1. PICK v \in {2, 3} : Sends(s, r, [Idle EXCEPT !.op = "password", !.pc = "check", !.val = v])
    BY <1>6 DEF PressPassword
  <2> DEFINE q == [Idle EXCEPT !.op = "password", !.pc = "check", !.val = v]
  <2>2. RentReqOK(q, Sizes)
    <3>1. v \in Nat
      OBVIOUS
    <3> QED BY <1>1, <3>1 DEF RentReqOK, RentReqs, InTurn, Below, Idle, Op, TabOp, RentPcs
  <2>3. q.op = "password" /\ q.pc = "check" /\ q.debit = 0
    BY DEF Idle
  <2> HIDE DEF q
  <2>4. q \in RentReqs /\ Sends(s, r, q) /\ "password" \in Op
    BY <2>1, <2>2 DEF q, RentReqOK, Op, TabOp
  <2> QED BY <1>6, <2>2, <2>3, <2>4 DEF PressPassword
<1>7. CASE PressRecord(s, r)
  <2>1. PICK a \in Amounts : Sends(s, r, [Idle EXCEPT !.op = "record", !.pc = "write", !.amt = a])
    BY <1>7 DEF PressRecord
  <2> DEFINE q == [Idle EXCEPT !.op = "record", !.pc = "write", !.amt = a]
  <2>2. RentReqOK(q, Sizes)
    BY <1>1, RentFacts DEF RentReqOK, RentReqs, InTurn, Below, Idle, Op, DeskOp, RentPcs
  <2>3. q.op = "record" /\ q.pc = "write" /\ q.debit = 0
    BY DEF Idle
  <2> HIDE DEF q
  <2>4. q \in RentReqs /\ Sends(s, r, q) /\ "record" \in Op
    BY <2>1, <2>2 DEF q, RentReqOK, Op, DeskOp
  <2> QED BY <1>7, <2>2, <2>3, <2>4 DEF PressRecord
<1>8. CASE PressRefund(s, r)
  <2>1. PICK i \in page[s].done : Sends(s, r, [Idle EXCEPT !.op = "refund", !.pc = "check", !.pid = i])
    BY <1>8 DEF PressRefund
  <2> DEFINE q == [Idle EXCEPT !.op = "refund", !.pc = "check", !.pid = i]
  <2>2. RentReqOK(q, Sizes)
    <3>1. i \in Nat /\ i >= 1 /\ i <= Sizes.pays
      BY <1>2 DEF Shows, RentScreens, Sizes
    <3> QED BY <1>1, <3>1 DEF RentReqOK, RentReqs, InTurn, Below, Idle, Op, DeskOp, RentPcs
  <2>3. q.op = "refund" /\ q.pc = "check" /\ q.debit = 0
    BY DEF Idle
  <2> HIDE DEF q
  <2>4. q \in RentReqs /\ Sends(s, r, q) /\ "refund" \in Op
    BY <2>1, <2>2 DEF q, RentReqOK, Op, DeskOp
  <2> QED BY <1>8, <2>2, <2>3, <2>4 DEF PressRefund
<1> QED BY <1>3, <1>4, <1>5, <1>6, <1>7, <1>8

LEMMA PressTyped == ASSUME RentTyped, NEW s \in Screens, NEW r \in Reqs, Presses(s, r) PROVE RentTyped'
<1>1. UNCHANGED <<money, link, cast, lease, login, strays>>
  BY DEF Presses, PressPay, WidgetSuccess, PressUnlink, PressProfile, PressPassword, PressRecord, PressRefund
<1>2. MoneyTyped' /\ LinkTyped' /\ Sizes' = Sizes /\ Grow(Sizes, Sizes')
  BY <1>1, StoresStay
<1>3. CASE WidgetSuccess(s, r)
  <2> DEFINE q == [Idle EXCEPT !.op = "link", !.pc = "read", !.scr = s]
  <2>1. RentReqOK(q, Sizes')
    <3>1. RentReqOK(Idle, Sizes')
      BY RentIdle, <1>2, SizesTyped2
    <3> QED BY <3>1 DEF RentReqOK, RentReqs, InTurn, Below, Idle, Op, TabOp, RentPcs
  <2>2. Goes(r, q)
    BY <1>3 DEF WidgetSuccess
  <2> HIDE DEF q
  <2>3. RentReqsTyped'
    BY <1>2, <2>1, <2>2, ReqGoes
  <2> DEFINE new == [page[s] EXCEPT !.widget = FALSE]
  <2>4. RentPageOK(new, Sizes') /\ page' = [page EXCEPT ![s] = new]
    BY <1>2, <1>3 DEF RentTyped, RentPagesTyped, RentPageOK, RentScreens, Shows, WidgetSuccess
  <2> HIDE DEF new
  <2>5. RentPagesTyped'
    BY <1>2, <2>4, PageChanges
  <2>6. RestTyped'
    BY <1>1, <1>3 DEF WidgetSuccess, RentTyped, RestTyped
  <2> QED BY <1>2, <2>3, <2>5, <2>6 DEF RentTyped
<1>4. CASE ~WidgetSuccess(s, r)
  <2>1. PICK q \in RentReqs :
          /\ RentReqOK(q, Sizes) /\ Sends(s, r, q) /\ q.op \in Op \ {"link"} /\ q.debit = 0
          /\ q.pc \in {"lease", "read", "put", "check", "write"} /\ Press(s, q.op)
          /\ IF q.op \in {"pay", "record"} THEN Wish(s, q.op) ELSE wishes' = wishes
    BY <1>4, PressSends DEF Presses
  <2>2. RentReqsTyped' /\ RentPagesTyped'
    BY <1>1, <2>1, SendsTyped
  <2>3. budget' \in Budgets
    BY <2>1, SpendTyped DEF Press, RentTyped
  <2>4. wishes' \in Nat
    BY <2>1 DEF Wish, RentTyped, RestTyped
  <2>5. RestTyped'
    BY <1>1, <2>3, <2>4 DEF RentTyped, RestTyped
  <2> QED BY <1>2, <2>2, <2>5 DEF RentTyped
<1> QED BY <1>3, <1>4

LEMMA WidgetTyped == ASSUME RentTyped, NEW s \in Screens, PressLink(s) \/ WidgetExit(s) PROVE RentTyped'
<1>1. UNCHANGED <<money, link, cast, lease, login, strays, req, wishes>>
  BY DEF PressLink, WidgetExit
<1>2. MoneyTyped' /\ LinkTyped' /\ Sizes' = Sizes /\ Grow(Sizes, Sizes')
  BY <1>1, StoresStay
<1>3. RentReqsTyped'
  BY <1>1, <1>2, ReqsStay
<1>4. PICK b \in SUBSET Op, w \in BOOLEAN : page' = [page EXCEPT ![s] = [page[s] EXCEPT !.busy = b, !.widget = w]]
  <2>1. page[s].busy \cup {"link"} \in SUBSET Op /\ page[s].busy \ {"link"} \in SUBSET Op
    BY DEF RentTyped, RentPagesTyped, RentScreens, Op, TabOp
  <2> QED BY <2>1 DEF PressLink, WidgetExit, RentTyped, RentPagesTyped
<1> DEFINE new == [page[s] EXCEPT !.busy = b, !.widget = w]
<1>5. RentPageOK(new, Sizes')
  BY <1>2 DEF RentTyped, RentPagesTyped, RentPageOK, RentScreens, Shows
<1> HIDE DEF new
<1>6. RentPagesTyped'
  BY <1>2, <1>4, <1>5, PageChanges DEF new
<1>7. RestTyped'
  BY <1>1, SpendTyped DEF PressLink, WidgetExit, Press, RentTyped, RestTyped
<1> QED BY <1>2, <1>3, <1>6, <1>7 DEF RentTyped

-----------------------------------------------------------------------------
(* The rent pages: requests, types                                         *)

\* a request goes on, pages stay
LEMMA StepTyped == ASSUME RentTyped, MoneyTyped', LinkTyped', Grow(Sizes, Sizes'), NEW r \in Reqs, NEW new,
    RentReqOK(new, Sizes'), Goes(r, new), page' = page
  PROVE RentReqsTyped' /\ RentPagesTyped'
BY ReqGoes, PagesStay

LEMMA ReqHere == ASSUME RentTyped, NEW r \in Reqs PROVE RentReqOK(req[r], Sizes) /\ req[r] \in RentReqs /\ InTurn(req[r])
BY DEF RentTyped, RentReqsTyped, RentReqOK

LEMMA PayAt == ASSUME MoneyTyped, NEW i \in Pays
  PROVE pays[i] \in Payment /\ pays[i].debit \in Nat /\ pays[i].debit <= Len(debits) /\ pays[i].amt \in Amounts
<1>1. pays[i] \in Payment
  BY ElementOfSeq DEF MoneyTyped, Pays
<1> QED BY <1>1 DEF MoneyTyped, Payment

LEMMA QuietTyped == ASSUME RentTyped, NEW r \in Reqs,
    PayLease(r) \/ PayBank(r) \/ BankRead(r) \/ ProfilePut(r) \/ PasswordCheck(r) \/ PasswordPut(r) \/ RefundCheck(r)
  PROVE RentTyped'
<1>1. UNCHANGED <<money, link, cast, lease, budget, wishes>>
  BY DEF PayLease, PayBank, BankRead, ProfilePut, PasswordCheck, PasswordPut, RefundCheck
<1>2. MoneyTyped' /\ LinkTyped' /\ Sizes' = Sizes /\ Grow(Sizes, Sizes')
  BY <1>1, StoresStay
<1>3. RestTyped'
  <2>1. login' \in [prof : Nat, pw : Nat]
    <3>1. req[r].val \in Nat
      BY ReqHere DEF RentReqs
    <3> QED BY <3>1 DEF PayLease, PayBank, BankRead, ProfilePut, PasswordCheck, PasswordPut, RefundCheck, RentTyped, RestTyped
  <2>2. strays' \in Nat
    <3>1. strays' = strays \/ strays' = strays + 1
      BY DEF PayLease, PayBank, BankRead, ProfilePut, PasswordCheck, PasswordPut, RefundCheck
    <3> QED BY <3>1 DEF RentTyped, RestTyped
  <2> QED BY <1>1, <2>1, <2>2 DEF RentTyped, RestTyped
<1> DEFINE q == req[r]
<1>4. RentReqOK(q, Sizes') /\ q \in RentReqs
  BY <1>2, ReqHere
<1>5. q.op \in Op
  BY DEF PayLease, PayBank, BankRead, ProfilePut, PasswordCheck, PasswordPut, RefundCheck, Stands, Op, TabOp, DeskOp
<1>6. (\E ok \in BOOLEAN : Ends(r, ok)) \/ (\E new : RentReqOK(new, Sizes') /\ Goes(r, new) /\ page' = page)
  <2>1. CASE PayLease(r)
    <3> DEFINE new == [q EXCEPT !.pc = IF q.meth = "bank" THEN "bank" ELSE "row"]
    <3>1. RentReqOK(new, Sizes')
      BY <1>4, <2>1 DEF PayLease, Stands, RentReqOK, RentReqs, InTurn, Below, RentPcs
    <3>2. Ends(r, FALSE) \/ (Goes(r, new) /\ page' = page)
      BY <2>1 DEF PayLease
    <3> QED BY <3>1, <3>2
  <2>2. CASE PayBank(r)
    <3> DEFINE new == [q EXCEPT !.pc = "row", !.pm = bank.pm, !.cust = bank.cust]
    <3>1. RentReqOK(new, Sizes')
      <4>1. bank.pm \in Nat /\ bank.cust \in Nat /\ bank.pm <= Sizes'.sources /\ bank.cust <= Sizes'.custs
        BY <1>2 DEF RentTyped, LinkTyped, Sizes
      <4> QED BY <1>4, <2>2, <4>1 DEF PayBank, Stands, RentReqOK, RentReqs, InTurn, Below, RentPcs
    <3>2. Ends(r, FALSE) \/ (Goes(r, new) /\ page' = page)
      BY <2>2 DEF PayBank
    <3> QED BY <3>1, <3>2
  <2>3. CASE BankRead(r)
    <3> DEFINE new == [q EXCEPT !.item = bank.item, !.cust = bank.cust, !.pc = IF bank.item = 0 THEN "obtain" ELSE "remove"]
    <3>2. Ends(r, FALSE) \/ (Goes(r, new) /\ page' = page /\ ~(q.op = "unlink" /\ bank.item = 0))
      BY <2>3 DEF BankRead
    <3>1. ASSUME ~(q.op = "unlink" /\ bank.item = 0) PROVE RentReqOK(new, Sizes')
      <4>1. bank.item \in Nat /\ bank.cust \in Nat /\ bank.item <= Sizes'.items /\ bank.cust <= Sizes'.custs
        BY <1>2 DEF RentTyped, LinkTyped, Sizes
      <4>2. new \in RentReqs /\ Below(new, Sizes')
        BY <1>4, <4>1 DEF RentReqOK, RentReqs, Below, RentPcs
      <4>3. new.op \in {"link", "unlink"} /\ new.op = q.op /\ new.item = bank.item /\ new.pc = IF bank.item = 0 THEN "obtain" ELSE "remove"
        BY <1>4, <2>3 DEF BankRead, RentReqs
      <4> HIDE DEF new
      <4>4. InTurn(new)
        BY <3>1, <4>1, <4>3 DEF InTurn
      <4> QED BY <4>2, <4>4 DEF RentReqOK
    <3> QED BY <3>1, <3>2
  <2>4. CASE ProfilePut(r) \/ PasswordPut(r)
    BY <2>4 DEF ProfilePut, PasswordPut
  <2>5. CASE PasswordCheck(r)
    <3> DEFINE new == [q EXCEPT !.pc = "put"]
    <3>1. RentReqOK(new, Sizes')
      BY <1>4, <2>5 DEF PasswordCheck, Stands, RentReqOK, RentReqs, InTurn, Below, RentPcs
    <3>2. Ends(r, FALSE) \/ (Goes(r, new) /\ page' = page)
      BY <2>5 DEF PasswordCheck
    <3> QED BY <3>1, <3>2
  <2>6. CASE RefundCheck(r)
    <3> DEFINE d == pays[q.pid].debit
               new == [q EXCEPT !.pc = IF d # 0 THEN "stripe" ELSE "reverse", !.debit = d]
    <3>2. Ends(r, FALSE) \/ (Goes(r, new) /\ page' = page)
      BY <2>6 DEF RefundCheck
    <3>3. d \in Nat /\ d <= Sizes'.debits
      <4>1. q.pid \in Pays
        BY <1>2, <1>4, <2>6 DEF RefundCheck, Stands, RentReqOK, RentReqs, InTurn, Below, Sizes, Pays
      <4> QED BY <1>2, <4>1, PayAt DEF RentTyped, Sizes
    <3>4. new \in RentReqs /\ Below(new, Sizes')
      BY <1>4, <3>3 DEF RentReqOK, RentReqs, Below, RentPcs
    <3>5. new.op = "refund" /\ new.pid = q.pid /\ q.pid >= 1 /\ new.debit = d /\ new.pc = IF d # 0 THEN "stripe" ELSE "reverse"
      BY <1>4, <2>6 DEF RefundCheck, Stands, RentReqs, RentReqOK, InTurn
    <3> HIDE DEF new, d
    <3>6. InTurn(new)
      BY <3>3, <3>5 DEF InTurn
    <3> QED BY <3>2, <3>4, <3>6 DEF RentReqOK
  <2> QED BY <2>1, <2>2, <2>3, <2>4, <2>5, <2>6
<1>7. RentReqsTyped' /\ RentPagesTyped'
  <2>1. CASE \E ok \in BOOLEAN : Ends(r, ok)
    BY <1>2, <1>5, <2>1, EndsTyped
  <2>2. CASE \E new : RentReqOK(new, Sizes') /\ Goes(r, new) /\ page' = page
    BY <1>2, <2>2, StepTyped
  <2> QED BY <1>6, <2>1, <2>2
<1> QED BY <1>2, <1>3, <1>7 DEF RentTyped

\* one row is written
LEMMA PaysSet == ASSUME MoneyTyped, NEW i \in Pays, NEW new \in Payment, new.debit <= Len(debits),
    pays' = [pays EXCEPT ![i] = new], debits' = debits, paid' \in 0..Due
  PROVE MoneyTyped' /\ Len(pays') = Len(pays)
<1>1. pays' \in Seq(Payment) /\ Len(pays') = Len(pays) /\ \A j \in Pays : pays'[j] = IF j = i THEN new ELSE pays[j]
  BY ExceptSeq DEF MoneyTyped, Pays
<1>2. Pays' = Pays
  BY <1>1 DEF Pays
<1> QED BY <1>1, <1>2 DEF MoneyTyped

\* a row is added
LEMMA PaysAdd == ASSUME MoneyTyped, NEW new \in Payment, new.debit <= Len(debits),
    pays' = Append(pays, new), debits' = debits, paid' \in 0..Due
  PROVE MoneyTyped' /\ Len(pays') = Len(pays) + 1
<1>1. pays' \in Seq(Payment) /\ Len(pays') = Len(pays) + 1
      /\ \A j \in 1..Len(pays)+1 : pays'[j] = IF j = Len(pays)+1 THEN new ELSE pays[j]
  BY AppendProperties DEF MoneyTyped
<1>2. \A i \in Pays' : pays'[i].debit <= Len(debits)
  <2>1. Len(pays) \in Nat
    BY DEF MoneyTyped
  <2> QED BY <1>1, <2>1 DEF MoneyTyped, Pays
<1> QED BY <1>1, <1>2 DEF MoneyTyped

\* what a debit's state may become
LEMMA DebitSet == ASSUME MoneyTyped, NEW i \in Debits, NEW st \in {"succeeded", "failed", "refunded"},
    debits' = [debits EXCEPT ![i].st = st]
  PROVE debits' \in Seq(Debit) /\ Len(debits') = Len(debits)
<1>1. debits[i] \in Debit
  BY ElementOfSeq DEF MoneyTyped, Debits
<1>2. [debits[i] EXCEPT !.st = st] \in Debit /\ debits' = [debits EXCEPT ![i] = [debits[i] EXCEPT !.st = st]]
  BY <1>1 DEF Debit
<1> QED BY <1>2, ExceptSeq DEF MoneyTyped, Debits

LEMMA LinkStays == ASSUME RentTyped, UNCHANGED link
  PROVE LinkTyped' /\ Sizes'.items = Sizes.items /\ Sizes'.sources = Sizes.sources /\ Sizes'.custs = Sizes.custs
BY DEF RentTyped, LinkTyped, link, Sizes

LEMMA RestStays == ASSUME RentTyped, UNCHANGED <<cast, lease, login, budget, wishes, strays>> PROVE RestTyped'
BY DEF RentTyped, RestTyped

LEMMA DueFacts == ASSUME RentTyped, NEW a \in Amounts
  PROVE Lesser(Due, paid + a) \in 0..Due /\ Greater(0, paid - a) \in 0..Due
BY RentFacts DEF RentTyped, MoneyTyped, Lesser, Greater

LEMMA PayRowTyped == ASSUME RentTyped, NEW r \in Reqs, PayRow(r) PROVE RentTyped'
<1> DEFINE q == [req[r] EXCEPT !.pid = Len(pays) + 1]
<1>1. /\ UNCHANGED <<cast, lease, login, budget, wishes, strays, link, debits, paid>>
      /\ Stands(r, "pay", "row")
  BY DEF PayRow
<1>2. req[r] \in RentReqs /\ InTurn(req[r]) /\ Below(req[r], Sizes)
  BY ReqHere DEF RentReqOK
<1>3. req[r].meth \in {"bank", "card"} /\ req[r].amt \in Amounts
  BY <1>1, <1>2 DEF Stands, InTurn
<1> DEFINE new == [meth |-> req[r].meth, amt |-> req[r].amt, debit |-> 0, status |-> "pending"]
<1>4. /\ new \in Payment /\ new.debit <= Len(debits) /\ pays' = Append(pays, new)
      /\ MoneyTyped' /\ Len(pays') = Len(pays) + 1
  <2>1. new \in Payment /\ new.debit <= Len(debits)
    BY <1>3 DEF Payment, RentTyped, MoneyTyped
  <2>2. pays' = Append(pays, new)
    <3>1. q.meth = req[r].meth /\ q.amt = req[r].amt
      BY <1>2 DEF RentReqs
    <3> QED BY <3>1 DEF PayRow
  <2> HIDE DEF new
  <2>3. paid' \in 0..Due /\ debits' = debits
    BY <1>1 DEF RentTyped, MoneyTyped
  <2> QED BY <2>1, <2>2, <2>3, PaysAdd DEF RentTyped
<1>5. LinkTyped' /\ Grow(Sizes, Sizes')
  BY <1>1, <1>4, LinkStays DEF Grow, Sizes, RentTyped, MoneyTyped, LinkTyped
<1>6. RestTyped'
  BY <1>1, RestStays
<1>7. RentReqOK(q, Sizes')
  <2>1. q \in RentReqs
    <3>1. Len(pays) + 1 \in Nat
      BY DEF RentTyped, MoneyTyped
    <3> QED BY <1>2, <3>1 DEF RentReqs
  <2>2. Below(q, Sizes')
    <3>1. Below(req[r], Sizes')
      BY <1>4, <1>5, BelowGrows, SizesTyped, SizesTyped2, ReqHere DEF RentTyped, RentReqOK
    <3>2. q.pid <= Sizes'.pays
      BY <1>2, <1>4 DEF Sizes, RentReqs, RentTyped, MoneyTyped
    <3> QED BY <1>2, <3>1, <3>2 DEF Below, RentReqs
  <2>3. InTurn(q)
    BY <1>1, <1>2 DEF InTurn, RentReqs, Stands
  <2> QED BY <2>1, <2>2, <2>3 DEF RentReqOK
<1>8. RentReqsTyped' /\ RentPagesTyped'
  <2>1. CASE q.meth = "bank"
    <3> DEFINE q2 == [q EXCEPT !.pc = "stripe"]
    <3>1. Goes(r, q2) /\ page' = page
      BY <2>1 DEF PayRow
    <3>2. q2.op = "pay" /\ q2.pid = Len(pays) + 1 /\ q2.meth = "bank" /\ q2.amt = req[r].amt /\ q2.pc = "stripe"
      BY <1>1, <1>2, <2>1 DEF Stands, RentReqs
    <3>3. q2 \in RentReqs /\ Below(q2, Sizes')
      BY <1>7 DEF RentReqOK, RentReqs, Below, RentPcs
    <3> HIDE DEF q2, q
    <3>4. InTurn(q2)
      BY <1>3, <3>2 DEF InTurn, RentTyped, MoneyTyped
    <3> QED BY <1>4, <1>5, <3>1, <3>3, <3>4, StepTyped DEF RentReqOK
  <2>2. CASE q.meth # "bank"
    <3>1. Goes(r, Idle) /\ page' = Heard(q, TRUE)
      BY <2>2 DEF PayRow
    <3>2. q.op \in Op
      BY <1>1, <1>2 DEF Stands, RentReqs, Op, TabOp
    <3> HIDE DEF q
    <3>3. RentPagesTyped'
      BY <1>4, <1>5, <1>7, <3>1, <3>2, HeardTyped
    <3>4. RentReqOK(Idle, Sizes')
      BY <1>4, <1>5, RentIdle, SizesTyped2
    <3> QED BY <1>4, <1>5, <3>1, <3>3, <3>4, ReqGoes
  <2> QED BY <2>1, <2>2
<1> QED BY <1>4, <1>5, <1>6, <1>8 DEF RentTyped

LEMMA DebitAt == ASSUME MoneyTyped, NEW i \in Debits
  PROVE debits[i] \in Debit /\ debits[i].amt \in Amounts
<1>1. debits[i] \in Debit
  BY ElementOfSeq DEF MoneyTyped, Debits
<1> QED BY <1>1 DEF Debit

\* the sizes but one are as they were
LEMMA SizesMoney == ASSUME RentTyped, MoneyTyped', UNCHANGED link, Len(pays) <= Len(pays'), Len(debits) <= Len(debits')
  PROVE LinkTyped' /\ Grow(Sizes, Sizes')
BY LinkStays DEF Grow, Sizes, RentTyped, MoneyTyped, LinkTyped

\* a request that was good where the sizes were smaller still is
LEMMA ReqStill == ASSUME RentTyped, MoneyTyped', LinkTyped', Grow(Sizes, Sizes'), NEW r \in Reqs
  PROVE RentReqOK(req[r], Sizes')
BY BelowGrows, SizesTyped, SizesTyped2, ReqHere DEF RentTyped

LEMMA PayStripeTyped == ASSUME RentTyped, NEW r \in Reqs, PayStripe(r) PROVE RentTyped'
<1>1. UNCHANGED <<cast, lease, login, budget, wishes, strays, link, paid>> /\ Stands(r, "pay", "stripe")
  BY DEF PayStripe
<1>2. req[r] \in RentReqs /\ InTurn(req[r]) /\ Below(req[r], Sizes) /\ req[r].op \in Op
  BY <1>1, ReqHere DEF RentReqOK, Stands, Op, TabOp
<1>3. req[r].amt \in Amounts /\ req[r].pid \in Pays /\ req[r].meth = "bank" /\ req[r].pid >= 1
  BY <1>1, <1>2 DEF Stands, InTurn, Below, RentReqs, Pays, Sizes
<1>4. RestTyped'
  BY <1>1, RestStays
<1>5. CASE /\ debits' = Debited(req[r].amt) /\ UNCHANGED <<page, pays>>
           /\ Goes(r, [req[r] EXCEPT !.pc = "store", !.debit = Len(debits) + 1])
  <2>1. debits' \in Seq(Debit) /\ Len(debits') = Len(debits) + 1 /\ Len(debits) \in Nat
    BY <1>3, <1>5 DEF Debited, RentTyped, MoneyTyped, Debit
  <2>2. MoneyTyped'
    <3>1. Pays' = Pays /\ \A i \in Pays : pays[i].debit \in Nat
      BY <1>5, PayAt DEF RentTyped, Pays
    <3> QED BY <1>1, <1>5, <2>1, <3>1 DEF RentTyped, MoneyTyped
  <2>3. LinkTyped' /\ Grow(Sizes, Sizes')
    BY <1>1, <1>5, <2>1, <2>2, SizesMoney DEF RentTyped, MoneyTyped
  <2> DEFINE new == [req[r] EXCEPT !.pc = "store", !.debit = Len(debits) + 1]
  <2>4. RentReqOK(req[r], Sizes')
    BY <2>2, <2>3, ReqStill
  <2>5. new \in RentReqs /\ Below(new, Sizes')
    <3>1. Sizes'.debits = Len(debits) + 1
      BY <2>1 DEF Sizes
    <3>2. new \in RentReqs
      <4>1. Len(debits) + 1 \in Nat
        BY <2>1
      <4> QED BY <2>4, <4>1 DEF RentReqOK, RentReqs, RentPcs
    <3>3. /\ new.pid = req[r].pid /\ new.item = req[r].item /\ new.fresh = req[r].fresh
          /\ new.cust = req[r].cust /\ new.pm = req[r].pm /\ new.debit = Len(debits) + 1
      BY <2>4 DEF RentReqOK, RentReqs
    <3> HIDE DEF new
    <3> QED BY <2>1, <2>4, <3>1, <3>2, <3>3 DEF RentReqOK, Below
  <2>6. new.op = "pay" /\ new.pc = "store" /\ new.meth = "bank" /\ new.amt \in Amounts /\ new.pid >= 1 /\ new.debit >= 1
    BY <1>1, <1>2, <1>3, <2>1 DEF Stands, RentReqs
  <2>7. Goes(r, new) /\ page' = page
    BY <1>5
  <2> HIDE DEF new
  <2>8. InTurn(new)
    BY <2>6 DEF InTurn
  <2> QED BY <1>4, <2>2, <2>3, <2>5, <2>7, <2>8, StepTyped DEF RentTyped, RentReqOK
<1>6. CASE Ends(r, FALSE) /\ UNCHANGED <<debits, pays>>
  <2>1. MoneyTyped' /\ LinkTyped' /\ Grow(Sizes, Sizes')
    BY <1>1, <1>6, StoresStay DEF money
  <2> QED BY <1>2, <1>4, <1>6, <2>1, EndsTyped DEF RentTyped
<1>7. CASE Ends(r, FALSE) /\ pays' = [pays EXCEPT ![req[r].pid].status = "failed"] /\ UNCHANGED debits
  <2> DEFINE new == [pays[req[r].pid] EXCEPT !.status = "failed"]
  <2>1. pays[req[r].pid] \in Payment /\ pays[req[r].pid].debit <= Len(debits)
    BY <1>3, PayAt DEF RentTyped
  <2>2. new \in Payment /\ new.debit <= Len(debits) /\ pays' = [pays EXCEPT ![req[r].pid] = new]
    BY <1>7, <2>1 DEF Payment
  <2> HIDE DEF new
  <2>3. MoneyTyped' /\ Len(pays') = Len(pays)
    BY <1>1, <1>3, <1>7, <2>2, PaysSet DEF RentTyped, MoneyTyped
  <2>4. LinkTyped' /\ Grow(Sizes, Sizes')
    BY <1>1, <1>7, <2>3, SizesMoney DEF RentTyped, MoneyTyped
  <2> QED BY <1>2, <1>4, <1>7, <2>3, <2>4, EndsTyped DEF RentTyped
<1> QED BY <1>5, <1>6, <1>7 DEF PayStripe

LEMMA PayStoreTyped == ASSUME RentTyped, NEW r \in Reqs, PayStore(r) PROVE RentTyped'
<1>1. UNCHANGED <<cast, lease, login, budget, wishes, strays, link, paid, debits>> /\ Stands(r, "pay", "store") /\ Ends(r, TRUE)
  BY DEF PayStore
<1>2. req[r] \in RentReqs /\ InTurn(req[r]) /\ Below(req[r], Sizes) /\ req[r].op \in Op
  BY <1>1, ReqHere DEF RentReqOK, Stands, Op, TabOp
<1>3. req[r].pid \in Pays /\ req[r].debit \in Nat /\ req[r].debit <= Len(debits)
  BY <1>1, <1>2 DEF Stands, InTurn, Below, RentReqs, Pays, Sizes
<1>4. RestTyped'
  BY <1>1, RestStays
<1> DEFINE new == [pays[req[r].pid] EXCEPT !.debit = req[r].debit]
<1>5. new \in Payment /\ new.debit <= Len(debits) /\ pays' = [pays EXCEPT ![req[r].pid] = new]
  <2>1. pays[req[r].pid] \in Payment
    BY <1>3, PayAt DEF RentTyped
  <2> QED BY <1>3, <2>1 DEF PayStore, Payment
<1> HIDE DEF new
<1>6. MoneyTyped' /\ Len(pays') = Len(pays)
  BY <1>1, <1>3, <1>5, PaysSet DEF RentTyped, MoneyTyped
<1>7. LinkTyped' /\ Grow(Sizes, Sizes')
  BY <1>1, <1>6, SizesMoney DEF RentTyped, MoneyTyped
<1> QED BY <1>1, <1>2, <1>4, <1>6, <1>7, EndsTyped DEF RentTyped

LEMMA SettleTyped == ASSUME RentTyped, NEW i \in Debits, NEW ok \in BOOLEAN, Settle(i, ok) PROVE RentTyped'
<1>1. UNCHANGED <<cast, lease, login, budget, wishes, strays, link, page, req>>
  BY DEF Settle
<1>2. debits' \in Seq(Debit) /\ Len(debits') = Len(debits)
  <2>1. debits' = [debits EXCEPT ![i].st = IF ok THEN "succeeded" ELSE "failed"]
    BY DEF Settle
  <2> QED BY <2>1, DebitSet DEF RentTyped
<1>3. \A p \in Pays : pays'[p] \in Payment /\ pays'[p].debit = pays[p].debit
  <2> SUFFICES ASSUME NEW p \in Pays PROVE pays'[p] \in Payment /\ pays'[p].debit = pays[p].debit
    OBVIOUS
  <2>1. pays[p] \in Payment
    BY PayAt DEF RentTyped
  <2>2. pays'[p] = IF pays[p].debit = i THEN [pays[p] EXCEPT !.status = IF ok THEN "completed" ELSE "failed"] ELSE pays[p]
    BY DEF Settle
  <2> QED BY <2>1, <2>2 DEF Payment
<1>4. pays' \in Seq(Payment) /\ Len(pays') = Len(pays)
  <2>1. pays' = [p \in 1..Len(pays) |-> pays'[p]] /\ Len(pays) \in Nat
    BY DEF Settle, Pays, RentTyped, MoneyTyped
  <2>2. \A p \in 1..Len(pays) : pays'[p] \in Payment
    BY <1>3 DEF Pays
  <2> DEFINE F(p) == pays'[p]
             s == [p \in 1..Len(pays) |-> F(p)]
  <2>3. s \in Seq(Payment) /\ Len(s) = Len(pays)
    <3> HIDE DEF F
    <3>1. \A p \in 1..Len(pays) : F(p) \in Payment
      BY <2>2 DEF F
    <3>2. s \in [1..Len(pays) -> Payment]
      BY <3>1
    <3> QED BY <2>1, <3>2, IsASeq
  <2> QED BY <2>1, <2>3
<1>5. paid' \in 0..Due
  BY DueFacts, DebitAt DEF Settle, RentTyped, MoneyTyped
<1>6. MoneyTyped'
  <2>1. Pays' = Pays
    BY <1>4 DEF Pays
  <2> QED BY <1>2, <1>3, <1>4, <1>5, <2>1 DEF RentTyped, MoneyTyped
<1>7. LinkTyped' /\ Grow(Sizes, Sizes')
  BY <1>1, <1>2, <1>4, <1>6, SizesMoney DEF RentTyped, MoneyTyped
<1> QED BY <1>1, <1>6, <1>7, RestStays, ReqsStay, PagesStay DEF RentTyped

LEMMA RecordTyped == ASSUME RentTyped, NEW r \in Reqs, RecordWrite(r) PROVE RentTyped'
<1>1. UNCHANGED <<cast, lease, login, budget, wishes, strays, link, debits>> /\ Stands(r, "record", "write") /\ Ends(r, TRUE)
  BY DEF RecordWrite
<1>2. req[r].amt \in Amounts /\ req[r].op \in Op
  BY <1>1, ReqHere DEF Stands, InTurn, Op, DeskOp
<1> DEFINE new == [meth |-> "cash", amt |-> req[r].amt, debit |-> 0, status |-> "completed"]
<1>3. new \in Payment /\ new.debit <= Len(debits) /\ pays' = Append(pays, new)
  BY <1>2 DEF Payment, RentTyped, MoneyTyped, RecordWrite
<1> HIDE DEF new
<1>4. paid' \in 0..Due
  BY <1>2, DueFacts DEF RecordWrite
<1>5. MoneyTyped' /\ Len(pays') = Len(pays) + 1
  BY <1>1, <1>3, <1>4, PaysAdd DEF RentTyped
<1>6. LinkTyped' /\ Grow(Sizes, Sizes')
  BY <1>1, <1>5, SizesMoney DEF RentTyped, MoneyTyped
<1> QED BY <1>1, <1>2, <1>5, <1>6, EndsTyped, RestStays DEF RentTyped

LEMMA RefundTyped == ASSUME RentTyped, NEW r \in Reqs, RefundStripe(r) \/ RefundReverse(r) PROVE RentTyped'
<1>1. UNCHANGED <<cast, lease, login, budget, wishes, strays, link>> /\ req[r].op = "refund" /\ req[r].op \in Op
  BY DEF RefundStripe, RefundReverse, Stands, Op, DeskOp
<1>2. req[r] \in RentReqs /\ InTurn(req[r]) /\ Below(req[r], Sizes) /\ req[r].pid \in Pays
  BY <1>1, ReqHere DEF RentReqOK, InTurn, Below, RentReqs, Pays, Sizes
<1>3. RestTyped'
  BY <1>1, RestStays
<1>4. CASE RefundReverse(r)
  <2> DEFINE new == [pays[req[r].pid] EXCEPT !.status = "refunded"]
  <2>1. pays[req[r].pid] \in Payment /\ pays[req[r].pid].debit <= Len(debits) /\ pays[req[r].pid].amt \in Amounts
    BY <1>2, PayAt DEF RentTyped
  <2>2. new \in Payment /\ new.debit <= Len(debits) /\ pays' = [pays EXCEPT ![req[r].pid] = new]
    BY <1>4, <2>1 DEF Payment, RefundReverse
  <2> HIDE DEF new
  <2>3. paid' \in 0..Due /\ debits' = debits /\ Ends(r, TRUE)
    BY <1>4, <2>1, DueFacts DEF RefundReverse
  <2>4. MoneyTyped' /\ Len(pays') = Len(pays)
    BY <1>2, <2>2, <2>3, PaysSet DEF RentTyped
  <2>5. LinkTyped' /\ Grow(Sizes, Sizes')
    BY <1>1, <2>3, <2>4, SizesMoney DEF RentTyped, MoneyTyped
  <2> QED BY <1>1, <1>3, <2>3, <2>4, <2>5, EndsTyped DEF RentTyped
<1>5. CASE RefundStripe(r)
  <2>1. UNCHANGED <<paid, pays>> /\ req[r].debit \in Debits
    BY <1>2, <1>5 DEF RefundStripe, Stands, InTurn, Below, RentReqs, Debits, Sizes
  <2>2. CASE Ends(r, FALSE) /\ UNCHANGED debits
    <3>1. MoneyTyped' /\ LinkTyped' /\ Grow(Sizes, Sizes')
      BY <1>1, <2>1, <2>2, StoresStay DEF money
    <3> QED BY <1>1, <1>3, <2>2, <3>1, EndsTyped DEF RentTyped
  <2>3. CASE /\ debits' = [debits EXCEPT ![req[r].debit].st = "refunded"]
             /\ Goes(r, [req[r] EXCEPT !.pc = "reverse"]) /\ UNCHANGED page
    <3>1. debits' \in Seq(Debit) /\ Len(debits') = Len(debits)
      BY <2>1, <2>3, DebitSet DEF RentTyped
    <3>2. MoneyTyped'
      BY <2>1, <3>1 DEF RentTyped, MoneyTyped, Pays
    <3>3. LinkTyped' /\ Grow(Sizes, Sizes')
      BY <1>1, <2>1, <3>1, <3>2, SizesMoney DEF RentTyped, MoneyTyped
    <3> DEFINE new == [req[r] EXCEPT !.pc = "reverse"]
    <3>4. new \in RentReqs /\ Below(new, Sizes')
      <4>1. RentReqOK(req[r], Sizes')
        BY <3>2, <3>3, ReqStill
      <4> QED BY <4>1 DEF RentReqOK, RentReqs, Below, RentPcs
    <3>5. new.op = "refund" /\ new.pc = "reverse" /\ new.pid >= 1
      BY <1>1, <1>2 DEF RentReqs, InTurn
    <3>6. Goes(r, new) /\ page' = page
      BY <2>3
    <3> HIDE DEF new
    <3>7. InTurn(new)
      BY <3>5 DEF InTurn
    <3> QED BY <1>3, <3>2, <3>3, <3>4, <3>6, <3>7, StepTyped DEF RentTyped, RentReqOK
  <2> QED BY <1>5, <2>2, <2>3 DEF RefundStripe
<1> QED BY <1>4, <1>5

\* the bank columns, and what Plaid and Stripe have, after a step
LEMMA SizesLink == ASSUME RentTyped, UNCHANGED money, items' \in Seq(BOOLEAN), sources' \in Seq(Nat), custs' \in Nat,
    Len(items) <= Len(items'), Len(sources) <= Len(sources'), custs <= custs', bank' = bank
  PROVE MoneyTyped' /\ LinkTyped' /\ Grow(Sizes, Sizes')
<1>1. MoneyTyped'
  BY DEF RentTyped, MoneyTyped, money, Pays
<1>2. Grow(Sizes, Sizes')
  BY DEF Grow, Sizes, money, RentTyped, MoneyTyped
<1>3. bank' \in [item : 0..Len(items'), cust : 0..custs', pm : 0..Len(sources')]
  <2>1. /\ bank \in [item : 0..Len(items), cust : 0..custs, pm : 0..Len(sources)]
        /\ Len(items) \in Nat /\ Len(sources) \in Nat /\ custs \in Nat
        /\ Len(items') \in Nat /\ Len(sources') \in Nat
    BY DEF RentTyped, LinkTyped
  <2>2. 0..Len(items) \subseteq 0..Len(items') /\ 0..custs \subseteq 0..custs' /\ 0..Len(sources) \subseteq 0..Len(sources')
    BY <2>1
  <2> QED BY <2>1, <2>2
<1> QED BY <1>1, <1>2, <1>3 DEF LinkTyped

LEMMA BankRemoveTyped == ASSUME RentTyped, NEW r \in Reqs, req[r].op \in {"link", "unlink"}, BankRemove(r) PROVE RentTyped'
<1>1. UNCHANGED <<cast, lease, money, bank, sources, custs, login, page, budget, wishes>>
  BY DEF BankRemove
<1> DEFINE q == req[r]
           new == [q EXCEPT !.pc = IF q.op = "link" THEN "obtain" ELSE "clear"]
<1>2. q \in RentReqs /\ InTurn(q) /\ Below(q, Sizes) /\ q.pc = "remove"
  BY ReqHere DEF RentReqOK, BankRemove
<1>3. q.item \in 1..Len(items)
  BY <1>2 DEF InTurn, Below, RentReqs, Sizes, RentTyped, LinkTyped
<1>4. items' \in Seq(BOOLEAN) /\ Len(items') = Len(items)
  <2>1. items' = items \/ items' = [items EXCEPT ![q.item] = FALSE]
    BY DEF BankRemove
  <2>2. FALSE \in BOOLEAN /\ items \in Seq(BOOLEAN)
    BY DEF RentTyped, LinkTyped
  <2>3. ASSUME NEW i \in 1..Len(items) PROVE [items EXCEPT ![i] = FALSE] \in Seq(BOOLEAN) /\ Len([items EXCEPT ![i] = FALSE]) = Len(items)
    BY <2>2, ExceptSeq
  <2> HIDE DEF q
  <2>4. CASE items' = items
    BY <2>2, <2>4
  <2>5. CASE items' = [items EXCEPT ![q.item] = FALSE]
    <3>1. items' \in Seq(BOOLEAN)
      BY <1>3, <2>3, <2>5, Zenon
    <3>2. Len(items') = Len(items)
      BY <1>3, <2>3, <2>5, Zenon
    <3> QED BY <3>1, <3>2
  <2> QED BY <2>1, <2>4, <2>5
<1>5. MoneyTyped' /\ LinkTyped' /\ Grow(Sizes, Sizes')
  BY <1>1, <1>4, SizesLink DEF RentTyped, LinkTyped
<1>6. Goes(r, new) /\ page' = page
  BY <1>1 DEF BankRemove
<1>7. RentReqOK(q, Sizes')
  BY <1>5, ReqStill
<1>8. new \in RentReqs /\ Below(new, Sizes') /\ new.op = q.op /\ new.item = q.item /\ new.pc = IF q.op = "link" THEN "obtain" ELSE "clear"
  BY <1>7 DEF RentReqOK, RentReqs, Below, RentPcs
<1>9. InTurn(new)
  BY <1>2, <1>3, <1>8 DEF InTurn
<1>10. RestTyped'
  <2>1. strays' = strays \/ strays' = strays + 1
    BY DEF BankRemove
  <2> QED BY <1>1, <2>1 DEF RentTyped, RestTyped
<1> HIDE DEF new, q
<1> QED BY <1>5, <1>6, <1>8, <1>9, <1>10, StepTyped DEF RentTyped, RentReqOK

LEMMA SpoiltNat == ASSUME NEW q PROVE Spoilt(q) \in {0, 1}
BY DEF Spoilt

LEMMA ObtainedStores == ASSUME RentTyped, NEW c \in Nat, items' = Exchanged, sources' = Attached(c)
  PROVE /\ items' \in Seq(BOOLEAN) /\ Len(items') = Len(items) + 1
        /\ sources' \in Seq(Nat) /\ Len(sources') = Len(sources) + 1
        /\ Len(items) \in Nat /\ Len(sources) \in Nat
BY DEF Exchanged, Attached, RentTyped, LinkTyped

LEMMA BankObtainTyped == ASSUME RentTyped, NEW r \in Reqs, BankObtain(r) PROVE RentTyped'
<1>1. UNCHANGED <<cast, lease, money, bank, login, budget, wishes>> /\ Stands(r, "link", "obtain")
  BY DEF BankObtain
<1> DEFINE q == req[r]
<1>2. q \in RentReqs /\ InTurn(q) /\ Below(q, Sizes) /\ q.op \in Op
  BY <1>1, ReqHere DEF RentReqOK, Stands, Op, TabOp
<1>3. custs \in Nat /\ items \in Seq(BOOLEAN) /\ sources \in Seq(Nat) /\ Len(items) \in Nat /\ Len(sources) \in Nat /\ strays \in Nat
  BY DEF RentTyped, LinkTyped, RestTyped
<1>4. CASE Ends(r, FALSE) /\ strays' = strays + Spoilt(q) /\ UNCHANGED <<items, sources, custs>>
  <2>1. MoneyTyped' /\ LinkTyped' /\ Grow(Sizes, Sizes')
    BY <1>1, <1>3, <1>4, SizesLink
  <2>2. RestTyped'
    BY <1>1, <1>3, <1>4, SpoiltNat DEF RentTyped, RestTyped
  <2> QED BY <1>2, <1>4, <2>1, <2>2, EndsTyped DEF RentTyped
<1>5. CASE Ends(r, FALSE) /\ strays' = strays + 1 + Spoilt(q) /\ items' = Exchanged /\ UNCHANGED <<sources, custs>>
  <2>1. items' \in Seq(BOOLEAN) /\ Len(items') = Len(items) + 1
    BY <1>3, <1>5 DEF Exchanged
  <2>2. MoneyTyped' /\ LinkTyped' /\ Grow(Sizes, Sizes')
    BY <1>1, <1>3, <1>5, <2>1, SizesLink
  <2>3. RestTyped'
    BY <1>1, <1>3, <1>5, SpoiltNat DEF RentTyped, RestTyped
  <2> QED BY <1>2, <1>5, <2>2, <2>3, EndsTyped DEF RentTyped
<1>6. ASSUME NEW c \in Customer(q.cust),
          items' = Exchanged, custs' = Greater(custs, c), sources' = Attached(c),
          Goes(r, [q EXCEPT !.pc = "save", !.fresh = Len(items) + 1, !.cust = c, !.pm = Len(sources) + 1]),
          UNCHANGED <<page, strays>>
      PROVE RentTyped'
  <2>1. c \in Nat /\ c <= custs' /\ custs' \in Nat /\ custs <= custs'
    <3>1. c = q.cust \/ c = custs + 1
      BY DEF Customer
    <3>2. q.cust \in Nat
      BY <1>2 DEF RentReqs
    <3>3. c \in Nat
      BY <1>3, <3>1, <3>2
    <3>4. custs' = Greater(custs, c)
      BY <1>6
    <3> QED BY <1>3, <3>3, <3>4 DEF Greater
  <2>2. /\ items' \in Seq(BOOLEAN) /\ Len(items') = Len(items) + 1
        /\ sources' \in Seq(Nat) /\ Len(sources') = Len(sources) + 1
    BY <1>6, <2>1, ObtainedStores
  <2>3. MoneyTyped' /\ LinkTyped' /\ Grow(Sizes, Sizes')
    BY <1>1, <1>3, <2>1, <2>2, SizesLink
  <2> DEFINE new == [q EXCEPT !.pc = "save", !.fresh = Len(items) + 1, !.cust = c, !.pm = Len(sources) + 1]
  <2>4. RentReqOK(q, Sizes')
    BY <2>3, ReqStill
  <2>5. new \in RentReqs /\ Below(new, Sizes')
    <3>1. Sizes'.items = Len(items) + 1 /\ Sizes'.sources = Len(sources) + 1 /\ Sizes'.custs = custs'
      BY <2>2 DEF Sizes
    <3>2. Len(items) + 1 \in Nat /\ Len(sources) + 1 \in Nat
      BY <1>3
    <3>3. new \in RentReqs
      BY <2>1, <2>4, <3>2 DEF RentReqOK, RentReqs, RentPcs
    <3>4. /\ new.pid = q.pid /\ new.item = q.item /\ new.fresh = Len(items) + 1
          /\ new.cust = c /\ new.pm = Len(sources) + 1 /\ new.debit = q.debit
      BY <2>4 DEF RentReqOK, RentReqs
    <3> HIDE DEF new
    <3> QED BY <1>3, <2>1, <2>4, <3>1, <3>3, <3>4 DEF RentReqOK, Below
  <2>6. new.op = "link" /\ new.pc = "save" /\ new.fresh >= 1 /\ new.pm >= 1
    BY <1>1, <1>2, <1>3 DEF Stands, RentReqs
  <2>7. Goes(r, new) /\ page' = page
    BY <1>6
  <2> HIDE DEF new
  <2>8. InTurn(new)
    BY <2>6 DEF InTurn
  <2>9. RestTyped'
    BY <1>1, <1>6, RestStays
  <2> QED BY <2>3, <2>5, <2>7, <2>8, <2>9, StepTyped DEF RentTyped, RentReqOK
<1> QED BY <1>4, <1>5, <1>6 DEF BankObtain

LEMMA BankWriteTyped == ASSUME RentTyped, NEW r \in Reqs, BankSave(r) \/ BankClear(r) PROVE RentTyped'
<1>1. UNCHANGED <<cast, lease, money, items, sources, custs, login, budget, wishes, strays>> /\ Ends(r, TRUE)
  BY DEF BankSave, BankClear
<1>2. req[r] \in RentReqs /\ InTurn(req[r]) /\ Below(req[r], Sizes) /\ req[r].op \in Op
  BY ReqHere DEF RentReqOK, BankSave, BankClear, Stands, Op, TabOp
<1>3. LinkTyped' /\ MoneyTyped' /\ Sizes' = Sizes
  <2>1. /\ bank \in [item : 0..Len(items), cust : 0..custs, pm : 0..Len(sources)]
        /\ Len(items) \in Nat /\ Len(sources) \in Nat /\ custs \in Nat
    BY DEF RentTyped, LinkTyped
  <2>2. bank' \in [item : 0..Len(items), cust : 0..custs, pm : 0..Len(sources)]
    <3>1. CASE BankSave(r)
      <4>1. req[r].fresh \in 0..Len(items) /\ req[r].cust \in 0..custs /\ req[r].pm \in 0..Len(sources)
        BY <1>2, <2>1 DEF Below, RentReqs, Sizes
      <4> QED BY <3>1, <4>1 DEF BankSave
    <3>2. CASE BankClear(r)
      <4>1. bank' = [item |-> 0, cust |-> bank.cust, pm |-> 0]
        BY <3>2 DEF BankClear, NoBank
      <4> QED BY <2>1, <4>1
    <3> QED BY <3>1, <3>2
  <2> QED BY <1>1, <2>1, <2>2 DEF RentTyped, LinkTyped, MoneyTyped, money, Pays, Sizes
<1>4. Grow(Sizes, Sizes')
  BY <1>3, GrowSame DEF RentTyped
<1> QED BY <1>1, <1>2, <1>3, <1>4, EndsTyped, RestStays DEF RentTyped

LEMMA HapTyped == ASSUME RentTyped, NEW r \in Reqs, AnswerLost(r) \/ Die(r) PROVE RentTyped'
<1>1. UNCHANGED <<cast, lease, money, link, login, wishes>> /\ req[r].pc # "idle"
  BY DEF AnswerLost, Die
<1>2. MoneyTyped' /\ LinkTyped' /\ Sizes' = Sizes /\ Grow(Sizes, Sizes')
  BY <1>1, StoresStay
<1>3. RentReqOK(req[r], Sizes') /\ req[r].op \in Op
  BY <1>1, <1>2, ReqHere DEF InTurn, Op, TabOp, DeskOp
<1>4. RestTyped'
  <2>1. budget' \in Budgets
    BY SpendTyped DEF AnswerLost, Die, RentTyped
  <2>2. strays' \in Nat
    <3>1. Left(req[r]) \in {0, 1, 2}
      BY SpoiltNat DEF Left
    <3> HIDE DEF Left
    <3>2. strays' = strays \/ strays' = strays + Left(req[r])
      BY DEF AnswerLost, Die
    <3> QED BY <3>1, <3>2 DEF RentTyped, RestTyped
  <2> QED BY <1>1, <2>1, <2>2 DEF RentTyped, RestTyped
<1>5. CASE Die(r)
  BY <1>2, <1>3, <1>4, <1>5, EndsTyped DEF Die, RentTyped
<1>6. CASE AnswerLost(r)
  <2>1. RentPagesTyped'
    BY <1>2, <1>3, <1>6, HeardTyped DEF AnswerLost
  <2>2. RentReqOK([req[r] EXCEPT !.scr = Nobody], Sizes')
    BY <1>3, UnheardOK
  <2>3. RentReqsTyped'
    BY <1>2, <1>6, <2>2, ReqGoes DEF AnswerLost
  <2> QED BY <1>2, <1>4, <2>1, <2>3 DEF RentTyped
<1> QED BY <1>5, <1>6

\* a step that leaves the rent pages alone, but perhaps ends the lease
LEMMA RentIdles == ASSUME RentTyped, UNCHANGED rentOnly, lease' \in BOOLEAN PROVE RentTyped'
<1>1. UNCHANGED <<money, link, cast, login, page, req, budget, wishes, strays>>
  BY DEF rentOnly
<1>2. MoneyTyped' /\ LinkTyped' /\ Sizes' = Sizes /\ Grow(Sizes, Sizes')
  BY <1>1, StoresStay
<1> QED BY <1>1, <1>2, ReqsStay, PagesStay DEF RentTyped, RestTyped

LEMMA RentStepTyped == ASSUME RentTyped, RentNext PROVE RentTyped'
<1>1. ASSUME NEW s \in Screens, PageStep(s) PROVE RentTyped'
  BY <1>1, OpenTyped, LoadTyped, WidgetTyped, PressTyped DEF PageStep, Presses
<1>2. ASSUME NEW r \in Reqs, ServerStep(r) PROVE RentTyped'
  <2>1. CASE BankRemove(r)
    <3>1. req[r].op \in {"link", "unlink"}
      BY <2>1, ReqHere DEF BankRemove, InTurn
    <3> QED BY <2>1, <3>1, BankRemoveTyped
  <2> QED BY <1>2, <2>1, QuietTyped, PayRowTyped, PayStripeTyped, PayStoreTyped, BankObtainTyped, BankWriteTyped,
             RecordTyped, RefundTyped DEF ServerStep
<1>3. ASSUME LeaseEnds PROVE RentTyped'
  BY <1>3, RentIdles DEF LeaseEnds, rentOnly
<1> QED BY <1>1, <1>2, <1>3, HapTyped, SettleTyped DEF RentNext

LEMMA RentInitTyped == ASSUME RentInit PROVE RentTyped
<1>1. cast \in Casts /\ cast.linked \in BOOLEAN
  BY RentPagesAssumption DEF RentInit, RentPagesAssumption
<1>2. MoneyTyped
  BY RentFacts DEF RentInit, MoneyTyped, Pays
<1>3. LinkTyped
  <2>1. CASE cast.linked
    <3>1. items = <<TRUE>> /\ sources = <<1>> /\ custs = 1 /\ bank = [item |-> 1, cust |-> 1, pm |-> 1]
      BY <2>1 DEF RentInit
    <3>2. items \in Seq(BOOLEAN) /\ Len(items) = 1 /\ sources \in Seq(Nat) /\ Len(sources) = 1
      BY <3>1
    <3> QED BY <3>1, <3>2 DEF LinkTyped
  <2>2. CASE ~cast.linked
    <3>1. items = <<>> /\ sources = <<>> /\ custs = 0 /\ bank = NoBank
      BY <2>2 DEF RentInit
    <3>2. items \in Seq(BOOLEAN) /\ Len(items) = 0 /\ sources \in Seq(Nat) /\ Len(sources) = 0
      BY <3>1
    <3> QED BY <3>1, <3>2 DEF LinkTyped, NoBank
  <2> QED BY <2>1, <2>2
<1>4. RestTyped
  BY <1>1 DEF RentInit, RestTyped, Budgets
<1>5. RentReqsTyped /\ RentPagesTyped
  <2>1. RentReqOK(Idle, Sizes) /\ RentPageOK(Closed, Sizes)
    BY <1>2, <1>3, RentIdle, ClosedOK, SizesTyped
  <2> QED BY <2>1 DEF RentInit, RentReqsTyped, RentPagesTyped, RentReqOK, RentPageOK
<1> QED BY <1>2, <1>3, <1>4, <1>5 DEF RentTyped

-----------------------------------------------------------------------------
(* The rent pages: a payment is made as often as it was meant              *)

Makes(q) == (q.op = "pay" /\ q.pc \in {"lease", "bank", "row", "stripe"}) \/ q.op = "record"
InFlight == {r \in Reqs : Makes(req[r])}
\* pages that ask to try again
Asks(p, op) == op \in p.again \ p.busy /\ (op = "pay" => p.claim = 0)
Unspent(op) == {s \in Screens : Asks(page[s], op)}
OffBank == {i \in Pays : pays[i].meth \in {"card", "cash"}}
\* the three counts that move with requests and pages
InHand == Cardinality(InFlight) + Cardinality(Unspent("pay")) + Cardinality(Unspent("record"))
Total == Len(debits) + Cardinality(OffBank) + InHand
MeantInv == Total <= wishes + budget.haps

LEMMA CardGain == ASSUME NEW S, IsFiniteSet(S), NEW x, NEW T, T \subseteq S \cup {x}
  PROVE IsFiniteSet(T) /\ Cardinality(T) \in Nat /\ Cardinality(S) \in Nat /\ Cardinality(T) <= Cardinality(S) + 1
<1>1. IsFiniteSet(S \cup {x}) /\ Cardinality(S \cup {x}) <= Cardinality(S) + 1 /\ Cardinality(S) \in Nat
  BY FS_AddElement, FS_CardinalityType
<1>2. IsFiniteSet(T) /\ Cardinality(T) <= Cardinality(S \cup {x})
  BY <1>1, FS_Subset
<1> QED BY <1>1, <1>2, FS_CardinalityType

LEMMA CardSame == ASSUME NEW S, IsFiniteSet(S), NEW T, T \subseteq S
  PROVE IsFiniteSet(T) /\ Cardinality(T) \in Nat /\ Cardinality(S) \in Nat /\ Cardinality(T) <= Cardinality(S)
BY FS_Subset, FS_CardinalityType

LEMMA CardDrop == ASSUME NEW S, IsFiniteSet(S), NEW x \in S, NEW T, T \subseteq S \ {x}
  PROVE IsFiniteSet(T) /\ Cardinality(T) \in Nat /\ Cardinality(S) \in Nat /\ Cardinality(T) + 1 <= Cardinality(S)
<1>1. IsFiniteSet(S \ {x}) /\ Cardinality(S \ {x}) = Cardinality(S) - 1 /\ Cardinality(S) \in Nat
  BY FS_RemoveElement, FS_CardinalityType
<1>2. IsFiniteSet(T) /\ Cardinality(T) <= Cardinality(S \ {x}) /\ Cardinality(T) \in Nat
  BY <1>1, FS_Subset, FS_CardinalityType
<1> QED BY <1>1, <1>2

LEMMA CountsFinite ==
  ASSUME RentTyped
  PROVE /\ IsFiniteSet(InFlight) /\ Cardinality(InFlight) \in Nat
        /\ \A op : IsFiniteSet(Unspent(op)) /\ Cardinality(Unspent(op)) \in Nat
        /\ IsFiniteSet(OffBank) /\ Cardinality(OffBank) \in Nat /\ Len(debits) \in Nat
        /\ wishes \in Nat /\ budget.haps \in Nat
<1>1. IsFiniteSet(Reqs) /\ IsFiniteSet(Screens)
  BY RentFacts
<1>2. IsFiniteSet(Pays)
  BY FS_Interval DEF Pays, RentTyped, MoneyTyped
<1>3. InFlight \subseteq Reqs /\ OffBank \subseteq Pays /\ \A op : Unspent(op) \subseteq Screens
  BY DEF InFlight, OffBank, Unspent
<1>4. IsFiniteSet(InFlight) /\ Cardinality(InFlight) \in Nat
  BY <1>1, <1>3, CardSame
<1>5. IsFiniteSet(OffBank) /\ Cardinality(OffBank) \in Nat
  BY <1>2, <1>3, CardSame
<1>6. \A op : IsFiniteSet(Unspent(op)) /\ Cardinality(Unspent(op)) \in Nat
  BY <1>1, <1>3, CardSame
<1> QED BY <1>4, <1>5, <1>6 DEF RentTyped, MoneyTyped, RestTyped, Budgets

LEMMA ReqMoves == ASSUME RentTyped, NEW r \in Reqs, NEW new, Goes(r, new)
  PROVE \A x \in Reqs : req'[x] = IF x = r THEN new ELSE req[x]
BY DEF Goes, RentTyped, RentReqsTyped

LEMMA PageMoves == ASSUME RentTyped, NEW s, NEW new, page' = [page EXCEPT ![s] = new]
  PROVE \A x \in Screens : page'[x] = IF x = s THEN new ELSE page[x]
BY DEF RentTyped, RentPagesTyped

\* requests: what is under way
LEMMA FlightGoes == ASSUME RentTyped, NEW r \in Reqs, NEW new, Goes(r, new)
  PROVE /\ IsFiniteSet(InFlight') /\ Cardinality(InFlight)' \in Nat
        /\ Cardinality(InFlight)' <= Cardinality(InFlight) + 1
        /\ (Makes(new) => Makes(req[r])) => Cardinality(InFlight)' <= Cardinality(InFlight)
        /\ Makes(req[r]) /\ ~Makes(new) => Cardinality(InFlight)' + 1 <= Cardinality(InFlight)
<1>1. \A x \in Reqs : req'[x] = IF x = r THEN new ELSE req[x]
  BY ReqMoves
<1>2. IsFiniteSet(InFlight)
  BY CountsFinite
<1>3. InFlight' \subseteq InFlight \cup {r}
  BY <1>1 DEF InFlight
<1>4. (Makes(new) => Makes(req[r])) => InFlight' \subseteq InFlight
  BY <1>1 DEF InFlight
<1>5. Makes(req[r]) /\ ~Makes(new) => InFlight' \subseteq InFlight \ {r} /\ r \in InFlight
  BY <1>1 DEF InFlight
<1>6. Cardinality(InFlight)' = Cardinality(InFlight')
  OBVIOUS
<1> QED BY <1>2, <1>3, <1>4, <1>5, <1>6, CardGain, CardSame, CardDrop

\* a page hears of an error, or of success
LEMMA HearsAsks == ASSUME NEW p \in RentScreens, NEW q, q.op \in Op, NEW op \in {"pay", "record"}, NEW ok \in BOOLEAN,
    \/ ~ok /\ op # q.op
    \/ ok /\ (q.op # "pay" \/ q.pid # 0),
    Asks(Hears(p, q, ok), op)
  PROVE Asks(p, op)
<1> DEFINE p1 == [p EXCEPT !.busy = @ \ {q.op}]
<1>0. /\ p1.again = p.again /\ p1.claim = p.claim /\ p1.busy = p.busy \ {q.op}
      /\ p1 \in RentScreens
  BY DEF RentScreens
<1> HIDE DEF p1
<1> DEFINE h == Hears(p, q, ok)
<1>4. CASE ~ok /\ op # q.op
  <2>1. h = [p1 EXCEPT !.again = @ \cup {q.op}]
    BY <1>4 DEF Hears, p1
  <2> HIDE DEF h
  <2>2. h.again = p.again \cup {q.op} /\ h.busy = p.busy \ {q.op} /\ h.claim = p.claim
    BY <1>0, <2>1 DEF RentScreens
  <2>3. Asks(h, op)
    BY DEF h
  <2> QED BY <1>4, <2>2, <2>3 DEF Asks
<1>1. CASE ok /\ q.op = "pay"
  <2>1. h = [p1 EXCEPT !.claim = q.pid]
    BY <1>1 DEF Hears, p1, Submitted, DeskOp
  <2>3. Asks(h, op)
    BY DEF h
  <2> HIDE DEF h
  <2> QED BY <1>0, <1>1, <2>1, <2>3 DEF Asks, RentScreens
<1>2. CASE ok /\ q.op \in {"link", "unlink", "profile", "password"}
  <2>1. \/ h = [p1 EXCEPT !.bank = TRUE]
        \/ h = [p1 EXCEPT !.bank = FALSE]
        \/ h = [p1 EXCEPT !.prof = q.val]
        \/ h = p1
    BY <1>2 DEF Hears, p1, DeskOp
  <2>3. Asks(h, op)
    BY DEF h
  <2> HIDE DEF h
  <2> QED BY <1>0, <1>2, <2>1, <2>3 DEF Asks, RentScreens
<1>3. CASE ok /\ q.op \in DeskOp
  <2>1. q.op # "pay" /\ q.op \notin {"link", "unlink", "profile", "password"}
    BY <1>3 DEF DeskOp
  <2>2. h = Recorded(p1, q.op)
    BY <1>3, <2>1 DEF Hears, p1
  <2>4. Asks(h, op)
    BY DEF h
  <2> HIDE DEF h
  <2>3. Recorded(p1, q.op).again = p.again \ {q.op} /\ Recorded(p1, q.op).busy = p.busy \ {q.op} /\ Recorded(p1, q.op).claim = p.claim
    BY <1>0 DEF Recorded, RentScreens
  <2> QED BY <1>3, <2>2, <2>3, <2>4 DEF Asks, DeskOp
<1> QED BY <1>1, <1>2, <1>3, <1>4 DEF Op, TabOp, DeskOp

LEMMA HeardAsks == ASSUME RentTyped, NEW q \in RentReqs, q.op \in Op, NEW ok \in BOOLEAN, page' = Heard(q, ok)
  PROVE /\ \A op \in {"pay", "record"} :
             /\ (op # q.op \/ ok) /\ (ok /\ q.op = "pay" => q.pid # 0) => Unspent(op)' \subseteq Unspent(op)
             /\ \E s : Unspent(op)' \subseteq Unspent(op) \cup {s}
<1> SUFFICES ASSUME NEW op \in {"pay", "record"}
    PROVE /\ (op # q.op \/ ok) /\ (ok /\ q.op = "pay" => q.pid # 0) => Unspent(op)' \subseteq Unspent(op)
          /\ \E s : Unspent(op)' \subseteq Unspent(op) \cup {s}
  OBVIOUS
<1>1. CASE q.scr = Nobody
  BY <1>1 DEF Heard, Unspent
<1>2. CASE q.scr # Nobody
  <2>1. \A x \in Screens : page'[x] = IF x = q.scr THEN Hears(page[q.scr], q, ok) ELSE page[x]
    BY <1>2, PageMoves DEF Heard
  <2>2. q.scr \in Screens /\ page[q.scr] \in RentScreens
    BY <1>2 DEF RentReqs, RentTyped, RentPagesTyped
  <2>3. Unspent(op)' \subseteq Unspent(op) \cup {q.scr}
    BY <2>1 DEF Unspent
  <2>4. ASSUME op # q.op \/ ok, ok /\ q.op = "pay" => q.pid # 0, Asks(Hears(page[q.scr], q, ok), op)
        PROVE Asks(page[q.scr], op)
    <3>1. \/ ~ok /\ op # q.op
          \/ ok /\ (q.op # "pay" \/ q.pid # 0)
      BY <2>4
    <3> QED BY <2>2, <2>4, <3>1, HearsAsks
  <2> QED BY <2>1, <2>3, <2>4 DEF Unspent
<1> QED BY <1>1, <1>2

LEMMA OpenSums == ASSUME RentTyped
  PROVE /\ InHand \in Nat /\ Cardinality(OffBank) \in Nat /\ Len(debits) \in Nat /\ Total \in Nat
        /\ MeantInv <=> Total <= wishes + budget.haps
BY CountsFinite DEF InHand, Total, MeantInv

\* one request ends and its page hears of it
LEMMA EndCounts ==
  ASSUME RentTyped, NEW r \in Reqs, NEW q \in RentReqs, q.op = req[r].op, q.op \in Op, NEW ok \in BOOLEAN,
         Goes(r, Idle), page' = Heard(q, ok), ok /\ q.op = "pay" => q.pid # 0
  PROVE /\ InHand' <= InHand + 1
        /\ ok \/ q.op \notin {"pay", "record"} => InHand' <= InHand
        /\ Makes(req[r]) => InHand' <= InHand
        /\ ok /\ Makes(req[r]) => InHand' + 1 <= InHand
<1> DEFINE F == Cardinality(InFlight)
           P == Cardinality(Unspent("pay"))
           C == Cardinality(Unspent("record"))
<1>1. F \in Nat /\ P \in Nat /\ C \in Nat /\ IsFiniteSet(Unspent("pay")) /\ IsFiniteSet(Unspent("record"))
  BY CountsFinite
<1>2. ~Makes(Idle)
  BY DEF Makes, Idle
<1>3. F' \in Nat /\ F' <= F /\ (Makes(req[r]) => F' + 1 <= F)
  BY <1>2, FlightGoes
<1>4. ASSUME NEW op \in {"pay", "record"}
      PROVE /\ Cardinality(Unspent(op))' \in Nat
            /\ Cardinality(Unspent(op))' <= Cardinality(Unspent(op)) + 1
            /\ op # q.op \/ ok => Cardinality(Unspent(op))' <= Cardinality(Unspent(op))
  <2>1. /\ op # q.op \/ ok => Unspent(op)' \subseteq Unspent(op)
        /\ \E s : Unspent(op)' \subseteq Unspent(op) \cup {s}
    BY HeardAsks
  <2>2. IsFiniteSet(Unspent(op))
    BY CountsFinite
  <2>3. Cardinality(Unspent(op))' = Cardinality(Unspent(op)')
    OBVIOUS
  <2> QED BY <2>1, <2>2, <2>3, CardGain, CardSame
<1>5. /\ P' \in Nat /\ P' <= P + 1 /\ ("pay" # q.op \/ ok => P' <= P)
      /\ C' \in Nat /\ C' <= C + 1 /\ ("record" # q.op \/ ok => C' <= C)
  BY <1>4
<1>6. InHand = F + P + C /\ InHand' = F' + P' + C'
  BY DEF InHand
<1>7. q.op # "pay" \/ q.op # "record"
  OBVIOUS
<1> QED BY <1>1, <1>3, <1>5, <1>6, <1>7

\* a request goes on, pages stay
LEMMA GoesCounts ==
  ASSUME RentTyped, NEW r \in Reqs, NEW new, Goes(r, new), page' = page
  PROVE /\ (Makes(new) => Makes(req[r])) => InHand' <= InHand
        /\ Makes(req[r]) /\ ~Makes(new) => InHand' + 1 <= InHand
<1> DEFINE F == Cardinality(InFlight)
           P == Cardinality(Unspent("pay"))
           C == Cardinality(Unspent("record"))
<1>1. F \in Nat /\ P \in Nat /\ C \in Nat
  BY CountsFinite
<1>2. /\ F' \in Nat /\ (Makes(new) => Makes(req[r])) => F' <= F
      /\ Makes(req[r]) /\ ~Makes(new) => F' + 1 <= F
  BY FlightGoes
<1>3. P' = P /\ C' = C
  BY DEF Unspent
<1>4. InHand = F + P + C /\ InHand' = F' + P' + C'
  BY DEF InHand
<1>5. F' \in Nat
  BY FlightGoes
<1> QED BY <1>1, <1>2, <1>3, <1>4, <1>5

\* requests keep their stage, and no page asks for more
LEMMA QuietCounts ==
  ASSUME RentTyped, \A x \in Reqs : Makes(req'[x]) => Makes(req[x]),
         \A op \in {"pay", "record"}, s \in Screens : Asks(page'[s], op) => Asks(page[s], op)
  PROVE InHand' <= InHand
<1> DEFINE F == Cardinality(InFlight)
           P == Cardinality(Unspent("pay"))
           C == Cardinality(Unspent("record"))
<1>1. F \in Nat /\ P \in Nat /\ C \in Nat
  BY CountsFinite
<1>2. InFlight' \subseteq InFlight /\ Unspent("pay")' \subseteq Unspent("pay") /\ Unspent("record")' \subseteq Unspent("record")
  BY DEF InFlight, Unspent
<1>3. F' = Cardinality(InFlight') /\ P' = Cardinality(Unspent("pay")') /\ C' = Cardinality(Unspent("record")')
  OBVIOUS
<1>4. F' \in Nat /\ F' <= F
  BY <1>2, <1>3, CountsFinite, CardSame
<1>5. P' \in Nat /\ P' <= P /\ C' \in Nat /\ C' <= C
  BY <1>2, <1>3, CountsFinite, CardSame
<1>6. InHand = F + P + C /\ InHand' = F' + P' + C'
  BY DEF InHand
<1> QED BY <1>1, <1>4, <1>5, <1>6

LEMMA OffBankStays == ASSUME Len(pays') = Len(pays), \A i \in Pays : pays'[i].meth = pays[i].meth
  PROVE OffBank' = OffBank
BY DEF OffBank, Pays

LEMMA OffBankAdds == ASSUME RentTyped, NEW new, pays' = Append(pays, new)
  PROVE /\ Cardinality(OffBank)' <= Cardinality(OffBank) + 1
        /\ new.meth = "bank" => Cardinality(OffBank)' <= Cardinality(OffBank)
<1>1. /\ Pays' = Pays \cup {Len(pays) + 1} /\ pays'[Len(pays) + 1] = new
      /\ \A i \in Pays : pays'[i] = pays[i]
  BY DEF Pays, RentTyped, MoneyTyped
<1>2. OffBank' \subseteq OffBank \cup {Len(pays) + 1}
  BY <1>1 DEF OffBank
<1>3. new.meth = "bank" => OffBank' \subseteq OffBank
  BY <1>1 DEF OffBank
<1>4. Cardinality(OffBank)' = Cardinality(OffBank') /\ IsFiniteSet(OffBank)
  BY CountsFinite
<1> QED BY <1>2, <1>3, <1>4, CardGain, CardSame

LEMMA NextSums == ASSUME RentTyped'
  PROVE InHand' \in Nat /\ Cardinality(OffBank)' \in Nat /\ Len(debits)' \in Nat /\ wishes' \in Nat /\ budget'.haps \in Nat
<1>1. IsFiniteSet(Reqs) /\ IsFiniteSet(Screens)
  BY RentFacts
<1>2. IsFiniteSet(Pays')
  <2>1. Len(pays') \in Nat /\ Pays' = 1..Len(pays')
    BY DEF Pays, RentTyped, MoneyTyped
  <2>2. IsFiniteSet(1..Len(pays'))
    BY <2>1, FS_Interval
  <2> QED BY <2>1, <2>2
<1>3. InFlight' \subseteq Reqs /\ OffBank' \subseteq Pays' /\ Unspent("pay")' \subseteq Screens /\ Unspent("record")' \subseteq Screens
  BY DEF InFlight, OffBank, Unspent
<1>4. Cardinality(InFlight)' \in Nat /\ Cardinality(OffBank)' \in Nat
  <2>1. Cardinality(InFlight)' = Cardinality(InFlight') /\ Cardinality(OffBank)' = Cardinality(OffBank')
    OBVIOUS
  <2> QED BY <1>1, <1>2, <1>3, <2>1, CardSame
<1>5. Cardinality(Unspent("pay"))' \in Nat /\ Cardinality(Unspent("record"))' \in Nat
  <2>1. /\ Cardinality(Unspent("pay"))' = Cardinality(Unspent("pay")')
        /\ Cardinality(Unspent("record"))' = Cardinality(Unspent("record")')
    OBVIOUS
  <2> QED BY <1>1, <1>3, <2>1, CardSame
<1> QED BY <1>4, <1>5 DEF InHand, RentTyped, MoneyTyped, RestTyped, Budgets

\* the inequality on a step, and on a state, of plain numbers
Covers(d, b, o, w, h, d2, b2, o2, w2, h2) == d2 + b2 + o2 + w + h <= d + b + o + w2 + h2
Within(d, b, o, w, h) == d + b + o <= w + h

Moves == Covers(Len(debits), Cardinality(OffBank), InHand, wishes, budget.haps,
                Len(debits)', Cardinality(OffBank)', InHand', wishes', budget'.haps)

LEMMA AllSums == ASSUME RentTyped, RentTyped'
  PROVE /\ InHand' \in Nat /\ Cardinality(OffBank)' \in Nat /\ Len(debits)' \in Nat /\ wishes' \in Nat /\ budget'.haps \in Nat
        /\ InHand \in Nat /\ Cardinality(OffBank) \in Nat /\ Len(debits) \in Nat /\ wishes \in Nat /\ budget.haps \in Nat
BY OpenSums, NextSums, CountsFinite

LEMMA Balance == ASSUME RentTyped, RentTyped', MeantInv, Moves PROVE MeantInv'
<1>1. Within(Len(debits), Cardinality(OffBank), InHand, wishes, budget.haps)
  BY DEF MeantInv, Total, Within
<1>2. Within(Len(debits)', Cardinality(OffBank)', InHand', wishes', budget'.haps)
  <2> DEFINE Both(d, b, o, w, h, d2, b2, o2, w2, h2) == Covers(d, b, o, w, h, d2, b2, o2, w2, h2) /\ Within(d, b, o, w, h)
  <2>1. ASSUME NEW d \in Nat, NEW b \in Nat, NEW o \in Nat, NEW w \in Nat, NEW h \in Nat,
               NEW d2 \in Nat, NEW b2 \in Nat, NEW o2 \in Nat, NEW w2 \in Nat, NEW h2 \in Nat,
               Both(d, b, o, w, h, d2, b2, o2, w2, h2)
        PROVE Within(d2, b2, o2, w2, h2)
    BY <2>1 DEF Covers, Within
  <2>2. Both(Len(debits), Cardinality(OffBank), InHand, wishes, budget.haps,
             Len(debits)', Cardinality(OffBank)', InHand', wishes', budget'.haps)
    BY <1>1 DEF Moves
  <2> HIDE DEF Both
  <2> QED BY <2>1, <2>2, AllSums
<1>3. Len(debits)' + Cardinality(OffBank)' + InHand' <= wishes' + budget'.haps
  BY <1>2 DEF Within
<1> QED BY <1>3 DEF MeantInv, Total

\* nothing was made, nothing gained
LEMMA BalanceSame == ASSUME RentTyped, RentTyped', MeantInv, Len(debits)' = Len(debits), Cardinality(OffBank)' = Cardinality(OffBank),
    InHand' <= InHand, wishes' + budget'.haps >= wishes + budget.haps
  PROVE MeantInv'
<1> DEFINE Step(d, b, o, w, h, d2, b2, o2, w2, h2) == d2 = d /\ b2 = b /\ o2 <= o /\ w2 + h2 >= w + h
<1>1. ASSUME NEW d \in Nat, NEW b \in Nat, NEW o \in Nat, NEW w \in Nat, NEW h \in Nat,
             NEW d2 \in Nat, NEW b2 \in Nat, NEW o2 \in Nat, NEW w2 \in Nat, NEW h2 \in Nat,
             Step(d, b, o, w, h, d2, b2, o2, w2, h2)
      PROVE Covers(d, b, o, w, h, d2, b2, o2, w2, h2)
  BY <1>1 DEF Covers
<1>2. Step(Len(debits), Cardinality(OffBank), InHand, wishes, budget.haps,
           Len(debits)', Cardinality(OffBank)', InHand', wishes', budget'.haps)
  OBVIOUS
<1> HIDE DEF Step
<1>3. Moves
  BY <1>1, <1>2, AllSums DEF Moves
<1> QED BY <1>3, Balance

\* one debit or one other row was made, and one chance to make it used up
LEMMA BalanceMade == ASSUME RentTyped, RentTyped', MeantInv, 
    \/ Len(debits)' <= Len(debits) + 1 /\ Cardinality(OffBank)' <= Cardinality(OffBank)
    \/ Len(debits)' <= Len(debits) /\ Cardinality(OffBank)' <= Cardinality(OffBank) + 1,
    InHand' + 1 <= InHand, wishes' + budget'.haps >= wishes + budget.haps
  PROVE MeantInv'
<1> DEFINE Step(d, b, o, w, h, d2, b2, o2, w2, h2) == 
  /\ \/ d2 <= d + 1 /\ b2 <= b
     \/ d2 <= d /\ b2 <= b + 1
  /\ o2 + 1 <= o /\ w2 + h2 >= w + h
<1>1. ASSUME NEW d \in Nat, NEW b \in Nat, NEW o \in Nat, NEW w \in Nat, NEW h \in Nat,
             NEW d2 \in Nat, NEW b2 \in Nat, NEW o2 \in Nat, NEW w2 \in Nat, NEW h2 \in Nat,
             Step(d, b, o, w, h, d2, b2, o2, w2, h2)
      PROVE Covers(d, b, o, w, h, d2, b2, o2, w2, h2)
  BY <1>1 DEF Covers
<1>2. Step(Len(debits), Cardinality(OffBank), InHand, wishes, budget.haps,
           Len(debits)', Cardinality(OffBank)', InHand', wishes', budget'.haps)
  OBVIOUS
<1> HIDE DEF Step
<1>3. Moves
  BY <1>1, <1>2, AllSums DEF Moves
<1> QED BY <1>3, Balance

\* a mishap lets one page ask again
LEMMA BalanceHap == ASSUME RentTyped, RentTyped', MeantInv, Len(debits)' = Len(debits), Cardinality(OffBank)' = Cardinality(OffBank),
    InHand' <= InHand + 1, wishes' = wishes, budget'.haps = budget.haps + 1
  PROVE MeantInv'
<1> DEFINE Step(d, b, o, w, h, d2, b2, o2, w2, h2) == d2 = d /\ b2 = b /\ o2 <= o + 1 /\ w2 = w /\ h2 = h + 1
<1>1. ASSUME NEW d \in Nat, NEW b \in Nat, NEW o \in Nat, NEW w \in Nat, NEW h \in Nat,
             NEW d2 \in Nat, NEW b2 \in Nat, NEW o2 \in Nat, NEW w2 \in Nat, NEW h2 \in Nat,
             Step(d, b, o, w, h, d2, b2, o2, w2, h2)
      PROVE Covers(d, b, o, w, h, d2, b2, o2, w2, h2)
  BY <1>1 DEF Covers
<1>2. Step(Len(debits), Cardinality(OffBank), InHand, wishes, budget.haps,
           Len(debits)', Cardinality(OffBank)', InHand', wishes', budget'.haps)
  OBVIOUS
<1> HIDE DEF Step
<1>3. Moves
  BY <1>1, <1>2, AllSums DEF Moves
<1> QED BY <1>3, Balance

LEMMA BalanceQuiet == ASSUME RentTyped, RentTyped', MeantInv, UNCHANGED <<debits, pays>>, InHand' <= InHand,
    wishes' + budget'.haps >= wishes + budget.haps
  PROVE MeantInv'
<1>1. Cardinality(OffBank)' = Cardinality(OffBank) /\ Len(debits)' = Len(debits)
  BY DEF OffBank, Pays
<1> QED BY <1>1, BalanceSame

\* each case below only shows that nothing is gained
LEMMA QuietMeant == ASSUME RentTyped, RentTyped', MeantInv, UNCHANGED <<debits, pays, wishes>>, budget'.haps >= budget.haps,
    \A x \in Reqs : Makes(req'[x]) => Makes(req[x]),
    \A op \in {"pay", "record"}, s \in Screens : Asks(page'[s], op) => Asks(page[s], op)
  PROVE MeantInv'
<1>1. InHand' <= InHand
  BY QuietCounts
<1>2. wishes' + budget'.haps >= wishes + budget.haps
  BY CountsFinite, NextSums
<1> QED BY <1>1, <1>2, BalanceQuiet

LEMMA SpendHaps == ASSUME RentTyped, NEW k \in {"presses", "visits", "haps"}, Spend(k, cast[k])
  PROVE budget'.haps = IF k = "haps" THEN budget.haps + 1 ELSE budget.haps
BY DEF Spend, RentTyped, RestTyped, Budgets

LEMMA OpenMeant == ASSUME RentTyped, RentTyped', MeantInv, NEW s \in Screens,
    NEW at \in {"pay", "settings", "history", "desk"}, Open(s, at)
  PROVE MeantInv'
<1>1. UNCHANGED <<debits, pays, wishes>> /\ budget'.haps = budget.haps
  BY SpendHaps DEF Open, money
<1>2. \A x \in Reqs : Makes(req'[x]) => Makes(req[x])
  <2> SUFFICES ASSUME NEW x \in Reqs PROVE Makes(req'[x]) => Makes(req[x])
    OBVIOUS
  <2>1. req'[x] = IF req[x].scr = s THEN [req[x] EXCEPT !.scr = Nobody] ELSE req[x]
    BY DEF Open
  <2>2. req[x] \in RentReqs
    BY ReqHere
  <2> QED BY <2>1, <2>2 DEF Makes, RentReqs
<1>3. \A op \in {"pay", "record"}, x \in Screens : Asks(page'[x], op) => Asks(page[x], op)
  <2> DEFINE new == [Closed EXCEPT !.at = at, !.need = Wants(at)]
  <2>1. page' = [page EXCEPT ![s] = new]
    BY DEF Open
  <2>2. \A op : ~Asks(new, op)
    BY DEF Asks, Closed
  <2> HIDE DEF new
  <2> QED BY <2>1, <2>2, PageMoves
<1> QED BY <1>1, <1>2, <1>3, QuietMeant, CountsFinite

LEMMA LoadedAsks == ASSUME NEW p \in RentScreens, NEW k \in PageNeeds
  PROVE LET q == Loaded(p, k) IN q.again = p.again /\ q.busy = p.busy /\ q.claim = p.claim
<1> DEFINE p1 == [p EXCEPT !.need = @ \ {k}]
<1>1. \/ Loaded(p, k) = [p1 EXCEPT !.lease = lease]
      \/ Loaded(p, k) = [p1 EXCEPT !.bank = bank.item # 0]
      \/ Loaded(p, k) = Profiled(p1)
      \/ Loaded(p, k) = [p1 EXCEPT !.done = Completed]
      \/ Loaded(p, k) = [p1 EXCEPT !.owes = Overdue]
  BY DEF Loaded, PageNeeds
<1>2. p1 \in RentScreens /\ p1.again = p.again /\ p1.busy = p.busy /\ p1.claim = p.claim
  BY DEF RentScreens
<1> HIDE DEF p1
<1> QED BY <1>1, <1>2 DEF RentScreens, Profiled

LEMMA LoadMeant == ASSUME RentTyped, RentTyped', MeantInv, NEW s \in Screens, NEW k, Load(s, k) \/ LoadFails(s, k)
  PROVE MeantInv'
<1>1. UNCHANGED <<debits, pays, wishes, req>> /\ budget'.haps >= budget.haps
  <2>1. budget' = budget \/ budget'.haps = budget.haps + 1
    BY SpendHaps DEF Load, LoadFails
  <2> QED BY <2>1, CountsFinite DEF Load, LoadFails, money
<1>2. page[s] \in RentScreens /\ k \in PageNeeds
  BY DEF Load, LoadFails, RentTyped, RentPagesTyped, RentScreens
<1>3. PICK new : page' = [page EXCEPT ![s] = new] /\ new.again = page[s].again /\ new.busy = page[s].busy /\ new.claim = page[s].claim
  <2>1. CASE Load(s, k)
    <3>1. page' = [page EXCEPT ![s] = Loaded(page[s], k)]
      BY <2>1 DEF Load
    <3> QED BY <1>2, <3>1, LoadedAsks
  <2>2. CASE LoadFails(s, k)
    <3>1. page' = [page EXCEPT ![s] = [page[s] EXCEPT !.need = @ \ {k}]]
      BY <2>2 DEF LoadFails
    <3> DEFINE new == [page[s] EXCEPT !.need = @ \ {k}]
    <3>2. new.again = page[s].again /\ new.busy = page[s].busy /\ new.claim = page[s].claim
      BY <1>2 DEF RentScreens
    <3> QED BY <3>1, <3>2
  <2> QED BY <2>1, <2>2
<1>4. \A op \in {"pay", "record"}, x \in Screens : Asks(page'[x], op) => Asks(page[x], op)
  BY <1>3, PageMoves DEF Asks
<1> QED BY <1>1, <1>4, QuietMeant, CountsFinite

LEMMA WidgetMeant == ASSUME RentTyped, RentTyped', MeantInv, NEW s \in Screens, PressLink(s) \/ WidgetExit(s)
  PROVE MeantInv'
<1>1. UNCHANGED <<debits, pays, wishes, req>> /\ budget'.haps = budget.haps
  BY SpendHaps DEF PressLink, WidgetExit, Press, money
<1>2. page[s] \in RentScreens
  BY DEF RentTyped, RentPagesTyped
<1>3. \E b, w : (b \cup {"link"}) = (page[s].busy \cup {"link"}) /\ page' = [page EXCEPT ![s] = [page[s] EXCEPT !.busy = b, !.widget = w]]
  <2>1. CASE PressLink(s)
    <3>1. page' = [page EXCEPT ![s] = [page[s] EXCEPT !.busy = page[s].busy \cup {"link"}, !.widget = TRUE]]
      BY <1>2, <2>1 DEF PressLink, RentTyped, RentPagesTyped
    <3>2. (page[s].busy \cup {"link"}) \cup {"link"} = page[s].busy \cup {"link"}
      OBVIOUS
    <3> QED BY <3>1, <3>2
  <2>2. CASE WidgetExit(s)
    <3>1. page' = [page EXCEPT ![s] = [page[s] EXCEPT !.busy = page[s].busy \ {"link"}, !.widget = FALSE]]
      BY <1>2, <2>2 DEF WidgetExit, RentTyped, RentPagesTyped
    <3>2. (page[s].busy \ {"link"}) \cup {"link"} = page[s].busy \cup {"link"}
      OBVIOUS
    <3> QED BY <3>1, <3>2
  <2> QED BY <2>1, <2>2
<1>4. PICK b, w : (b \cup {"link"}) = (page[s].busy \cup {"link"}) /\ page' = [page EXCEPT ![s] = [page[s] EXCEPT !.busy = b, !.widget = w]]
  BY <1>3
<1> DEFINE new == [page[s] EXCEPT !.busy = b, !.widget = w]
<1>5. new.again = page[s].again /\ new.claim = page[s].claim /\ new.busy = b
  BY <1>2 DEF RentScreens
<1>6. page' = [page EXCEPT ![s] = new]
  BY <1>4
<1> HIDE DEF new
<1>7. \A op \in {"pay", "record"} : Asks(new, op) => Asks(page[s], op)
  BY <1>4, <1>5 DEF Asks
<1>8. \A op \in {"pay", "record"}, x \in Screens : Asks(page'[x], op) => Asks(page[x], op)
  BY <1>6, <1>7, PageMoves
<1> QED BY <1>1, <1>8, QuietMeant, CountsFinite

LEMMA PressMeant == ASSUME RentTyped, RentTyped', MeantInv, NEW s \in Screens, NEW r \in Reqs, Presses(s, r) PROVE MeantInv'
<1>1. UNCHANGED <<debits, pays>>
  BY DEF Presses, PressPay, WidgetSuccess, PressUnlink, PressProfile, PressPassword, PressRecord, PressRefund, money
<1>2. page[s] \in RentScreens
  BY DEF RentTyped, RentPagesTyped
<1>3. CASE WidgetSuccess(s, r)
  <2> DEFINE q == [Idle EXCEPT !.op = "link", !.pc = "read", !.scr = s]
  <2>1. Goes(r, q) /\ UNCHANGED <<budget, wishes>> /\ page' = [page EXCEPT ![s] = [page[s] EXCEPT !.widget = FALSE]]
    BY <1>3 DEF WidgetSuccess
  <2>2. ~Makes(q)
    BY DEF Makes, Idle
  <2> HIDE DEF q
  <2> DEFINE new == [page[s] EXCEPT !.widget = FALSE]
  <2>3. new.again = page[s].again /\ new.claim = page[s].claim /\ new.busy = page[s].busy
    BY <1>2 DEF RentScreens
  <2>4. page' = [page EXCEPT ![s] = new]
    BY <2>1
  <2> HIDE DEF new
  <2>5. \A op \in {"pay", "record"}, x \in Screens : Asks(page'[x], op) => Asks(page[x], op)
    BY <2>3, <2>4, PageMoves DEF Asks
  <2>6. \A x \in Reqs : Makes(req'[x]) => Makes(req[x])
    BY <2>1, <2>2, ReqMoves
  <2>7. UNCHANGED <<debits, pays, wishes>> /\ budget'.haps >= budget.haps
    BY <1>1, <2>1, CountsFinite
  <2> QED BY <2>5, <2>6, <2>7, QuietMeant
<1>4. CASE ~WidgetSuccess(s, r)
  <2>1. PICK q \in RentReqs :
          /\ RentReqOK(q, Sizes) /\ Sends(s, r, q) /\ q.op \in Op \ {"link"} /\ q.debit = 0
          /\ q.pc \in {"lease", "read", "put", "check", "write"} /\ Press(s, q.op)
          /\ IF q.op \in {"pay", "record"} THEN Wish(s, q.op) ELSE wishes' = wishes
    BY <1>4, PressSends DEF Presses
  <2> DEFINE qs == [q EXCEPT !.scr = s]
             new == [page[s] EXCEPT !.busy = @ \cup {q.op}]
  <2>2. Goes(r, qs) /\ page' = [page EXCEPT ![s] = new] /\ budget'.haps = budget.haps
    BY <2>1, SpendHaps DEF Sends, Press
  <2>3. new.again = page[s].again /\ new.claim = page[s].claim /\ new.busy = page[s].busy \cup {q.op}
    BY <1>2 DEF RentScreens
  <2>4. qs.op = q.op /\ qs.pc = q.pc
    BY DEF RentReqs
  <2> HIDE DEF new, qs
  <2>5. \A x \in Screens : page'[x] = IF x = s THEN new ELSE page[x]
    <3>1. page' = [page EXCEPT ![s] = new]
      BY <2>2
    <3>2. page \in [Screens -> RentScreens]
      BY DEF RentTyped, RentPagesTyped
    <3> QED BY <3>1, <3>2
  <2>6. CASE q.op \notin {"pay", "record"}
    <3>1. ~Makes(qs)
      BY <2>4, <2>6 DEF Makes
    <3>2. \A x \in Reqs : Makes(req'[x]) => Makes(req[x])
      BY <2>2, <3>1, ReqMoves
    <3>3. \A op \in {"pay", "record"}, x \in Screens : Asks(page'[x], op) => Asks(page[x], op)
      BY <2>3, <2>5 DEF Asks
    <3>4. wishes' = wishes
      BY <2>1, <2>6
    <3> QED BY <1>1, <2>2, <3>2, <3>3, <3>4, QuietMeant, CountsFinite
  <2>7. CASE q.op \in {"pay", "record"}
    <3> DEFINE op == q.op
               other == IF op = "pay" THEN "record" ELSE "pay"
    <3>1. Unspent(other)' \subseteq Unspent(other)
      BY <2>3, <2>5 DEF Unspent, Asks
    <3>2. Unspent(op)' \subseteq Unspent(op) \ {s}
      BY <2>3, <2>5 DEF Unspent, Asks
    <3>3. Cardinality(InFlight)' \in Nat /\ Cardinality(InFlight)' <= Cardinality(InFlight) + 1
      BY <2>2, FlightGoes
    <3>4. /\ Cardinality(Unspent(other))' = Cardinality(Unspent(other)')
          /\ Cardinality(Unspent(op))' = Cardinality(Unspent(op)')
          /\ IsFiniteSet(Unspent(op)) /\ IsFiniteSet(Unspent(other))
      BY CountsFinite
    <3>5. Cardinality(Unspent(other))' \in Nat /\ Cardinality(Unspent(other))' <= Cardinality(Unspent(other))
      BY <3>1, <3>4, CardSame
    <3>6. Cardinality(Unspent(op))' \in Nat /\ Cardinality(Unspent(op))' <= Cardinality(Unspent(op))
      BY <3>2, <3>4, CardSame
    <3>7. s \in Unspent(op) => Cardinality(Unspent(op))' + 1 <= Cardinality(Unspent(op))
      BY <3>2, <3>4, CardDrop
    <3>8. op \in page[s].again => s \in Unspent(op)
      <4>1. op \notin page[s].busy /\ Offered(page[s], op)
        BY <2>1 DEF Press, Enabled
      <4>2. op = "pay" => page[s].claim = 0
        BY <4>1 DEF Offered, PayOffered
      <4> QED BY <4>1, <4>2 DEF Unspent, Asks
    <3>9. wishes' = IF op \in page[s].again THEN wishes ELSE wishes + 1
      BY <2>1, <2>7 DEF Wish
    <3>10. /\ InHand = Cardinality(InFlight) + Cardinality(Unspent(op)) + Cardinality(Unspent(other))
           /\ InHand' = Cardinality(InFlight)' + Cardinality(Unspent(op))' + Cardinality(Unspent(other))'
      <4>1. CASE op = "pay"
        <5>1. other = "record"
          BY <4>1
        <5> QED BY <4>1, <5>1 DEF InHand
      <4>2. CASE op = "record"
        <5>1. other = "pay"
          BY <4>2
        <5>2. /\ Cardinality(InFlight) \in Nat /\ Cardinality(Unspent("pay")) \in Nat /\ Cardinality(Unspent("record")) \in Nat
              /\ Cardinality(InFlight)' \in Nat /\ Cardinality(Unspent("pay"))' \in Nat /\ Cardinality(Unspent("record"))' \in Nat
          BY <3>3, <3>5, <3>6, <4>2, <5>1, CountsFinite
        <5>3. InHand' = Cardinality(InFlight)' + Cardinality(Unspent("pay"))' + Cardinality(Unspent("record"))'
          BY DEF InHand
        <5> QED BY <4>2, <5>1, <5>2, <5>3 DEF InHand
      <4> QED BY <2>7, <4>1, <4>2
    <3>11. Cardinality(InFlight) \in Nat /\ Cardinality(Unspent(op)) \in Nat /\ Cardinality(Unspent(other)) \in Nat
      BY CountsFinite
    <3>12. Cardinality(OffBank)' = Cardinality(OffBank) /\ Len(debits)' = Len(debits)
      BY <1>1 DEF OffBank, Pays
    <3> HIDE DEF op, other
    <3>13. InHand' + wishes <= InHand + wishes'
      <4>1. wishes \in Nat
        BY CountsFinite
      <4>2. CASE op \in page[s].again
        <5>1. wishes' = wishes /\ Cardinality(Unspent(op))' + 1 <= Cardinality(Unspent(op))
          BY <3>7, <3>8, <3>9, <4>2
        <5> QED BY <3>3, <3>5, <3>6, <3>10, <3>11, <4>1, <5>1
      <4>3. CASE op \notin page[s].again
        <5>1. wishes' = wishes + 1
          BY <3>9, <4>3
        <5> QED BY <3>3, <3>5, <3>6, <3>10, <3>11, <4>1, <5>1
      <4> QED BY <4>2, <4>3
    <3>14. Moves
      <4> DEFINE Paid(d, b, o, w, h, d2, b2, o2, w2, h2) == d2 = d /\ b2 = b /\ o2 + w <= o + w2 /\ h2 = h
      <4>1. ASSUME NEW d \in Nat, NEW b \in Nat, NEW o \in Nat, NEW w \in Nat, NEW h \in Nat,
                   NEW d2 \in Nat, NEW b2 \in Nat, NEW o2 \in Nat, NEW w2 \in Nat, NEW h2 \in Nat,
                   Paid(d, b, o, w, h, d2, b2, o2, w2, h2)
            PROVE Covers(d, b, o, w, h, d2, b2, o2, w2, h2)
        BY <4>1 DEF Covers
      <4>2. Paid(Len(debits), Cardinality(OffBank), InHand, wishes, budget.haps,
                 Len(debits)', Cardinality(OffBank)', InHand', wishes', budget'.haps)
        BY <2>2, <3>12, <3>13
      <4> HIDE DEF Paid
      <4> QED BY <4>1, <4>2, AllSums DEF Moves
    <3> QED BY <3>14, Balance
  <2> QED BY <2>6, <2>7
<1> QED BY <1>3, <1>4

\* a request that ends uses up what it was about to make
LEMMA Ended ==
  ASSUME RentTyped, NEW r \in Reqs, NEW ok \in BOOLEAN, req[r].op \in Op, Ends(r, ok), ok /\ req[r].op = "pay" => req[r].pid # 0
  PROVE /\ InHand' <= InHand + 1
        /\ ok \/ req[r].op \notin {"pay", "record"} => InHand' <= InHand
        /\ Makes(req[r]) => InHand' <= InHand
        /\ ok /\ Makes(req[r]) => InHand' + 1 <= InHand
<1>1. req[r] \in RentReqs
  BY ReqHere
<1>2. Goes(r, Idle) /\ page' = Heard(req[r], ok)
  BY DEF Ends
<1> QED BY <1>1, <1>2, EndCounts

LEMMA EndedWell ==
  ASSUME RentTyped, NEW r \in Reqs, req[r].op \in Op, Ends(r, TRUE), req[r].op = "pay" => req[r].pid # 0
  PROVE InHand' <= InHand /\ (Makes(req[r]) => InHand' + 1 <= InHand)
BY Ended

LEMMA EndedBadly ==
  ASSUME RentTyped, NEW r \in Reqs, req[r].op \in Op, Ends(r, FALSE)
  PROVE /\ InHand' <= InHand + 1
        /\ Makes(req[r]) \/ req[r].op \notin {"pay", "record"} => InHand' <= InHand
BY Ended

\* a row changes, but not its method
LEMMA RowKeeps == ASSUME MoneyTyped, NEW i \in Pays,
    pays' = pays \/ (\E x : pays' = [pays EXCEPT ![i].debit = x]) \/ (\E x : pays' = [pays EXCEPT ![i].status = x])
  PROVE Len(pays') = Len(pays) /\ \A j \in Pays : pays'[j].meth = pays[j].meth
<1>1. pays[i] \in Payment
  BY PayAt
<1>2. CASE \E x : pays' = [pays EXCEPT ![i].debit = x]
  <2>1. PICK x : pays' = [pays EXCEPT ![i].debit = x]
    BY <1>2
  <2> DEFINE new == [pays[i] EXCEPT !.debit = x]
  <2>2. new.meth = pays[i].meth
    BY <1>1 DEF Payment
  <2>3. pays' = [pays EXCEPT ![i] = new]
    BY <2>1
  <2> HIDE DEF new
  <2> QED BY <2>2, <2>3 DEF MoneyTyped, Pays
<1>3. CASE \E x : pays' = [pays EXCEPT ![i].status = x]
  <2>1. PICK x : pays' = [pays EXCEPT ![i].status = x]
    BY <1>3
  <2> DEFINE new == [pays[i] EXCEPT !.status = x]
  <2>2. new.meth = pays[i].meth
    BY <1>1 DEF Payment
  <2>3. pays' = [pays EXCEPT ![i] = new]
    BY <2>1
  <2> HIDE DEF new
  <2> QED BY <2>2, <2>3 DEF MoneyTyped, Pays
<1> QED BY <1>2, <1>3

LEMMA BudgetStays == ASSUME RentTyped, UNCHANGED <<budget, wishes>> PROVE wishes' + budget'.haps >= wishes + budget.haps
BY CountsFinite

\* steps that neither make a payment nor spend a mishap
LEMMA ServedQuiet ==
  ASSUME RentTyped, RentTyped', MeantInv, NEW r \in Reqs,
         \/ PayLease(r) \/ PayBank(r) \/ BankRead(r) \/ BankObtain(r) \/ BankSave(r) \/ BankClear(r)
         \/ ProfilePut(r) \/ PasswordCheck(r) \/ PasswordPut(r) \/ RefundCheck(r) \/ RefundStripe(r)
  PROVE InHand' <= InHand
<1>1. req[r] \in RentReqs /\ InTurn(req[r])
  BY ReqHere
<1>2. CASE PayLease(r) \/ PayBank(r)
  <2>1. Makes(req[r]) /\ req[r].op \in Op /\ req[r].op = "pay"
    BY <1>2 DEF PayLease, PayBank, Stands, Makes, Op, TabOp
  <2>2. CASE Ends(r, FALSE)
    BY <2>1, <2>2, EndedBadly
  <2>3. CASE ~Ends(r, FALSE)
    <3>1. \E new : Goes(r, new) /\ page' = page
      BY <1>2, <2>3 DEF PayLease, PayBank
    <3> QED BY <2>1, <3>1, GoesCounts
  <2> QED BY <2>2, <2>3
<1>3. CASE BankSave(r) \/ BankClear(r) \/ ProfilePut(r) \/ PasswordPut(r)
  <2>1. Ends(r, TRUE) /\ req[r].op \in Op /\ req[r].op # "pay"
    BY <1>3 DEF BankSave, BankClear, ProfilePut, PasswordPut, Stands, Op, TabOp
  <2> QED BY <2>1, EndedWell
<1>4. CASE BankRead(r) \/ BankObtain(r) \/ PasswordCheck(r) \/ RefundCheck(r) \/ RefundStripe(r)
  <2>1. req[r].op \in {"link", "unlink", "password", "refund"}
    BY <1>4 DEF BankRead, BankObtain, PasswordCheck, RefundCheck, RefundStripe, Stands
  <2>2. req[r].op \in Op /\ req[r].op \notin {"pay", "record"}
    BY <2>1 DEF Op, TabOp, DeskOp
  <2>3. CASE Ends(r, FALSE)
    BY <2>2, <2>3, EndedBadly
  <2>4. CASE ~Ends(r, FALSE)
    <3>1. \E new : Goes(r, new) /\ page' = page /\ new.op = req[r].op
      <4>1. CASE BankRead(r)
        <5> DEFINE new == [req[r] EXCEPT !.item = bank.item, !.cust = bank.cust,
                                         !.pc = IF bank.item = 0 THEN "obtain" ELSE "remove"]
        <5>1. Goes(r, new) /\ page' = page
          BY <2>4, <4>1 DEF BankRead
        <5>2. new.op = req[r].op
          BY <1>1 DEF RentReqs
        <5> QED BY <5>1, <5>2
      <4>2. CASE BankObtain(r)
        <5>1. PICK c : /\ page' = page
                       /\ Goes(r, [req[r] EXCEPT !.pc = "save", !.fresh = Len(items) + 1, !.cust = c, !.pm = Len(sources) + 1])
          BY <2>4, <4>2 DEF BankObtain
        <5> DEFINE new == [req[r] EXCEPT !.pc = "save", !.fresh = Len(items) + 1, !.cust = c, !.pm = Len(sources) + 1]
        <5>2. new.op = req[r].op
          BY <1>1 DEF RentReqs
        <5> QED BY <5>1, <5>2
      <4>3. CASE PasswordCheck(r)
        <5>1. Goes(r, [req[r] EXCEPT !.pc = "put"]) /\ page' = page
          BY <2>4, <4>3 DEF PasswordCheck
        <5>2. [req[r] EXCEPT !.pc = "put"].op = req[r].op
          BY <1>1 DEF RentReqs
        <5> QED BY <5>1, <5>2
      <4>4. CASE RefundCheck(r)
        <5> DEFINE new == [req[r] EXCEPT !.pc = IF pays[req[r].pid].debit # 0 THEN "stripe" ELSE "reverse",
                                         !.debit = pays[req[r].pid].debit]
        <5>1. Goes(r, new) /\ page' = page
          BY <2>4, <4>4 DEF RefundCheck
        <5>2. new.op = req[r].op
          BY <1>1 DEF RentReqs
        <5> QED BY <5>1, <5>2
      <4>5. CASE RefundStripe(r)
        <5>1. Goes(r, [req[r] EXCEPT !.pc = "reverse"]) /\ page' = page
          BY <2>4, <4>5 DEF RefundStripe
        <5>2. [req[r] EXCEPT !.pc = "reverse"].op = req[r].op
          BY <1>1 DEF RentReqs
        <5> QED BY <5>1, <5>2
      <4> QED BY <1>4, <4>1, <4>2, <4>3, <4>4, <4>5
    <3>2. PICK new : Goes(r, new) /\ page' = page /\ new.op = req[r].op
      BY <3>1
    <3>3. ~Makes(new)
      BY <2>2, <3>2 DEF Makes
    <3> QED BY <3>2, <3>3, GoesCounts
  <2> QED BY <2>3, <2>4
<1> QED BY <1>2, <1>3, <1>4

LEMMA ServedMeant ==
  ASSUME RentTyped, RentTyped', MeantInv, NEW r \in Reqs, ServerStep(r)
  PROVE MeantInv'
<1>1. req[r] \in RentReqs /\ InTurn(req[r]) /\ Below(req[r], Sizes)
  BY ReqHere DEF RentReqOK
<1>2. UNCHANGED <<budget, wishes>>
  BY DEF ServerStep, PayLease, PayBank, PayRow, PayStripe, PayStore, BankRead, BankRemove, BankObtain, BankSave,
         BankClear, ProfilePut, PasswordCheck, PasswordPut, RecordWrite, RefundCheck, RefundStripe, RefundReverse
<1>3. wishes' + budget'.haps >= wishes + budget.haps
  BY <1>2, BudgetStays
<1>4. CASE PayLease(r) \/ PayBank(r) \/ BankRead(r) \/ BankObtain(r) \/ BankSave(r) \/ BankClear(r)
           \/ ProfilePut(r) \/ PasswordCheck(r) \/ PasswordPut(r) \/ RefundCheck(r)
  <2>1. InHand' <= InHand
    BY <1>4, ServedQuiet
  <2>2. UNCHANGED <<debits, pays>>
    BY <1>4 DEF PayLease, PayBank, BankRead, BankObtain, BankSave, BankClear, ProfilePut, PasswordCheck, PasswordPut,
                RefundCheck, money
  <2> QED BY <1>3, <2>1, <2>2, BalanceQuiet
<1>5. CASE RefundStripe(r)
  <2>1. InHand' <= InHand
    BY <1>5, ServedQuiet
  <2>2. pays' = pays /\ Len(debits') = Len(debits)
    <3>1. req[r].debit \in Debits
      BY <1>1, <1>5 DEF RefundStripe, Stands, InTurn, RentReqs, Below, Sizes, Debits
    <3>2. debits' = debits \/ debits' = [debits EXCEPT ![req[r].debit].st = "refunded"]
      BY <1>5 DEF RefundStripe
    <3>3. Len(debits') = Len(debits)
      BY <3>1, <3>2, DebitSet DEF RentTyped
    <3> QED BY <1>5, <3>3 DEF RefundStripe
  <2>3. Cardinality(OffBank)' = Cardinality(OffBank) /\ Len(debits)' = Len(debits)
    BY <2>2 DEF OffBank, Pays
  <2> QED BY <1>3, <2>1, <2>3, BalanceSame
<1>6. CASE BankRemove(r) /\ req[r].op \in {"link", "unlink"}
  <2>1. PICK new : Goes(r, new) /\ page' = page /\ new.op = req[r].op
    <3> DEFINE new == [req[r] EXCEPT !.pc = IF req[r].op = "link" THEN "obtain" ELSE "clear"]
    <3>1. Goes(r, new) /\ page' = page
      BY <1>6 DEF BankRemove
    <3>2. new.op = req[r].op
      BY <1>1 DEF RentReqs
    <3> QED BY <3>1, <3>2
  <2>2. ~Makes(new)
    BY <1>6, <2>1 DEF Makes
  <2>3. InHand' <= InHand
    BY <2>1, <2>2, GoesCounts
  <2>4. UNCHANGED <<debits, pays>>
    BY <1>6 DEF BankRemove, money
  <2> QED BY <1>3, <2>3, <2>4, BalanceQuiet
<1>7. BankRemove(r) => req[r].op \in {"link", "unlink"}
  BY <1>1 DEF BankRemove, InTurn
<1>8. CASE PayRow(r)
  <2> DEFINE q == [req[r] EXCEPT !.pid = Len(pays) + 1]
             new == [meth |-> q.meth, amt |-> q.amt, debit |-> 0, status |-> "pending"]
  <2>1. /\ pays' = Append(pays, new) /\ debits' = debits
        /\ Makes(req[r]) /\ req[r].op = "pay"
    BY <1>8 DEF PayRow, Stands, Makes
  <2>2. Len(pays) + 1 \in Nat /\ Len(pays) + 1 # 0
    BY DEF RentTyped, MoneyTyped
  <2>3. q.meth = req[r].meth /\ q.op = "pay" /\ q.pid = Len(pays) + 1 /\ q \in RentReqs /\ q.op \in Op
    BY <1>1, <2>1, <2>2 DEF RentReqs, Op, TabOp
  <2>4. new.meth = req[r].meth
    BY <2>3
  <2>5. CASE req[r].meth = "bank"
    <3>1. Goes(r, [q EXCEPT !.pc = "stripe"]) /\ page' = page
      BY <1>8, <2>3, <2>5 DEF PayRow
    <3>2. InHand' <= InHand
      BY <2>1, <3>1, GoesCounts
    <3>3. Cardinality(OffBank)' <= Cardinality(OffBank)
      BY <2>1, <2>4, <2>5, OffBankAdds
    <3>4. Cardinality(OffBank)' = Cardinality(OffBank) /\ Len(debits)' = Len(debits)
      <4>1. /\ Pays' = Pays \cup {Len(pays) + 1} /\ pays'[Len(pays) + 1] = new
            /\ \A i \in Pays : pays'[i] = pays[i]
        BY <2>1 DEF Pays, RentTyped, MoneyTyped
      <4>2. OffBank' = OffBank
        BY <2>4, <2>5, <4>1 DEF OffBank
      <4> QED BY <2>1, <4>2
    <3> QED BY <1>3, <3>2, <3>4, BalanceSame
  <2>6. CASE req[r].meth # "bank"
    <3>1. Goes(r, Idle) /\ page' = Heard(q, TRUE)
      BY <1>8, <2>3, <2>6 DEF PayRow
    <3>2. PICK ok \in BOOLEAN : ok /\ page' = Heard(q, ok)
      BY <3>1
    <3> HIDE DEF q
    <3>3. ok /\ q.op = "pay" => q.pid # 0
      BY <2>2, <2>3
    <3>4. q.op = req[r].op
      BY <2>1, <2>3
    <3>5. InHand' + 1 <= InHand
      BY <2>1, <2>3, <3>1, <3>2, <3>3, <3>4, EndCounts
    <3>6. Cardinality(OffBank)' <= Cardinality(OffBank) + 1 /\ Len(debits)' <= Len(debits)
      BY <2>1, OffBankAdds, AllSums
    <3> QED BY <1>3, <3>5, <3>6, BalanceMade
  <2> QED BY <2>5, <2>6
<1>9. CASE PayStripe(r)
  <2>1. Makes(req[r]) /\ req[r].op \in Op /\ req[r].pid \in Pays
    BY <1>1, <1>9 DEF PayStripe, Stands, Makes, Op, TabOp, InTurn, Below, RentReqs, Sizes, Pays
  <2>2. CASE Ends(r, FALSE)
    <3>1. InHand' <= InHand
      BY <2>1, <2>2, EndedBadly
    <3>3. CASE debits' = debits
      <4>1. pays' = pays \/ pays' = [pays EXCEPT ![req[r].pid].status = "failed"]
        BY <1>9 DEF PayStripe
      <4>2. Len(pays') = Len(pays) /\ \A i \in Pays : pays'[i].meth = pays[i].meth
        BY <2>1, <4>1, RowKeeps DEF RentTyped
      <4>3. Cardinality(OffBank)' = Cardinality(OffBank) /\ Len(debits)' = Len(debits)
        BY <3>3, <4>2, OffBankStays
      <4> QED BY <1>3, <3>1, <4>3, BalanceSame
    <3>4. CASE debits' # debits
      <4>1. Goes(r, [req[r] EXCEPT !.pc = "store", !.debit = Len(debits) + 1]) /\ Goes(r, Idle)
        BY <1>9, <2>2, <3>4 DEF PayStripe, Ends
      <4>2. [req[r] EXCEPT !.pc = "store", !.debit = Len(debits) + 1].op = "pay" /\ Idle.op = "none"
        BY <1>1, <1>9 DEF PayStripe, Stands, RentReqs, Idle
      <4>3. req'[r] = [req[r] EXCEPT !.pc = "store", !.debit = Len(debits) + 1] /\ req'[r] = Idle
        BY <4>1, ReqMoves
      <4> QED BY <4>2, <4>3
    <3> QED BY <3>3, <3>4
  <2>3. CASE ~Ends(r, FALSE)
    <3> DEFINE new == [req[r] EXCEPT !.pc = "store", !.debit = Len(debits) + 1]
    <3>1. Goes(r, new) /\ page' = page /\ pays' = pays /\ debits' = Debited(req[r].amt)
      BY <1>9, <2>3 DEF PayStripe
    <3>2. new.op = "pay" /\ new.pc = "store"
      BY <1>1, <1>9 DEF PayStripe, Stands, RentReqs
    <3> HIDE DEF new
    <3>3. ~Makes(new)
      BY <3>2 DEF Makes
    <3>4. InHand' + 1 <= InHand
      BY <2>1, <3>1, <3>3, GoesCounts
    <3>5. Len(debits)' <= Len(debits) + 1
      BY <3>1 DEF Debited, RentTyped, MoneyTyped
    <3>6. Cardinality(OffBank)' <= Cardinality(OffBank)
      <4>1. OffBank' = OffBank
        BY <3>1 DEF OffBank, Pays
      <4> QED BY <4>1, AllSums
    <3> QED BY <1>3, <3>4, <3>5, <3>6, BalanceMade
  <2> QED BY <2>2, <2>3
<1>10. CASE PayStore(r) \/ RefundReverse(r)
  <2>0. req[r].op \in {"pay", "refund"} /\ req[r].pc \in {"store", "reverse"}
    BY <1>10 DEF PayStore, RefundReverse, Stands
  <2>1. /\ Ends(r, TRUE) /\ req[r].op \in Op /\ req[r].pid \in Pays /\ req[r].pid # 0 /\ debits' = debits
        /\ \/ pays' = [pays EXCEPT ![req[r].pid].debit = req[r].debit]
           \/ pays' = [pays EXCEPT ![req[r].pid].status = "refunded"]
    <3>1. req[r].pid >= 1 /\ req[r].pid \in Nat /\ req[r].pid <= Len(pays) /\ Len(pays) \in Nat
      <4>1. req[r].pid >= 1
        BY <1>1, <2>0 DEF InTurn
      <4>2. req[r].pid \in Nat
        BY <1>1 DEF RentReqs
      <4>3. req[r].pid <= Len(pays)
        BY <1>1 DEF Below, Sizes
      <4>4. Len(pays) \in Nat
        BY DEF RentTyped, MoneyTyped
      <4> QED BY <4>1, <4>2, <4>3, <4>4
    <3>2. req[r].pid \in Pays /\ req[r].pid # 0
      BY <3>1 DEF Pays
    <3>3. /\ Ends(r, TRUE) /\ debits' = debits
          /\ \/ pays' = [pays EXCEPT ![req[r].pid].debit = req[r].debit]
             \/ pays' = [pays EXCEPT ![req[r].pid].status = "refunded"]
      BY <1>10 DEF PayStore, RefundReverse
    <3>4. req[r].op \in Op
      BY <2>0 DEF Op, TabOp, DeskOp
    <3> QED BY <3>2, <3>3, <3>4
  <2>2. InHand' <= InHand
    BY <2>1, EndedWell
  <2>3. Len(pays') = Len(pays) /\ \A i \in Pays : pays'[i].meth = pays[i].meth
    BY <2>1, RowKeeps DEF RentTyped
  <2>4. Cardinality(OffBank)' = Cardinality(OffBank) /\ Len(debits)' = Len(debits)
    BY <2>1, <2>3, OffBankStays
  <2> QED BY <1>3, <2>2, <2>4, BalanceSame
<1>11. CASE RecordWrite(r)
  <2> DEFINE new == [meth |-> "cash", amt |-> req[r].amt, debit |-> 0, status |-> "completed"]
  <2>1. Ends(r, TRUE) /\ req[r].op \in Op /\ req[r].op # "pay" /\ Makes(req[r]) /\ debits' = debits /\ pays' = Append(pays, new)
    BY <1>11 DEF RecordWrite, Stands, Op, DeskOp, Makes
  <2>2. InHand' + 1 <= InHand
    BY <2>1, EndedWell
  <2>3. Cardinality(OffBank)' <= Cardinality(OffBank) + 1 /\ Len(debits)' <= Len(debits)
    BY <2>1, OffBankAdds, AllSums
  <2> QED BY <1>3, <2>2, <2>3, BalanceMade
<1> QED BY <1>4, <1>5, <1>6, <1>7, <1>8, <1>9, <1>10, <1>11 DEF ServerStep

LEMMA HapMeant == ASSUME RentTyped, RentTyped', MeantInv, NEW r \in Reqs, AnswerLost(r) \/ Die(r) PROVE MeantInv'
<1>1. req[r] \in RentReqs /\ InTurn(req[r]) /\ req[r].op \in Op
  BY ReqHere DEF AnswerLost, Die, InTurn, Op, TabOp, DeskOp
<1>2. UNCHANGED <<debits, pays, wishes>> /\ budget'.haps = budget.haps + 1
  BY SpendHaps DEF AnswerLost, Die, money
<1>3. Cardinality(OffBank)' = Cardinality(OffBank) /\ Len(debits)' = Len(debits)
  BY <1>2 DEF OffBank, Pays
<1>4. CASE Die(r)
  <2>1. InHand' <= InHand + 1
    BY <1>1, <1>4, EndedBadly DEF Die
  <2> QED BY <1>2, <1>3, <2>1, BalanceHap
<1>5. CASE AnswerLost(r)
  <2> DEFINE new == [req[r] EXCEPT !.scr = Nobody]
  <2>1. Goes(r, new) /\ page' = Heard(req[r], FALSE)
    BY <1>5 DEF AnswerLost
  <2>2. new.op = req[r].op /\ new.pc = req[r].pc
    BY <1>1 DEF RentReqs
  <2> HIDE DEF new
  <2>3. Makes(new) => Makes(req[r])
    BY <2>2 DEF Makes
  <2> DEFINE F == Cardinality(InFlight)
             P == Cardinality(Unspent("pay"))
             C == Cardinality(Unspent("record"))
  <2>4. F \in Nat /\ P \in Nat /\ C \in Nat
    BY CountsFinite
  <2>5. F' \in Nat /\ F' <= F
    BY <2>1, <2>3, FlightGoes
  <2>6. ASSUME NEW op \in {"pay", "record"}
        PROVE /\ Cardinality(Unspent(op))' \in Nat
              /\ Cardinality(Unspent(op))' <= Cardinality(Unspent(op)) + 1
              /\ op # req[r].op => Cardinality(Unspent(op))' <= Cardinality(Unspent(op))
    <3>1. /\ op # req[r].op => Unspent(op)' \subseteq Unspent(op)
          /\ \E s : Unspent(op)' \subseteq Unspent(op) \cup {s}
      BY <1>1, <2>1, HeardAsks
    <3>2. IsFiniteSet(Unspent(op))
      BY CountsFinite
    <3>3. Cardinality(Unspent(op))' = Cardinality(Unspent(op)')
      OBVIOUS
    <3> QED BY <3>1, <3>2, <3>3, CardGain, CardSame
  <2>7. /\ P' \in Nat /\ P' <= P + 1 /\ ("pay" # req[r].op => P' <= P)
        /\ C' \in Nat /\ C' <= C + 1 /\ ("record" # req[r].op => C' <= C)
    BY <2>6
  <2>8. InHand = F + P + C /\ InHand' = F' + P' + C'
    BY DEF InHand
  <2>9. "pay" # req[r].op \/ "record" # req[r].op
    OBVIOUS
  <2>10. InHand' <= InHand + 1
    BY <2>4, <2>5, <2>7, <2>8, <2>9
  <2> QED BY <1>2, <1>3, <2>10, BalanceHap
<1> QED BY <1>4, <1>5

LEMMA SettleMeant == ASSUME RentTyped, RentTyped', MeantInv, NEW i \in Debits, NEW ok \in BOOLEAN, Settle(i, ok) PROVE MeantInv'
<1>1. UNCHANGED <<req, page, budget, wishes>>
  BY DEF Settle
<1>2. InHand' <= InHand
  BY <1>1, QuietCounts
<1>3. Len(debits') = Len(debits)
  BY DebitSet DEF Settle, RentTyped
<1>4. Len(pays') = Len(pays) /\ \A p \in Pays : pays'[p].meth = pays[p].meth
  <2>1. pays' = [p \in Pays |->
          IF pays[p].debit = i THEN [pays[p] EXCEPT !.status = IF ok THEN "completed" ELSE "failed"] ELSE pays[p]]
    BY DEF Settle
  <2>2. \A p \in Pays : pays'[p].meth = pays[p].meth
    BY <2>1, PayAt DEF RentTyped, Payment
  <2>3. Len(pays') = Len(pays)
    BY <2>1 DEF Pays, RentTyped, MoneyTyped
  <2> QED BY <2>2, <2>3
<1>5. Cardinality(OffBank)' = Cardinality(OffBank) /\ Len(debits)' = Len(debits)
  BY <1>3, <1>4, OffBankStays
<1> QED BY <1>1, <1>2, <1>5, BudgetStays, BalanceSame

LEMMA MeantIdles == ASSUME RentTyped, RentTyped', MeantInv, UNCHANGED rentOnly PROVE MeantInv'
<1>1. UNCHANGED <<req, page, budget, wishes, debits, pays>>
  BY DEF rentOnly, money
<1>2. InHand' <= InHand
  BY <1>1, QuietCounts
<1> QED BY <1>1, <1>2, BudgetStays, BalanceQuiet

LEMMA MeantStep == ASSUME RentTyped, RentTyped', MeantInv, RentNext PROVE MeantInv'
<1>1. ASSUME NEW s \in Screens, PageStep(s) PROVE MeantInv'
  BY <1>1, OpenMeant, LoadMeant, WidgetMeant, PressMeant DEF PageStep, Presses
<1>2. CASE LeaseEnds
  <2>1. UNCHANGED rentOnly
    BY <1>2 DEF LeaseEnds, rentOnly
  <2> QED BY <2>1, MeantIdles
<1> QED BY <1>1, <1>2, ServedMeant, HapMeant, SettleMeant DEF RentNext

-----------------------------------------------------------------------------
(* The rent pages: Stripe and the payment rows                             *)

\* requests between two writes that belong together
Pending(q)  == q.op = "pay" /\ q.pc \in {"stripe", "store"}
Stores(q)   == q.op = "pay" /\ q.pc = "store"
Gives(q)    == q.op = "refund" /\ q.pc = "stripe"
Reverses(q) == q.op = "refund" /\ q.pc = "reverse"
Plain(q)    == ~Pending(q) /\ ~Gives(q) /\ ~Reverses(q)
Writes(q)   == Stores(q) \/ Reverses(q)

RowsAgree ==
  /\ \A a, b \in Pays : pays[a].debit = pays[b].debit /\ pays[a].debit # 0 => a = b
  /\ \A a \in Pays : pays[a].debit = 0 /\ pays[a].status = "completed" => pays[a].meth = "cash"
  /\ \A a \in Pays : pays[a].meth = "cash" => pays[a].debit = 0
  /\ \A a \in Pays : pays[a].debit # 0 /\ pays[a].status = "refunded" => debits[pays[a].debit].st = "refunded"
ReqAgrees(q, ps, ds) ==
  /\ Pending(q) => ps[q.pid].meth = "bank" /\ ps[q.pid].debit = 0 /\ ps[q.pid].status = "pending"
  /\ Stores(q) => /\ ds[q.debit].st \in {"processing", "failed"}
                  /\ \A p \in 1..Len(ps) : ps[p].debit # q.debit
  /\ Gives(q) => ps[q.pid].debit = q.debit
  /\ Reverses(q) => \/ q.debit = 0 /\ ps[q.pid].meth = "cash"
                    \/ q.debit # 0 /\ ps[q.pid].debit = q.debit /\ ds[q.debit].st = "refunded"
Differ(q, p) == (Pending(q) /\ Pending(p) => q.pid # p.pid) /\ (Stores(q) /\ Stores(p) => q.debit # p.debit)
ReqsAgree ==
  /\ \A r \in Reqs : ReqAgrees(req[r], pays, debits)
  /\ \A r, x \in Reqs : r # x => Differ(req[r], req[x])

\* a debit a request is about to write down, or a row tells of
Handled(i) == \E r \in Reqs : Writes(req[r]) /\ req[r].debit = i
RowTells(i) == \E p \in Pays : pays[p].debit = i /\ (debits[i].st = "refunded" => pays[p].status = "refunded")
Stray == {i \in Debits : ~Handled(i) /\ ~RowTells(i)}
ClaimsHold == \A s \in Screens :
  (page[s].claim # 0 /\ pays[page[s].claim].meth = "bank") => pays[page[s].claim].debit # 0

StripeInv == RowsAgree /\ ReqsAgree /\ ClaimsHold /\ Cardinality(Stray) <= budget.haps

LEMMA ReqPlace == ASSUME RentTyped, NEW r \in Reqs
  PROVE /\ req[r].debit \in Nat /\ req[r].debit <= Len(debits) /\ req[r].pid \in Nat /\ req[r].pid <= Len(pays)
        /\ ~Plain(req[r]) => req[r].pid \in Pays
        /\ Stores(req[r]) \/ Gives(req[r]) => req[r].debit \in Debits
<1>1. req[r] \in RentReqs /\ InTurn(req[r]) /\ Below(req[r], Sizes)
  BY ReqHere DEF RentReqOK
<1>2. req[r].debit \in Nat /\ req[r].debit <= Len(debits) /\ req[r].pid \in Nat /\ req[r].pid <= Len(pays)
  BY <1>1 DEF RentReqs, Below, Sizes
<1>3. ~Plain(req[r]) => req[r].pid >= 1
  BY <1>1 DEF InTurn, Plain, Pending, Gives, Reverses
<1>4. Stores(req[r]) \/ Gives(req[r]) => req[r].debit >= 1
  BY <1>1 DEF InTurn, Stores, Gives
<1>5. Len(pays) \in Nat /\ Len(debits) \in Nat
  BY DEF RentTyped, MoneyTyped
<1> QED BY <1>2, <1>3, <1>4, <1>5 DEF Pays, Debits

LEMMA ClaimPlace == ASSUME RentTyped, NEW s \in Screens PROVE page[s].claim # 0 => page[s].claim \in Pays
BY DEF RentTyped, RentPagesTyped, RentPageOK, Shows, RentScreens, Sizes, Pays, MoneyTyped

LEMMA PlainAgrees == ASSUME NEW q, NEW ps, NEW ds, Plain(q) PROVE ReqAgrees(q, ps, ds) /\ \A p : Differ(q, p) /\ Differ(p, q)
BY DEF Plain, ReqAgrees, Differ, Pending, Stores

LEMMA DifferTurns == \A q, p : Differ(q, p) => Differ(p, q)
BY DEF Differ

LEMMA ReqsBuild ==
  ASSUME ReqsAgree, NEW r \in Reqs, NEW new, \A x \in Reqs : req'[x] = IF x = r THEN new ELSE req[x],
         ReqAgrees(new, pays', debits'),
         \A x \in Reqs \ {r} : ReqAgrees(req[x], pays', debits') /\ Differ(new, req[x])
  PROVE ReqsAgree'
<1>1. \A x \in Reqs : ReqAgrees(req'[x], pays', debits')
  OBVIOUS
<1>2. ASSUME NEW y \in Reqs, NEW x \in Reqs, y # x PROVE Differ(req'[y], req'[x])
  BY <1>2, DifferTurns DEF ReqsAgree
<1> QED BY <1>1, <1>2 DEF ReqsAgree

LEMMA HandledGoes ==
  ASSUME NEW r \in Reqs, NEW new, \A x \in Reqs : req'[x] = IF x = r THEN new ELSE req[x],
         NEW i, Handled(i), ~(Writes(req[r]) /\ req[r].debit = i) \/ (Writes(new) /\ new.debit = i)
  PROVE Handled(i)'
BY DEF Handled

LEMMA StrayFinite == ASSUME RentTyped PROVE IsFiniteSet(Stray) /\ Cardinality(Stray) \in Nat /\ budget.haps \in Nat
<1>1. IsFiniteSet(Debits) /\ Stray \subseteq Debits
  BY FS_Interval DEF Debits, RentTyped, MoneyTyped, Stray
<1> QED BY <1>1, CardSame, CountsFinite

LEMMA StrayStays == ASSUME RentTyped, Cardinality(Stray) <= budget.haps, Stray' \subseteq Stray, budget'.haps \in Nat, budget'.haps >= budget.haps
  PROVE Cardinality(Stray)' <= budget'.haps
<1>1. Cardinality(Stray)' = Cardinality(Stray')
  OBVIOUS
<1>2. Cardinality(Stray)' \in Nat /\ Cardinality(Stray)' <= Cardinality(Stray)
  BY <1>1, StrayFinite, CardSame
<1> DEFINE Fit(c, d, h, k) == d <= c /\ c <= h /\ k >= h
<1>3. ASSUME NEW c \in Nat, NEW d \in Nat, NEW h \in Nat, NEW k \in Nat, Fit(c, d, h, k) PROVE d <= k
  BY <1>3
<1>4. Fit(Cardinality(Stray), Cardinality(Stray)', budget.haps, budget'.haps)
  BY <1>2
<1> HIDE DEF Fit
<1> QED BY <1>2, <1>3, <1>4, StrayFinite

LEMMA StrayGains == ASSUME RentTyped, Cardinality(Stray) <= budget.haps, NEW i, Stray' \subseteq Stray \cup {i},
    budget'.haps \in Nat, budget'.haps = budget.haps + 1
  PROVE Cardinality(Stray)' <= budget'.haps
<1>1. Cardinality(Stray)' = Cardinality(Stray')
  OBVIOUS
<1>2. Cardinality(Stray)' \in Nat /\ Cardinality(Stray)' <= Cardinality(Stray) + 1
  BY <1>1, StrayFinite, CardGain
<1> DEFINE Fit(c, d, h, k) == d <= c + 1 /\ c <= h /\ k = h + 1
<1>3. ASSUME NEW c \in Nat, NEW d \in Nat, NEW h \in Nat, NEW k \in Nat, Fit(c, d, h, k) PROVE d <= k
  BY <1>3
<1>4. Fit(Cardinality(Stray), Cardinality(Stray)', budget.haps, budget'.haps)
  BY <1>2
<1> HIDE DEF Fit
<1> QED BY <1>2, <1>3, <1>4, StrayFinite

LEMMA ClaimsStay ==
  ASSUME RentTyped, ClaimsHold, \A s \in Screens : page'[s].claim \in {page[s].claim, 0},
         \A p \in Pays : pays'[p].meth = pays[p].meth /\ (pays[p].debit # 0 => pays'[p].debit # 0)
  PROVE ClaimsHold'
BY ClaimPlace DEF ClaimsHold

SameForStripe(q, p) == q.op = p.op /\ q.pc = p.pc /\ q.pid = p.pid /\ q.debit = p.debit

LEMMA SameAgrees == ASSUME NEW q, NEW p, SameForStripe(q, p)
  PROVE /\ \A ps, ds : ReqAgrees(p, ps, ds) => ReqAgrees(q, ps, ds)
        /\ \A x, y : Differ(p, x) /\ SameForStripe(y, x) => Differ(q, y)
        /\ Writes(q) = Writes(p) /\ q.debit = p.debit /\ Plain(q) = Plain(p)
<1>1. Pending(q) = Pending(p) /\ Stores(q) = Stores(p) /\ Gives(q) = Gives(p) /\ Reverses(q) = Reverses(p)
  BY DEF SameForStripe, Pending, Stores, Gives, Reverses
<1>2. \A x, y : Differ(p, x) /\ SameForStripe(y, x) => Differ(q, y)
  BY DEF SameForStripe, Differ, Pending, Stores
<1>3. \A ps, ds : ReqAgrees(p, ps, ds) => ReqAgrees(q, ps, ds)
  BY <1>1 DEF ReqAgrees, SameForStripe
<1> QED BY <1>1, <1>2, <1>3 DEF Writes, Plain, SameForStripe

\* nothing is written: requests stay where they are, or leave a stage that owes nothing for one that expects nothing
LEMMA StripeQuiet ==
  ASSUME RentTyped, StripeInv, UNCHANGED <<pays, debits>>, budget'.haps \in Nat, budget'.haps >= budget.haps,
         \A x \in Reqs : SameForStripe(req'[x], req[x]) \/ (Plain(req'[x]) /\ ~Writes(req[x])),
         \A s \in Screens : page'[s].claim \in {page[s].claim, 0}
  PROVE StripeInv'
<1>1. RowsAgree'
  BY DEF StripeInv, RowsAgree, Pays
<1>2. ReqsAgree'
  <2>1. \A x \in Reqs : ReqAgrees(req'[x], pays', debits')
    BY SameAgrees, PlainAgrees DEF StripeInv, ReqsAgree
  <2>2. ASSUME NEW y \in Reqs, NEW x \in Reqs, y # x PROVE Differ(req'[y], req'[x])
    <3>1. Differ(req[y], req[x])
      BY <2>2 DEF StripeInv, ReqsAgree
    <3>2. CASE Plain(req'[y]) \/ Plain(req'[x])
      BY <3>2, PlainAgrees
    <3>3. CASE SameForStripe(req'[y], req[y]) /\ SameForStripe(req'[x], req[x])
      BY <3>1, <3>3, SameAgrees
    <3> QED BY <3>2, <3>3
  <2> QED BY <2>1, <2>2 DEF ReqsAgree
<1>3. ClaimsHold'
  BY ClaimsStay DEF StripeInv
<1>4. Stray' \subseteq Stray
  <2>1. ASSUME NEW i \in Debits, Handled(i) PROVE Handled(i)'
    <3>1. PICK x \in Reqs : Writes(req[x]) /\ req[x].debit = i
      BY <2>1 DEF Handled
    <3>2. SameForStripe(req'[x], req[x])
      BY <3>1
    <3>3. Writes(req'[x]) /\ req'[x].debit = i
      BY <3>1, <3>2, SameAgrees
    <3> QED BY <3>3 DEF Handled
  <2>2. \A i \in Debits : RowTells(i)' = RowTells(i)
    BY DEF RowTells, Pays
  <2> QED BY <2>1, <2>2 DEF Stray, Debits
<1> QED BY <1>1, <1>2, <1>3, <1>4, StrayStays DEF StripeInv

LEMMA HearsClaim == ASSUME NEW p \in RentScreens, NEW q, q.op \in Op, NEW ok \in BOOLEAN
  PROVE Hears(p, q, ok).claim = p.claim \/ (ok /\ q.op = "pay" /\ Hears(p, q, ok).claim = q.pid)
<1> DEFINE p1 == [p EXCEPT !.busy = @ \ {q.op}]
           h == Hears(p, q, ok)
<1>0. p1.claim = p.claim /\ p1 \in RentScreens
  BY DEF RentScreens
<1> HIDE DEF p1
<1>4. CASE ~ok
  <2>1. h = [p1 EXCEPT !.again = @ \cup {q.op}]
    BY <1>4 DEF Hears, p1
  <2> QED BY <1>0, <2>1 DEF RentScreens
<1>1. CASE ok /\ q.op = "pay"
  <2>1. h = [p1 EXCEPT !.claim = q.pid]
    BY <1>1 DEF Hears, p1, Submitted, DeskOp
  <2> QED BY <1>0, <1>1, <2>1 DEF RentScreens
<1>2. CASE ok /\ q.op \in {"link", "unlink", "profile", "password"}
  <2>1. \/ h = [p1 EXCEPT !.bank = TRUE]
        \/ h = [p1 EXCEPT !.bank = FALSE]
        \/ h = [p1 EXCEPT !.prof = q.val]
        \/ h = p1
    BY <1>2 DEF Hears, p1, DeskOp
  <2> QED BY <1>0, <2>1 DEF RentScreens
<1>3. CASE ok /\ q.op \in DeskOp
  <2>1. q.op # "pay" /\ q.op \notin {"link", "unlink", "profile", "password"}
    BY <1>3 DEF DeskOp
  <2>2. h = Recorded(p1, q.op)
    BY <1>3, <2>1 DEF Hears, p1
  <2> QED BY <1>0, <2>2 DEF Recorded, RentScreens
<1> QED BY <1>1, <1>2, <1>3, <1>4 DEF Op, TabOp, DeskOp

LEMMA HeardClaims == ASSUME RentTyped, NEW q \in RentReqs, q.op \in Op, NEW ok \in BOOLEAN, page' = Heard(q, ok)
  PROVE \A s \in Screens : page'[s].claim = page[s].claim \/ (ok /\ q.op = "pay" /\ page'[s].claim = q.pid)
<1>1. CASE q.scr = Nobody
  BY <1>1 DEF Heard
<1>2. CASE q.scr # Nobody
  <2>1. \A x \in Screens : page'[x] = IF x = q.scr THEN Hears(page[q.scr], q, ok) ELSE page[x]
    BY <1>2, PageMoves DEF Heard
  <2>2. q.scr \in Screens /\ page[q.scr] \in RentScreens
    BY <1>2 DEF RentReqs, RentTyped, RentPagesTyped
  <2>3. \/ Hears(page[q.scr], q, ok).claim = page[q.scr].claim
        \/ ok /\ q.op = "pay" /\ Hears(page[q.scr], q, ok).claim = q.pid
    BY <2>2, HearsClaim
  <2> QED BY <2>1, <2>3
<1> QED BY <1>1, <1>2

LEMMA EndsClaims == ASSUME RentTyped, NEW r \in Reqs, NEW ok \in BOOLEAN, req[r].op \in Op, Ends(r, ok)
  PROVE /\ Goes(r, Idle)
        /\ \A s \in Screens : page'[s].claim = page[s].claim \/ (ok /\ req[r].op = "pay" /\ page'[s].claim = req[r].pid)
<1>1. req[r] \in RentReqs
  BY ReqHere
<1> QED BY <1>1, HeardClaims DEF Ends

LEMMA EndsShown == ASSUME RentTyped, NEW r \in Reqs, req[r].op \in Op, Ends(r, FALSE)
  PROVE Goes(r, Idle) /\ \A s \in Screens : page'[s].claim = page[s].claim
BY EndsClaims

LEMMA EndsOtherwise == ASSUME RentTyped, NEW r \in Reqs, req[r].op \in Op, req[r].op # "pay", Ends(r, TRUE)
  PROVE Goes(r, Idle) /\ \A s \in Screens : page'[s].claim = page[s].claim
BY EndsClaims

LEMMA IdlePlain == Plain(Idle) /\ ~Writes(Idle)
BY DEF Plain, Writes, Pending, Stores, Gives, Reverses, Idle

\* a request ends or goes on, and nothing is written
LEMMA GoesQuiet ==
  ASSUME RentTyped, RentTyped', StripeInv, UNCHANGED <<pays, debits>>, budget'.haps >= budget.haps, NEW r \in Reqs, NEW new, Goes(r, new),
         SameForStripe(new, req[r]) \/ (Plain(new) /\ ~Writes(req[r])),
         \A s \in Screens : page'[s].claim \in {page[s].claim, 0}
  PROVE StripeInv'
<1>1. \A x \in Reqs : req'[x] = IF x = r THEN new ELSE req[x]
  BY ReqMoves
<1>2. \A x \in Reqs : SameForStripe(req[x], req[x])
  BY DEF SameForStripe
<1>3. \A x \in Reqs : SameForStripe(req'[x], req[x]) \/ (Plain(req'[x]) /\ ~Writes(req[x]))
  BY <1>1, <1>2
<1>4. budget'.haps \in Nat
  BY AllSums
<1> QED BY <1>3, <1>4, StripeQuiet

\* requests stay
LEMMA StaysQuiet ==
  ASSUME RentTyped, RentTyped', StripeInv, UNCHANGED <<pays, debits, req>>, budget'.haps >= budget.haps,
         \A s \in Screens : page'[s].claim \in {page[s].claim, 0}
  PROVE StripeInv'
<1>2. \A x \in Reqs : SameForStripe(req'[x], req[x])
  BY DEF SameForStripe
<1>4. budget'.haps \in Nat
  BY AllSums
<1> QED BY <1>2, <1>4, StripeQuiet

LEMMA PageStripe == ASSUME RentTyped, RentTyped', StripeInv, NEW s \in Screens, PageStep(s) PROVE StripeInv'
<1>1. page[s] \in RentScreens
  BY DEF RentTyped, RentPagesTyped
<1>2. CASE \E at \in {"pay", "settings", "history", "desk"} : Open(s, at)
  <2>1. PICK at \in {"pay", "settings", "history", "desk"} : Open(s, at)
    BY <1>2
  <2>2. UNCHANGED <<debits, pays>> /\ budget'.haps = budget.haps
    BY <2>1, SpendHaps DEF Open, money
  <2>3. \A x \in Reqs : SameForStripe(req'[x], req[x])
    <3> SUFFICES ASSUME NEW x \in Reqs PROVE SameForStripe(req'[x], req[x])
      OBVIOUS
    <3>1. req'[x] = IF req[x].scr = s THEN [req[x] EXCEPT !.scr = Nobody] ELSE req[x]
      BY <2>1 DEF Open
    <3>2. req[x] \in RentReqs
      BY ReqHere
    <3> QED BY <3>1, <3>2 DEF SameForStripe, RentReqs
  <2> DEFINE new == [Closed EXCEPT !.at = at, !.need = Wants(at)]
  <2>4. page' = [page EXCEPT ![s] = new]
    BY <2>1 DEF Open
  <2>5. new.claim = 0
    BY DEF Closed
  <2> HIDE DEF new
  <2>6. \A x \in Screens : page'[x].claim \in {page[x].claim, 0}
    BY <2>4, <2>5, PageMoves
  <2>7. budget'.haps \in Nat /\ budget'.haps >= budget.haps
    BY <2>2, AllSums
  <2> QED BY <2>2, <2>3, <2>6, <2>7, StripeQuiet
<1>3. CASE \E k \in page[s].need : Load(s, k) \/ LoadFails(s, k)
  <2>1. PICK k \in page[s].need : Load(s, k) \/ LoadFails(s, k)
    BY <1>3
  <2>2. UNCHANGED <<debits, pays, req>> /\ budget'.haps >= budget.haps
    <3>1. budget' = budget \/ budget'.haps = budget.haps + 1
      BY <2>1, SpendHaps DEF Load, LoadFails
    <3> QED BY <2>1, <3>1, CountsFinite DEF Load, LoadFails, money
  <2>3. k \in PageNeeds
    BY <1>1, <2>1 DEF RentScreens
  <2>4. PICK new : page' = [page EXCEPT ![s] = new] /\ new.claim = page[s].claim
    <3>1. CASE Load(s, k)
      <4>1. page' = [page EXCEPT ![s] = Loaded(page[s], k)]
        BY <3>1 DEF Load
      <4> QED BY <1>1, <2>3, <4>1, LoadedAsks
    <3>2. CASE LoadFails(s, k)
      <4> DEFINE new == [page[s] EXCEPT !.need = @ \ {k}]
      <4>1. page' = [page EXCEPT ![s] = new]
        BY <3>2 DEF LoadFails
      <4>2. new.claim = page[s].claim
        BY <1>1 DEF RentScreens
      <4> QED BY <4>1, <4>2
    <3> QED BY <2>1, <3>1, <3>2
  <2>5. \A x \in Screens : page'[x].claim \in {page[x].claim, 0}
    BY <2>4, PageMoves
  <2> QED BY <2>2, <2>5, StaysQuiet
<1>4. CASE PressLink(s) \/ WidgetExit(s)
  <2>1. UNCHANGED <<debits, pays, req>> /\ budget'.haps = budget.haps
    BY <1>4, SpendHaps DEF PressLink, WidgetExit, Press, money
  <2>2. PICK b, w : page' = [page EXCEPT ![s] = [page[s] EXCEPT !.busy = b, !.widget = w]]
    <3>1. CASE PressLink(s)
      <4>1. page' = [page EXCEPT ![s] = [page[s] EXCEPT !.busy = page[s].busy \cup {"link"}, !.widget = TRUE]]
        BY <1>1, <3>1 DEF PressLink, RentTyped, RentPagesTyped
      <4> QED BY <4>1
    <3>2. CASE WidgetExit(s)
      <4>1. page' = [page EXCEPT ![s] = [page[s] EXCEPT !.busy = page[s].busy \ {"link"}, !.widget = FALSE]]
        BY <1>1, <3>2 DEF WidgetExit, RentTyped, RentPagesTyped
      <4> QED BY <4>1
    <3> QED BY <1>4, <3>1, <3>2
  <2> DEFINE new == [page[s] EXCEPT !.busy = b, !.widget = w]
  <2>3. new.claim = page[s].claim
    BY <1>1 DEF RentScreens
  <2>4. page' = [page EXCEPT ![s] = new]
    BY <2>2
  <2> HIDE DEF new
  <2>5. \A x \in Screens : page'[x].claim \in {page[x].claim, 0}
    BY <2>3, <2>4, PageMoves
  <2>6. budget'.haps >= budget.haps
    BY <2>1, CountsFinite
  <2> QED BY <2>1, <2>5, <2>6, StaysQuiet
<1>5. ASSUME NEW r \in Reqs, Presses(s, r) PROVE StripeInv'
  <2>1. UNCHANGED <<debits, pays>>
    BY <1>5 DEF Presses, PressPay, WidgetSuccess, PressUnlink, PressProfile, PressPassword, PressRecord, PressRefund, money
  <2>2. req[r].pc = "idle"
    BY <1>5 DEF Presses, PressPay, WidgetSuccess, PressUnlink, PressProfile, PressPassword, PressRecord, PressRefund, Sends
  <2>3. ~Writes(req[r])
    BY <2>2 DEF Writes, Stores, Reverses
  <2>4. CASE WidgetSuccess(s, r)
    <3> DEFINE q == [Idle EXCEPT !.op = "link", !.pc = "read", !.scr = s]
               new == [page[s] EXCEPT !.widget = FALSE]
    <3>1. Goes(r, q) /\ budget' = budget /\ page' = [page EXCEPT ![s] = new]
      BY <2>4 DEF WidgetSuccess
    <3>2. Plain(q)
      BY DEF Plain, Pending, Gives, Reverses, Idle
    <3> HIDE DEF q
    <3>3. new.claim = page[s].claim
      BY <1>1 DEF RentScreens
    <3> HIDE DEF new
    <3>4. \A x \in Screens : page'[x].claim \in {page[x].claim, 0}
      BY <3>1, <3>3, PageMoves
    <3>5. budget'.haps >= budget.haps
      BY <3>1, CountsFinite
    <3> QED BY <2>1, <2>3, <3>1, <3>2, <3>4, <3>5, GoesQuiet
  <2>5. CASE ~WidgetSuccess(s, r)
    <3>1. PICK q \in RentReqs :
            /\ RentReqOK(q, Sizes) /\ Sends(s, r, q) /\ q.op \in Op \ {"link"} /\ q.debit = 0
            /\ q.pc \in {"lease", "read", "put", "check", "write"} /\ Press(s, q.op)
      BY <1>5, <2>5, PressSends DEF Presses
    <3> DEFINE qs == [q EXCEPT !.scr = s]
               new == [page[s] EXCEPT !.busy = @ \cup {q.op}]
    <3>2. Goes(r, qs) /\ page' = [page EXCEPT ![s] = new] /\ budget'.haps = budget.haps
      BY <3>1, SpendHaps DEF Sends, Press
    <3>3. new.claim = page[s].claim
      BY <1>1 DEF RentScreens
    <3>4. qs.op = q.op /\ qs.pc = q.pc
      BY DEF RentReqs
    <3> HIDE DEF new, qs
    <3>5. Plain(qs)
      BY <3>1, <3>4 DEF Plain, Pending, Gives, Reverses
    <3>6. \A x \in Screens : page'[x].claim \in {page[x].claim, 0}
      BY <3>2, <3>3, PageMoves
    <3>7. budget'.haps >= budget.haps
      BY <3>2, CountsFinite
    <3> QED BY <2>1, <2>3, <3>2, <3>5, <3>6, <3>7, GoesQuiet
  <2> QED BY <2>4, <2>5
<1> QED BY <1>2, <1>3, <1>4, <1>5 DEF PageStep, Presses

LEMMA ServedStripe ==
  ASSUME RentTyped, RentTyped', StripeInv, NEW r \in Reqs,
         \/ PayLease(r) \/ PayBank(r) \/ BankRead(r) \/ BankRemove(r) \/ BankObtain(r) \/ BankSave(r) \/ BankClear(r)
         \/ ProfilePut(r) \/ PasswordCheck(r) \/ PasswordPut(r)
  PROVE StripeInv'
<1>1. req[r] \in RentReqs /\ InTurn(req[r])
  BY ReqHere
<1>2. UNCHANGED <<pays, debits, budget>>
  BY DEF PayLease, PayBank, BankRead, BankRemove, BankObtain, BankSave, BankClear, ProfilePut, PasswordCheck, PasswordPut, money
<1>3. budget'.haps >= budget.haps
  BY <1>2, CountsFinite
<1>4. req[r].op \in {"pay", "link", "unlink", "profile", "password"} /\ req[r].pc \notin {"store", "reverse"}
  BY <1>1 DEF PayLease, PayBank, BankRead, BankRemove, BankObtain, BankSave, BankClear, ProfilePut, PasswordCheck, PasswordPut,
              Stands, InTurn
<1>5. req[r].op \in Op /\ ~Writes(req[r])
  BY <1>4 DEF Op, TabOp, Writes, Stores, Reverses
<1>6. CASE \E new : Goes(r, new) /\ Plain(new) /\ page' = page
  <2>1. PICK new : Goes(r, new) /\ Plain(new) /\ page' = page
    BY <1>6
  <2>2. \A s \in Screens : page'[s].claim \in {page[s].claim, 0}
    BY <2>1
  <2> QED BY <1>2, <1>3, <1>5, <2>1, <2>2, GoesQuiet
<1>7. CASE Goes(r, Idle) /\ \A s \in Screens : page'[s].claim = page[s].claim
  <2>1. \A s \in Screens : page'[s].claim \in {page[s].claim, 0}
    BY <1>7
  <2> QED BY <1>2, <1>3, <1>5, <1>7, <2>1, IdlePlain, GoesQuiet
<1>8. Ends(r, FALSE) => Goes(r, Idle) /\ \A s \in Screens : page'[s].claim = page[s].claim
  BY <1>5, EndsShown
<1>9. CASE BankSave(r) \/ BankClear(r) \/ ProfilePut(r) \/ PasswordPut(r)
  <2>1. Ends(r, TRUE) /\ req[r].op # "pay"
    BY <1>9 DEF BankSave, BankClear, ProfilePut, PasswordPut, Stands
  <2> QED BY <1>5, <1>7, <2>1, EndsOtherwise
<1>10. CASE PayLease(r)
  <2>1. Ends(r, FALSE) \/ (Goes(r, [req[r] EXCEPT !.pc = IF req[r].meth = "bank" THEN "bank" ELSE "row"]) /\ page' = page)
    BY <1>10 DEF PayLease
  <2>2. Plain([req[r] EXCEPT !.pc = IF req[r].meth = "bank" THEN "bank" ELSE "row"])
    BY <1>1, <1>10 DEF PayLease, Stands, RentReqs, Plain, Pending, Gives, Reverses
  <2> QED BY <1>6, <1>7, <1>8, <2>1, <2>2
<1>11. CASE PayBank(r)
  <2>1. Ends(r, FALSE) \/ (Goes(r, [req[r] EXCEPT !.pc = "row", !.pm = bank.pm, !.cust = bank.cust]) /\ page' = page)
    BY <1>11 DEF PayBank
  <2>2. Plain([req[r] EXCEPT !.pc = "row", !.pm = bank.pm, !.cust = bank.cust])
    BY <1>1, <1>11 DEF PayBank, Stands, RentReqs, Plain, Pending, Gives, Reverses
  <2> QED BY <1>6, <1>7, <1>8, <2>1, <2>2
<1>12. CASE BankRead(r)
  <2> DEFINE new == [req[r] EXCEPT !.item = bank.item, !.cust = bank.cust, !.pc = IF bank.item = 0 THEN "obtain" ELSE "remove"]
  <2>1. Ends(r, FALSE) \/ (Goes(r, new) /\ page' = page)
    BY <1>12 DEF BankRead
  <2>2. Plain(new)
    BY <1>1, <1>12 DEF BankRead, Stands, RentReqs, Plain, Pending, Gives, Reverses
  <2> QED BY <1>6, <1>7, <1>8, <2>1, <2>2
<1>13. CASE BankRemove(r)
  <2> DEFINE new == [req[r] EXCEPT !.pc = IF req[r].op = "link" THEN "obtain" ELSE "clear"]
  <2>1. Goes(r, new) /\ page' = page
    BY <1>13 DEF BankRemove
  <2>2. Plain(new)
    BY <1>1, <1>13 DEF RentReqs, Plain, Pending, Gives, Reverses
  <2> QED BY <1>6, <2>1, <2>2
<1>14. CASE BankObtain(r)
  <2>1. Ends(r, FALSE) \/ \E c : /\ Goes(r, [req[r] EXCEPT !.pc = "save", !.fresh = Len(items) + 1, !.cust = c, !.pm = Len(sources) + 1])
                                 /\ page' = page
    BY <1>14 DEF BankObtain
  <2>2. ASSUME NEW c PROVE Plain([req[r] EXCEPT !.pc = "save", !.fresh = Len(items) + 1, !.cust = c, !.pm = Len(sources) + 1])
    BY <1>1, <1>14 DEF BankObtain, Stands, RentReqs, Plain, Pending, Gives, Reverses
  <2> QED BY <1>6, <1>7, <1>8, <2>1, <2>2
<1>15. CASE PasswordCheck(r)
  <2>1. Ends(r, FALSE) \/ (Goes(r, [req[r] EXCEPT !.pc = "put"]) /\ page' = page)
    BY <1>15 DEF PasswordCheck
  <2>2. Plain([req[r] EXCEPT !.pc = "put"])
    BY <1>1, <1>15 DEF PasswordCheck, Stands, RentReqs, Plain, Pending, Gives, Reverses
  <2> QED BY <1>6, <1>7, <1>8, <2>1, <2>2
<1> QED BY <1>9, <1>10, <1>11, <1>12, <1>13, <1>14, <1>15

\* a mishap: the debit of a request that was about to write may stay untold
LEMMA HapStripe == ASSUME RentTyped, RentTyped', StripeInv, NEW r \in Reqs, AnswerLost(r) \/ Die(r) PROVE StripeInv'
<1>1. req[r] \in RentReqs /\ InTurn(req[r]) /\ req[r].op \in Op
  BY ReqHere DEF AnswerLost, Die, InTurn, Op, TabOp, DeskOp
<1>2. UNCHANGED <<debits, pays>> /\ budget'.haps = budget.haps + 1
  BY SpendHaps DEF AnswerLost, Die, money
<1>3. budget'.haps >= budget.haps /\ budget'.haps \in Nat
  BY <1>2, AllSums
<1>4. CASE AnswerLost(r)
  <2> DEFINE new == [req[r] EXCEPT !.scr = Nobody]
  <2>1. Goes(r, new) /\ page' = Heard(req[r], FALSE)
    BY <1>4 DEF AnswerLost
  <2>2. SameForStripe(new, req[r])
    BY <1>1 DEF RentReqs, SameForStripe
  <2> HIDE DEF new
  <2>3. \A s \in Screens : page'[s].claim = page[s].claim
    BY <1>1, <2>1, HeardClaims
  <2> QED BY <1>2, <1>3, <2>1, <2>2, <2>3, GoesQuiet
<1>5. CASE Die(r)
  <2>1. Goes(r, Idle) /\ \A s \in Screens : page'[s].claim = page[s].claim
    BY <1>1, <1>5, EndsShown DEF Die
  <2>2. CASE ~Writes(req[r])
    BY <1>2, <1>3, <2>1, <2>2, IdlePlain, GoesQuiet
  <2>3. CASE Writes(req[r])
    <3>1. \A x \in Reqs : req'[x] = IF x = r THEN Idle ELSE req[x]
      BY <2>1, ReqMoves
    <3>2. RowsAgree'
      BY <1>2 DEF StripeInv, RowsAgree, Pays
    <3>3. ReqsAgree'
      <4>1. \A x \in Reqs \ {r} : ReqAgrees(req[x], pays', debits')
        BY <1>2 DEF StripeInv, ReqsAgree
      <4> QED BY <3>1, <4>1, IdlePlain, PlainAgrees, ReqsBuild DEF StripeInv
    <3>4. ClaimsHold'
      BY <1>2, <2>1, ClaimsStay DEF StripeInv
    <3>5. Stray' \subseteq Stray \cup {req[r].debit}
      <4>1. ASSUME NEW i \in Debits, Handled(i), i # req[r].debit PROVE Handled(i)'
        BY <3>1, <4>1, HandledGoes
      <4>2. \A i \in Debits : RowTells(i)' = RowTells(i)
        BY <1>2 DEF RowTells, Pays
      <4> QED BY <1>2, <4>1, <4>2 DEF Stray, Debits
    <3> QED BY <1>2, <1>3, <3>2, <3>3, <3>4, <3>5, StrayGains DEF StripeInv
  <2> QED BY <2>2, <2>3
<1> QED BY <1>4, <1>5

LEMMA RefundCheckStripe == ASSUME RentTyped, RentTyped', StripeInv, NEW r \in Reqs, RefundCheck(r) PROVE StripeInv'
<1>1. req[r] \in RentReqs /\ InTurn(req[r]) /\ req[r].op = "refund" /\ req[r].pc = "check" /\ req[r].op \in Op /\ ~Writes(req[r])
  BY ReqHere DEF RefundCheck, Stands, Op, DeskOp, Writes, Stores, Reverses
<1>2. UNCHANGED <<pays, debits, budget>>
  BY DEF RefundCheck, money
<1>3. budget'.haps >= budget.haps /\ budget'.haps \in Nat
  BY <1>2, AllSums
<1>4. CASE Ends(r, FALSE)
  <2>1. Goes(r, Idle) /\ \A s \in Screens : page'[s].claim = page[s].claim
    BY <1>1, <1>4, EndsShown
  <2> QED BY <1>1, <1>2, <1>3, <2>1, IdlePlain, GoesQuiet
<1>5. CASE ~Ends(r, FALSE)
  <2> DEFINE i == req[r].pid
             d == pays[i].debit
             new == [req[r] EXCEPT !.pc = IF d # 0 THEN "stripe" ELSE "reverse", !.debit = d]
  <2>1. Goes(r, new) /\ page' = page /\ pays[i].status = "completed"
    BY <1>5 DEF RefundCheck
  <2>2. i \in Pays
    BY <1>1, ReqHere DEF RentReqOK, InTurn, Below, RentReqs, Sizes, Pays
  <2>3. d \in Nat /\ (d = 0 => pays[i].meth = "cash")
    BY <2>1, <2>2, PayAt DEF StripeInv, RowsAgree, RentTyped
  <2>4. new.op = "refund" /\ new.pid = i /\ new.debit = d /\ new.pc = IF d # 0 THEN "stripe" ELSE "reverse"
    BY <1>1 DEF RentReqs
  <2> HIDE DEF new, i
  <2>5. ReqAgrees(new, pays, debits) /\ ~Pending(new) /\ ~Stores(new)
    BY <2>3, <2>4 DEF ReqAgrees, Pending, Stores, Gives, Reverses
  <2>6. \A x \in Reqs : req'[x] = IF x = r THEN new ELSE req[x]
    BY <2>1, ReqMoves
  <2>7. RowsAgree'
    BY <1>2 DEF StripeInv, RowsAgree, Pays
  <2>8. ReqsAgree'
    <3>1. \A x \in Reqs \ {r} : ReqAgrees(req[x], pays', debits') /\ Differ(new, req[x])
      BY <1>2, <2>5 DEF StripeInv, ReqsAgree, Differ
    <3>2. ReqAgrees(new, pays', debits')
      BY <1>2, <2>5
    <3> QED BY <2>6, <3>1, <3>2, ReqsBuild DEF StripeInv
  <2>9. ClaimsHold'
    BY <1>2, <2>1, ClaimsStay DEF StripeInv
  <2>10. Stray' \subseteq Stray
    <3>1. ASSUME NEW j \in Debits, Handled(j) PROVE Handled(j)'
      BY <1>1, <2>6, <3>1, HandledGoes
    <3>2. \A j \in Debits : RowTells(j)' = RowTells(j)
      BY <1>2 DEF RowTells, Pays
    <3> QED BY <1>2, <3>1, <3>2 DEF Stray, Debits
  <2> QED BY <1>3, <2>7, <2>8, <2>9, <2>10, StrayStays DEF StripeInv
<1> QED BY <1>4, <1>5

\* a row that names no debit is added
LEMMA RowAdded ==
  ASSUME RentTyped, StripeInv, NEW new, pays' = Append(pays, new), debits' = debits, new.debit = 0,
         new.status = "completed" => new.meth = "cash"
  PROVE /\ Pays' = Pays \cup {Len(pays) + 1} /\ pays'[Len(pays) + 1] = new /\ Len(pays) + 1 \notin Pays /\ Len(pays) + 1 \in Nat
        /\ \A i \in Pays : pays'[i] = pays[i]
        /\ RowsAgree' /\ (\A i : RowTells(i) => RowTells(i)')
        /\ \A x \in Reqs : ReqAgrees(req[x], pays', debits')
        /\ \A s \in Screens : page[s].claim # 0 => pays'[page[s].claim] = pays[page[s].claim]
<1>1. /\ Pays' = Pays \cup {Len(pays) + 1} /\ pays'[Len(pays) + 1] = new /\ Len(pays) + 1 \notin Pays /\ Len(pays) + 1 \in Nat
      /\ \A i \in Pays : pays'[i] = pays[i]
  BY DEF Pays, RentTyped, MoneyTyped
<1>2. RowsAgree'
  <2>1. \A a \in Pays' : a \in Pays \/ pays'[a] = new
    BY <1>1
  <2>2. \A a, b \in Pays' : pays'[a].debit = pays'[b].debit /\ pays'[a].debit # 0 => a = b
    <3> SUFFICES ASSUME NEW a \in Pays', NEW b \in Pays', pays'[a].debit = pays'[b].debit, pays'[a].debit # 0 PROVE a = b
      OBVIOUS
    <3>1. a \in Pays /\ b \in Pays /\ pays'[a] = pays[a] /\ pays'[b] = pays[b]
      BY <1>1, <2>1
    <3> QED BY <3>1 DEF StripeInv, RowsAgree
  <2>3. \A a \in Pays' : pays'[a].debit = 0 /\ pays'[a].status = "completed" => pays'[a].meth = "cash"
    <3> SUFFICES ASSUME NEW a \in Pays', pays'[a].debit = 0, pays'[a].status = "completed" PROVE pays'[a].meth = "cash"
      OBVIOUS
    <3>1. CASE a \in Pays
      <4>1. pays'[a] = pays[a]
        BY <1>1, <3>1
      <4> QED BY <3>1, <4>1 DEF StripeInv, RowsAgree
    <3>2. CASE pays'[a] = new
      BY <3>2
    <3> QED BY <2>1, <3>1, <3>2
  <2>4. \A a \in Pays' : pays'[a].meth = "cash" => pays'[a].debit = 0
    BY <1>1, <2>1 DEF StripeInv, RowsAgree
  <2>5. \A a \in Pays' : pays'[a].debit # 0 /\ pays'[a].status = "refunded" => debits'[pays'[a].debit].st = "refunded"
    BY <1>1, <2>1 DEF StripeInv, RowsAgree
  <2> QED BY <2>2, <2>3, <2>4, <2>5 DEF RowsAgree
<1>3. \A i : RowTells(i) => RowTells(i)'
  BY <1>1 DEF RowTells
<1>4. ASSUME NEW x \in Reqs PROVE ReqAgrees(req[x], pays', debits')
  <2> DEFINE q == req[x]
  <2>1. ReqAgrees(q, pays, debits)
    BY DEF StripeInv, ReqsAgree
  <2>2. /\ ~Plain(q) => q.pid \in Pays
        /\ Stores(q) \/ Gives(q) => q.debit \in Debits
    BY ReqPlace
  <2>3. Stores(q) => q.debit # 0
    BY <2>2 DEF Debits
  <2> HIDE DEF q
  <2>4. \A p \in 1..Len(pays') : Stores(q) => pays'[p].debit # q.debit
    BY <1>1, <2>1, <2>3 DEF ReqAgrees, Pays
  <2>5. ~Plain(q) => pays'[q.pid] = pays[q.pid]
    BY <1>1, <2>2
  <2>6. Stores(q) => debits'[q.debit].st \in {"processing", "failed"} /\ \A p \in 1..Len(pays') : pays'[p].debit # q.debit
    BY <2>1, <2>4 DEF ReqAgrees
  <2>7. Pending(q) => pays'[q.pid].meth = "bank" /\ pays'[q.pid].debit = 0 /\ pays'[q.pid].status = "pending"
    BY <2>1, <2>5 DEF ReqAgrees, Plain
  <2>8. Gives(q) => pays'[q.pid].debit = q.debit
    BY <2>1, <2>5 DEF ReqAgrees, Plain
  <2>9. Reverses(q) => \/ q.debit = 0 /\ pays'[q.pid].meth = "cash"
                       \/ q.debit # 0 /\ pays'[q.pid].debit = q.debit /\ debits'[q.debit].st = "refunded"
    BY <2>1, <2>5 DEF ReqAgrees, Plain
  <2>10. ReqAgrees(q, pays', debits')
    BY <2>6, <2>7, <2>8, <2>9 DEF ReqAgrees
  <2> QED BY <2>10 DEF q
<1>5. \A s \in Screens : page[s].claim # 0 => pays'[page[s].claim] = pays[page[s].claim]
  BY <1>1, ClaimPlace
<1> QED BY <1>1, <1>2, <1>3, <1>4, <1>5

LEMMA PayRowStripe == ASSUME RentTyped, RentTyped', StripeInv, NEW r \in Reqs, PayRow(r) PROVE StripeInv'
<1> DEFINE q == [req[r] EXCEPT !.pid = Len(pays) + 1]
           row == [meth |-> q.meth, amt |-> q.amt, debit |-> 0, status |-> "pending"]
<1>1. req[r] \in RentReqs /\ InTurn(req[r]) /\ req[r].op = "pay" /\ req[r].pc = "row"
  BY ReqHere DEF PayRow, Stands
<1>2. pays' = Append(pays, row) /\ debits' = debits /\ UNCHANGED budget
  BY DEF PayRow
<1>3. Len(pays) + 1 \in Nat /\ Len(pays) + 1 # 0
  BY DEF RentTyped, MoneyTyped
<1>4. q \in RentReqs /\ q.op = "pay" /\ q.pc = "row" /\ q.pid = Len(pays) + 1 /\ q.meth = req[r].meth /\ q.op \in Op
  BY <1>1, <1>3 DEF RentReqs, Op, TabOp
<1>5. row.debit = 0 /\ row.status = "pending" /\ row.meth = req[r].meth
  BY <1>4
<1>6. budget'.haps >= budget.haps /\ budget'.haps \in Nat
  BY <1>2, AllSums
<1> HIDE DEF row
<1>7. /\ Pays' = Pays \cup {Len(pays) + 1} /\ pays'[Len(pays) + 1] = row /\ Len(pays) + 1 \notin Pays
      /\ RowsAgree' /\ (\A i : RowTells(i) => RowTells(i)')
      /\ \A x \in Reqs : ReqAgrees(req[x], pays', debits')
      /\ \A s \in Screens : page[s].claim # 0 => pays'[page[s].claim] = pays[page[s].claim]
  BY <1>2, <1>5, RowAdded
<1>8. PICK new : /\ Goes(r, new) /\ ReqAgrees(new, pays', debits') /\ ~Stores(new) /\ (Pending(new) => new.pid = Len(pays) + 1)
                 /\ \A s \in Screens : \/ page'[s].claim = page[s].claim
                                       \/ page'[s].claim = Len(pays) + 1 /\ req[r].meth # "bank"
  <2>1. CASE req[r].meth = "bank"
    <3> DEFINE new == [q EXCEPT !.pc = "stripe"]
    <3>1. Goes(r, new) /\ page' = page
      BY <1>4, <2>1 DEF PayRow
    <3>2. new.op = "pay" /\ new.pc = "stripe" /\ new.pid = Len(pays) + 1
      BY <1>4 DEF RentReqs
    <3> HIDE DEF new, q
    <3>3. ReqAgrees(new, pays', debits') /\ ~Stores(new)
      BY <1>5, <1>7, <2>1, <3>2 DEF ReqAgrees, Pending, Stores, Gives, Reverses
    <3> QED BY <3>1, <3>2, <3>3
  <2>2. CASE req[r].meth # "bank"
    <3>1. Goes(r, Idle) /\ page' = Heard(q, TRUE)
      BY <1>4, <2>2 DEF PayRow
    <3>2. PICK ok \in BOOLEAN : ok /\ page' = Heard(q, ok)
      BY <3>1
    <3> HIDE DEF q
    <3>3. \A s \in Screens : page'[s].claim = page[s].claim \/ page'[s].claim = Len(pays) + 1
      BY <1>4, <3>2, HeardClaims
    <3> QED BY <2>2, <3>1, <3>3, IdlePlain, PlainAgrees DEF Writes, Plain
  <2> QED BY <2>1, <2>2
<1>9. \A x \in Reqs : req'[x] = IF x = r THEN new ELSE req[x]
  BY <1>8, ReqMoves
<1>10. ReqsAgree'
  <2>1. ASSUME NEW x \in Reqs \ {r} PROVE Differ(new, req[x])
    <3>1. Pending(req[x]) => req[x].pid # Len(pays) + 1
      BY <1>7, ReqPlace DEF Plain
    <3> QED BY <1>8, <3>1 DEF Differ
  <2> QED BY <1>7, <1>8, <1>9, <2>1, ReqsBuild DEF StripeInv
<1>11. ClaimsHold'
  <2> SUFFICES ASSUME NEW s \in Screens, page'[s].claim # 0, pays'[page'[s].claim].meth = "bank"
               PROVE pays'[page'[s].claim].debit # 0
    BY DEF ClaimsHold
  <2>1. page'[s].claim = page[s].claim
    BY <1>5, <1>7, <1>8
  <2> QED BY <1>7, <2>1 DEF StripeInv, ClaimsHold
<1>12. Stray' \subseteq Stray
  <2>1. ~Writes(req[r])
    BY <1>1 DEF Writes, Stores, Reverses
  <2>2. ASSUME NEW j \in Debits, Handled(j) PROVE Handled(j)'
    BY <1>9, <2>1, <2>2, HandledGoes
  <2> QED BY <1>2, <1>7, <2>2 DEF Stray, Debits
<1> QED BY <1>6, <1>7, <1>10, <1>11, <1>12, StrayStays DEF StripeInv

LEMMA RecordStripe == ASSUME RentTyped, RentTyped', StripeInv, NEW r \in Reqs, RecordWrite(r) PROVE StripeInv'
<1> DEFINE row == [meth |-> "cash", amt |-> req[r].amt, debit |-> 0, status |-> "completed"]
<1>1. req[r].op = "record" /\ req[r].op \in Op /\ ~Writes(req[r])
  BY DEF RecordWrite, Stands, Op, DeskOp, Writes, Stores, Reverses
<1>2. pays' = Append(pays, row) /\ debits' = debits /\ UNCHANGED budget /\ Ends(r, TRUE)
  BY DEF RecordWrite
<1>3. budget'.haps >= budget.haps /\ budget'.haps \in Nat
  BY <1>2, AllSums
<1>4. row.debit = 0 /\ row.meth = "cash"
  OBVIOUS
<1> HIDE DEF row
<1>5. /\ RowsAgree' /\ (\A i : RowTells(i) => RowTells(i)')
      /\ \A x \in Reqs : ReqAgrees(req[x], pays', debits')
      /\ \A s \in Screens : page[s].claim # 0 => pays'[page[s].claim] = pays[page[s].claim]
  BY <1>2, <1>4, RowAdded
<1>6. Goes(r, Idle) /\ \A s \in Screens : page'[s].claim = page[s].claim
  BY <1>1, <1>2, EndsOtherwise
<1>7. \A x \in Reqs : req'[x] = IF x = r THEN Idle ELSE req[x]
  BY <1>6, ReqMoves
<1>8. ReqsAgree'
  BY <1>5, <1>7, IdlePlain, PlainAgrees, ReqsBuild DEF StripeInv
<1>9. ClaimsHold'
  BY <1>5, <1>6 DEF StripeInv, ClaimsHold
<1>10. Stray' \subseteq Stray
  <2>2. ASSUME NEW j \in Debits, Handled(j) PROVE Handled(j)'
    BY <1>1, <1>7, <2>2, HandledGoes
  <2> QED BY <1>2, <1>5, <2>2 DEF Stray, Debits
<1> QED BY <1>3, <1>5, <1>8, <1>9, <1>10, StrayStays DEF StripeInv

LEMMA RowSet == ASSUME RentTyped, NEW i \in Pays, NEW new, pays' = [pays EXCEPT ![i] = new]
  PROVE Pays' = Pays /\ \A j \in Pays : pays'[j] = IF j = i THEN new ELSE pays[j]
BY DEF RentTyped, MoneyTyped, Pays

LEMMA DebitChanges == ASSUME RentTyped, NEW i \in Debits, NEW st, debits' = [debits EXCEPT ![i].st = st]
  PROVE Debits' = Debits /\ \A j \in Debits : debits'[j].st = IF j = i THEN st ELSE debits[j].st
<1>1. debits[i] \in Debit
  BY DebitAt DEF RentTyped
<1> DEFINE new == [debits[i] EXCEPT !.st = st]
<1>2. new.st = st
  BY <1>1 DEF Debit
<1>3. debits' = [debits EXCEPT ![i] = new]
  OBVIOUS
<1> HIDE DEF new
<1> QED BY <1>2, <1>3 DEF RentTyped, MoneyTyped, Debits

\* a request gives its place to another stage, which may hold what it held
LEMMA StrayGoes ==
  ASSUME NEW r \in Reqs, NEW new, \A x \in Reqs : req'[x] = IF x = r THEN new ELSE req[x],
         \A j \in Debits' : j \in Debits \/ Handled(j)',
         \A j \in Debits : RowTells(j) => RowTells(j)',
         \A j \in Debits : Writes(req[r]) /\ req[r].debit = j => RowTells(j)' \/ (Writes(new) /\ new.debit = j)
  PROVE Stray' \subseteq Stray
<1> SUFFICES ASSUME NEW j \in Debits', ~Handled(j)', ~RowTells(j)' PROVE j \in Debits /\ ~Handled(j) /\ ~RowTells(j)
  BY DEF Stray
<1>1. j \in Debits /\ ~RowTells(j)
  OBVIOUS
<1>2. CASE Writes(req[r]) /\ req[r].debit = j
  <2>1. Writes(new) /\ new.debit = j
    BY <1>1, <1>2 DEF RowTells
  <2>2. Handled(j)'
    BY <2>1 DEF Handled
  <2> QED BY <2>2
<1>3. CASE ~(Writes(req[r]) /\ req[r].debit = j)
  BY <1>1, <1>3, HandledGoes
<1> QED BY <1>1, <1>2, <1>3

LEMMA PayStripeStripe == ASSUME RentTyped, RentTyped', StripeInv, NEW r \in Reqs, PayStripe(r) PROVE StripeInv'
<1> DEFINE i == req[r].pid
<1>1. req[r] \in RentReqs /\ InTurn(req[r]) /\ req[r].op = "pay" /\ req[r].pc = "stripe" /\ req[r].op \in Op
      /\ ~Writes(req[r]) /\ Pending(req[r]) /\ ~Plain(req[r])
  BY ReqHere DEF PayStripe, Stands, Op, TabOp, Writes, Stores, Reverses, Pending, Plain
<1>2. i \in Pays /\ pays[i].meth = "bank" /\ pays[i].debit = 0 /\ pays[i].status = "pending" /\ pays[i] \in Payment
  BY <1>1, ReqPlace, PayAt DEF StripeInv, ReqsAgree, ReqAgrees, RentTyped
<1>3. UNCHANGED budget /\ budget'.haps >= budget.haps /\ budget'.haps \in Nat
  BY AllSums DEF PayStripe
<1>4. CASE UNCHANGED <<pays, debits>> /\ Ends(r, FALSE)
  <2>1. Goes(r, Idle) /\ \A s \in Screens : page'[s].claim = page[s].claim
    BY <1>1, <1>4, EndsShown
  <2> QED BY <1>1, <1>3, <1>4, <2>1, IdlePlain, GoesQuiet
<1>5. CASE Ends(r, FALSE) /\ pays' = [pays EXCEPT ![i].status = "failed"] /\ debits' = debits
  <2> DEFINE row == [pays[i] EXCEPT !.status = "failed"]
  <2>1. row.meth = "bank" /\ row.debit = 0 /\ row.status = "failed"
    BY <1>2 DEF Payment
  <2>2. pays' = [pays EXCEPT ![i] = row]
    BY <1>5
  <2> HIDE DEF row
  <2>3. Pays' = Pays /\ \A j \in Pays : pays'[j] = IF j = i THEN row ELSE pays[j]
    BY <1>2, <2>2, RowSet
  <2>4. \A j \in Pays : pays'[j].meth = pays[j].meth /\ pays'[j].debit = pays[j].debit
    BY <1>2, <2>1, <2>3
  <2>5. Goes(r, Idle) /\ \A s \in Screens : page'[s].claim = page[s].claim
    BY <1>1, <1>5, EndsShown
  <2>6. \A x \in Reqs : req'[x] = IF x = r THEN Idle ELSE req[x]
    BY <2>5, ReqMoves
  <2>7. RowsAgree'
    <3>1. \A a, b \in Pays : pays'[a].debit = pays'[b].debit /\ pays'[a].debit # 0 => a = b
      BY <2>4 DEF StripeInv, RowsAgree
    <3>2. \A a \in Pays : pays'[a].debit = 0 /\ pays'[a].status = "completed" => pays'[a].meth = "cash"
      BY <2>1, <2>3 DEF StripeInv, RowsAgree
    <3>3. \A a \in Pays : pays'[a].meth = "cash" => pays'[a].debit = 0
      BY <2>4 DEF StripeInv, RowsAgree
    <3>4. \A a \in Pays : pays'[a].debit # 0 /\ pays'[a].status = "refunded" => debits'[pays'[a].debit].st = "refunded"
      BY <1>5, <2>1, <2>3 DEF StripeInv, RowsAgree
    <3> QED BY <2>3, <3>1, <3>2, <3>3, <3>4 DEF RowsAgree
  <2>8. ReqsAgree'
    <3>1. ASSUME NEW x \in Reqs \ {r} PROVE ReqAgrees(req[x], pays', debits')
      <4> DEFINE q == req[x]
      <4>1. ReqAgrees(q, pays, debits) /\ Differ(q, req[r]) /\ (~Plain(q) => q.pid \in Pays)
        BY <3>1, ReqPlace DEF StripeInv, ReqsAgree
      <4> HIDE DEF q
      <4>2. Pending(q) => q.pid # i
        BY <1>1, <4>1 DEF Differ
      <4>3. Pending(q) => pays'[q.pid].meth = "bank" /\ pays'[q.pid].debit = 0 /\ pays'[q.pid].status = "pending"
        BY <2>3, <4>1, <4>2 DEF ReqAgrees, Plain
      <4>4. Stores(q) => debits'[q.debit].st \in {"processing", "failed"} /\ \A p \in 1..Len(pays') : pays'[p].debit # q.debit
        BY <1>5, <2>3, <2>4, <4>1 DEF ReqAgrees, Pays
      <4>5. Gives(q) => pays'[q.pid].debit = q.debit
        BY <2>4, <4>1 DEF ReqAgrees, Plain
      <4>6. Reverses(q) => \/ q.debit = 0 /\ pays'[q.pid].meth = "cash"
                           \/ q.debit # 0 /\ pays'[q.pid].debit = q.debit /\ debits'[q.debit].st = "refunded"
        BY <1>5, <2>4, <4>1 DEF ReqAgrees, Plain
      <4>7. ReqAgrees(q, pays', debits')
        BY <4>3, <4>4, <4>5, <4>6 DEF ReqAgrees
      <4> QED BY <4>7 DEF q
    <3> QED BY <2>6, <3>1, IdlePlain, PlainAgrees, ReqsBuild DEF StripeInv
  <2>9. ClaimsHold'
    BY <2>4, <2>5, ClaimsStay DEF StripeInv
  <2>10. Stray' \subseteq Stray
    <3>1. \A j \in Debits : RowTells(j) => RowTells(j)'
      <4> SUFFICES ASSUME NEW j \in Debits, RowTells(j) PROVE RowTells(j)'
        OBVIOUS
      <4>1. PICK p \in Pays : pays[p].debit = j /\ (debits[j].st = "refunded" => pays[p].status = "refunded")
        BY DEF RowTells
      <4>2. p # i
        BY <1>2, <4>1 DEF Debits
      <4> QED BY <1>5, <2>3, <4>1, <4>2 DEF RowTells
    <3>2. Debits' = Debits
      BY <1>5 DEF Debits
    <3> QED BY <1>1, <2>6, <3>1, <3>2, StrayGoes
  <2> QED BY <1>3, <2>7, <2>8, <2>9, <2>10, StrayStays DEF StripeInv
<1>6. CASE debits' = Debited(req[r].amt) /\ pays' = pays /\ page' = page
           /\ Goes(r, [req[r] EXCEPT !.pc = "store", !.debit = Len(debits) + 1])
  <2>0. PICK d : d = Len(debits) + 1
    OBVIOUS
  <2> DEFINE new == [req[r] EXCEPT !.pc = "store", !.debit = d]
  <2>1. d \in Nat /\ d \notin Debits /\ d # 0 /\ \A j : j \in Debits => j # d
    BY <2>0 DEF RentTyped, MoneyTyped, Debits
  <2>2. new.op = "pay" /\ new.pc = "store" /\ new.pid = i /\ new.debit = d
    BY <1>1, <2>1 DEF RentReqs
  <2>3. Debits' = Debits \cup {d} /\ debits'[d].st = "processing" /\ \A j \in Debits : debits'[j] = debits[j]
    BY <1>6, <2>0 DEF Debited, Debits, RentTyped, MoneyTyped
  <2>4. \A x \in Reqs : req'[x] = IF x = r THEN new ELSE req[x]
    BY <1>6, <2>0, ReqMoves
  <2>5. \A p \in Pays : pays[p].debit \in Nat /\ (pays[p].debit # 0 => pays[p].debit \in Debits)
    BY PayAt DEF RentTyped, Debits, MoneyTyped
  <2> HIDE DEF new
  <2>6. RowsAgree'
    <3>1. Pays' = Pays
      BY <1>6 DEF Pays
    <3>2. \A a \in Pays : pays[a].debit # 0 /\ pays[a].status = "refunded" => debits'[pays[a].debit].st = "refunded"
      BY <2>3, <2>5 DEF StripeInv, RowsAgree
    <3> QED BY <1>6, <3>1, <3>2 DEF StripeInv, RowsAgree
  <2>7. ReqAgrees(new, pays', debits')
    <3>1. \A p \in 1..Len(pays) : pays[p].debit # d
      BY <2>1, <2>5 DEF Pays
    <3> QED BY <1>2, <1>6, <2>2, <2>3, <3>1 DEF ReqAgrees, Pending, Stores, Gives, Reverses
  <2>8. ASSUME NEW x \in Reqs \ {r} PROVE ReqAgrees(req[x], pays', debits') /\ Differ(new, req[x])
    <3> DEFINE q == req[x]
    <3>1. /\ ReqAgrees(q, pays, debits) /\ Differ(q, req[r])
          /\ (Stores(q) \/ Gives(q) => q.debit \in Debits) /\ q.debit \in Nat /\ q.debit <= Len(debits)
      BY <2>8, ReqPlace DEF StripeInv, ReqsAgree
    <3> HIDE DEF q
    <3>2. q.debit # 0 => q.debit \in Debits
      BY <3>1 DEF Debits, RentTyped, MoneyTyped
    <3>3. Stores(q) => debits'[q.debit].st \in {"processing", "failed"} /\ \A p \in 1..Len(pays') : pays'[p].debit # q.debit
      BY <1>6, <2>3, <3>1 DEF ReqAgrees
    <3>4. Reverses(q) => \/ q.debit = 0 /\ pays'[q.pid].meth = "cash"
                         \/ q.debit # 0 /\ pays'[q.pid].debit = q.debit /\ debits'[q.debit].st = "refunded"
      BY <1>6, <2>3, <3>1, <3>2 DEF ReqAgrees
    <3>5. ReqAgrees(q, pays', debits')
      BY <1>6, <3>1, <3>3, <3>4 DEF ReqAgrees
    <3>6. Differ(new, q)
      BY <1>1, <2>1, <2>2, <3>1 DEF Differ, Pending, Stores
    <3> QED BY <3>5, <3>6 DEF q
  <2>9. ReqsAgree'
    BY <2>4, <2>7, <2>8, ReqsBuild DEF StripeInv
  <2>10. ClaimsHold'
    BY <1>6, ClaimsStay DEF StripeInv
  <2>11. Stray' \subseteq Stray
    <3>1. Handled(d)'
      BY <2>2, <2>4 DEF Handled, Writes, Stores
    <3>2. \A j \in Debits : RowTells(j) => RowTells(j)'
      BY <1>6, <2>3 DEF RowTells, Pays
    <3> QED BY <1>1, <2>3, <2>4, <3>1, <3>2, StrayGoes
  <2> QED BY <1>3, <2>6, <2>9, <2>10, <2>11, StrayStays DEF StripeInv
<1> QED BY <1>4, <1>5, <1>6 DEF PayStripe

LEMMA PayStoreStripe == ASSUME RentTyped, RentTyped', StripeInv, NEW r \in Reqs, PayStore(r) PROVE StripeInv'
<1> DEFINE i == req[r].pid
           d == req[r].debit
           row == [pays[i] EXCEPT !.debit = d]
<1>1. req[r] \in RentReqs /\ InTurn(req[r]) /\ req[r].op = "pay" /\ req[r].pc = "store" /\ req[r].op \in Op
      /\ Writes(req[r]) /\ Pending(req[r]) /\ Stores(req[r]) /\ ~Plain(req[r]) /\ ~Reverses(req[r])
  BY ReqHere DEF PayStore, Stands, Op, TabOp, Writes, Stores, Reverses, Pending, Plain
<1>2. i \in Pays /\ pays[i].meth = "bank" /\ pays[i].debit = 0 /\ pays[i].status = "pending" /\ pays[i] \in Payment
  BY <1>1, ReqPlace, PayAt DEF StripeInv, ReqsAgree, ReqAgrees, RentTyped
<1>3. d \in Debits /\ d # 0 /\ debits[d].st \in {"processing", "failed"} /\ \A p \in Pays : pays[p].debit # d
  BY <1>1, ReqPlace DEF StripeInv, ReqsAgree, ReqAgrees, Pays, Debits
<1>4. UNCHANGED <<budget, debits>> /\ pays' = [pays EXCEPT ![i].debit = d] /\ Ends(r, TRUE)
  BY DEF PayStore
<1>5. budget'.haps >= budget.haps /\ budget'.haps \in Nat
  BY <1>4, AllSums
<1>6. row.meth = "bank" /\ row.debit = d /\ row.status = "pending"
  BY <1>2 DEF Payment
<1>7. pays' = [pays EXCEPT ![i] = row]
  BY <1>4
<1>8. Goes(r, Idle) /\ \A s \in Screens : page'[s].claim = page[s].claim \/ page'[s].claim = i
  BY <1>1, <1>4, EndsClaims
<1> HIDE DEF row
<1>9. Pays' = Pays /\ \A j \in Pays : pays'[j] = IF j = i THEN row ELSE pays[j]
  BY <1>2, <1>7, RowSet
<1>10. \A x \in Reqs : req'[x] = IF x = r THEN Idle ELSE req[x]
  BY <1>8, ReqMoves
<1>11. RowsAgree'
  <2>1. ASSUME NEW a \in Pays, NEW b \in Pays, pays'[a].debit = pays'[b].debit, pays'[a].debit # 0 PROVE a = b
    <3>1. CASE a # i /\ b # i
      BY <1>9, <2>1, <3>1 DEF StripeInv, RowsAgree
    <3>2. CASE a = i \/ b = i
      BY <1>3, <1>6, <1>9, <2>1, <3>2
    <3> QED BY <3>1, <3>2
  <2>2. \A a \in Pays : pays'[a].debit = 0 /\ pays'[a].status = "completed" => pays'[a].meth = "cash"
    BY <1>6, <1>9 DEF StripeInv, RowsAgree
  <2>3. \A a \in Pays : pays'[a].meth = "cash" => pays'[a].debit = 0
    BY <1>6, <1>9 DEF StripeInv, RowsAgree
  <2>4. \A a \in Pays : pays'[a].debit # 0 /\ pays'[a].status = "refunded" => debits'[pays'[a].debit].st = "refunded"
    BY <1>4, <1>6, <1>9 DEF StripeInv, RowsAgree
  <2> QED BY <1>9, <2>1, <2>2, <2>3, <2>4 DEF RowsAgree
<1>12. ReqsAgree'
  <2>1. ASSUME NEW x \in Reqs \ {r} PROVE ReqAgrees(req[x], pays', debits')
    <3> DEFINE q == req[x]
    <3>1. /\ ReqAgrees(q, pays, debits) /\ Differ(q, req[r]) /\ (~Plain(q) => q.pid \in Pays)
          /\ (Gives(q) => q.debit # 0)
      BY <2>1, ReqPlace DEF StripeInv, ReqsAgree, Debits
    <3> HIDE DEF q
    <3>2. (Pending(q) => q.pid # i) /\ (Stores(q) => q.debit # d)
      BY <1>1, <3>1 DEF Differ
    <3>3. Pending(q) => pays'[q.pid].meth = "bank" /\ pays'[q.pid].debit = 0 /\ pays'[q.pid].status = "pending"
      BY <1>9, <3>1, <3>2 DEF ReqAgrees, Plain
    <3>4. Stores(q) => debits'[q.debit].st \in {"processing", "failed"} /\ \A p \in Pays' : pays'[p].debit # q.debit
      BY <1>4, <1>6, <1>9, <3>1, <3>2 DEF ReqAgrees, Pays
    <3>5. Gives(q) => pays'[q.pid].debit = q.debit
      <4>1. Gives(q) => q.pid # i
        BY <1>2, <3>1 DEF ReqAgrees
      <4> QED BY <1>9, <3>1, <4>1 DEF ReqAgrees, Plain
    <3>6. Reverses(q) => \/ q.debit = 0 /\ pays'[q.pid].meth = "cash"
                         \/ q.debit # 0 /\ pays'[q.pid].debit = q.debit /\ debits'[q.debit].st = "refunded"
      <4>1. Reverses(q) => q.pid # i
        BY <1>2, <3>1 DEF ReqAgrees
      <4> QED BY <1>4, <1>9, <3>1, <4>1 DEF ReqAgrees, Plain
    <3>7. ReqAgrees(q, pays', debits')
      BY <3>3, <3>4, <3>5, <3>6 DEF ReqAgrees, Pays
    <3> QED BY <3>7 DEF q
  <2> QED BY <1>10, <2>1, IdlePlain, PlainAgrees, ReqsBuild DEF StripeInv
<1>13. ClaimsHold'
  <2> SUFFICES ASSUME NEW s \in Screens, page'[s].claim # 0, pays'[page'[s].claim].meth = "bank"
               PROVE pays'[page'[s].claim].debit # 0
    BY DEF ClaimsHold
  <2>1. CASE page'[s].claim = i
    BY <1>2, <1>3, <1>6, <1>9, <2>1
  <2>2. CASE page'[s].claim # i
    <3>1. page'[s].claim = page[s].claim /\ page[s].claim \in Pays
      BY <1>8, <2>2, ClaimPlace
    <3>2. pays'[page[s].claim] = pays[page[s].claim]
      BY <1>9, <2>2, <3>1
    <3> QED BY <3>1, <3>2 DEF StripeInv, ClaimsHold
  <2> QED BY <2>1, <2>2
<1>14. Stray' \subseteq Stray
  <2>1. \A j \in Debits : RowTells(j) => RowTells(j)'
    <3> SUFFICES ASSUME NEW j \in Debits, RowTells(j) PROVE RowTells(j)'
      OBVIOUS
    <3>1. PICK p \in Pays : pays[p].debit = j /\ (debits[j].st = "refunded" => pays[p].status = "refunded")
      BY DEF RowTells
    <3>2. p # i
      BY <1>2, <3>1 DEF Debits
    <3> QED BY <1>4, <1>9, <3>1, <3>2 DEF RowTells
  <2>2. \A j \in Debits : j = d => RowTells(j)'
    BY <1>2, <1>3, <1>4, <1>6, <1>9 DEF RowTells
  <2>3. Debits' = Debits
    BY <1>4 DEF Debits
  <2> QED BY <1>10, <2>1, <2>2, <2>3, StrayGoes
<1> QED BY <1>5, <1>11, <1>12, <1>13, <1>14, StrayStays DEF StripeInv

LEMMA SettleStripe == ASSUME RentTyped, RentTyped', StripeInv, NEW i \in Debits, NEW ok \in BOOLEAN, Settle(i, ok) PROVE StripeInv'
<1> DEFINE st == IF ok THEN "succeeded" ELSE "failed"
           st2 == IF ok THEN "completed" ELSE "failed"
<1>1. /\ debits[i].st = "processing" /\ (ok => \A r \in Reqs : req[r].debit # i)
      /\ UNCHANGED <<page, req, budget>>
  BY DEF Settle
<1>2. Debits' = Debits /\ \A j \in Debits : debits'[j].st = IF j = i THEN st ELSE debits[j].st
  <2>1. debits' = [debits EXCEPT ![i].st = st]
    BY DEF Settle
  <2> HIDE DEF st
  <2> QED BY <2>1, DebitChanges
<1>3. /\ Pays' = Pays
      /\ \A p \in Pays : pays'[p] = IF pays[p].debit = i THEN [pays[p] EXCEPT !.status = st2] ELSE pays[p]
  BY DEF Settle, Pays, RentTyped, MoneyTyped
<1>4. \A p \in Pays : /\ pays'[p].meth = pays[p].meth /\ pays'[p].debit = pays[p].debit
                      /\ pays'[p].status = IF pays[p].debit = i THEN st2 ELSE pays[p].status
                      /\ (pays[p].debit # 0 => pays[p].debit \in Debits)
  <2> SUFFICES ASSUME NEW p \in Pays
      PROVE /\ pays'[p].meth = pays[p].meth /\ pays'[p].debit = pays[p].debit
            /\ pays'[p].status = IF pays[p].debit = i THEN st2 ELSE pays[p].status
            /\ (pays[p].debit # 0 => pays[p].debit \in Debits)
    OBVIOUS
  <2>1. pays[p] \in Payment /\ pays[p].debit \in Nat /\ pays[p].debit <= Len(debits)
    BY PayAt DEF RentTyped
  <2>2. pays[p].debit # 0 => pays[p].debit \in Debits
    BY <2>1 DEF Debits, RentTyped, MoneyTyped
  <2> QED BY <1>3, <2>1, <2>2 DEF Payment
<1>5. i # 0 /\ st \in {"succeeded", "failed"} /\ st2 \in {"completed", "failed"} /\ (~ok => st = "failed")
  BY DEF Debits
<1> HIDE DEF st, st2
<1>6. RowsAgree'
  <2>1. \A a, b \in Pays : pays'[a].debit = pays'[b].debit /\ pays'[a].debit # 0 => a = b
    BY <1>4 DEF StripeInv, RowsAgree
  <2>2. \A a \in Pays : pays'[a].debit = 0 /\ pays'[a].status = "completed" => pays'[a].meth = "cash"
    BY <1>4, <1>5 DEF StripeInv, RowsAgree
  <2>3. \A a \in Pays : pays'[a].meth = "cash" => pays'[a].debit = 0
    BY <1>4 DEF StripeInv, RowsAgree
  <2>4. ASSUME NEW a \in Pays, pays'[a].debit # 0, pays'[a].status = "refunded" PROVE debits'[pays'[a].debit].st = "refunded"
    <3>1. pays[a].debit # i /\ pays'[a].debit = pays[a].debit /\ pays[a].debit \in Debits /\ pays[a].status = "refunded"
      BY <1>4, <1>5, <2>4
    <3>2. debits[pays[a].debit].st = "refunded"
      BY <2>4, <3>1 DEF StripeInv, RowsAgree
    <3> QED BY <1>2, <3>1, <3>2
  <2> QED BY <1>3, <2>1, <2>2, <2>3, <2>4 DEF RowsAgree
<1>7. ReqsAgree'
  <2>1. ASSUME NEW x \in Reqs PROVE ReqAgrees(req[x], pays', debits')
    <3> DEFINE q == req[x]
    <3>1. /\ ReqAgrees(q, pays, debits) /\ (~Plain(q) => q.pid \in Pays) /\ q.debit \in Nat
          /\ (q.debit # 0 => q.debit \in Debits) /\ (ok => q.debit # i)
      BY <1>1, ReqPlace DEF StripeInv, ReqsAgree, Debits, RentTyped, MoneyTyped
    <3>2. Stores(q) => q.debit \in Debits
      BY ReqPlace
    <3> HIDE DEF q
    <3>3. Pending(q) => pays'[q.pid].meth = "bank" /\ pays'[q.pid].debit = 0 /\ pays'[q.pid].status = "pending"
      BY <1>4, <1>5, <3>1 DEF ReqAgrees, Plain
    <3>4. Stores(q) => debits'[q.debit].st \in {"processing", "failed"} /\ \A p \in Pays' : pays'[p].debit # q.debit
      <4>1. Stores(q) => \A p \in Pays' : pays'[p].debit # q.debit
        BY <1>3, <1>4, <3>1 DEF ReqAgrees, Pays
      <4>2. Stores(q) => debits'[q.debit].st \in {"processing", "failed"}
        BY <1>2, <1>5, <3>1, <3>2 DEF ReqAgrees
      <4> QED BY <4>1, <4>2
    <3>5. Gives(q) => pays'[q.pid].debit = q.debit
      BY <1>4, <3>1 DEF ReqAgrees, Plain
    <3>6. Reverses(q) => \/ q.debit = 0 /\ pays'[q.pid].meth = "cash"
                         \/ q.debit # 0 /\ pays'[q.pid].debit = q.debit /\ debits'[q.debit].st = "refunded"
      BY <1>1, <1>2, <1>4, <3>1 DEF ReqAgrees, Plain
    <3>7. ReqAgrees(q, pays', debits')
      BY <3>3, <3>4, <3>5, <3>6 DEF ReqAgrees, Pays
    <3> QED BY <3>7 DEF q
  <2> QED BY <1>1, <2>1 DEF StripeInv, ReqsAgree
<1>8. ClaimsHold'
  <2>1. \A s \in Screens : page'[s].claim \in {page[s].claim, 0}
    BY <1>1
  <2> QED BY <1>4, <2>1, ClaimsStay DEF StripeInv
<1>9. Stray' \subseteq Stray
  <2>1. \A j : Handled(j) = Handled(j)'
    BY <1>1 DEF Handled
  <2>2. \A j \in Debits : RowTells(j) => RowTells(j)'
    <3> SUFFICES ASSUME NEW j \in Debits, RowTells(j) PROVE RowTells(j)'
      OBVIOUS
    <3>1. PICK p \in Pays : pays[p].debit = j /\ (debits[j].st = "refunded" => pays[p].status = "refunded")
      BY DEF RowTells
    <3>2. debits'[j].st = "refunded" => j # i /\ debits[j].st = "refunded"
      BY <1>2, <1>5
    <3>3. pays'[p].debit = j /\ (debits'[j].st = "refunded" => pays'[p].status = "refunded")
      BY <1>4, <3>1, <3>2
    <3> QED BY <1>3, <3>3 DEF RowTells
  <2> QED BY <1>2, <2>1, <2>2 DEF Stray
<1>10. budget'.haps >= budget.haps /\ budget'.haps \in Nat
  BY <1>1, AllSums
<1> QED BY <1>6, <1>7, <1>8, <1>9, <1>10, StrayStays DEF StripeInv

LEMMA RefundStripeStripe == ASSUME RentTyped, RentTyped', StripeInv, NEW r \in Reqs, RefundStripe(r) PROVE StripeInv'
<1>1. req[r] \in RentReqs /\ InTurn(req[r]) /\ req[r].op = "refund" /\ req[r].pc = "stripe" /\ req[r].op \in Op
      /\ ~Writes(req[r]) /\ Gives(req[r]) /\ ~Plain(req[r])
  BY ReqHere DEF RefundStripe, Stands, Op, DeskOp, Writes, Stores, Reverses, Gives, Plain
<1>2. UNCHANGED <<pays, budget>>
  BY DEF RefundStripe
<1>3. budget'.haps >= budget.haps /\ budget'.haps \in Nat
  BY <1>2, AllSums
<1>4. CASE Ends(r, FALSE) /\ debits' = debits
  <2>1. Goes(r, Idle) /\ \A s \in Screens : page'[s].claim = page[s].claim
    BY <1>1, <1>4, EndsShown
  <2> QED BY <1>1, <1>2, <1>3, <1>4, <2>1, IdlePlain, GoesQuiet
<1>5. CASE ~(Ends(r, FALSE) /\ debits' = debits)
  <2>0. PICK i : i = req[r].debit
    OBVIOUS
  <2>1. /\ debits[i].st = "succeeded" /\ debits' = [debits EXCEPT ![i].st = "refunded"] /\ page' = page
        /\ Goes(r, [req[r] EXCEPT !.pc = "reverse"])
    BY <1>5, <2>0 DEF RefundStripe
  <2> DEFINE new == [req[r] EXCEPT !.pc = "reverse"]
  <2>2. i \in Debits /\ i # 0 /\ req[r].pid \in Pays /\ pays[req[r].pid].debit = i
    BY <1>1, <2>0, ReqPlace DEF StripeInv, ReqsAgree, ReqAgrees, Debits
  <2>3. Debits' = Debits /\ \A j \in Debits : debits'[j].st = IF j = i THEN "refunded" ELSE debits[j].st
    BY <2>1, <2>2, DebitChanges
  <2>4. new.op = "refund" /\ new.pc = "reverse" /\ new.debit = i /\ new.pid = req[r].pid
    BY <1>1, <2>0 DEF RentReqs
  <2>5. \A x \in Reqs : req'[x] = IF x = r THEN new ELSE req[x]
    BY <2>1, ReqMoves
  <2> HIDE DEF new
  <2>6. \A p \in Pays : pays[p].debit # 0 => pays[p].debit \in Debits
    BY PayAt DEF RentTyped, Debits, MoneyTyped
  <2>7. RowsAgree'
    <3>1. Pays' = Pays
      BY <1>2 DEF Pays
    <3>2. \A a \in Pays : pays[a].debit # 0 /\ pays[a].status = "refunded" => debits'[pays[a].debit].st = "refunded"
      BY <2>3, <2>6 DEF StripeInv, RowsAgree
    <3> QED BY <1>2, <3>1, <3>2 DEF StripeInv, RowsAgree
  <2>8. ReqAgrees(new, pays', debits')
    BY <1>2, <2>2, <2>3, <2>4 DEF ReqAgrees, Pending, Stores, Gives, Reverses
  <2>9. ASSUME NEW x \in Reqs \ {r} PROVE ReqAgrees(req[x], pays', debits') /\ Differ(new, req[x])
    <3> DEFINE q == req[x]
    <3>1. /\ ReqAgrees(q, pays, debits) /\ (Stores(q) \/ Gives(q) => q.debit \in Debits) /\ q.debit \in Nat
          /\ (q.debit # 0 => q.debit \in Debits)
      BY <2>9, ReqPlace DEF StripeInv, ReqsAgree, Debits, RentTyped, MoneyTyped
    <3> HIDE DEF q
    <3>2. Stores(q) => q.debit # i
      BY <2>2, <3>1 DEF ReqAgrees, Pays
    <3>3. Stores(q) => debits'[q.debit].st \in {"processing", "failed"} /\ \A p \in 1..Len(pays') : pays'[p].debit # q.debit
      BY <1>2, <2>3, <3>1, <3>2 DEF ReqAgrees
    <3>4. Reverses(q) => \/ q.debit = 0 /\ pays'[q.pid].meth = "cash"
                         \/ q.debit # 0 /\ pays'[q.pid].debit = q.debit /\ debits'[q.debit].st = "refunded"
      BY <1>2, <2>3, <3>1 DEF ReqAgrees
    <3>5. ReqAgrees(q, pays', debits')
      BY <1>2, <3>1, <3>3, <3>4 DEF ReqAgrees
    <3>6. Differ(new, q)
      BY <2>4 DEF Differ, Pending, Stores
    <3> QED BY <3>5, <3>6 DEF q
  <2>10. ReqsAgree'
    BY <2>5, <2>8, <2>9, ReqsBuild DEF StripeInv
  <2>11. ClaimsHold'
    BY <1>2, <2>1, ClaimsStay DEF StripeInv
  <2>12. Stray' \subseteq Stray
    <3>1. Handled(i)'
      BY <2>4, <2>5 DEF Handled, Writes, Reverses
    <3>2. \A j \in Debits : j # i /\ RowTells(j) => RowTells(j)'
      BY <1>2, <2>3 DEF RowTells, Pays
    <3>3. ASSUME NEW j \in Debits, Handled(j) PROVE Handled(j)'
      BY <1>1, <2>5, <3>3, HandledGoes
    <3> QED BY <2>3, <3>1, <3>2, <3>3 DEF Stray
  <2> QED BY <1>3, <2>7, <2>10, <2>11, <2>12, StrayStays DEF StripeInv
<1> QED BY <1>4, <1>5

LEMMA RefundReverseStripe == ASSUME RentTyped, RentTyped', StripeInv, NEW r \in Reqs, RefundReverse(r) PROVE StripeInv'
<1> DEFINE i == req[r].pid
           d == req[r].debit
           row == [pays[i] EXCEPT !.status = "refunded"]
<1>1. req[r] \in RentReqs /\ InTurn(req[r]) /\ req[r].op = "refund" /\ req[r].pc = "reverse" /\ req[r].op \in Op
      /\ Reverses(req[r]) /\ ~Plain(req[r]) /\ ~Pending(req[r]) /\ ~Stores(req[r])
  BY ReqHere DEF RefundReverse, Stands, Op, DeskOp, Reverses, Plain, Pending, Stores
<1>2. /\ i \in Pays /\ pays[i] \in Payment
      /\ \/ d = 0 /\ pays[i].meth = "cash"
         \/ d # 0 /\ pays[i].debit = d /\ debits[d].st = "refunded"
  BY <1>1, ReqPlace, PayAt DEF StripeInv, ReqsAgree, ReqAgrees, RentTyped
<1>3. pays[i].debit = d /\ (d = 0 => pays[i].meth = "cash")
  BY <1>2 DEF StripeInv, RowsAgree
<1>4. UNCHANGED <<budget, debits>> /\ pays' = [pays EXCEPT ![i].status = "refunded"] /\ Ends(r, TRUE)
  BY DEF RefundReverse
<1>5. budget'.haps >= budget.haps /\ budget'.haps \in Nat
  BY <1>4, AllSums
<1>6. row.meth = pays[i].meth /\ row.debit = d /\ row.status = "refunded"
  BY <1>2, <1>3 DEF Payment
<1>7. pays' = [pays EXCEPT ![i] = row]
  BY <1>4
<1>8. Goes(r, Idle) /\ \A s \in Screens : page'[s].claim = page[s].claim
  BY <1>1, <1>4, EndsOtherwise
<1> HIDE DEF row
<1>9. Pays' = Pays /\ \A j \in Pays : pays'[j] = IF j = i THEN row ELSE pays[j]
  BY <1>2, <1>7, RowSet
<1>10. \A x \in Reqs : req'[x] = IF x = r THEN Idle ELSE req[x]
  BY <1>8, ReqMoves
<1>11. \A p \in Pays : pays'[p].meth = pays[p].meth /\ pays'[p].debit = pays[p].debit
  BY <1>3, <1>6, <1>9
<1>12. RowsAgree'
  <2>1. \A a, b \in Pays : pays'[a].debit = pays'[b].debit /\ pays'[a].debit # 0 => a = b
    BY <1>11 DEF StripeInv, RowsAgree
  <2>2. \A a \in Pays : pays'[a].debit = 0 /\ pays'[a].status = "completed" => pays'[a].meth = "cash"
    BY <1>6, <1>9 DEF StripeInv, RowsAgree
  <2>3. \A a \in Pays : pays'[a].meth = "cash" => pays'[a].debit = 0
    BY <1>11 DEF StripeInv, RowsAgree
  <2>4. \A a \in Pays : pays'[a].debit # 0 /\ pays'[a].status = "refunded" => debits'[pays'[a].debit].st = "refunded"
    BY <1>2, <1>4, <1>6, <1>9 DEF StripeInv, RowsAgree
  <2> QED BY <1>9, <2>1, <2>2, <2>3, <2>4 DEF RowsAgree
<1>13. ReqsAgree'
  <2>1. ASSUME NEW x \in Reqs \ {r} PROVE ReqAgrees(req[x], pays', debits')
    <3> DEFINE q == req[x]
    <3>1. ReqAgrees(q, pays, debits) /\ (~Plain(q) => q.pid \in Pays)
      BY <2>1, ReqPlace DEF StripeInv, ReqsAgree
    <3> HIDE DEF q
    <3>2. Pending(q) => q.pid # i
      BY <1>2, <3>1 DEF ReqAgrees
    <3>3. Pending(q) => pays'[q.pid].meth = "bank" /\ pays'[q.pid].debit = 0 /\ pays'[q.pid].status = "pending"
      BY <1>9, <3>1, <3>2 DEF ReqAgrees, Plain
    <3>4. Stores(q) => debits'[q.debit].st \in {"processing", "failed"} /\ \A p \in Pays' : pays'[p].debit # q.debit
      BY <1>4, <1>9, <1>11, <3>1 DEF ReqAgrees, Pays
    <3>5. Gives(q) => pays'[q.pid].debit = q.debit
      BY <1>11, <3>1 DEF ReqAgrees, Plain
    <3>6. Reverses(q) => \/ q.debit = 0 /\ pays'[q.pid].meth = "cash"
                         \/ q.debit # 0 /\ pays'[q.pid].debit = q.debit /\ debits'[q.debit].st = "refunded"
      BY <1>4, <1>11, <3>1 DEF ReqAgrees, Plain
    <3>7. ReqAgrees(q, pays', debits')
      BY <3>3, <3>4, <3>5, <3>6 DEF ReqAgrees, Pays
    <3> QED BY <3>7 DEF q
  <2> QED BY <1>10, <2>1, IdlePlain, PlainAgrees, ReqsBuild DEF StripeInv
<1>14. ClaimsHold'
  BY <1>8, <1>11, ClaimsStay DEF StripeInv
<1>15. Stray' \subseteq Stray
  <2>1. \A j \in Debits : RowTells(j) => RowTells(j)'
    <3> SUFFICES ASSUME NEW j \in Debits, RowTells(j) PROVE RowTells(j)'
      OBVIOUS
    <3>1. PICK p \in Pays : pays[p].debit = j /\ (debits[j].st = "refunded" => pays[p].status = "refunded")
      BY DEF RowTells
    <3>2. pays'[p].debit = j /\ (debits'[j].st = "refunded" => pays'[p].status = "refunded")
      BY <1>4, <1>6, <1>9, <1>11, <3>1
    <3> QED BY <1>9, <3>2 DEF RowTells
  <2>2. \A j \in Debits : j = d => RowTells(j)'
    <3> SUFFICES ASSUME NEW j \in Debits, j = d PROVE RowTells(j)'
      OBVIOUS
    <3>1. pays'[i].debit = j /\ pays'[i].status = "refunded"
      BY <1>2, <1>6, <1>9
    <3> HIDE DEF i
    <3>2. \E p \in Pays' : pays'[p].debit = j /\ pays'[p].status = "refunded"
      BY <1>2, <1>9, <3>1
    <3> QED BY <3>2 DEF RowTells
  <2>3. Debits' = Debits
    BY <1>4 DEF Debits
  <2> QED BY <1>10, <2>1, <2>2, <2>3, StrayGoes
<1> QED BY <1>5, <1>12, <1>13, <1>14, <1>15, StrayStays DEF StripeInv

LEMMA StripeIdles == ASSUME RentTyped, RentTyped', StripeInv, UNCHANGED rentOnly PROVE StripeInv'
<1>1. UNCHANGED <<req, page, budget, debits, pays>>
  BY DEF rentOnly, money
<1>2. budget'.haps >= budget.haps /\ \A s \in Screens : page'[s].claim \in {page[s].claim, 0}
  BY <1>1, CountsFinite
<1> QED BY <1>1, <1>2, StaysQuiet

LEMMA StripeStep == ASSUME RentTyped, RentTyped', StripeInv, RentNext PROVE StripeInv'
<1>1. CASE LeaseEnds
  <2>1. UNCHANGED rentOnly
    BY <1>1 DEF LeaseEnds, rentOnly
  <2> QED BY <2>1, StripeIdles
<1>2. ASSUME NEW r \in Reqs, ServerStep(r) PROVE StripeInv'
  BY <1>2, ServedStripe, PayRowStripe, PayStripeStripe, PayStoreStripe, RecordStripe, RefundCheckStripe, RefundStripeStripe,
     RefundReverseStripe DEF ServerStep
<1> QED BY <1>1, <1>2, PageStripe, HapStripe, SettleStripe DEF RentNext

LEMMA StripeInit == ASSUME RentInit PROVE StripeInv
<1>1. RentTyped
  BY RentInitTyped
<1>2. Len(pays) = 0 /\ Len(debits) = 0 /\ Pays = {} /\ Debits = {} /\ (\A r \in Reqs : req[r] = Idle) /\ (\A s \in Screens : page[s] = Closed)
  BY DEF RentInit, Pays, Debits
<1>3. RowsAgree
  BY <1>2 DEF RowsAgree
<1>4. ReqsAgree
  BY <1>2, IdlePlain, PlainAgrees DEF ReqsAgree
<1>5. ClaimsHold
  BY <1>2 DEF ClaimsHold, Closed
<1>6. Cardinality(Stray) = 0
  <2>1. Stray = {}
    BY <1>2 DEF Stray
  <2> QED BY <2>1, FS_EmptySet
<1>7. Cardinality(Stray) <= budget.haps
  BY <1>6 DEF RentInit
<1> QED BY <1>3, <1>4, <1>5, <1>7 DEF StripeInv

LEMMA StripeTells == ASSUME RentTyped, StripeInv PROVE StripeAgrees
<1>1. Unknown \subseteq Stray
  <2> SUFFICES ASSUME NEW i \in Unknown PROVE i \in Stray
    OBVIOUS
  <2>1. i \in Debits /\ i \notin HeldDebits /\ i # 0
    BY DEF Unknown, Debits
  <2>2. ~Handled(i)
    BY <2>1 DEF HeldDebits, Handled
  <2>3. ~RowTells(i)
    <3> SUFFICES ASSUME RowTells(i) PROVE FALSE
      OBVIOUS
    <3>1. PICK p \in Pays : pays[p].debit = i /\ (debits[i].st = "refunded" => pays[p].status = "refunded")
      BY DEF RowTells
    <3>2. debits[i].st = "refunded" /\ \E a \in Pays : pays[a].debit = i /\ pays[a].status # "refunded"
      BY <3>1 DEF Unknown
    <3> QED BY <2>1, <3>1, <3>2 DEF StripeInv, RowsAgree
  <2> QED BY <2>1, <2>2, <2>3 DEF Stray
<1>2. Cardinality(Unknown) \in Nat /\ Cardinality(Unknown) <= Cardinality(Stray)
  BY <1>1, StrayFinite, CardSame
<1>3. Cardinality(Unknown) <= budget.haps
  <2> DEFINE Fit(c, d, h) == d <= c /\ c <= h
  <2>1. ASSUME NEW c \in Nat, NEW d \in Nat, NEW h \in Nat, Fit(c, d, h) PROVE d <= h
    BY <2>1
  <2>2. Fit(Cardinality(Stray), Cardinality(Unknown), budget.haps)
    BY <1>2 DEF StripeInv
  <2> HIDE DEF Fit
  <2> QED BY <1>2, <2>1, <2>2, StrayFinite
<1> QED BY <1>3 DEF StripeInv, StripeAgrees, RowsAgree, ClaimsHold

-----------------------------------------------------------------------------
(* The rent pages: Plaid, the bank sources and the tenant's row            *)

\* requests that know what the row said, those that have removed that item, those about to save
Knows(q) == q.op \in {"link", "unlink"} /\ q.pc # "read"
Took(q)  == Knows(q) /\ q.pc # "remove"
Saves(q) == q.op = "link" /\ q.pc = "save"
Knowing == {r \in Reqs : Knows(req[r])}
HadBy(i) == \E r \in Reqs : Took(req[r]) /\ req[r].item = i
Coming(i) == \E r \in Reqs : Saves(req[r]) /\ req[r].fresh = i

\* live items nobody will name, and a named item that is gone
Lost == {i \in Items : items[i] /\ ~Coming(i) /\ (i # bank.item \/ HadBy(i))}
Dead == {i \in Items : i = bank.item /\ ~items[i] /\ ~HadBy(i)}
\* how many requests may yet write over what another one wrote
AllFresh == \A r \in Knowing : req[r].item = bank.item
Late == IF AllFresh THEN Greater(0, Cardinality(Knowing) - 1) ELSE Cardinality(Knowing)

SaveFits(q, b, its, srcs) ==
  Saves(q) => its[q.fresh] = TRUE /\ q.fresh # b.item /\ q.item # q.fresh /\ srcs[q.pm] = q.cust
Apart(q, x) == Saves(q) => (Knows(x) => x.item # q.fresh) /\ (Saves(x) => x.fresh # q.fresh)
SavesFit ==
  /\ \A r \in Reqs : SaveFits(req[r], bank, items, sources)
  /\ \A r, x \in Reqs : r # x => Apart(req[r], req[x])
SourceFits == bank.pm # 0 => sources[bank.pm] = bank.cust

Wayward(l, d, t, s) == l + d + t <= s
BankInv == Wayward(Cardinality(Lost), Cardinality(Dead), Late, strays) /\ SavesFit /\ SourceFits

LEMMA KnowPlace == ASSUME RentTyped, NEW r \in Reqs
  PROVE /\ req[r].item \in Nat /\ req[r].item <= Len(items) /\ req[r].fresh \in Nat /\ req[r].fresh <= Len(items)
        /\ req[r].pm \in Nat /\ req[r].pm <= Len(sources)
        /\ Saves(req[r]) => req[r].fresh \in Items /\ req[r].fresh # 0 /\ req[r].pm \in 1..Len(sources)
        /\ req[r].pc = "remove" => req[r].item \in Items /\ req[r].op \in {"link", "unlink"}
<1>1. req[r] \in RentReqs /\ InTurn(req[r]) /\ Below(req[r], Sizes)
  BY ReqHere DEF RentReqOK
<1>2. /\ req[r].item \in Nat /\ req[r].item <= Len(items) /\ req[r].fresh \in Nat /\ req[r].fresh <= Len(items)
      /\ req[r].pm \in Nat /\ req[r].pm <= Len(sources)
  BY <1>1 DEF RentReqs, Below, Sizes
<1>3. Saves(req[r]) => req[r].fresh >= 1 /\ req[r].pm >= 1
  BY <1>1 DEF InTurn, Saves
<1>4. req[r].pc = "remove" => req[r].item >= 1 /\ req[r].op \in {"link", "unlink"}
  BY <1>1 DEF InTurn
<1>5. Len(items) \in Nat /\ Len(sources) \in Nat
  BY DEF RentTyped, LinkTyped
<1> QED BY <1>2, <1>3, <1>4, <1>5 DEF Items

LEMMA BankPlace == ASSUME RentTyped
  PROVE /\ Len(items) \in Nat /\ Len(sources) \in Nat /\ bank.item \in Nat /\ bank.item <= Len(items)
        /\ bank.pm \in Nat /\ bank.pm <= Len(sources) /\ strays \in Nat
        /\ \A i \in Items : items[i] \in BOOLEAN
BY DEF RentTyped, LinkTyped, RestTyped, Items

LEMMA KnowingFinite == ASSUME RentTyped
  PROVE /\ IsFiniteSet(Knowing) /\ Cardinality(Knowing) \in Nat
        /\ IsFiniteSet(Lost) /\ Cardinality(Lost) \in Nat
        /\ IsFiniteSet(Dead) /\ Cardinality(Dead) \in Nat
<1>1. IsFiniteSet(Reqs) /\ Knowing \subseteq Reqs
  BY RentFacts DEF Knowing
<1>2. IsFiniteSet(Items) /\ Lost \subseteq Items /\ Dead \subseteq Items
  <2>1. IsFiniteSet(1..Len(items))
    BY FS_Interval, BankPlace
  <2>2. Lost \subseteq Items /\ Dead \subseteq Items
    BY DEF Lost, Dead
  <2> QED BY <2>1, <2>2 DEF Items
<1> QED BY <1>1, <1>2, CardSame

LEMMA KnowingFinite2 == ASSUME RentTyped'
  PROVE /\ IsFiniteSet(Knowing') /\ Cardinality(Knowing)' \in Nat
        /\ Cardinality(Lost)' \in Nat /\ Cardinality(Dead)' \in Nat
<1>1. IsFiniteSet(Reqs) /\ Knowing' \subseteq Reqs
  BY RentFacts DEF Knowing
<1>2. IsFiniteSet(Items') /\ Lost' \subseteq Items' /\ Dead' \subseteq Items'
  <2>1. Len(items') \in Nat /\ Items' = 1..Len(items')
    BY DEF RentTyped, LinkTyped, Items
  <2>2. IsFiniteSet(1..Len(items'))
    BY <2>1, FS_Interval
  <2>3. Lost' \subseteq Items' /\ Dead' \subseteq Items'
    BY DEF Lost, Dead
  <2> QED BY <2>1, <2>2, <2>3
<1>3. Cardinality(Knowing)' = Cardinality(Knowing') /\ Cardinality(Lost)' = Cardinality(Lost') /\ Cardinality(Dead)' = Cardinality(Dead')
  OBVIOUS
<1> QED BY <1>1, <1>2, <1>3, CardSame

LEMMA LateFacts == ASSUME RentTyped
  PROVE /\ Late \in Nat /\ Late <= Cardinality(Knowing) /\ Cardinality(Knowing) <= Late + 1
        /\ ~AllFresh => Late = Cardinality(Knowing)
        /\ AllFresh => Late = IF Knowing = {} THEN 0 ELSE Cardinality(Knowing) - 1
        /\ Knowing = {} => Late = 0 /\ Cardinality(Knowing) = 0
<1>1. Cardinality(Knowing) \in Nat /\ (Knowing = {} <=> Cardinality(Knowing) = 0)
  BY KnowingFinite, FS_EmptySet
<1>2. Knowing = {} => AllFresh
  BY DEF AllFresh
<1>3. CASE AllFresh
  <2>1. Late = Greater(0, Cardinality(Knowing) - 1)
    BY <1>3 DEF Late
  <2>2. CASE Knowing = {}
    <3>1. Late = 0
      BY <1>1, <2>1, <2>2 DEF Greater
    <3> QED BY <1>1, <1>3, <2>2, <3>1
  <2>3. CASE Knowing # {}
    <3>1. Cardinality(Knowing) >= 1
      BY <1>1, <2>3
    <3>2. Late = Cardinality(Knowing) - 1
      BY <1>1, <2>1, <3>1 DEF Greater
    <3> QED BY <1>1, <1>3, <2>3, <3>1, <3>2
  <2> QED BY <2>2, <2>3
<1>4. CASE ~AllFresh
  <2>1. Late = Cardinality(Knowing)
    BY <1>4 DEF Late
  <2> QED BY <1>1, <1>2, <1>4, <2>1
<1> QED BY <1>3, <1>4

LEMMA LateFacts2 == ASSUME RentTyped'
  PROVE /\ Late' \in Nat /\ Late' <= Cardinality(Knowing)'
        /\ AllFresh' => Late' = IF Knowing' = {} THEN 0 ELSE Cardinality(Knowing)' - 1
        /\ Knowing' = {} => Late' = 0
<1>0. Cardinality(Knowing)' = Cardinality(Knowing')
  OBVIOUS
<1>1. Cardinality(Knowing)' \in Nat /\ (Knowing' = {} <=> Cardinality(Knowing)' = 0)
  BY <1>0, KnowingFinite2, FS_EmptySet
<1>2. Knowing' = {} => AllFresh'
  BY DEF AllFresh
<1>3. CASE AllFresh'
  <2>1. Late' = Greater(0, Cardinality(Knowing)' - 1)
    BY <1>3 DEF Late
  <2>2. CASE Knowing' = {}
    <3>1. Late' = 0
      BY <1>1, <2>1, <2>2 DEF Greater
    <3> QED BY <1>1, <1>3, <2>2, <3>1
  <2>3. CASE Knowing' # {}
    <3>1. Cardinality(Knowing)' >= 1
      BY <1>1, <2>3
    <3>2. Late' = Cardinality(Knowing)' - 1
      BY <1>1, <2>1, <3>1 DEF Greater
    <3> QED BY <1>1, <1>3, <2>3, <3>1, <3>2
  <2> QED BY <2>2, <2>3
<1>4. CASE ~AllFresh'
  <2>1. Late' = Cardinality(Knowing)'
    BY <1>4 DEF Late
  <2> QED BY <1>1, <1>2, <1>4, <2>1
<1> QED BY <1>3, <1>4


LEMMA WaywardNats == ASSUME RentTyped, RentTyped'
  PROVE /\ Cardinality(Lost) \in Nat /\ Cardinality(Dead) \in Nat /\ Late \in Nat /\ strays \in Nat
        /\ Cardinality(Lost)' \in Nat /\ Cardinality(Dead)' \in Nat /\ Late' \in Nat /\ strays' \in Nat
BY KnowingFinite, KnowingFinite2, LateFacts, LateFacts2 DEF RentTyped, RestTyped

One(cond) == IF cond THEN 1 ELSE 0

LEMMA CardPerhaps == ASSUME NEW S, IsFiniteSet(S), NEW T, NEW x, NEW c \in BOOLEAN, T \subseteq S \cup {x}, ~c => T \subseteq S
  PROVE Cardinality(T) <= Cardinality(S) + One(c)
<1>1. CASE c
  BY <1>1, CardGain DEF One
<1>2. CASE ~c
  <2>1. Cardinality(T) \in Nat /\ Cardinality(S) \in Nat /\ Cardinality(T) <= Cardinality(S)
    BY <1>2, CardSame
  <2> QED BY <1>2, <2>1 DEF One
<1> QED BY <1>1, <1>2

LEMMA WaywardStep ==
  ASSUME RentTyped, RentTyped', BankInv, NEW a \in {0, 1}, NEW b \in {0, 1}, NEW c \in {0, 1},
         Cardinality(Lost)' <= Cardinality(Lost) + a, Cardinality(Dead)' <= Cardinality(Dead) + b, Late' <= Late + c,
         strays' = strays + a + b + c
  PROVE Wayward(Cardinality(Lost)', Cardinality(Dead)', Late', strays')
<1> DEFINE Step(l, d, t, s, l2, d2, t2, s2) == l2 <= l + a /\ d2 <= d + b /\ t2 <= t + c /\ s2 = s + a + b + c /\ Wayward(l, d, t, s)
<1>1. ASSUME NEW l \in Nat, NEW d \in Nat, NEW t \in Nat, NEW s \in Nat, NEW l2 \in Nat, NEW d2 \in Nat, NEW t2 \in Nat, NEW s2 \in Nat,
             Step(l, d, t, s, l2, d2, t2, s2)
      PROVE Wayward(l2, d2, t2, s2)
  BY <1>1 DEF Wayward
<1>2. Step(Cardinality(Lost), Cardinality(Dead), Late, strays, Cardinality(Lost)', Cardinality(Dead)', Late', strays')
  BY DEF BankInv
<1> HIDE DEF Step
<1> QED BY <1>1, <1>2, WaywardNats

\* a late writer may leave one item unnamed
LEMMA WaywardLate ==
  ASSUME RentTyped, RentTyped', BankInv,
         Cardinality(Lost)' <= Cardinality(Lost) + 1, Cardinality(Dead)' <= Cardinality(Dead), Late' + 1 <= Late,
         strays' = strays
  PROVE Wayward(Cardinality(Lost)', Cardinality(Dead)', Late', strays')
<1> DEFINE Step(l, d, t, s, l2, d2, t2, s2) == l2 <= l + 1 /\ d2 <= d /\ t2 + 1 <= t /\ s2 = s /\ Wayward(l, d, t, s)
<1>1. ASSUME NEW l \in Nat, NEW d \in Nat, NEW t \in Nat, NEW s \in Nat, NEW l2 \in Nat, NEW d2 \in Nat, NEW t2 \in Nat, NEW s2 \in Nat,
             Step(l, d, t, s, l2, d2, t2, s2)
      PROVE Wayward(l2, d2, t2, s2)
  BY <1>1 DEF Wayward
<1>2. Step(Cardinality(Lost), Cardinality(Dead), Late, strays, Cardinality(Lost)', Cardinality(Dead)', Late', strays')
  BY DEF BankInv
<1> HIDE DEF Step
<1> QED BY <1>1, <1>2, WaywardNats

LEMMA SavesBuild ==
  ASSUME SavesFit, NEW r \in Reqs, NEW new, \A x \in Reqs : req'[x] = IF x = r THEN new ELSE req[x],
         SaveFits(new, bank', items', sources'),
         \A x \in Reqs \ {r} : SaveFits(req[x], bank', items', sources') /\ Apart(new, req[x]) /\ Apart(req[x], new)
  PROVE SavesFit'
<1>1. \A x \in Reqs : SaveFits(req'[x], bank', items', sources')
  OBVIOUS
<1>2. ASSUME NEW y \in Reqs, NEW x \in Reqs, y # x PROVE Apart(req'[y], req'[x])
  BY <1>2 DEF SavesFit
<1> QED BY <1>1, <1>2 DEF SavesFit

SameForBank(q, p) == q.op = p.op /\ q.pc = p.pc /\ q.item = p.item /\ q.fresh = p.fresh /\ q.cust = p.cust /\ q.pm = p.pm

LEMMA SameKnows == ASSUME NEW q, NEW p, SameForBank(q, p)
  PROVE /\ Knows(q) = Knows(p) /\ Took(q) = Took(p) /\ Saves(q) = Saves(p) /\ q.item = p.item /\ q.fresh = p.fresh
        /\ \A b, its, srcs : SaveFits(p, b, its, srcs) => SaveFits(q, b, its, srcs)
        /\ \A x, y : SameForBank(y, x) /\ Apart(p, x) => Apart(q, y)
<1>1. Knows(q) = Knows(p) /\ Took(q) = Took(p) /\ Saves(q) = Saves(p) /\ q.item = p.item /\ q.fresh = p.fresh
  BY DEF SameForBank, Knows, Took, Saves
<1>2. \A b, its, srcs : SaveFits(p, b, its, srcs) => SaveFits(q, b, its, srcs)
  BY <1>1 DEF SaveFits, SameForBank
<1>3. \A x, y : SameForBank(y, x) /\ Apart(p, x) => Apart(q, y)
  BY <1>1 DEF Apart, SameForBank, Knows, Saves
<1> QED BY <1>1, <1>2, <1>3

LEMMA Outside == ASSUME NEW q, ~Knows(q)
  PROVE ~Took(q) /\ ~Saves(q) /\ (\A b, its, srcs : SaveFits(q, b, its, srcs)) /\ \A x : Apart(q, x) /\ Apart(x, q)
BY DEF Knows, Took, Saves, SaveFits, Apart

LEMMA IdleOutside == ~Knows(Idle)
BY DEF Knows, Idle

\* requests that neither enter nor leave, nor go on
LEMMA BankQuiet ==
  ASSUME RentTyped, RentTyped', BankInv, UNCHANGED <<bank, items, sources, strays>>,
         \A x \in Reqs : SameForBank(req'[x], req[x]) \/ (~Knows(req'[x]) /\ ~Knows(req[x]))
  PROVE BankInv'
<1>1. \A x \in Reqs : /\ Knows(req'[x]) = Knows(req[x]) /\ Took(req'[x]) = Took(req[x]) /\ Saves(req'[x]) = Saves(req[x])
                      /\ Knows(req[x]) => req'[x].item = req[x].item /\ req'[x].fresh = req[x].fresh
  BY DEF SameForBank, Knows, Took, Saves
<1>2. \A x \in Reqs : (Took(req[x]) \/ Saves(req[x])) => Knows(req[x])
  BY Outside
<1>3. Knowing' = Knowing
  BY <1>1 DEF Knowing
<1>4. \A i : HadBy(i)' = HadBy(i) /\ Coming(i)' = Coming(i)
  BY <1>1, <1>2 DEF HadBy, Coming
<1>5. Lost' = Lost /\ Dead' = Dead
  BY <1>4 DEF Lost, Dead, Items
<1>6. AllFresh' = AllFresh
  BY <1>1, <1>3 DEF AllFresh, Knowing
<1>7. Late' = Late
  BY <1>3, <1>6 DEF Late
<1>8. SavesFit'
  <2>1. \A x \in Reqs : SaveFits(req'[x], bank', items', sources')
    BY SameKnows, Outside DEF BankInv, SavesFit
  <2>2. ASSUME NEW y \in Reqs, NEW x \in Reqs, y # x PROVE Apart(req'[y], req'[x])
    <3>1. CASE ~Knows(req'[x]) \/ ~Knows(req'[y])
      BY <3>1, Outside
    <3>2. CASE SameForBank(req'[x], req[x]) /\ SameForBank(req'[y], req[y])
      BY <2>2, <3>2, SameKnows DEF BankInv, SavesFit
    <3> QED BY <3>1, <3>2
  <2> QED BY <2>1, <2>2 DEF SavesFit
<1>9. Wayward(Cardinality(Lost)', Cardinality(Dead)', Late', strays')
  BY <1>5, <1>7 DEF BankInv
<1> QED BY <1>8, <1>9 DEF BankInv, SourceFits

LEMMA BankGoes ==
  ASSUME RentTyped, RentTyped', BankInv, UNCHANGED <<bank, items, sources, strays>>, NEW r \in Reqs, NEW new, Goes(r, new),
         SameForBank(new, req[r]) \/ (~Knows(new) /\ ~Knows(req[r]))
  PROVE BankInv'
<1>1. \A x \in Reqs : req'[x] = IF x = r THEN new ELSE req[x]
  BY ReqMoves
<1>2. \A x \in Reqs : SameForBank(req[x], req[x])
  BY DEF SameForBank
<1>3. \A x \in Reqs : SameForBank(req'[x], req[x]) \/ (~Knows(req'[x]) /\ ~Knows(req[x]))
  BY <1>1, <1>2
<1> QED BY <1>3, BankQuiet

LEMMA BankStays ==
  ASSUME RentTyped, RentTyped', BankInv, UNCHANGED <<bank, items, sources, strays, req>>
  PROVE BankInv'
<1>2. \A x \in Reqs : SameForBank(req'[x], req[x])
  BY DEF SameForBank
<1> QED BY <1>2, BankQuiet

\* a request leaves
LEMMA KnowingLeaves == ASSUME RentTyped, NEW r \in Reqs, Knows(req[r]), \A x \in Reqs : req'[x] = IF x = r THEN Idle ELSE req[x]
  PROVE /\ Knowing' = Knowing \ {r} /\ r \in Knowing /\ Cardinality(Knowing)' = Cardinality(Knowing) - 1
        /\ \A i : (HadBy(i)' => HadBy(i)) /\ (HadBy(i) => HadBy(i)' \/ (Took(req[r]) /\ req[r].item = i))
        /\ \A i : (Coming(i)' => Coming(i)) /\ (Coming(i) => Coming(i)' \/ (Saves(req[r]) /\ req[r].fresh = i))
<1>1. Knowing' = Knowing \ {r} /\ r \in Knowing
  BY IdleOutside DEF Knowing
<1>2. Cardinality(Knowing)' = Cardinality(Knowing') /\ Cardinality(Knowing \ {r}) = Cardinality(Knowing) - 1
  BY <1>1, KnowingFinite, FS_RemoveElement
<1>3. \A i : (HadBy(i)' => HadBy(i)) /\ (HadBy(i) => HadBy(i)' \/ (Took(req[r]) /\ req[r].item = i))
  BY IdleOutside, Outside DEF HadBy
<1>4. \A i : (Coming(i)' => Coming(i)) /\ (Coming(i) => Coming(i)' \/ (Saves(req[r]) /\ req[r].fresh = i))
  BY IdleOutside, Outside DEF Coming
<1> QED BY <1>1, <1>2, <1>3, <1>4

LEMMA Leaves ==
  ASSUME RentTyped, RentTyped', NEW r \in Reqs, Knows(req[r]), Goes(r, Idle)
  PROVE Late' <= Late
<1>1. \A x \in Reqs : req'[x] = IF x = r THEN Idle ELSE req[x]
  BY ReqMoves
<1>2. Knowing' = Knowing \ {r} /\ r \in Knowing /\ Cardinality(Knowing)' = Cardinality(Knowing) - 1
  BY <1>1, KnowingLeaves
<1>3. Late' \in Nat /\ Late' <= Cardinality(Knowing)' /\ Late \in Nat /\ Cardinality(Knowing) <= Late + 1 /\ Cardinality(Knowing) \in Nat
  BY LateFacts, LateFacts2, KnowingFinite
<1> DEFINE Fit(k, k2, t, t2) == k2 = k - 1 /\ t2 <= k2 /\ k <= t + 1
<1>4. ASSUME NEW k \in Nat, NEW k2 \in Nat, NEW t \in Nat, NEW t2 \in Nat, Fit(k, k2, t, t2) PROVE t2 <= t
  BY <1>4
<1>5. Fit(Cardinality(Knowing), Cardinality(Knowing)', Late, Late')
  BY <1>2, <1>3
<1>6. Cardinality(Knowing)' \in Nat
  BY KnowingFinite2
<1> HIDE DEF Fit
<1> QED BY <1>3, <1>4, <1>5, <1>6

LEMMA LeavesFit ==
  ASSUME RentTyped, BankInv, UNCHANGED <<bank, sources>>, NEW r \in Reqs, Goes(r, Idle),
         \A x \in Reqs : Saves(req[x]) => items'[req[x].fresh] = TRUE
  PROVE SavesFit' /\ \A x \in Reqs : req'[x] = IF x = r THEN Idle ELSE req[x]
<1>1. \A x \in Reqs : req'[x] = IF x = r THEN Idle ELSE req[x]
  BY ReqMoves
<1>2. \A x \in Reqs : SaveFits(req[x], bank', items', sources')
  BY DEF BankInv, SavesFit, SaveFits
<1>3. SavesFit'
  BY <1>1, <1>2, IdleOutside, Outside, SavesBuild DEF BankInv
<1> QED BY <1>1, <1>3

LEMMA PageBank == ASSUME RentTyped, RentTyped', BankInv, NEW s \in Screens, PageStep(s) PROVE BankInv'
<1>1. CASE \E at \in {"pay", "settings", "history", "desk"} : Open(s, at)
  <2>1. PICK at \in {"pay", "settings", "history", "desk"} : Open(s, at)
    BY <1>1
  <2>2. UNCHANGED <<bank, items, sources, strays>>
    BY <2>1 DEF Open, link
  <2>3. \A x \in Reqs : SameForBank(req'[x], req[x])
    <3> SUFFICES ASSUME NEW x \in Reqs PROVE SameForBank(req'[x], req[x])
      OBVIOUS
    <3>1. req'[x] = IF req[x].scr = s THEN [req[x] EXCEPT !.scr = Nobody] ELSE req[x]
      BY <2>1 DEF Open
    <3>2. req[x] \in RentReqs
      BY ReqHere
    <3> QED BY <3>1, <3>2 DEF SameForBank, RentReqs
  <2> QED BY <2>2, <2>3, BankQuiet
<1>2. CASE \/ \E k \in page[s].need : Load(s, k) \/ LoadFails(s, k)
           \/ PressLink(s) \/ WidgetExit(s)
  <2>1. UNCHANGED <<bank, items, sources, strays, req>>
    BY <1>2 DEF Load, LoadFails, PressLink, WidgetExit, link
  <2> QED BY <2>1, BankStays
<1>3. ASSUME NEW r \in Reqs, Presses(s, r) PROVE BankInv'
  <2>1. UNCHANGED <<bank, items, sources, strays>> /\ req[r].pc = "idle"
    BY <1>3 DEF Presses, PressPay, WidgetSuccess, PressUnlink, PressProfile, PressPassword, PressRecord, PressRefund, Sends, link
  <2>2. ~Knows(req[r])
    BY <2>1, ReqHere DEF InTurn, Knows
  <2>3. CASE WidgetSuccess(s, r)
    <3> DEFINE q == [Idle EXCEPT !.op = "link", !.pc = "read", !.scr = s]
    <3>1. Goes(r, q)
      BY <2>3 DEF WidgetSuccess
    <3>2. ~Knows(q)
      BY DEF Knows, Idle
    <3> HIDE DEF q
    <3> QED BY <2>1, <2>2, <3>1, <3>2, BankGoes
  <2>4. CASE ~WidgetSuccess(s, r)
    <3>1. PICK q \in RentReqs : Sends(s, r, q) /\ RentReqOK(q, Sizes) /\ q.pc \in {"lease", "read", "put", "check", "write"}
      BY <1>3, <2>4, PressSends DEF Presses
    <3> DEFINE qs == [q EXCEPT !.scr = s]
    <3>2. Goes(r, qs)
      BY <3>1 DEF Sends
    <3>3. qs.op = q.op /\ qs.pc = q.pc
      BY DEF RentReqs
    <3> HIDE DEF qs
    <3>4. ~Knows(qs)
      BY <3>1, <3>3 DEF Knows, RentReqOK, InTurn
    <3> QED BY <2>1, <2>2, <3>2, <3>4, BankGoes
  <2> QED BY <2>3, <2>4
<1> QED BY <1>1, <1>2, <1>3 DEF PageStep, Presses

LEMMA OthersBank ==
  ASSUME RentTyped, RentTyped', BankInv, NEW r \in Reqs,
         \/ PayLease(r) \/ PayBank(r) \/ PayRow(r) \/ PayStripe(r) \/ PayStore(r)
         \/ ProfilePut(r) \/ PasswordCheck(r) \/ PasswordPut(r)
         \/ RecordWrite(r) \/ RefundCheck(r) \/ RefundStripe(r) \/ RefundReverse(r)
  PROVE BankInv'
<1>1. UNCHANGED <<bank, items, sources, strays>>
  BY DEF PayLease, PayBank, PayRow, PayStripe, PayStore, ProfilePut, PasswordCheck, PasswordPut, RecordWrite, RefundCheck,
         RefundStripe, RefundReverse, link
<1>2. req[r].op \in {"pay", "profile", "password", "record", "refund"}
  BY DEF PayLease, PayBank, PayRow, PayStripe, PayStore, ProfilePut, PasswordCheck, PasswordPut, RecordWrite, RefundCheck,
         RefundStripe, RefundReverse, Stands
<1>3. ~Knows(req[r]) /\ req[r] \in RentReqs
  BY <1>2, ReqHere DEF Knows
<1>4. \E new : Goes(r, new) /\ ~Knows(new)
  <2>1. CASE \E ok \in BOOLEAN : Ends(r, ok)
    BY <2>1, IdleOutside DEF Ends
  <2>2. CASE PayRow(r)
    <3> DEFINE q == [req[r] EXCEPT !.pid = Len(pays) + 1]
    <3>1. Goes(r, [q EXCEPT !.pc = "stripe"]) \/ Goes(r, Idle)
      BY <2>2 DEF PayRow
    <3>2. [q EXCEPT !.pc = "stripe"].op = "pay"
      BY <1>3, <2>2 DEF PayRow, Stands, RentReqs
    <3>3. ~Knows([q EXCEPT !.pc = "stripe"])
      BY <3>2 DEF Knows
    <3> QED BY <3>1, <3>3, IdleOutside
  <2>3. CASE PayLease(r)
    <3> DEFINE new == [req[r] EXCEPT !.pc = IF req[r].meth = "bank" THEN "bank" ELSE "row"]
    <3>1. Goes(r, new) \/ Ends(r, FALSE)
      BY <2>3 DEF PayLease
    <3>2. ~Knows(new)
      BY <1>2, <1>3 DEF RentReqs, Knows
    <3> QED BY <2>1, <3>1, <3>2
  <2>4. CASE PayBank(r)
    <3> DEFINE new == [req[r] EXCEPT !.pc = "row", !.pm = bank.pm, !.cust = bank.cust]
    <3>1. Goes(r, new) \/ Ends(r, FALSE)
      BY <2>4 DEF PayBank
    <3>2. ~Knows(new)
      BY <1>2, <1>3 DEF RentReqs, Knows
    <3> QED BY <2>1, <3>1, <3>2
  <2>5. CASE PayStripe(r)
    <3> DEFINE new == [req[r] EXCEPT !.pc = "store", !.debit = Len(debits) + 1]
    <3>1. Goes(r, new) \/ Ends(r, FALSE)
      BY <2>5 DEF PayStripe
    <3>2. ~Knows(new)
      BY <1>2, <1>3 DEF RentReqs, Knows
    <3> QED BY <2>1, <3>1, <3>2
  <2>6. CASE PasswordCheck(r)
    <3> DEFINE new == [req[r] EXCEPT !.pc = "put"]
    <3>1. Goes(r, new) \/ Ends(r, FALSE)
      BY <2>6 DEF PasswordCheck
    <3>2. ~Knows(new)
      BY <1>2, <1>3 DEF RentReqs, Knows
    <3> QED BY <2>1, <3>1, <3>2
  <2>7. CASE RefundCheck(r)
    <3> DEFINE new == [req[r] EXCEPT !.pc = IF pays[req[r].pid].debit # 0 THEN "stripe" ELSE "reverse",
                                     !.debit = pays[req[r].pid].debit]
    <3>1. Goes(r, new) \/ Ends(r, FALSE)
      BY <2>7 DEF RefundCheck
    <3>2. ~Knows(new)
      BY <1>2, <1>3 DEF RentReqs, Knows
    <3> QED BY <2>1, <3>1, <3>2
  <2>8. CASE RefundStripe(r)
    <3> DEFINE new == [req[r] EXCEPT !.pc = "reverse"]
    <3>1. Goes(r, new) \/ Ends(r, FALSE)
      BY <2>8 DEF RefundStripe
    <3>2. ~Knows(new)
      BY <1>2, <1>3 DEF RentReqs, Knows
    <3> QED BY <2>1, <3>1, <3>2
  <2>9. CASE PayStore(r) \/ ProfilePut(r) \/ PasswordPut(r) \/ RecordWrite(r) \/ RefundReverse(r)
    BY <2>1, <2>9 DEF PayStore, ProfilePut, PasswordPut, RecordWrite, RefundReverse
  <2> QED BY <2>2, <2>3, <2>4, <2>5, <2>6, <2>7, <2>8, <2>9
<1> QED BY <1>1, <1>3, <1>4, BankGoes

LEMMA ReadBank == ASSUME RentTyped, RentTyped', BankInv, NEW r \in Reqs, BankRead(r) PROVE BankInv'
<1>1. req[r] \in RentReqs /\ req[r].op \in {"link", "unlink"} /\ req[r].pc = "read" /\ ~Knows(req[r])
  BY ReqHere DEF BankRead, Knows
<1>2. UNCHANGED <<bank, items, sources>>
  BY DEF BankRead, link
<1>3. CASE Ends(r, FALSE) /\ UNCHANGED strays
  BY <1>1, <1>2, <1>3, IdleOutside, BankGoes DEF Ends
<1>4. CASE ~(Ends(r, FALSE) /\ UNCHANGED strays)
  <2> DEFINE new == [req[r] EXCEPT !.item = bank.item, !.cust = bank.cust, !.pc = IF bank.item = 0 THEN "obtain" ELSE "remove"]
  <2>1. Goes(r, new) /\ strays' = IF Overlapping(r) # {} THEN strays + 1 ELSE strays
    BY <1>4 DEF BankRead
  <2>2. new.op = req[r].op /\ new.item = bank.item /\ new.pc = IF bank.item = 0 THEN "obtain" ELSE "remove"
    BY <1>1 DEF RentReqs
  <2> HIDE DEF new
  <2>3. \A x \in Reqs : req'[x] = IF x = r THEN new ELSE req[x]
    BY <2>1, ReqMoves
  <2>4. Knows(new) /\ ~Saves(new) /\ (Took(new) => bank.item = 0)
    BY <1>1, <2>2 DEF Knows, Took, Saves
  <2>5. Overlapping(r) = Knowing /\ r \notin Knowing
    BY <1>1 DEF Overlapping, Knowing, Knows
  <2>6. Knowing' = Knowing \cup {r}
    BY <2>3, <2>4 DEF Knowing
  <2>7. \A i \in Items : HadBy(i)' = HadBy(i) /\ Coming(i)' = Coming(i)
    <3> SUFFICES ASSUME NEW i \in Items PROVE HadBy(i)' = HadBy(i) /\ Coming(i)' = Coming(i)
      OBVIOUS
    <3>1. i # 0
      BY DEF Items
    <3>2. ~(Took(new) /\ new.item = i)
      BY <2>2, <2>4, <3>1
    <3>3. ~Took(req[r]) /\ ~Saves(req[r])
      BY <1>1, Outside
    <3>4. HadBy(i)' <=> HadBy(i)
      BY <2>3, <3>2, <3>3 DEF HadBy
    <3>5. Coming(i)' <=> Coming(i)
      BY <2>3, <2>4, <3>3 DEF Coming
    <3>6. HadBy(i)' \in BOOLEAN /\ HadBy(i) \in BOOLEAN /\ Coming(i)' \in BOOLEAN /\ Coming(i) \in BOOLEAN
      BY DEF HadBy, Coming
    <3> QED BY <3>4, <3>5, <3>6
  <2>8. Lost' = Lost /\ Dead' = Dead
    BY <1>2, <2>7 DEF Lost, Dead, Items
  <2>9. SavesFit'
    <3>1. SaveFits(new, bank', items', sources')
      BY <2>4 DEF SaveFits
    <3>2. \A x \in Reqs \ {r} : SaveFits(req[x], bank', items', sources')
      BY <1>2 DEF BankInv, SavesFit
    <3>3. \A x \in Reqs \ {r} : Apart(new, req[x]) /\ Apart(req[x], new)
      BY <2>2, <2>4 DEF BankInv, SavesFit, SaveFits, Apart
    <3> QED BY <2>3, <3>1, <3>2, <3>3, SavesBuild DEF BankInv
  <2>10. AllFresh' <=> AllFresh
    BY <1>2, <2>2, <2>3, <2>5, <2>6 DEF AllFresh, Knowing
  <2>11. Cardinality(Knowing)' = Cardinality(Knowing) + 1
    <3>1. Cardinality(Knowing)' = Cardinality(Knowing \cup {r})
      BY <2>6
    <3> QED BY <2>5, <3>1, KnowingFinite, FS_AddElement
  <2>12. Wayward(Cardinality(Lost)', Cardinality(Dead)', Late', strays')
    <3>0. Cardinality(Lost)' = Cardinality(Lost) /\ Cardinality(Dead)' = Cardinality(Dead)
      BY <2>8
    <3>1. CASE Knowing = {}
      <4>1. AllFresh' /\ Late = 0 /\ Cardinality(Knowing) = 0
        BY <2>10, <3>1, LateFacts DEF AllFresh
      <4>2. Knowing' # {}
        BY <2>6
      <4>3. Late' = 0
        BY <2>11, <4>1, <4>2, LateFacts2
      <4>4. strays' = strays
        BY <2>1, <2>5, <3>1
      <4> QED BY <3>0, <4>1, <4>3, <4>4 DEF BankInv
    <3>2. CASE Knowing # {}
      <4>1. strays' = strays + 1
        BY <2>1, <2>5, <3>2
      <4>2. Late' <= Late + 1
        <5>1. Knowing' # {} /\ Cardinality(Knowing) \in Nat
          BY <2>6, KnowingFinite
        <5>2. CASE AllFresh
          <6>1. Late = Cardinality(Knowing) - 1 /\ Late' = Cardinality(Knowing)' - 1
            BY <2>10, <3>2, <5>1, <5>2, LateFacts, LateFacts2
          <6> QED BY <2>11, <5>1, <6>1
        <5>3. CASE ~AllFresh
          <6>1. Late = Cardinality(Knowing) /\ Late' <= Cardinality(Knowing)'
            BY <5>3, LateFacts, LateFacts2
          <6> QED BY <2>11, <5>1, <6>1
        <5> QED BY <5>2, <5>3
      <4>3. strays' = strays + 0 + 0 + 1
        BY <4>1, WaywardNats
      <4>4. Cardinality(Lost)' <= Cardinality(Lost) + 0 /\ Cardinality(Dead)' <= Cardinality(Dead) + 0
        BY <3>0, WaywardNats
      <4> QED BY <4>2, <4>3, <4>4, WaywardStep
    <3> QED BY <3>1, <3>2
  <2> QED BY <1>2, <2>9, <2>12 DEF BankInv, SourceFits
<1> QED BY <1>3, <1>4

\* a request that has read the row goes on
LEMMA GoesOn ==
  ASSUME RentTyped, UNCHANGED bank, NEW r \in Reqs, NEW new, Goes(r, new), Knows(req[r]), Knows(new), new.item = req[r].item
  PROVE Late' = Late /\ \A x \in Reqs : req'[x] = IF x = r THEN new ELSE req[x]
<1>1. \A x \in Reqs : req'[x] = IF x = r THEN new ELSE req[x]
  BY ReqMoves
<1>2. Knowing' = Knowing
  BY <1>1 DEF Knowing
<1>3. AllFresh' = AllFresh
  BY <1>1, <1>2 DEF AllFresh, Knowing
<1> QED BY <1>1, <1>2, <1>3 DEF Late

LEMMA WaywardNone ==
  ASSUME RentTyped, RentTyped', BankInv, Lost' \subseteq Lost, Dead' \subseteq Dead, Late' <= Late, strays' = strays
  PROVE Wayward(Cardinality(Lost)', Cardinality(Dead)', Late', strays')
<1>1. Cardinality(Lost)' <= Cardinality(Lost) /\ Cardinality(Dead)' <= Cardinality(Dead)
  <2>1. Cardinality(Lost)' = Cardinality(Lost') /\ Cardinality(Dead)' = Cardinality(Dead')
    OBVIOUS
  <2> QED BY <2>1, KnowingFinite, CardSame
<1>2. Cardinality(Lost)' <= Cardinality(Lost) + 0 /\ Cardinality(Dead)' <= Cardinality(Dead) + 0 /\ Late' <= Late + 0
  BY <1>1, WaywardNats
<1>3. strays' = strays + 0 + 0 + 0
  BY WaywardNats
<1> QED BY <1>2, <1>3, WaywardStep

\* some items lost, some named though gone, for each a mishap
LEMMA WaywardMore ==
  ASSUME RentTyped, RentTyped', BankInv, NEW c \in BOOLEAN, NEW d \in BOOLEAN, NEW i, NEW j,
         Lost' \subseteq Lost \cup {i}, ~c => Lost' \subseteq Lost, Dead' \subseteq Dead \cup {j}, ~d => Dead' \subseteq Dead,
         Late' <= Late, strays' = strays + One(c) + One(d)
  PROVE Wayward(Cardinality(Lost)', Cardinality(Dead)', Late', strays')
<1>1. Cardinality(Lost)' <= Cardinality(Lost) + One(c) /\ Cardinality(Dead)' <= Cardinality(Dead) + One(d)
  <2>1. Cardinality(Lost)' = Cardinality(Lost') /\ Cardinality(Dead)' = Cardinality(Dead')
    OBVIOUS
  <2>2. Cardinality(Lost') <= Cardinality(Lost) + One(c)
    BY KnowingFinite, CardPerhaps
  <2>3. Cardinality(Dead') <= Cardinality(Dead) + One(d)
    BY KnowingFinite, CardPerhaps
  <2> QED BY <2>1, <2>2, <2>3
<1>2. One(c) \in {0, 1} /\ One(d) \in {0, 1}
  BY DEF One
<1>3. Late' <= Late + 0
  BY WaywardNats
<1>4. strays' = strays + One(c) + One(d) + 0
  BY <1>2, WaywardNats
<1> QED BY <1>1, <1>2, <1>3, <1>4, WaywardStep

LEMMA RemoveBank ==
  ASSUME RentTyped, RentTyped', BankInv, NEW r \in Reqs, BankRemove(r) PROVE BankInv'
<1> DEFINE q == req[r]
           new == [q EXCEPT !.pc = IF q.op = "link" THEN "obtain" ELSE "clear"]
<1>1. /\ q \in RentReqs /\ q.pc = "remove" /\ q.op \in {"link", "unlink"} /\ q.item \in Items /\ items[q.item] \in BOOLEAN
  BY ReqHere, KnowPlace, BankPlace DEF BankRemove
<1>2. UNCHANGED <<bank, sources>> /\ Goes(r, new)
  BY DEF BankRemove
<1>3. new.op = q.op /\ new.item = q.item /\ new.pc = IF q.op = "link" THEN "obtain" ELSE "clear"
  BY <1>1 DEF RentReqs
<1>4. \/ items' = [items EXCEPT ![q.item] = FALSE] /\ strays' = strays
      \/ strays' = strays + 1 /\ items' = items
  BY DEF BankRemove
<1> HIDE DEF new
<1>5. Knows(q) /\ ~Took(q) /\ ~Saves(q) /\ Knows(new) /\ Took(new) /\ ~Saves(new)
  BY <1>1, <1>3 DEF Knows, Took, Saves
<1>6. Late' = Late /\ \A x \in Reqs : req'[x] = IF x = r THEN new ELSE req[x]
  BY <1>2, <1>3, <1>5, GoesOn
<1>7. PICK it : it = q.item
  OBVIOUS
<1>8. \A i : (HadBy(i)' <=> HadBy(i) \/ i = it) /\ (Coming(i)' <=> Coming(i))
  <2>1. \A i : HadBy(i)' <=> HadBy(i) \/ i = it
    BY <1>3, <1>5, <1>6, <1>7 DEF HadBy
  <2>2. \A i : Coming(i)' <=> Coming(i)
    BY <1>5, <1>6 DEF Coming
  <2> QED BY <2>1, <2>2
<1>9. \A x \in Reqs \ {r} : Saves(req[x]) => req[x].fresh # it /\ req[x].fresh \in Items
  BY <1>5, <1>7, KnowPlace DEF BankInv, SavesFit, Apart
<1>10. items \in Seq(BOOLEAN) /\ Len(items) \in Nat
  BY DEF RentTyped, LinkTyped
<1>11. Len(items') = Len(items) /\ (\A i \in Items : i # it => items'[i] = items[i])
  BY <1>4, <1>7, <1>10 DEF Items
<1>12. SavesFit'
  <2>1. SaveFits(new, bank', items', sources')
    BY <1>5 DEF SaveFits
  <2>2. \A x \in Reqs \ {r} : SaveFits(req[x], bank', items', sources')
    BY <1>2, <1>9, <1>11 DEF BankInv, SavesFit, SaveFits
  <2>3. \A x \in Reqs \ {r} : Apart(new, req[x]) /\ Apart(req[x], new)
    BY <1>3, <1>5 DEF BankInv, SavesFit, Apart
  <2> QED BY <1>6, <2>1, <2>2, <2>3, SavesBuild DEF BankInv
<1>13. Dead' \subseteq Dead
  BY <1>2, <1>8, <1>11 DEF Dead, Items
<1>14. Lost' \subseteq Lost \cup {it}
  BY <1>2, <1>8, <1>11 DEF Lost, Items
<1>15. Wayward(Cardinality(Lost)', Cardinality(Dead)', Late', strays')
  <2>1. CASE items' = [items EXCEPT ![q.item] = FALSE] /\ strays' = strays
    <3>1. items'[it] = FALSE
      BY <1>1, <1>7, <1>10, <2>1 DEF Items
    <3>2. it \notin Lost'
      BY <3>1 DEF Lost
    <3>3. Lost' \subseteq Lost
      BY <1>14, <3>2
    <3>4. Late' <= Late
      BY <1>6, WaywardNats
    <3> QED BY <1>13, <2>1, <3>3, <3>4, WaywardNone
  <2>2. CASE strays' = strays + 1
    <3>1. strays' = strays + One(TRUE) + One(FALSE)
      BY <2>2, WaywardNats DEF One
    <3>2. Late' <= Late
      BY <1>6, WaywardNats
    <3>3. PICK c \in BOOLEAN, d \in BOOLEAN : c /\ ~d
      OBVIOUS
    <3>4. strays' = strays + One(c) + One(d)
      BY <3>1, <3>3
    <3>5. Dead' \subseteq Dead \cup {it}
      BY <1>13
    <3> QED BY <1>13, <1>14, <3>2, <3>3, <3>4, <3>5, WaywardMore
  <2> QED BY <1>4, <2>1, <2>2
<1> QED BY <1>2, <1>12, <1>15 DEF BankInv, SourceFits

\* a request ends early: a fresh item is lost with it, and an item it removed stays named
LEMMA EndsEarly ==
  ASSUME RentTyped, RentTyped', BankInv, NEW r \in Reqs, Knows(req[r]), Goes(r, Idle), UNCHANGED <<bank, items, sources>>,
         strays' = strays + One(Saves(req[r])) + One(Took(req[r]) /\ req[r].item # 0)
  PROVE BankInv'
<1>0. PICK i, j : i = req[r].fresh /\ j = req[r].item
  OBVIOUS
<1>1. PICK c \in BOOLEAN, d \in BOOLEAN : c = Saves(req[r]) /\ d = (Took(req[r]) /\ req[r].item # 0)
  BY DEF Saves, Took, Knows
<1>2. \A x \in Reqs : Saves(req[x]) => items'[req[x].fresh] = TRUE
  BY DEF BankInv, SavesFit, SaveFits
<1>3. SavesFit' /\ \A x \in Reqs : req'[x] = IF x = r THEN Idle ELSE req[x]
  BY <1>2, LeavesFit
<1>4. \A k : (HadBy(k)' => HadBy(k)) /\ (HadBy(k) => HadBy(k)' \/ (Took(req[r]) /\ k = j))
  BY <1>0, <1>1, <1>3, KnowingLeaves
<1>5. \A k : (Coming(k)' => Coming(k)) /\ (Coming(k) => Coming(k)' \/ (c /\ k = i))
  BY <1>0, <1>1, <1>3, KnowingLeaves
<1>6. Lost' \subseteq Lost \cup {i} /\ (~c => Lost' \subseteq Lost)
  BY <1>0, <1>4, <1>5 DEF Lost, Items
<1>7. Dead' \subseteq Dead \cup {j} /\ (~d => Dead' \subseteq Dead)
  <2>1. \A k \in Items : k # 0
    BY DEF Items
  <2>2. \A k \in Items : HadBy(k) => HadBy(k)' \/ (d /\ k = j)
    BY <1>0, <1>1, <1>4, <2>1
  <2> QED BY <2>2 DEF Dead, Items
<1>8. Late' <= Late
  BY Leaves
<1>9. strays' = strays + One(c) + One(d)
  BY <1>1
<1>10. Wayward(Cardinality(Lost)', Cardinality(Dead)', Late', strays')
  BY <1>6, <1>7, <1>8, <1>9, WaywardMore
<1> QED BY <1>3, <1>10 DEF BankInv, SourceFits

LEMMA SpoiltOne == ASSUME NEW q PROVE Spoilt(q) = One(q.item # 0)
BY DEF Spoilt, One

LEMMA Exchanges == ASSUME RentTyped, items' = Exchanged
  PROVE /\ Items' = Items \cup {Len(items) + 1} /\ Len(items) + 1 \notin Items /\ items'[Len(items) + 1] = TRUE
        /\ \A i \in Items : items'[i] = items[i]
        /\ Len(items) + 1 # bank.item /\ bank \in [item : Nat, cust : Nat, pm : Nat]
<1>1. items \in Seq(BOOLEAN) /\ Len(items) \in Nat /\ bank.item <= Len(items) /\ bank.item \in Nat /\ bank \in [item : Nat, cust : Nat, pm : Nat]
  BY BankPlace DEF RentTyped, LinkTyped
<1>2. Len(items') = Len(items) + 1 /\ items'[Len(items) + 1] = TRUE /\ \A i \in 1..Len(items) : items'[i] = items[i]
  BY <1>1 DEF Exchanged
<1> QED BY <1>1, <1>2 DEF Items

LEMMA FreshFits == ASSUME RentTyped, BankInv, items' = Exchanged
  PROVE \A x \in Reqs : /\ Saves(req[x]) => items'[req[x].fresh] = TRUE /\ req[x].fresh # Len(items) + 1
                        /\ req[x].item # Len(items) + 1
<1> SUFFICES ASSUME NEW x \in Reqs
    PROVE (Saves(req[x]) => items'[req[x].fresh] = TRUE /\ req[x].fresh # Len(items) + 1) /\ req[x].item # Len(items) + 1
  OBVIOUS
<1>1. req[x].item \in Nat /\ req[x].item <= Len(items) /\ (Saves(req[x]) => req[x].fresh \in Items)
  BY KnowPlace
<1>2. Saves(req[x]) => items[req[x].fresh] = TRUE
  BY DEF BankInv, SavesFit, SaveFits
<1>3. Len(items) \in Nat
  BY BankPlace
<1> QED BY <1>1, <1>2, <1>3, Exchanges

\* the new item is known, then the request fails
LEMMA ExchangedThenFailed ==
  ASSUME RentTyped, RentTyped', BankInv, NEW r \in Reqs, Knows(req[r]), Took(req[r]), ~Saves(req[r]), Goes(r, Idle),
         UNCHANGED <<bank, sources>>, items' = Exchanged, strays' = strays + 1 + Spoilt(req[r])
  PROVE BankInv'
<1>0. PICK n, j : n = Len(items) + 1 /\ j = req[r].item
  OBVIOUS
<1>1. PICK c \in BOOLEAN, d \in BOOLEAN : c /\ d = (req[r].item # 0)
  OBVIOUS
<1>3. SavesFit' /\ \A x \in Reqs : req'[x] = IF x = r THEN Idle ELSE req[x]
  BY FreshFits, LeavesFit
<1>4. \A k : (HadBy(k)' => HadBy(k)) /\ (HadBy(k) => HadBy(k)' \/ k = j)
  BY <1>0, <1>1, <1>3, KnowingLeaves
<1>5. \A k : (Coming(k)' => Coming(k)) /\ (Coming(k) => Coming(k)')
  BY <1>0, <1>1, <1>3, KnowingLeaves
<1>6. Lost' \subseteq Lost \cup {n}
  BY <1>0, <1>1, <1>4, <1>5, Exchanges DEF Lost
<1>7. Dead' \subseteq Dead \cup {j} /\ (~d => Dead' \subseteq Dead)
  <2>1. \A k \in Items : k # 0
    BY DEF Items
  <2>2. \A k \in Items : HadBy(k) => HadBy(k)' \/ (d /\ k = j)
    BY <1>0, <1>1, <1>4, <2>1
  <2>3. n \notin Dead' /\ \A k \in Dead' : k \in Items /\ ~items[k]
    BY <1>0, <1>1, Exchanges DEF Dead
  <2> QED BY <2>2, <2>3 DEF Dead
<1>8. Late' <= Late
  BY Leaves
<1>9. strays' = strays + One(c) + One(d)
  BY <1>1, SpoiltOne DEF One
<1>10. Wayward(Cardinality(Lost)', Cardinality(Dead)', Late', strays')
  BY <1>1, <1>6, <1>7, <1>8, <1>9, WaywardMore
<1> QED BY <1>3, <1>10 DEF BankInv, SourceFits

LEMMA ObtainedBank ==
  ASSUME RentTyped, RentTyped', BankInv, NEW r \in Reqs, Stands(r, "link", "obtain"), NEW c \in Nat, items' = Exchanged,
         sources' = Attached(c), UNCHANGED <<bank, strays>>,
         Goes(r, [req[r] EXCEPT !.pc = "save", !.fresh = Len(items) + 1, !.cust = c, !.pm = Len(sources) + 1])
  PROVE BankInv'
<1> DEFINE new == [req[r] EXCEPT !.pc = "save", !.fresh = Len(items) + 1, !.cust = c, !.pm = Len(sources) + 1]
<1>0. PICK n : n = Len(items) + 1
  OBVIOUS
<1>1. req[r] \in RentReqs /\ req[r].op = "link" /\ req[r].pc = "obtain"
  BY ReqHere DEF Stands
<1>2. new.op = "link" /\ new.pc = "save" /\ new.fresh = n /\ new.cust = c /\ new.pm = Len(sources) + 1 /\ new.item = req[r].item
  BY <1>0, <1>1 DEF RentReqs
<1>3. Goes(r, new)
  OBVIOUS
<1> HIDE DEF new
<1>4. Knows(req[r]) /\ Took(req[r]) /\ ~Saves(req[r]) /\ Knows(new) /\ Took(new) /\ Saves(new)
  BY <1>1, <1>2 DEF Knows, Took, Saves
<1>5. Late' = Late /\ \A x \in Reqs : req'[x] = IF x = r THEN new ELSE req[x]
  BY <1>2, <1>3, <1>4, GoesOn
<1>6. \A i : (HadBy(i)' <=> HadBy(i)) /\ (Coming(i)' <=> Coming(i) \/ i = n)
  <2>1. \A i : HadBy(i)' <=> HadBy(i)
    BY <1>2, <1>4, <1>5 DEF HadBy
  <2>2. \A i : Coming(i)' <=> Coming(i) \/ i = n
    BY <1>2, <1>4, <1>5 DEF Coming
  <2> QED BY <2>1, <2>2
<1>7. Lost' \subseteq Lost
  BY <1>0, <1>6, Exchanges DEF Lost
<1>8. Dead' \subseteq Dead
  BY <1>0, <1>6, Exchanges DEF Dead
<1>9. sources \in Seq(Nat) /\ Len(sources) \in Nat
  BY DEF RentTyped, LinkTyped
<1>10. sources'[Len(sources) + 1] = c /\ \A i \in 1..Len(sources) : sources'[i] = sources[i]
  BY <1>9 DEF Attached
<1>11. SavesFit'
  <2>1. SaveFits(new, bank', items', sources')
    BY <1>0, <1>2, <1>10, FreshFits, Exchanges DEF SaveFits
  <2>2. \A x \in Reqs \ {r} : SaveFits(req[x], bank', items', sources')
    BY <1>10, FreshFits, KnowPlace DEF BankInv, SavesFit, SaveFits
  <2>3. \A x \in Reqs \ {r} : Apart(new, req[x]) /\ Apart(req[x], new)
    BY <1>0, <1>2, <1>4, FreshFits DEF BankInv, SavesFit, Apart
  <2> QED BY <1>5, <2>1, <2>2, <2>3, SavesBuild DEF BankInv
<1>12. Late' <= Late
  BY <1>5, WaywardNats
<1>13. Wayward(Cardinality(Lost)', Cardinality(Dead)', Late', strays')
  BY <1>7, <1>8, <1>12, WaywardNone
<1>14. SourceFits'
  <2>1. bank.pm # 0 => bank.pm \in 1..Len(sources)
    BY BankPlace
  <2> QED BY <1>10, <2>1 DEF BankInv, SourceFits
<1> QED BY <1>11, <1>13, <1>14 DEF BankInv

LEMMA ObtainBank == ASSUME RentTyped, RentTyped', BankInv, NEW r \in Reqs, BankObtain(r) PROVE BankInv'
<1>1. Stands(r, "link", "obtain") /\ UNCHANGED bank
  BY DEF BankObtain
<1>2. Knows(req[r]) /\ Took(req[r]) /\ ~Saves(req[r])
  BY <1>1 DEF Stands, Knows, Took, Saves
<1>3. CASE Ends(r, FALSE) /\ strays' = strays + Spoilt(req[r]) /\ UNCHANGED <<items, sources>>
  <2>1. strays' = strays + One(Saves(req[r])) + One(Took(req[r]) /\ req[r].item # 0)
    BY <1>2, <1>3, SpoiltOne, WaywardNats DEF One
  <2> QED BY <1>1, <1>2, <1>3, <2>1, EndsEarly DEF Ends
<1>4. CASE Ends(r, FALSE) /\ strays' = strays + 1 + Spoilt(req[r]) /\ items' = Exchanged /\ UNCHANGED sources
  BY <1>1, <1>2, <1>4, ExchangedThenFailed DEF Ends
<1>5. CASE \E c \in Customer(req[r].cust) :
             /\ items' = Exchanged /\ sources' = Attached(c) /\ UNCHANGED strays
             /\ Goes(r, [req[r] EXCEPT !.pc = "save", !.fresh = Len(items) + 1, !.cust = c, !.pm = Len(sources) + 1])
  <2>1. \A c \in Customer(req[r].cust) : c \in Nat
    <3>1. req[r].cust \in Nat
      BY ReqHere DEF RentReqs
    <3>2. custs \in Nat
      BY DEF RentTyped, LinkTyped
    <3> QED BY <3>1, <3>2 DEF Customer
  <2> QED BY <1>1, <1>5, <2>1, ObtainedBank
<1> QED BY <1>3, <1>4, <1>5 DEF BankObtain

\* a request writes the row it has read some time ago
LEMMA WritesOver ==
  ASSUME RentTyped, RentTyped', BankInv, NEW r \in Reqs, Knows(req[r]), Took(req[r]), Goes(r, Idle),
         UNCHANGED <<items, sources, strays>>,
         \/ Saves(req[r]) /\ bank'.item = req[r].fresh
         \/ ~Saves(req[r]) /\ bank'.item = 0
  PROVE Wayward(Cardinality(Lost)', Cardinality(Dead)', Late', strays')
<1>0. PICK o, w, h : o = bank.item /\ w = bank'.item /\ h = req[r].item
  OBVIOUS
<1>1. \A x \in Reqs : req'[x] = IF x = r THEN Idle ELSE req[x]
  BY ReqMoves
<1>2. /\ Knowing' = Knowing \ {r} /\ r \in Knowing /\ Cardinality(Knowing)' = Cardinality(Knowing) - 1
      /\ \A i : (HadBy(i)' => HadBy(i)) /\ (HadBy(i) => HadBy(i)' \/ (Took(req[r]) /\ req[r].item = i))
      /\ \A i : (Coming(i)' => Coming(i)) /\ (Coming(i) => Coming(i)' \/ (Saves(req[r]) /\ req[r].fresh = i))
  BY <1>1, KnowingLeaves
<1>3. \A i \in Items : i # 0
  BY DEF Items
<1>4. \A i \in Items : Coming(i) /\ ~Coming(i)' => i = w
  BY <1>0, <1>2
<1>5. w \notin Lost'
  <2>1. CASE ~Saves(req[r])
    BY <1>0, <1>3, <2>1 DEF Lost, Items
  <2>2. CASE Saves(req[r])
    <3>1. \A x \in Reqs \ {r} : Knows(req[x]) => req[x].item # w
      BY <1>0, <2>2 DEF BankInv, SavesFit, Apart
    <3>2. \A x \in Reqs \ {r} : Took(req[x]) => Knows(req[x])
      BY DEF Took
    <3>3. ~Took(Idle)
      BY IdleOutside, Outside
    <3>4. ~HadBy(w)'
      BY <1>1, <3>1, <3>2, <3>3 DEF HadBy
    <3> QED BY <1>0, <3>4 DEF Lost
  <2> QED BY <2>1, <2>2
<1>6. \A i \in Lost' : i \in Items /\ items[i] /\ ~Coming(i)
  BY <1>4, <1>5 DEF Lost, Items
<1>7. Lost' \subseteq Lost \cup {o}
  BY <1>0, <1>6 DEF Lost
<1>8. Dead' \subseteq Dead
  <2>1. CASE ~Saves(req[r])
    BY <1>0, <1>3, <2>1 DEF Dead, Items
  <2>2. CASE Saves(req[r])
    <3>1. items[w] = TRUE
      BY <1>0, <2>2 DEF BankInv, SavesFit, SaveFits
    <3> QED BY <1>0, <3>1 DEF Dead
  <2> QED BY <2>1, <2>2
<1>9. CASE h = o
  <2>1. HadBy(o)
    BY <1>0, <1>9 DEF HadBy
  <2>2. Lost' \subseteq Lost
    BY <1>0, <1>6, <2>1 DEF Lost
  <2>3. Late' <= Late
    BY Leaves
  <2> QED BY <1>8, <2>2, <2>3, WaywardNone
<1>10. CASE h # o
  <2>1. ~AllFresh
    BY <1>0, <1>2, <1>10 DEF AllFresh
  <2>2. Late = Cardinality(Knowing) /\ Late' <= Cardinality(Knowing)'
    BY <2>1, LateFacts, LateFacts2
  <2>3. Late' + 1 <= Late
    BY <1>2, <2>2, KnowingFinite, WaywardNats
  <2>4. Cardinality(Lost)' = Cardinality(Lost') /\ Cardinality(Dead)' = Cardinality(Dead')
    OBVIOUS
  <2>5. Cardinality(Lost') <= Cardinality(Lost) + 1
    BY <1>7, KnowingFinite, CardGain
  <2>6. Cardinality(Dead') <= Cardinality(Dead)
    BY <1>8, KnowingFinite, CardSame
  <2> QED BY <2>3, <2>4, <2>5, <2>6, WaywardLate
<1> QED BY <1>9, <1>10

LEMMA SaveBank == ASSUME RentTyped, RentTyped', BankInv, NEW r \in Reqs, BankSave(r) PROVE BankInv'
<1>1. /\ req[r].op = "link" /\ req[r].pc = "save" /\ Goes(r, Idle) /\ UNCHANGED <<items, sources, strays>>
      /\ bank' = [item |-> req[r].fresh, cust |-> req[r].cust, pm |-> req[r].pm]
  BY DEF BankSave, Stands, Ends
<1>2. Knows(req[r]) /\ Took(req[r]) /\ Saves(req[r])
  BY <1>1 DEF Knows, Took, Saves
<1>3. bank'.item = req[r].fresh /\ bank'.cust = req[r].cust /\ bank'.pm = req[r].pm
  BY <1>1
<1>4. Wayward(Cardinality(Lost)', Cardinality(Dead)', Late', strays')
  BY <1>1, <1>2, <1>3, WritesOver
<1>5. \A x \in Reqs : req'[x] = IF x = r THEN Idle ELSE req[x]
  BY <1>1, ReqMoves
<1>6. SavesFit'
  <2>1. \A x \in Reqs \ {r} : SaveFits(req[x], bank', items', sources')
    <3>1. \A x \in Reqs \ {r} : Saves(req[x]) => req[x].fresh # req[r].fresh
      BY <1>2 DEF BankInv, SavesFit, Apart
    <3> QED BY <1>1, <1>3, <3>1 DEF BankInv, SavesFit, SaveFits
  <2> QED BY <1>5, <2>1, IdleOutside, Outside, SavesBuild DEF BankInv
<1>7. SourceFits'
  BY <1>1, <1>2, <1>3 DEF BankInv, SavesFit, SaveFits, SourceFits
<1> QED BY <1>4, <1>6, <1>7 DEF BankInv

LEMMA ClearBank == ASSUME RentTyped, RentTyped', BankInv, NEW r \in Reqs, BankClear(r) PROVE BankInv'
<1>1. /\ req[r].op = "unlink" /\ req[r].pc = "clear" /\ Goes(r, Idle) /\ UNCHANGED <<items, sources, strays>>
      /\ bank' = [NoBank EXCEPT !.cust = bank.cust]
  BY DEF BankClear, Stands, Ends
<1>2. Knows(req[r]) /\ Took(req[r]) /\ ~Saves(req[r])
  BY <1>1 DEF Knows, Took, Saves
<1>3. bank'.item = 0 /\ bank'.pm = 0
  BY <1>1 DEF NoBank
<1>4. Wayward(Cardinality(Lost)', Cardinality(Dead)', Late', strays')
  BY <1>1, <1>2, <1>3, WritesOver
<1>5. \A x \in Reqs : req'[x] = IF x = r THEN Idle ELSE req[x]
  BY <1>1, ReqMoves
<1>6. SavesFit'
  <2>1. \A x \in Reqs \ {r} : SaveFits(req[x], bank', items', sources')
    BY <1>1, <1>3, KnowPlace DEF BankInv, SavesFit, SaveFits
  <2> QED BY <1>5, <2>1, IdleOutside, Outside, SavesBuild DEF BankInv
<1>7. SourceFits'
  BY <1>3 DEF SourceFits
<1> QED BY <1>4, <1>6, <1>7 DEF BankInv

LEMMA LeftStrays == ASSUME RentTyped, NEW r \in Reqs, Knows(req[r])
  PROVE Left(req[r]) = One(Saves(req[r])) + One(Took(req[r]) /\ req[r].item # 0)
<1>0. InTurn(req[r]) /\ req[r] \in RentReqs
  BY ReqHere
<1>1. CASE req[r].op = "link" /\ req[r].pc = "obtain"
  BY <1>1 DEF Left, Spoilt, One, Saves, Took, Knows
<1>2. CASE req[r].op = "link" /\ req[r].pc = "save"
  BY <1>2 DEF Left, Spoilt, One, Saves, Took, Knows
<1>3. CASE req[r].op = "unlink" /\ req[r].pc = "clear"
  <2>1. req[r].item >= 1 /\ req[r].item \in Nat
    BY <1>0, <1>3 DEF InTurn, RentReqs
  <2>2. req[r].item # 0
    BY <2>1
  <2> QED BY <1>3, <2>2 DEF Left, Spoilt, One, Saves, Took, Knows
<1>4. CASE req[r].pc = "remove"
  BY <1>4 DEF Left, Spoilt, One, Saves, Took, Knows
<1> QED BY <1>0, <1>1, <1>2, <1>3, <1>4 DEF InTurn, Knows

LEMMA HapBank == ASSUME RentTyped, RentTyped', BankInv, NEW r \in Reqs, AnswerLost(r) \/ Die(r) PROVE BankInv'
<1>0. req[r] \in RentReqs
  BY ReqHere
<1>1. CASE AnswerLost(r)
  <2> DEFINE new == [req[r] EXCEPT !.scr = Nobody]
  <2>1. Goes(r, new) /\ UNCHANGED <<bank, items, sources, strays>>
    BY <1>1 DEF AnswerLost, link
  <2>2. SameForBank(new, req[r])
    BY <1>0 DEF SameForBank, RentReqs
  <2> HIDE DEF new
  <2> QED BY <2>1, <2>2, BankGoes
<1>2. CASE Die(r)
  <2>1. Goes(r, Idle) /\ UNCHANGED <<bank, items, sources>> /\ strays' = strays + Left(req[r])
    BY <1>2 DEF Die, Ends, link
  <2>2. CASE Knows(req[r])
    <3>1. strays' = strays + (One(Saves(req[r])) + One(Took(req[r]) /\ req[r].item # 0))
      BY <2>1, <2>2, LeftStrays
    <3>2. One(Saves(req[r])) \in Nat /\ One(Took(req[r]) /\ req[r].item # 0) \in Nat /\ strays \in Nat
      BY WaywardNats DEF One
    <3>3. strays' = strays + One(Saves(req[r])) + One(Took(req[r]) /\ req[r].item # 0)
      BY <3>1, <3>2
    <3> QED BY <2>1, <2>2, <3>3, EndsEarly
  <2>3. CASE ~Knows(req[r])
    <3>1. Left(req[r]) = 0
      BY <2>3 DEF Knows, Left
    <3>2. strays' = strays
      BY <2>1, <3>1, WaywardNats
    <3> QED BY <2>1, <2>3, <3>2, IdleOutside, BankGoes
  <2> QED BY <2>2, <2>3
<1> QED BY <1>1, <1>2

LEMMA BankIdles == ASSUME RentTyped, RentTyped', BankInv, UNCHANGED rentOnly PROVE BankInv'
<1>1. UNCHANGED <<bank, items, sources, strays, req>>
  BY DEF rentOnly, link
<1> QED BY <1>1, BankStays

LEMMA BankStep == ASSUME RentTyped, RentTyped', BankInv, RentNext PROVE BankInv'
<1>1. CASE \E s \in Screens : PageStep(s)
  BY <1>1, PageBank
<1>2. ASSUME NEW r \in Reqs, ServerStep(r) PROVE BankInv'
  <2>1. CASE BankRead(r)
    BY <2>1, ReadBank
  <2>2. CASE BankRemove(r)
    BY <2>2, RemoveBank
  <2>3. CASE BankObtain(r)
    BY <2>3, ObtainBank
  <2>4. CASE BankSave(r)
    BY <2>4, SaveBank
  <2>5. CASE BankClear(r)
    BY <2>5, ClearBank
  <2> QED BY <1>2, <2>1, <2>2, <2>3, <2>4, <2>5, OthersBank DEF ServerStep
<1>3. CASE \E r \in Reqs : AnswerLost(r) \/ Die(r)
  BY <1>3, HapBank
<1>4. CASE \E i \in Debits, ok \in BOOLEAN : Settle(i, ok)
  <2>1. UNCHANGED <<bank, items, sources, strays, req>>
    BY <1>4 DEF Settle, link
  <2> QED BY <2>1, BankStays
<1>5. CASE LeaseEnds
  <2>1. UNCHANGED <<bank, items, sources, strays, req>>
    BY <1>5 DEF LeaseEnds, link
  <2> QED BY <2>1, BankStays
<1> QED BY <1>1, <1>2, <1>3, <1>4, <1>5 DEF RentNext

LEMMA BankInit == ASSUME RentInit PROVE BankInv
<1>0. RentTyped
  BY RentInitTyped
<1>1. \A r \in Reqs : ~Knows(req[r])
  BY IdleOutside DEF RentInit
<1>2. Knowing = {}
  BY <1>1 DEF Knowing
<1>3. \A i : ~Coming(i) /\ ~HadBy(i)
  BY <1>1, Outside DEF Coming, HadBy
<1>4. strays = 0
  BY DEF RentInit
<1>5. \A i \in Items : i = bank.item /\ items[i]
  <2>1. CASE cast.linked
    <3>1. items = <<TRUE>> /\ bank = [item |-> 1, cust |-> 1, pm |-> 1]
      BY <2>1 DEF RentInit
    <3>2. Len(items) = 1 /\ items[1] = TRUE /\ bank.item = 1
      BY <3>1
    <3>3. \A i \in Items : i = 1
      BY <3>2 DEF Items
    <3> QED BY <3>2, <3>3
  <2>2. CASE ~cast.linked
    <3>1. items = <<>>
      BY <2>2 DEF RentInit
    <3>2. Items = {}
      BY <3>1 DEF Items
    <3> QED BY <3>2
  <2> QED BY <2>1, <2>2
<1>6. Lost = {} /\ Dead = {}
  BY <1>3, <1>5 DEF Lost, Dead
<1>7. Cardinality(Lost) = 0 /\ Cardinality(Dead) = 0
  BY <1>6, FS_EmptySet
<1>8. Late = 0
  BY <1>0, <1>2, LateFacts
<1>9. Wayward(Cardinality(Lost), Cardinality(Dead), Late, strays)
  BY <1>4, <1>7, <1>8 DEF Wayward
<1>10. SavesFit
  BY <1>1, Outside DEF SavesFit
<1>11. SourceFits
  <2>1. CASE cast.linked
    BY <2>1 DEF RentInit, SourceFits
  <2>2. CASE ~cast.linked
    BY <2>2 DEF RentInit, SourceFits, NoBank
  <2> QED BY <2>1, <2>2
<1> QED BY <1>9, <1>10, <1>11 DEF BankInv

LEMMA BankTells == ASSUME RentTyped, BankInv PROVE BankKept
<1>1. \A r \in Reqs : Knows(req[r]) => req[r].item \in HeldItems /\ req[r].fresh \in HeldItems
  <2> SUFFICES ASSUME NEW r \in Reqs, Knows(req[r]) PROVE req[r].item \in HeldItems /\ req[r].fresh \in HeldItems
    OBVIOUS
  <2>1. req[r].pc \notin {"idle", "read"} /\ req[r].op \in {"link", "unlink"}
    BY ReqHere DEF Knows, InTurn
  <2>2. req[r] \in Holding
    BY <2>1 DEF Holding
  <2> QED BY <2>2 DEF HeldItems
<1>2. \A r \in Reqs : (Took(req[r]) \/ Saves(req[r])) => Knows(req[r])
  BY Outside
<1>3. Orphans \subseteq Lost
  BY <1>1, <1>2 DEF Orphans, Lost, Coming
<1>4. Dangling \subseteq Dead
  BY <1>1, <1>2 DEF Dangling, Dead, HadBy
<1>5. Cardinality(Orphans) <= Cardinality(Lost) /\ Cardinality(Dangling) <= Cardinality(Dead)
      /\ Cardinality(Orphans) \in Nat /\ Cardinality(Dangling) \in Nat
  BY <1>3, <1>4, KnowingFinite, CardSame
<1>6. Cardinality(Orphans) + Cardinality(Dangling) <= strays
  <2>1. Wayward(Cardinality(Lost), Cardinality(Dead), Late, strays)
    BY DEF BankInv
  <2>2. strays \in Nat /\ Late \in Nat /\ Cardinality(Lost) \in Nat /\ Cardinality(Dead) \in Nat
    BY LateFacts, KnowingFinite, BankPlace
  <2> QED BY <1>5, <2>1, <2>2 DEF Wayward
<1> QED BY <1>6 DEF BankKept, BankInv, SourceFits

LEMMA MeantInit == ASSUME RentInit PROVE MeantInv
<1>0. RentTyped
  BY RentInitTyped
<1>1. \A r \in Reqs : ~Makes(req[r])
  BY DEF RentInit, Idle, Makes
<1>2. \A s \in Screens, op \in {"pay", "record"} : ~Asks(page[s], op)
  BY DEF RentInit, Closed, Asks
<1>3. InFlight = {} /\ Unspent("pay") = {} /\ Unspent("record") = {}
  BY <1>1, <1>2 DEF InFlight, Unspent
<1>4. Pays = {} /\ Len(debits) = 0
  <2>1. pays = <<>> /\ debits = <<>>
    BY DEF RentInit
  <2> QED BY <2>1 DEF Pays
<1>5. OffBank = {}
  BY <1>4 DEF OffBank
<1>6. Cardinality(InFlight) = 0 /\ Cardinality(Unspent("pay")) = 0 /\ Cardinality(Unspent("record")) = 0 /\ Cardinality(OffBank) = 0
  BY <1>3, <1>5, FS_EmptySet
<1>7. wishes = 0 /\ budget.haps = 0
  BY DEF RentInit
<1> QED BY <1>4, <1>6, <1>7 DEF MeantInv, Total, InHand

LEMMA MeantTells == ASSUME RentTyped, MeantInv PROVE MeantOnce
<1>1. RentTypeOK
  <2>1. lease \in BOOLEAN /\ paid \in 0..Due /\ wishes \in Nat /\ strays \in Nat
    BY DEF RentTyped, MoneyTyped, RestTyped
  <2>2. \A i \in Pays : pays[i] \in Payment
    BY PayAt DEF RentTyped
  <2>3. \A i \in Debits : debits[i].amt \in Amounts /\ debits[i].st \in {"processing", "succeeded", "failed", "refunded"}
    BY DebitAt DEF RentTyped, Debit
  <2>4. bank \in [item : 0..Len(items), cust : 0..custs, pm : 0..Len(sources)]
    BY DEF RentTyped, LinkTyped
  <2>5. \A s \in Screens : page[s].busy \subseteq Op /\ page[s].claim \in 0..Len(pays)
    <3> SUFFICES ASSUME NEW s \in Screens PROVE page[s].busy \subseteq Op /\ page[s].claim \in 0..Len(pays)
      OBVIOUS
    <3>1. page[s] \in RentScreens /\ Shows(page[s], Sizes)
      BY DEF RentTyped, RentPagesTyped, RentPageOK
    <3>2. Len(pays) \in Nat
      BY DEF RentTyped, MoneyTyped
    <3> QED BY <3>1, <3>2 DEF RentScreens, Shows, Sizes
  <2> QED BY <2>1, <2>2, <2>3, <2>4, <2>5 DEF RentTypeOK
<1>2. Len(debits) + Cardinality(OffBank) <= wishes + budget.haps
  <2>1. Len(debits) + Cardinality(OffBank) + InHand <= wishes + budget.haps
    BY DEF MeantInv, Total
  <2>2. InHand \in Nat
    <3>1. Cardinality(InFlight) \in Nat /\ Cardinality(Unspent("pay")) \in Nat /\ Cardinality(Unspent("record")) \in Nat
      BY CountsFinite
    <3> QED BY <3>1 DEF InHand
  <2> QED BY <2>1, <2>2, CountsFinite
<1> QED BY <1>1, <1>2 DEF MeantOnce, OffBank

(* The inductive invariant of the rent pages.                                *)
RentSafe == RentTyped /\ MeantInv /\ StripeInv /\ BankInv

\* the other half of the portal may end the lease; the rent pages see nothing else of it
LEMMA CareLeaves == ASSUME RentTyped, Care!Next PROVE lease' \in BOOLEAN
<1>0. lease \in BOOLEAN
  BY DEF RentTyped, RestTyped
<1>1. CASE Care!LeaseEnds
  BY <1>1 DEF Care!LeaseEnds
<1>2. CASE ~Care!LeaseEnds
  <2>1. lease' = lease
    BY <1>2 DEF Care!Next, Care!PageStep, Care!ServerStep, Care!Visit, Care!Load, Care!LoadFails, Care!ModalCloses,
        Care!PressStatus, Care!PressColumn, Care!Expand, Care!PressWrite, Care!SubmitRead, Care!SubmitWrite,
        Care!StatusRead, Care!StatusWrite, Care!ColumnWrite, Care!LetterWrite, Care!MarkWrite, Care!NoticeCheck,
        Care!NoticeCreate, Care!Resend, Care!TextRead, Care!TextCheck, Care!TextUpload, Care!TextSend, Care!TextMark,
        Care!AnswerLost, Care!Die, Care!Retext, Care!Serve, Care!Fetch, Care!Called, Care!Stop, Care!Start, Care!RentPaid,
        Care!world
  <2> QED BY <1>0, <2>1
<1> QED BY <1>1, <1>2

LEMMA RentSafeStep == ASSUME RentSafe, [PortalNext]_<<rentVars, careOnly>> PROVE RentSafe'
<1>1. CASE RentNext
  <2>1. RentTyped'
    BY <1>1, RentStepTyped DEF RentSafe
  <2> QED BY <1>1, <2>1, MeantStep, StripeStep, BankStep DEF RentSafe
<1>2. CASE UNCHANGED rentOnly /\ lease' \in BOOLEAN
  <2>1. RentTyped'
    BY <1>2, RentIdles DEF RentSafe
  <2> QED BY <1>2, <2>1, MeantIdles, StripeIdles, BankIdles DEF RentSafe
<1>3. CASE Care!Next /\ UNCHANGED rentOnly
  BY <1>2, <1>3, CareLeaves DEF RentSafe
<1>4. CASE UNCHANGED <<rentVars, careOnly>>
  <2>1. UNCHANGED rentOnly /\ lease' = lease
    BY <1>4 DEF rentVars, rentOnly
  <2> QED BY <1>2, <2>1 DEF RentSafe, RentTyped, RestTyped
<1> QED BY <1>1, <1>3, <1>4 DEF PortalNext

(* Whatever tenant and landlord press in however many tabs and whatever      *)
(* requests die: the types of the rent pages, that no more rent is debited   *)
(* or recorded than was meant, and that row, Stripe and Plaid agree.         *)
THEOREM RentPagesSafe == PortalSpec => []RentSafe
<1>1. PortalInit => RentSafe
  BY RentInitTyped, MeantInit, StripeInit, BankInit DEF PortalInit, RentSafe
<1> QED BY <1>1, RentSafeStep, PTL DEF PortalSpec

(* A pending payment with a debit, a refund, a bank link: where two stores    *)
(* differ, a request between them or a counted mishap accounts for it.       *)
THEOREM StoresAgreeAlways == PortalSpec => []StoresAgree
<1>1. RentSafe => StoresAgree
  BY StripeTells, BankTells DEF RentSafe, StoresAgree
<1> QED BY <1>1, RentPagesSafe, PTL

(* The debits and the recorded payments are no more than what tenant and     *)
(* landlord meant to pay, plus the answers that were lost.                   *)
THEOREM PaidAsMeant == PortalSpec => []MeantOnce
<1>1. RentSafe => MeantOnce
  BY MeantTells DEF RentSafe
<1> QED BY <1>1, RentPagesSafe, PTL
=============================================================================
