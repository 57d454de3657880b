----------------------------- MODULE RentAccount -----------------------------
(***************************************************************************)
(* What the rent ledger promises, with no rows in flight: charges are      *)
(* billed in due-date order, a payment is credited whole to the oldest     *)
(* charges in one step, at most once, and a refund takes it back from the  *)
(* newest.  Money beyond what is owed is not kept (the code drops it).     *)
(***************************************************************************)
EXTENDS Integers, FiniteSetsExt

CONSTANTS Charges, Payments, Amount
VARIABLES amount,   \* of each charge; 0: not billed
          due,      \* its due date
          paid,     \* what was credited to it
          settled   \* the payments in effect

account == <<amount, due, paid, settled>>

Billed  == {c \in Charges : amount[c] > 0}
Total(f) == MapThenSumSet(LAMBDA c : f[c], Charges)
Owed    == [c \in Charges |-> amount[c] - paid[c]]

AInit == /\ amount = [c \in Charges |-> 0]
         /\ due = [c \in Charges |-> 0]
         /\ paid = [c \in Charges |-> 0]
         /\ settled = {}

Bill(c) == /\ amount[c] = 0
           /\ amount'[c] > 0 /\ amount' = [amount EXCEPT ![c] = amount'[c]]
           /\ due' = [due EXCEPT ![c] = due'[c]]
           /\ UNCHANGED <<paid, settled>>

(* p's money, as far as it is owed, all of it, oldest charges first.       *)
Credit(p) ==
    /\ p \notin settled
    /\ settled' = settled \union {p}
    /\ \A c \in Charges : paid[c] <= paid'[c] /\ paid'[c] <= amount[c]
    /\ Total(paid') - Total(paid) = Min({Amount[p], Total(Owed)})
    /\ \A c, d \in Billed : due[d] < due[c] /\ paid'[c] > paid[c] => paid'[d] = amount[d]
    /\ UNCHANGED <<amount, due>>

(* The same sum, as far as it is still there, newest charges first.        *)
TakeBack(p) ==
    /\ p \in settled
    /\ settled' = settled \ {p}
    /\ \A c \in Charges : 0 <= paid'[c] /\ paid'[c] <= paid[c]
    /\ Total(paid) - Total(paid') = Min({Amount[p], Total(paid)})
    /\ \A c, d \in Billed : due[c] < due[d] /\ paid'[c] < paid[c] => paid'[d] = 0
    /\ UNCHANGED <<amount, due>>

ANext == \/ \E c \in Charges : Bill(c)
         \/ \E p \in Payments : Credit(p) \/ TakeBack(p)

ASpec == AInit /\ [][ANext]_account
=============================================================================
