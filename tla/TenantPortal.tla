---------------------------- MODULE TenantPortal ----------------------------
(***************************************************************************)
(* The two halves of what a landlord and a tenant share, composed: the     *)
(* rent pages (RentPages) and everything they write to each other          *)
(* (TenantCare). They are served by the same sites from one database and   *)
(* meet in the lease: when it ends, the pay page's requests and a          *)
(* maintenance request see it at the same time. Their steps interleave.    *)
(***************************************************************************)
EXTENDS RentPages

CONSTANTS
  CareCasts,   \* TenantCare's Casts
  Meet         \* bound: the pairs of a cast of RentPages and one of TenantCare that meet

VARIABLES
  careCast, overdue, opted, tickets, letters, notices, stored, texts,
  carePage, careReq, careBudget, careWishes, echoes, mixed, caught, crossed

Care == INSTANCE TenantCare WITH
  Casts <- CareCasts, leased <- lease, cast <- careCast, page <- carePage, req <- careReq,
  budget <- careBudget, wishes <- careWishes

careOnly ==
  <<careCast, overdue, opted, tickets, letters, notices, stored, texts, carePage, careReq,
    careBudget, careWishes, echoes, mixed, caught, crossed>>
rentOnly == <<cast, money, link, login, page, req, budget, wishes, strays>>

PortalInit == RentInit /\ Care!Init /\ <<cast, careCast>> \in Meet

PortalNext ==
  \/ RentNext /\ UNCHANGED careOnly
  \/ Care!Next /\ UNCHANGED rentOnly

PortalSpec == PortalInit /\ [][PortalNext]_<<rentVars, careOnly>>

-----------------------------------------------------------------------------
(* Properties of the second half (the first half's are RentPages's own) *)
\* A maintenance request has its resolution stamp exactly while it is done, unless two updates
\* of its status overlapped (TenantCare.ResolvedWhenDone: api/maintenance/[id] PUT).
ResolvedWhenDone == Care!ResolvedWhenDone

\* Notice texts respect STOP and link to a letter no older than the one they were sent for
\* (TenantCare.NoticeTexts: sendNoticeSms).
NoticeTexts == Care!NoticeTexts

\* A payment, a ticket or a letter goes out as often as somebody meant it, a retry after a
\* lost answer aside (RentPages.MeantOnce, TenantCare.AskedOnce: the forms' disabled buttons).
SentOnce == MeantOnce /\ Care!AskedOnce

\* Stripe, Plaid and the tenant's row agree on money and bank (RentPages.StripeAgrees,
\* RentPages.BankKept: refund, exchange-token and unlink routes).
StoresAgree == StripeAgrees /\ BankKept
=============================================================================
