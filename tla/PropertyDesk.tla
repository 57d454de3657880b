---------------------------- MODULE PropertyDesk ----------------------------
(***************************************************************************)
(* The landlord's side of a property, composed: its row, questions and     *)
(* photos (Listing) and its phone number with what carries the calls       *)
(* (PhoneLine). Both write one Property row: the switch on its page and    *)
(* the phone routes set the same isActive, and a deletion takes the row    *)
(* away while a number is bought for it or released.                       *)
(***************************************************************************)
EXTENDS Listing

CONSTANTS
  Nums, Env, Forms, MaxValue, MaxBought,   \* PhoneLine's
  LineCasts,   \* PhoneLine's Casts
  Meet         \* bound: the pairs of a cast of Listing and one of PhoneLine that meet

VARIABLES
  lineCast, conf, cache, save, row, bought, agent, tunnel, lineReq, lineBegun, saves, lineHaps,
  strays, behind

Line == INSTANCE PhoneLine WITH
  Casts <- LineCasts, here <- [p \in Props |-> p \in Live],
  cast <- lineCast, req <- lineReq, begun <- lineBegun, haps <- lineHaps

ASSUME LineAssumption == Line!PhoneLineAssumption

lineOnly ==
  <<lineCast, conf, cache, save, row, bought, agent, tunnel, lineReq, lineBegun, saves, lineHaps,
    strays, behind>>
listOnly == <<listCast, prop, quest, onboarded, tab, req, begun, haps, mixed, crowd, sure>>

DeskInit == ListInit /\ Line!Init /\ <<listCast, lineCast>> \in Meet

Deleted(p) == prop[p].st = "live" /\ prop'[p].st = "gone"

\* a step of Listing; a deletion is PhoneLine's too
ListStep ==
  /\ ListNext
  /\ \/ \E p \in Props : Deleted(p) /\ Line!Gone(p)
     \/ ~(\E p \in Props : Deleted(p)) /\ UNCHANGED lineOnly

\* a step of PhoneLine, which may set the row's isActive and leaves the rest of it alone
LineStep == UNCHANGED listOnly /\ Line!Next

DeskNext == ListStep \/ LineStep

DeskSpec == DeskInit /\ [][DeskNext]_<<listVars, lineOnly>>

-----------------------------------------------------------------------------
(* Properties of the second half (the first half's are Listing's own) *)

\* A number the account pays for is a property's number and the other way round, but for one
\* exception for each mishap, also while properties are deleted (PhoneLine.LineKept:
\* api/properties/[id]/phone/route.ts).
LineKept == Line!TypeOK /\ Line!LineKept

\* A phone system called ready is ready (PhoneLine.ReadyReaches: lib/phone-system.ts).
ReadyReaches == Line!ReadyReaches

\* Cached settings are behind the stored ones only by a race or a failed save
\* (PhoneLine.StaleOnlyByRace: config-resolver.ts).
StaleOnlyByRace == Line!StaleOnlyByRace
=============================================================================
