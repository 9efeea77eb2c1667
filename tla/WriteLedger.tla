---------------------------- MODULE WriteLedger ----------------------------
(***************************************************************************)
(* What the delivery action runtime promises about remote writes, with no  *)
(* requests, awaits, statuses, clock or policy: an approval buys one write *)
(* and is spent by starting it, a write under way lands or is lost, and    *)
(* the ledger tells of an execution or of a verification only what the     *)
(* remote has shown.  DeliveryActions implements it.                       *)
(***************************************************************************)
EXTENDS Integers, TLAPS

CONSTANTS
    Action,     \* idempotency keys
    Blind       \* actions whose target may look changed when a read fails

VARIABLES
    granted,    \* granted[a]: approvals so far
    permits,    \* permits[a]: approvals not yet spent on a write
    sending,    \* sending[a]: writes on their way to the remote
    landed,     \* landed[a]: writes that took effect
    seen,       \* seen[a]: the remote showed the expected result
    told        \* told[a]: what the ledger says of a

ledger == <<granted, permits, sending, landed, seen, told>>

Entry == [executed : BOOLEAN, verified : BOOLEAN]
Blank == [executed |-> FALSE, verified |-> FALSE]

LedgerType ==
    /\ granted \in [Action -> Nat] /\ permits \in [Action -> Nat]
    /\ sending \in [Action -> Nat] /\ landed \in [Action -> Nat]
    /\ seen \in [Action -> BOOLEAN] /\ told \in [Action -> Entry]

LedgerInit ==
    /\ granted = [a \in Action |-> 0] /\ permits = [a \in Action |-> 0]
    /\ sending = [a \in Action |-> 0] /\ landed = [a \in Action |-> 0]
    /\ seen = [a \in Action |-> FALSE] /\ told = [a \in Action |-> Blank]

(* What may be told of a.                                                  *)
True(a, entry) == /\ entry.executed => landed[a] > 0
                  /\ entry.verified => seen[a] \/ a \in Blind

Tell(a) == \E entry \in Entry : True(a, entry) /\ told' = [told EXCEPT ![a] = entry]

Grant(a) ==
    /\ granted' = [granted EXCEPT ![a] = @ + 1]
    /\ permits' = [permits EXCEPT ![a] = @ + 1]
    /\ Tell(a)
    /\ UNCHANGED <<sending, landed, seen>>

Begin(a) ==
    /\ permits[a] > 0
    /\ permits' = [permits EXCEPT ![a] = @ - 1]
    /\ sending' = [sending EXCEPT ![a] = @ + 1]
    /\ UNCHANGED <<granted, landed, seen, told>>

Land(a) ==
    /\ sending[a] > 0
    /\ sending' = [sending EXCEPT ![a] = @ - 1]
    /\ landed' = [landed EXCEPT ![a] = @ + 1]
    /\ \E s \in BOOLEAN : seen' = [seen EXCEPT ![a] = @ \/ s]
    /\ UNCHANGED <<granted, permits, told>>

Lose(a) ==
    /\ sending[a] > 0
    /\ sending' = [sending EXCEPT ![a] = @ - 1]
    /\ UNCHANGED <<granted, permits, landed, seen, told>>

Write(a) == Tell(a) /\ UNCHANGED <<granted, permits, sending, landed, seen>>

(* Somebody else brings the expected result about.                         *)
Appear(a) ==
    /\ seen' = [seen EXCEPT ![a] = TRUE]
    /\ UNCHANGED <<granted, permits, sending, landed, told>>

(* A crash: approvals that were not spent are never spent.                 *)
Forget ==
    /\ permits' = [a \in Action |-> 0]
    /\ UNCHANGED <<granted, sending, landed, seen, told>>

LedgerNext ==
    \/ \E a \in Action : \/ Grant(a) \/ Begin(a) \/ Land(a) \/ Lose(a)
                         \/ Write(a) \/ Appear(a)
    \/ Forget

LedgerSpec == LedgerInit /\ [][LedgerNext]_ledger

-----------------------------------------------------------------------------
(* What every implementation inherits: no write beyond the approvals given,*)
(* whether it is unspent, on its way or done.                              *)
Charged == \A a \in Action : permits[a] + sending[a] + landed[a] <= granted[a]

(* What the ledger tells of an action is true.                             *)
Truthful == \A a \in Action : True(a, told[a])

LedgerInv == LedgerType /\ Charged /\ Truthful

LEMMA LedgerStep == LedgerInv /\ [LedgerNext]_ledger => LedgerInv'
<1> SUFFICES ASSUME LedgerInv, [LedgerNext]_ledger PROVE LedgerInv'
    OBVIOUS
<1> USE DEF LedgerInv, LedgerType, Charged, Truthful, True, Entry
<1>1. CASE UNCHANGED ledger
    BY <1>1 DEF ledger
<1>2. ASSUME NEW a \in Action, Grant(a) PROVE LedgerInv'
    BY <1>2 DEF Grant, Tell
<1>3. ASSUME NEW a \in Action, Begin(a) PROVE LedgerInv'
    BY <1>3 DEF Begin
<1>4. ASSUME NEW a \in Action, Land(a) PROVE LedgerInv'
    BY <1>4 DEF Land
<1>5. ASSUME NEW a \in Action, Lose(a) PROVE LedgerInv'
    BY <1>5 DEF Lose
<1>6. ASSUME NEW a \in Action, Write(a) PROVE LedgerInv'
    BY <1>6 DEF Write, Tell
<1>7. ASSUME NEW a \in Action, Appear(a) PROVE LedgerInv'
    BY <1>7 DEF Appear
<1>8. CASE Forget
    BY <1>8 DEF Forget
<1> QED
    BY <1>1, <1>2, <1>3, <1>4, <1>5, <1>6, <1>7, <1>8 DEF LedgerNext

(* Whatever implements the ledger writes no more than was approved and     *)
(* tells nothing that was not so.                                          *)
THEOREM LedgerIsSound == LedgerSpec => [](Charged /\ Truthful)
<1>1. LedgerInit => LedgerInv
    BY DEF LedgerInit, LedgerInv, LedgerType, Charged, Truthful, True, Entry, Blank
<1>2. LedgerInv => Charged /\ Truthful
    BY DEF LedgerInv
<1> QED
    BY <1>1, <1>2, LedgerStep, PTL DEF LedgerSpec
=============================================================================
