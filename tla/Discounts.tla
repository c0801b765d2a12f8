----------------------------- MODULE Discounts ------------------------------
(***************************************************************************)
(* What one customer earns and spends besides money: the ledger of one     *)
(* kind of loyalty units (modules/payments/loyalty.service.ts), which only *)
(* grows, and one coupon (coupon.service.ts).  A payment earns units, its  *)
(* cancellation takes them back, time lets them expire; a redemption turns *)
(* units, or a use of the coupon, into a discount on an appointment until  *)
(* it is canceled.  No operation has a transaction: each reads, checks and *)
(* inserts, and only unique indexes guard what was read.                   *)
(***************************************************************************)
EXTENDS Integers, FiniteSets, FiniteSetsExt

CONSTANTS
  Payments,      \* payments of the customer
  Appointments,  \* appointments of the customer
  Redemptions,   \* redemption rows of the ledger (a bound)
  Requests,      \* requests, and ticks of the worker, at the same time (a bound)
  Earn,          \* [Payments -> units the rule gives for it, 0 below its minimum]
  Units,         \* amounts a customer may redeem
  CentsPerUnit,  \* what a unit is worth
  Price,         \* price of each appointment
  Value,         \* cents the coupon takes off
  Limits,        \* limits of uses the coupon may be given, the smaller of the two
  None

\* A redemption with the number of entries that give its units back
Redemption == [appointment : Appointments, units : Nat \ {0}, restored : 0..1]

ASSUME DiscountsAssumption ==
  /\ Earn \in [Payments -> Nat]
  /\ Units \subseteq Nat \ {0}
  /\ CentsPerUnit \in Nat /\ Price \in Nat /\ Value \in Nat
  /\ Limits \subseteq Nat /\ IsFiniteSet(Appointments)
  /\ None \notin Payments \cup Appointments \cup Redemptions \cup Redemption

VARIABLES
  payment,   \* [Payments -> {"none", "PAID", "CANCELED"}]
  earned,    \* payments with an EARNED entry
  closing,   \* [Payments -> Nat]: units of the debit that closes that entry
  redeemed,  \* [Redemptions -> Redemption \cup {None}]: REDEEMED entries
  balance,   \* credits less debits of the ledger
  ruled,     \* the rule of these units is active
  use,       \* [Appointments -> {"none", "active", "canceled"}]: uses of the coupon
  limit,     \* most uses of the coupon
  offered,   \* the coupon is active and in its time
  pc,        \* [Requests -> Phases]
  job,       \* [Requests -> Job]
  stale,     \* requests that decided on a balance or a count that changed (history)
  overdrawn, \* a debit was written after such a decision (history)
  crowded,   \* a use was, or the limit fell below the uses (history)
  short      \* payments whose entry was closed short, late or not at all (history)

ledgerVars == <<earned, closing, redeemed, balance>>
couponVars == <<use, limit, offered>>
historyVars == <<stale, overdrawn, crowded, short>>
vars == <<payment, ledgerVars, ruled, couponVars, pc, job, historyVars>>

\* Behind "sweep" are cancelForPayment, of one payment, and expireDue, of many
Phases == {"idle", "earn", "void", "list", "sweep", "close",
           "fund", "measure", "debit", "restore",
           "count", "value", "use", "return"}

\* Decided on the balance, on the uses of the coupon
Debiting == {"close", "measure", "debit"}
Using == {"value", "use"}

Job == [payments : SUBSET Payments, payment : Payments \cup {None},
        appointment : Appointments \cup {None}, row : Redemptions \cup {None}, units : Int]

NoJob == [payments |-> {}, payment |-> None, appointment |-> None, row |-> None, units |-> 0]

TypeOK ==
  /\ payment \in [Payments -> {"none", "PAID", "CANCELED"}]
  /\ earned \subseteq Payments
  /\ closing \in [Payments -> Nat]
  /\ redeemed \in [Redemptions -> Redemption \cup {None}]
  /\ balance \in Int
  /\ use \in [Appointments -> {"none", "active", "canceled"}]
  /\ limit \in Limits
  /\ ruled \in BOOLEAN /\ offered \in BOOLEAN
  /\ pc \in [Requests -> Phases]
  /\ job \in [Requests -> Job]
  /\ stale \subseteq Requests /\ short \subseteq Payments
  /\ overdrawn \in BOOLEAN /\ crowded \in BOOLEAN
  /\ \A r \in Requests :
       /\ pc[r] \in {"earn", "void", "list", "close"} => job[r].payment # None
       /\ pc[r] \in {"close", "fund", "measure", "debit"} => job[r].units > 0
       /\ pc[r] \in {"fund", "measure", "debit", "count", "value", "use", "return"}
            => job[r].appointment # None
       /\ pc[r] = "restore" => job[r].row # None /\ redeemed[job[r].row] # None

Init ==
  /\ payment = [p \in Payments |-> "none"]
  /\ earned = {} /\ closing = [p \in Payments |-> 0]
  /\ redeemed = [x \in Redemptions |-> None]
  /\ balance = 0
  /\ use = [a \in Appointments |-> "none"]
  /\ limit \in Limits
  /\ ruled = TRUE /\ offered = TRUE
  /\ pc = [r \in Requests |-> "idle"]
  /\ job = [r \in Requests |-> NoJob]
  /\ stale = {} /\ overdrawn = FALSE /\ crowded = FALSE /\ short = {}

-----------------------------------------------------------------------------
Canceled == {p \in Payments : payment[p] = "CANCELED"}

Active(x) == redeemed[x] # None /\ redeemed[x].restored = 0

\* discountForAppointment, of the loyalty units and of the coupon
LoyaltyDiscount(a) ==
  MapThenSumSet(LAMBDA x : redeemed[x].units * CentsPerUnit,
                {x \in Redemptions : Active(x) /\ redeemed[x].appointment = a})

CouponDiscount(a) ==
  IF use[a] # "active" THEN 0 ELSE IF Value > Price THEN Price ELSE Value

Uses == Cardinality({a \in Appointments : use[a] = "active"})

Lesser(a, b) == IF a > b THEN b ELSE a

Goto(r, phase) == pc' = [pc EXCEPT ![r] = phase] /\ UNCHANGED job

Begin(r, j, phase) ==
  /\ pc[r] = "idle"
  /\ pc' = [pc EXCEPT ![r] = phase]
  /\ job' = [job EXCEPT ![r] = j]

\* The request is answered, or fails; what it decided on no longer matters
End(r) ==
  /\ pc' = [pc EXCEPT ![r] = "idle"]
  /\ job' = [job EXCEPT ![r] = NoJob]

\* Requests in these phases have read what is written now
Others(r, phases) == {q \in Requests \ {r} : pc[q] \in phases}

\* A debit row, decided on a balance that the requests still on their way misread now
WriteDebit(r, units) ==
  /\ balance' = balance - units
  /\ overdrawn' = (overdrawn \/ r \in stale)
  /\ stale' = (stale \ {r}) \cup Others(r, Debiting)

-----------------------------------------------------------------------------
\* PaymentService.create: the payment is committed, then its units are recorded

StartPay(r) ==
  /\ \E p \in Payments :
       /\ payment[p] = "none"
       /\ payment' = [payment EXCEPT ![p] = "PAID"]
       /\ Begin(r, [NoJob EXCEPT !.payment = p], "earn")
  /\ UNCHANGED <<ledgerVars, ruled, couponVars, historyVars>>

\* recordForPayment.  A payment that was canceled meanwhile earns as well.
RecordForPayment(r) ==
  LET p == job[r].payment
      earns == ruled /\ Earn[p] > 0 /\ p \notin earned
  IN  /\ pc[r] = "earn"
      /\ earned' = earned \cup (IF earns THEN {p} ELSE {})
      /\ balance' = balance + (IF earns THEN Earn[p] ELSE 0)
      /\ short' = short \cup (IF earns THEN {p} \cap Canceled ELSE {})
      /\ End(r)
      /\ UNCHANGED <<payment, closing, redeemed, ruled, couponVars, stale, overdrawn, crowded>>

-----------------------------------------------------------------------------
\* PaymentService.cancel, then cancelForPayment

StartVoid(r) ==
  /\ \E p \in Payments :
       payment[p] = "PAID" /\ Begin(r, [NoJob EXCEPT !.payment = p], "void")
  /\ UNCHANGED <<payment, ledgerVars, ruled, couponVars, historyVars>>

Void(r) ==
  /\ pc[r] = "void"
  /\ payment' = [payment EXCEPT ![job[r].payment] = "CANCELED"]
  /\ Goto(r, "list")
  /\ UNCHANGED <<ledgerVars, ruled, couponVars, historyVars>>

\* EARNED entries that nothing closes
OpenEntries == {p \in earned : closing[p] = 0}

\* (fault) units are only taken back while their rule is active
ListRuled(r) ==
  /\ pc[r] = "list"
  /\ pc' = [pc EXCEPT ![r] = "sweep"]
  /\ job' = [job EXCEPT ![r] = [NoJob EXCEPT !.payments =
                                   IF ruled THEN {job[r].payment} \cap OpenEntries ELSE {}]]
  /\ UNCHANGED <<payment, ledgerVars, ruled, couponVars, historyVars>>

ListEarned(r) ==
  /\ pc[r] = "list"
  /\ pc' = [pc EXCEPT ![r] = "sweep"]
  /\ job' = [job EXCEPT ![r] = [NoJob EXCEPT !.payments = {job[r].payment} \cap OpenEntries]]
  /\ UNCHANGED <<payment, ledgerVars, ruled, couponVars, historyVars>>

\* expireDue: any open entries may be due
StartExpire(r) ==
  /\ \E due \in SUBSET OpenEntries :
       due # {} /\ Begin(r, [NoJob EXCEPT !.payments = due], "sweep")
  /\ UNCHANGED <<payment, ledgerVars, ruled, couponVars, historyVars>>

\* The next entry, of the units the balance allows; none left of it, it is skipped
NextEntry(r) ==
  /\ pc[r] = "sweep"
  /\ \E p \in job[r].payments :
       LET units == Lesser(Earn[p], balance)
           rest == job[r].payments \ {p}
       IN  /\ IF units > 0
              THEN /\ pc' = [pc EXCEPT ![r] = "close"]
                   /\ job' = [job EXCEPT ![r] =
                                [NoJob EXCEPT !.payments = rest, !.payment = p, !.units = units]]
                   /\ UNCHANGED short
              ELSE /\ job' = [job EXCEPT ![r] = [NoJob EXCEPT !.payments = rest]]
                   /\ short' = short \cup ({p} \cap Canceled)
                   /\ UNCHANGED pc
  /\ UNCHANGED <<payment, ledgerVars, ruled, couponVars, stale, overdrawn, crowded>>

\* relatedEntryId is unique: of two closings the second is refused
Close(r) ==
  LET p == job[r].payment IN
  /\ pc[r] = "close"
  /\ closing[p] = 0
  /\ closing' = [closing EXCEPT ![p] = job[r].units]
  /\ WriteDebit(r, job[r].units)
  /\ short' = short \cup (IF job[r].units < Earn[p] THEN {p} ELSE {})
  /\ pc' = [pc EXCEPT ![r] = "sweep"]
  /\ job' = [job EXCEPT ![r] = [NoJob EXCEPT !.payments = job[r].payments]]
  /\ UNCHANGED <<payment, earned, redeemed, ruled, couponVars, crowded>>

SweepEnds(r) ==
  /\ pc[r] = "sweep" /\ job[r].payments = {}
  /\ End(r)
  /\ UNCHANGED <<payment, ledgerVars, ruled, couponVars, historyVars>>

-----------------------------------------------------------------------------
\* LoyaltyService.redeem, of an appointment that was not canceled when it was read

StartRedeem(r) ==
  /\ ruled
  /\ \E a \in Appointments, n \in Units :
       Begin(r, [NoJob EXCEPT !.appointment = a, !.units = n], "fund")
  /\ UNCHANGED <<payment, ledgerVars, ruled, couponVars, historyVars>>

\* (fault) any balance will do
FundPositive(r) ==
  /\ pc[r] = "fund"
  /\ balance > 0
  /\ Goto(r, "measure")
  /\ UNCHANGED <<payment, ledgerVars, ruled, couponVars, historyVars>>

\* Credits and debits are summed at the same time
Fund(r) ==
  /\ pc[r] = "fund"
  /\ job[r].units <= balance
  /\ Goto(r, "measure")
  /\ UNCHANGED <<payment, ledgerVars, ruled, couponVars, historyVars>>

\* What was paid for the appointment is not looked at
Measure(r) ==
  LET a == job[r].appointment IN
  /\ pc[r] = "measure"
  /\ job[r].units * CentsPerUnit <= Price - CouponDiscount(a) - LoyaltyDiscount(a)
  /\ Price > CouponDiscount(a) + LoyaltyDiscount(a)
  /\ Goto(r, "debit")
  /\ UNCHANGED <<payment, ledgerVars, ruled, couponVars, historyVars>>

Debit(r) ==
  /\ pc[r] = "debit"
  /\ \E x \in Redemptions :
       /\ redeemed[x] = None
       /\ redeemed' = [redeemed EXCEPT ![x] =
            [appointment |-> job[r].appointment, units |-> job[r].units, restored |-> 0]]
  /\ WriteDebit(r, job[r].units)
  /\ End(r)
  /\ UNCHANGED <<payment, earned, closing, ruled, couponVars, crowded, short>>

\* LoyaltyService.cancelRedemption
StartRestore(r) ==
  /\ \E x \in Redemptions : Active(x) /\ Begin(r, [NoJob EXCEPT !.row = x], "restore")
  /\ UNCHANGED <<payment, ledgerVars, ruled, couponVars, historyVars>>

\* relatedEntryId is unique: of two cancellations the second is refused
Restore(r) ==
  LET x == job[r].row IN
  /\ pc[r] = "restore"
  /\ redeemed[x].restored = 0
  /\ redeemed' = [redeemed EXCEPT ![x].restored = @ + 1]
  /\ balance' = balance + redeemed[x].units
  /\ End(r)
  /\ UNCHANGED <<payment, earned, closing, ruled, couponVars, historyVars>>

-----------------------------------------------------------------------------
\* CouponService.redeem

StartUse(r) ==
  /\ offered
  /\ \E a \in Appointments :
       /\ use[a] = "none"
       \* the limit is read with the coupon
       /\ Begin(r, [NoJob EXCEPT !.appointment = a, !.units = limit], "count")
  /\ UNCHANGED <<payment, ledgerVars, ruled, couponVars, historyVars>>

\* (fault) the use that is asked for is not counted
CountBelow(r) ==
  /\ pc[r] = "count"
  /\ Uses <= job[r].units
  /\ stale' = IF job[r].units > limit THEN stale \cup {r} ELSE stale
  /\ Goto(r, "value")
  /\ UNCHANGED <<payment, ledgerVars, ruled, couponVars, overdrawn, crowded, short>>

Count(r) ==
  /\ pc[r] = "count"
  /\ Uses < job[r].units
  /\ stale' = IF job[r].units > limit THEN stale \cup {r} ELSE stale
  /\ Goto(r, "value")
  /\ UNCHANGED <<payment, ledgerVars, ruled, couponVars, overdrawn, crowded, short>>

\* Units that were redeemed for the appointment are not looked at
ValueOf(r) ==
  /\ pc[r] = "value"
  /\ Price > CouponDiscount(job[r].appointment)
  /\ Goto(r, "use")
  /\ UNCHANGED <<payment, ledgerVars, ruled, couponVars, historyVars>>

\* @@unique([couponId, appointmentId]), also of uses that were canceled
Use(r) ==
  LET a == job[r].appointment IN
  /\ pc[r] = "use"
  /\ use[a] = "none"
  /\ use' = [use EXCEPT ![a] = "active"]
  /\ crowded' = (crowded \/ r \in stale)
  /\ stale' = (stale \ {r}) \cup Others(r, Using)
  /\ End(r)
  /\ UNCHANGED <<payment, ledgerVars, ruled, limit, offered, overdrawn, short>>

\* CouponService.cancelRedemption: of two cancellations both are written
StartReturn(r) ==
  /\ \E a \in Appointments :
       use[a] = "active" /\ Begin(r, [NoJob EXCEPT !.appointment = a], "return")
  /\ UNCHANGED <<payment, ledgerVars, ruled, couponVars, historyVars>>

Return(r) ==
  /\ pc[r] = "return"
  /\ use' = [use EXCEPT ![job[r].appointment] = "canceled"]
  /\ End(r)
  /\ UNCHANGED <<payment, ledgerVars, ruled, limit, offered, historyVars>>

-----------------------------------------------------------------------------
\* A check refuses, a row is refused, a statement fails or the process ends: what
\* is written stays written.  Units that were to be taken back, or given, are not.
Fail(r) ==
  /\ pc[r] # "idle"
  /\ End(r)
  /\ stale' = stale \ {r}
  /\ short' = short \cup (IF pc[r] \in {"list", "sweep", "close"}
                          THEN ({job[r].payment} \cup job[r].payments) \cap Canceled ELSE {})
  /\ UNCHANGED <<payment, ledgerVars, ruled, couponVars, overdrawn, crowded>>

\* updateRule
UpdateRule ==
  /\ ruled' = ~ruled
  /\ UNCHANGED <<payment, ledgerVars, couponVars, pc, job, historyVars>>

\* CouponService.update, or its time begins or ends
UpdateCoupon ==
  /\ \/ offered' = ~offered /\ UNCHANGED <<limit, stale, crowded>>
     \/ /\ limit' \in Limits \ {limit} /\ UNCHANGED offered
        /\ stale' = IF limit' < limit
                    THEN stale \cup {q \in Requests : pc[q] \in Using} ELSE stale
        /\ crowded' = (crowded \/ Uses > limit')
  /\ UNCHANGED <<payment, ledgerVars, ruled, use, pc, job, overdrawn, short>>

Step(r) ==
  \/ StartPay(r) \/ RecordForPayment(r)
  \/ StartVoid(r) \/ Void(r) \/ ListEarned(r)
  \/ StartExpire(r) \/ NextEntry(r) \/ Close(r) \/ SweepEnds(r)
  \/ StartRedeem(r) \/ Fund(r) \/ Measure(r) \/ Debit(r)
  \/ StartRestore(r) \/ Restore(r)
  \/ StartUse(r) \/ Count(r) \/ ValueOf(r) \/ Use(r)
  \/ StartReturn(r) \/ Return(r)
  \/ Fail(r)

Next == (\E r \in Requests : Step(r)) \/ UpdateRule \/ UpdateCoupon

Spec == Init /\ [][Next]_vars

-----------------------------------------------------------------------------
\* cancelForPayment: a payment that is canceled keeps none of its units, unless
\* its entry was closed when the balance was short, was recorded behind the
\* cancellation, or taking it back failed.
CanceledIsTakenBack ==
  \A p \in (earned \cap Canceled) \ short :
    \/ closing[p] = Earn[p]
    \/ \E r \in Requests : \/ pc[r] \in {"list", "close"} /\ job[r].payment = p
                           \/ p \in job[r].payments

\* loyalty.service.ts:208 and 491: every debit is limited by the balance, so only
\* one that was decided on a balance another debit has lowered can overdraw it.
NegativeOnlyByRace == balance < 0 => overdrawn

\* docs/STATUS.md:226: the coupon has no more uses than its limit, unless a use
\* was decided on a count or a limit that changed, or the limit was lowered.
CouponWithinLimit == Uses > limit => crowded

=============================================================================
