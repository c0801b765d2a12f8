------------------------------ MODULE Payments ------------------------------
(***************************************************************************)
(* The payments of one appointment (modules/payments).  Registering one    *)
(* checks the sum of the paid ones, creates the payment, and only then, in *)
(* statements of their own, moves the cash of the open register, records   *)
(* the commission of the professional and earns the loyalty credit of the  *)
(* customer.  Canceling one undoes the four in the same order.             *)
(***************************************************************************)
EXTENDS CashRegister, FiniteSets, FiniteSetsExt

CONSTANTS
  Ids,        \* the payments rows of the appointment, created or not
  Cents,      \* amounts paid (a bound)
  Price,      \* price of the appointment
  ByHand,     \* amounts the desk moves by hand (a bound)
  MaxDesk,    \* requests at the desk at the same time (a bound)
  MaxBroken,  \* payments that are left unfinished (a bound)
  None

ASSUME PaymentsAssumption ==
  /\ IsFiniteSet(Ids)
  /\ Cents \subseteq Nat \ {0}
  /\ \A n \in Cents : n \in Amounts /\ -n \in Amounts
  /\ ByHand \subseteq Amounts
  /\ Price \in Nat
  /\ None \notin Registers \cup Ids

VARIABLES
  status,      \* [Ids -> {"none", "PAID", "CANCELED"}]
  amount,      \* [Ids -> Cents \cup {0}]
  entry,       \* [Ids -> Registers \cup {None}]: register of its IN movement
  reversals,   \* [Ids -> Nat]: its OUT movements
  commission,  \* [Ids -> {"none", "ACTIVE", "CANCELED"}]
  credit,      \* [Ids -> {"none", "OPEN", "SPENT", "CLOSED"}]: loyalty credit;
               \* SPENT is an open one whose value the customer had used up
  pc,          \* [Requests -> Phases]: where each request is
  subject,     \* [Requests -> Ids \cup {None}]: its payment
  crowded,     \* two requests summed the payments before either created its own (history)
  broken,      \* payments a request left unfinished (history)
  crossed,     \* payments canceled while still being registered (history)
  doubled      \* payments two requests found PAID, to cancel them (history)

paymentVars == <<status, amount, entry, reversals, commission, credit>>
historyVars == <<crowded, broken, crossed, doubled>>
vars == <<cashVars, paymentVars, pc, subject, historyVars>>

Registering == {"insert", "findRegister", "cashIn", "commission", "credit"}
Canceling == {"cancel", "findEntry", "cashOut", "cancelCommission", "reverseCredit"}
Phases == {"idle"} \cup Registering \cup Canceling

TypeOK ==
  /\ CashTypeOK
  /\ status \in [Ids -> {"none", "PAID", "CANCELED"}]
  /\ amount \in [Ids -> Cents \cup {0}]
  /\ entry \in [Ids -> Registers \cup {None}]
  /\ reversals \in [Ids -> Nat]
  /\ commission \in [Ids -> {"none", "ACTIVE", "CANCELED"}]
  /\ credit \in [Ids -> {"none", "OPEN", "SPENT", "CLOSED"}]
  /\ pc \in [Requests -> Phases]
  /\ subject \in [Requests -> Ids \cup {None}]
  /\ crowded \in BOOLEAN
  /\ broken \subseteq Ids /\ crossed \subseteq Ids /\ doubled \subseteq Ids
  /\ \A p \in Ids : status[p] # "none" => amount[p] # 0
  /\ \A r \in Requests : pc[r] # "idle" => subject[r] # None

Init ==
  /\ CashInit
  /\ status = [p \in Ids |-> "none"]
  /\ amount = [p \in Ids |-> 0]
  /\ entry = [p \in Ids |-> None]
  /\ reversals = [p \in Ids |-> 0]
  /\ commission = [p \in Ids |-> "none"]
  /\ credit = [p \in Ids |-> "none"]
  /\ pc = [r \in Requests |-> "idle"]
  /\ subject = [r \in Requests |-> None]
  /\ crowded = FALSE /\ broken = {} /\ crossed = {} /\ doubled = {}

-----------------------------------------------------------------------------
Goto(r, phase) == pc' = [pc EXCEPT ![r] = phase] /\ UNCHANGED subject

Begin(r, p, phase) ==
  /\ pc[r] = "idle" /\ visit[r] = Away
  /\ pc' = [pc EXCEPT ![r] = phase]
  /\ subject' = [subject EXCEPT ![r] = p]

\* The answer, or the error, is sent
End(r) ==
  /\ pc' = [pc EXCEPT ![r] = "idle"]
  /\ subject' = [subject EXCEPT ![r] = None]

At(r, phases, p) == pc[r] \in phases /\ subject[r] = p

Busy(phases, p) == \E r \in Requests : At(r, phases, p)

ValidAmount == Cents

PaidTotal == MapThenSumSet(LAMBDA p : amount[p], {p \in Ids : status[p] = "PAID"})

\* (fault) the new amount alone is compared with the price
Alone(n) == n <= Price

\* What discounts leave of the price is at most the price
Fits(n) == \E due \in 0..Price : PaidTotal + n <= due

-----------------------------------------------------------------------------
\* PaymentService.create

StartCreate(r) ==
  \E p \in Ids, n \in ValidAmount :
    /\ status[p] = "none" /\ ~Busy(Registering, p)
    /\ Fits(n)
    /\ Begin(r, p, "insert")
    /\ amount' = [amount EXCEPT ![p] = n]
    /\ crowded' = (crowded \/ \E q \in Requests : pc[q] = "insert")
    /\ UNCHANGED <<cashVars, status, entry, reversals, commission, credit,
                   broken, crossed, doubled>>

Insert(r) ==
  /\ pc[r] = "insert"
  /\ status' = [status EXCEPT ![subject[r]] = "PAID"]
  /\ Goto(r, "findRegister")
  /\ UNCHANGED <<cashVars, amount, entry, reversals, commission, credit, historyVars>>

\* (fault) without an open register the whole request is over
StopWithoutRegister(r) ==
  /\ pc[r] = "findRegister"
  /\ \/ \E c \in Registers : Approach(r, c, amount[subject[r]]) /\ Goto(r, "cashIn")
     \/ NoneOpen /\ End(r) /\ UNCHANGED cashVars
  /\ UNCHANGED <<paymentVars, historyVars>>

\* recordPayment: no open register, no movement
FindRegister(r) ==
  /\ pc[r] = "findRegister"
  /\ \/ \E c \in Registers : Approach(r, c, amount[subject[r]]) /\ Goto(r, "cashIn")
     \/ NoneOpen /\ Goto(r, "commission") /\ UNCHANGED cashVars
  /\ UNCHANGED <<paymentVars, historyVars>>

CashIn(r) ==
  /\ pc[r] = "cashIn"
  /\ \E c \in Registers :
       Move(r, c) /\ entry' = [entry EXCEPT ![subject[r]] = c]
  /\ Goto(r, "commission")
  /\ UNCHANGED <<status, amount, reversals, commission, credit, historyVars>>

RecordCommission(r) ==
  /\ pc[r] = "commission"
  /\ commission' = [commission EXCEPT ![subject[r]] = "ACTIVE"]
  /\ Goto(r, "credit")
  /\ UNCHANGED <<cashVars, status, amount, entry, reversals, credit, historyVars>>

\* A deposit, an inactive rule or a small amount earns nothing
RecordCredit(r) ==
  /\ pc[r] = "credit"
  /\ \E earned \in {"none", "OPEN"} : credit' = [credit EXCEPT ![subject[r]] = earned]
  /\ End(r)
  /\ UNCHANGED <<cashVars, status, amount, entry, reversals, commission, historyVars>>

-----------------------------------------------------------------------------
\* PaymentService.cancel

\* (fault) a payment is canceled whatever its status
CancelAgain(r) ==
  \E p \in Ids :
    /\ status[p] # "none"
    /\ Begin(r, p, "cancel")
    /\ crossed' = crossed \cup (IF Busy(Registering, p) THEN {p} ELSE {})
    /\ doubled' = doubled \cup (IF Busy({"cancel"}, p) THEN {p} ELSE {})
    /\ UNCHANGED <<cashVars, paymentVars, crowded, broken>>

StartCancel(r) ==
  \E p \in Ids :
    /\ status[p] = "PAID"
    /\ Begin(r, p, "cancel")
    /\ crossed' = crossed \cup (IF Busy(Registering, p) THEN {p} ELSE {})
    /\ doubled' = doubled \cup (IF Busy({"cancel"}, p) THEN {p} ELSE {})
    /\ UNCHANGED <<cashVars, paymentVars, crowded, broken>>

Cancel(r) ==
  /\ pc[r] = "cancel"
  /\ status' = [status EXCEPT ![subject[r]] = "CANCELED"]
  /\ Goto(r, "findEntry")
  /\ UNCHANGED <<cashVars, amount, entry, reversals, commission, credit, historyVars>>

\* Its movement is in a register that is still open
Reversible(p) == entry[p] # None /\ register[entry[p]] = "OPEN"

\* (fault) the reversal does not look at the status of the register
ReverseAnywhere(r) ==
  /\ pc[r] = "findEntry"
  /\ LET p == subject[r]
     IN  \/ /\ entry[p] # None
            /\ Enter(r, [op |-> "move", register |-> entry[p], amount |-> -amount[p]])
            /\ Goto(r, "cashOut")
            /\ UNCHANGED <<register, balance, closing, contested, overlapped>>
         \/ entry[p] = None /\ Goto(r, "cancelCommission") /\ UNCHANGED cashVars
  /\ UNCHANGED <<paymentVars, historyVars>>

FindEntry(r) ==
  /\ pc[r] = "findEntry"
  /\ LET p == subject[r]
     IN  \/ Reversible(p) /\ Approach(r, entry[p], -amount[p]) /\ Goto(r, "cashOut")
         \/ ~Reversible(p) /\ Goto(r, "cancelCommission") /\ UNCHANGED cashVars
  /\ UNCHANGED <<paymentVars, historyVars>>

CashOut(r) ==
  /\ pc[r] = "cashOut"
  /\ \E c \in Registers : Move(r, c)
  /\ reversals' = [reversals EXCEPT ![subject[r]] = @ + 1]
  /\ Goto(r, "cancelCommission")
  /\ UNCHANGED <<status, amount, entry, commission, credit, historyVars>>

\* (fault) the commission is left to whoever pays it out
KeepCommission(r) ==
  /\ pc[r] = "cancelCommission"
  /\ Goto(r, "reverseCredit")
  /\ UNCHANGED <<cashVars, paymentVars, historyVars>>

\* cancelForPayment: the commission that is still active, if there is one
CancelCommission(r) ==
  /\ pc[r] = "cancelCommission"
  /\ commission' =
       [commission EXCEPT ![subject[r]] = IF @ = "ACTIVE" THEN "CANCELED" ELSE @]
  /\ Goto(r, "reverseCredit")
  /\ UNCHANGED <<cashVars, status, amount, entry, reversals, credit, historyVars>>

\* cancelForPayment: a credit that no reversal closes yet is taken back, or as
\* much of it as the customer still has, or left as it is if nothing is left
ReverseCredit(r) ==
  /\ pc[r] = "reverseCredit"
  /\ LET p == subject[r]
     IN  \/ credit[p] \in {"OPEN", "SPENT"} /\ credit' = [credit EXCEPT ![p] = "CLOSED"]
         \/ credit[p] = "OPEN" /\ credit' = [credit EXCEPT ![p] = "SPENT"]
         \/ credit[p] # "OPEN" /\ UNCHANGED credit
  /\ End(r)
  /\ UNCHANGED <<cashVars, status, amount, entry, reversals, commission, historyVars>>

-----------------------------------------------------------------------------
\* A statement fails or the process ends: what is written stays written
Fail(r) ==
  /\ pc[r] # "idle" /\ Cardinality(broken) < MaxBroken
  /\ End(r)
  /\ IF pc[r] \in {"cashIn", "cashOut"} THEN GiveUp(r) ELSE UNCHANGED cashVars
  /\ broken' = broken \cup (IF pc[r] \in {"insert", "cancel"} THEN {} ELSE {subject[r]})
  /\ UNCHANGED <<paymentVars, crowded, crossed, doubled>>

AtDesk(r) == pc[r] = "idle" /\ visit[r] # Away

\* A request of the desk: it opens or closes a register or moves cash by hand
DeskStep(r) ==
  /\ pc[r] = "idle"
  /\ Desk(r)
  /\ Cardinality({q \in Requests \ {r} : AtDesk(q)}) < MaxDesk
  /\ visit'[r].op = "move" => visit'[r].amount \in ByHand
  /\ UNCHANGED <<paymentVars, pc, subject, historyVars>>

CreateStep(r) ==
  StartCreate(r) \/ Insert(r) \/ FindRegister(r) \/ CashIn(r)
    \/ RecordCommission(r) \/ RecordCredit(r)

CancelStep(r) ==
  StartCancel(r) \/ Cancel(r) \/ FindEntry(r) \/ CashOut(r)
    \/ CancelCommission(r) \/ ReverseCredit(r)

Next == \E r \in Requests : CreateStep(r) \/ CancelStep(r) \/ Fail(r) \/ DeskStep(r)

Spec == Init /\ [][Next]_vars

-----------------------------------------------------------------------------
\* The paid payments exceed the price only if two requests have summed them up
\* before either created its own; failures and cancellations change nothing.
PaidWithinPrice == crowded \/ PaidTotal <= Price

\* A paid payment has an active commission as soon as its registration is over,
\* unless that one was cut short: nobody repeats the steps behind the payment.
PaidIsComplete ==
  \A p \in Ids \ broken :
    status[p] = "PAID" /\ ~Busy(Registering, p) => commission[p] = "ACTIVE"

\* Nothing outlives a canceled payment: its commission is canceled, its credit is
\* taken back and its cash is out of the register, if that is still open.  Only a
\* failure half way, which no second cancellation repairs, and a cancellation
\* that overtook the registration leave something behind.
CancelUndoes ==
  \A p \in Ids \ (broken \cup crossed) :
    status[p] = "CANCELED" /\ ~Busy(Canceling, p) =>
      /\ commission[p] # "ACTIVE"
      /\ credit[p] # "OPEN"
      /\ Reversible(p) => reversals[p] > 0

\* The cash of a payment leaves the register once, and only when it is canceled,
\* unless two cancellations have found it PAID: its OUT row carries no paymentId,
\* so no unique key stops the second one.
ReversedOnce ==
  \A p \in Ids :
    /\ reversals[p] > 0 => status[p] = "CANCELED"
    /\ reversals[p] > 1 => p \in doubled

\* To the desk a payment is one more request that moves cash: nothing it does
\* to the registers is beyond what CashRegister allows.
CashImplemented == CashSpec
=============================================================================
