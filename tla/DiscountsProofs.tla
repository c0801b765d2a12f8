--------------------------- MODULE DiscountsProofs --------------------------
(***************************************************************************)
(* Proofs about Discounts for any payments, appointments, redemptions and  *)
(* number of requests: what overdraws a balance, what a canceled payment   *)
(* keeps, and how often a coupon is used.                                  *)
(***************************************************************************)
EXTENDS Discounts, FiniteSetTheorems, TLAPS

\* Who decided on the balance and is not stale can still take its units from it
FundedInv ==
  /\ \A r \in Requests \ stale : pc[r] \in Debiting => job[r].units <= balance
  /\ NegativeOnlyByRace

\* A closed entry was closed in full, or is known to be short
ClosedInv ==
  /\ \A p \in Payments \ short : closing[p] \in {0, Earn[p]}
  /\ \A r \in Requests : pc[r] = "close" => job[r].units <= Earn[job[r].payment]
  /\ CanceledIsTakenBack

\* Who counted the uses and is not stale may still add one
CountedInv ==
  /\ \A r \in Requests \ stale : pc[r] \in Using => Uses < limit
  /\ CouponWithinLimit

-----------------------------------------------------------------------------
LEMMA NoJobType ==
  /\ NoJob \in Job
  /\ NoJob.payments = {} /\ NoJob.payment = None /\ NoJob.row = None
BY DEF NoJob, Job

\* The jobs the operations begin with, or go on with.
PaymentJob(p) == [NoJob EXCEPT !.payment = p]
SweepJob(S) == [NoJob EXCEPT !.payments = S]
CloseJob(S, p, n) == [NoJob EXCEPT !.payments = S, !.payment = p, !.units = n]
VisitJob(a) == [NoJob EXCEPT !.appointment = a]
UnitsJob(a, n) == [NoJob EXCEPT !.appointment = a, !.units = n]
RowJob(x) == [NoJob EXCEPT !.row = x]

LEMMA PaymentJobType ==
  ASSUME NEW p \in Payments
  PROVE  PaymentJob(p) \in Job /\ PaymentJob(p).payment = p /\ PaymentJob(p).payments = {}
BY DEF PaymentJob, NoJob, Job

LEMMA SweepJobType ==
  ASSUME NEW S \in SUBSET Payments
  PROVE  SweepJob(S) \in Job /\ SweepJob(S).payments = S
BY DEF SweepJob, NoJob, Job

LEMMA CloseJobType ==
  ASSUME NEW S \in SUBSET Payments, NEW p \in Payments, NEW n \in Int
  PROVE  /\ CloseJob(S, p, n) \in Job
         /\ CloseJob(S, p, n).payments = S
         /\ CloseJob(S, p, n).payment = p
         /\ CloseJob(S, p, n).units = n
BY DEF CloseJob, NoJob, Job

LEMMA VisitJobType ==
  ASSUME NEW a \in Appointments
  PROVE  VisitJob(a) \in Job /\ VisitJob(a).appointment = a /\ VisitJob(a).payments = {}
BY DEF VisitJob, NoJob, Job

LEMMA UnitsJobType ==
  ASSUME NEW a \in Appointments, NEW n \in Int
  PROVE  /\ UnitsJob(a, n) \in Job
         /\ UnitsJob(a, n).appointment = a
         /\ UnitsJob(a, n).units = n
         /\ UnitsJob(a, n).payments = {}
BY DEF UnitsJob, NoJob, Job

LEMMA RowJobType ==
  ASSUME NEW x \in Redemptions
  PROVE  RowJob(x) \in Job /\ RowJob(x).row = x /\ RowJob(x).payments = {}
BY DEF RowJob, NoJob, Job

\* TypeOK in two parts: the rows, and what each request needs in its phase
RowsOK ==
  /\ payment \in [Payments -> {"none", "PAID", "CANCELED"}]
  /\ earned \subseteq Payments
  /\ closing \in [Payments -> Nat]
  /\ redeemed \in [Redemptions -> Redemption \cup {None}]
  /\ balance \in Int
  /\ use \in [Appointments -> {"none", "active", "canceled"}]
  /\ limit \in Limits
  /\ ruled \in BOOLEAN /\ offered \in BOOLEAN
  /\ stale \subseteq Requests /\ short \subseteq Payments
  /\ overdrawn \in BOOLEAN /\ crowded \in BOOLEAN

Fits(phase, j, rows) ==
  /\ phase \in {"earn", "void", "list", "close"} => j.payment # None
  /\ phase \in {"close", "fund", "measure", "debit"} => j.units > 0
  /\ phase \in {"fund", "measure", "debit", "count", "value", "use", "return"}
       => j.appointment # None
  /\ phase = "restore" => j.row # None /\ rows[j.row] # None

JobsOK ==
  /\ pc \in [Requests -> Phases]
  /\ job \in [Requests -> Job]
  /\ \A r \in Requests : Fits(pc[r], job[r], redeemed)

LEMMA TypeParts == TypeOK <=> RowsOK /\ JobsOK
BY DEF TypeOK, RowsOK, JobsOK, Fits

\* Request r goes to a phase, with a job
Moves(r, phase, j) ==
  /\ pc' = [pc EXCEPT ![r] = phase]
  /\ job' = [job EXCEPT ![r] = j]

\* One request goes on, to a phase and job that fit
Moving(r) == \E phase \in Phases, j \in Job : Moves(r, phase, j) /\ Fits(phase, j, redeemed')

\* The others stay where they are
Steady(r) == \A q \in Requests \ {r} : pc'[q] = pc[q] /\ job'[q] = job[q]

\* No row of the ledger is deleted
RowsKept == \A x \in Redemptions : redeemed[x] # None => redeemed'[x] # None

LEMMA MovesType ==
  ASSUME TypeOK, NEW r \in Requests, Moving(r), RowsKept
  PROVE  JobsOK'
<1>1. \A q \in Requests : pc[q] = "restore" => job[q].row \in Redemptions
  BY DEF TypeOK, Job
<1>2. PICK phase \in Phases, j \in Job : Moves(r, phase, j) /\ Fits(phase, j, redeemed')
  BY DEF Moving
<1>3. pc' \in [Requests -> Phases] /\ job' \in [Requests -> Job]
  BY <1>2 DEF TypeOK, Moves
<1>4. ASSUME NEW q \in Requests PROVE Fits(pc'[q], job'[q], redeemed')
  <2>1. CASE q = r
    <3>1. pc'[q] = phase /\ job'[q] = j
      BY <1>2, <2>1 DEF TypeOK, Moves
    <3> QED BY <1>2, <3>1 DEF Fits
  <2>2. CASE q # r
    <3>1. pc'[q] = pc[q] /\ job'[q] = job[q]
      BY <1>2, <2>2 DEF TypeOK, Moves
    <3>2. Fits(pc[q], job[q], redeemed)
      BY TypeParts DEF JobsOK
    <3> QED BY <1>1, <3>1, <3>2 DEF Fits, RowsKept
  <2> QED BY <2>1, <2>2
<1> QED BY <1>3, <1>4 DEF JobsOK

LEMMA MovesSteady ==
  ASSUME TypeOK, NEW r \in Requests, NEW phase, NEW j, Moves(r, phase, j)
  PROVE  Steady(r) /\ pc'[r] = phase /\ job'[r] = j
BY DEF TypeOK, Moves, Steady

LEMMA EndMoves ==
  ASSUME TypeOK, NEW r \in Requests, End(r)
  PROVE  Moves(r, "idle", NoJob) /\ Moving(r)
BY NoJobType DEF End, Moves, Moving, Fits, Phases

LEMMA GotoMoves ==
  ASSUME TypeOK, NEW r \in Requests, NEW phase, Goto(r, phase)
  PROVE  Moves(r, phase, job[r]) /\ job[r] \in Job
BY DEF Goto, Moves, TypeOK

LEMMA BeginMoves ==
  ASSUME NEW r \in Requests, NEW phase, NEW j, Begin(r, j, phase)
  PROVE  Moves(r, phase, j) /\ pc[r] = "idle"
BY DEF Begin, Moves

LEMMA UsesType == TypeOK => Uses \in Nat
<1>1. IsFiniteSet({a \in Appointments : use[a] = "active"})
  BY DiscountsAssumption, FS_Subset
<1> QED BY <1>1, FS_CardinalityType DEF Uses

-----------------------------------------------------------------------------
\* Every step of a request leaves well-typed rows, and the request where it may be.
LEMMA StepMoves ==
  ASSUME TypeOK, NEW r \in Requests, Step(r)
  PROVE  RowsOK' /\ Moving(r) /\ RowsKept
<1> USE DiscountsAssumption
<1>0. /\ RowsOK /\ Fits(pc[r], job[r], redeemed)
      /\ job[r] \in Job /\ job[r].payments \subseteq Payments
      /\ job[r].payment \in Payments \cup {None} /\ job[r].row \in Redemptions \cup {None}
      /\ job[r].appointment \in Appointments \cup {None} /\ job[r].units \in Int
  BY TypeParts DEF JobsOK, TypeOK, Job
<1>1. CASE StartPay(r)
  <2>1. PICK p \in Payments : /\ payment' = [payment EXCEPT ![p] = "PAID"]
                              /\ Begin(r, PaymentJob(p), "earn")
    BY <1>1 DEF StartPay, PaymentJob
  <2>2. Moves(r, "earn", PaymentJob(p))
    BY <2>1, BeginMoves
  <2>3. Fits("earn", PaymentJob(p), redeemed')
    BY PaymentJobType DEF Fits
  <2> QED BY <1>0, <1>1, <2>1, <2>2, <2>3, PaymentJobType
          DEF StartPay, Moving, Phases, RowsOK, RowsKept, ledgerVars, couponVars, historyVars
<1>2. CASE RecordForPayment(r)
  <2>1. job[r].payment \in Payments
    BY <1>0, <1>2 DEF RecordForPayment, Fits
  <2>2. Earn[job[r].payment] \in Nat
    BY <2>1
  <2>3. Moving(r)
    BY <1>2, EndMoves DEF RecordForPayment
  <2> QED BY <1>0, <1>2, <2>1, <2>2, <2>3
          DEF RecordForPayment, RowsOK, RowsKept, couponVars
<1>3. CASE StartVoid(r)
  <2>1. PICK p \in Payments : Begin(r, PaymentJob(p), "void")
    BY <1>3 DEF StartVoid, PaymentJob
  <2>2. Moves(r, "void", PaymentJob(p))
    BY <2>1, BeginMoves
  <2>3. Fits("void", PaymentJob(p), redeemed')
    BY PaymentJobType DEF Fits
  <2> QED BY <1>0, <1>3, <2>2, <2>3, PaymentJobType
          DEF StartVoid, Moving, Phases, RowsOK, RowsKept, ledgerVars, couponVars, historyVars
<1>4. CASE Void(r)
  <2>1. Moves(r, "list", job[r])
    BY <1>4, GotoMoves DEF Void
  <2>2. Fits("list", job[r], redeemed')
    BY <1>0, <1>4 DEF Void, Fits, Goto
  <2> QED BY <1>0, <1>4, <2>1, <2>2
          DEF Void, Moving, Moves, Fits, Phases, RowsOK, RowsKept, ledgerVars, couponVars, historyVars
<1>5. CASE ListEarned(r)
  <2> DEFINE S == {job[r].payment} \cap OpenEntries
  <2>1. S \in SUBSET Payments
    BY <1>0 DEF OpenEntries, RowsOK
  <2>2. Moves(r, "sweep", SweepJob(S))
    BY <1>5 DEF ListEarned, Moves, SweepJob
  <2>3. Fits("sweep", SweepJob(S), redeemed')
    BY DEF Fits
  <2> HIDE DEF S
  <2> QED BY <1>0, <1>5, <2>1, <2>2, <2>3, SweepJobType
          DEF ListEarned, Moving, Phases, RowsOK, RowsKept, ledgerVars, couponVars, historyVars
<1>6. CASE StartExpire(r)
  <2>1. PICK S \in SUBSET OpenEntries : Begin(r, SweepJob(S), "sweep")
    BY <1>6 DEF StartExpire, SweepJob
  <2>2. S \in SUBSET Payments
    BY <1>0, <2>1 DEF OpenEntries, RowsOK
  <2>3. Moves(r, "sweep", SweepJob(S))
    BY <2>1, BeginMoves
  <2>4. Fits("sweep", SweepJob(S), redeemed')
    BY DEF Fits
  <2> QED BY <1>0, <1>6, <2>2, <2>3, <2>4, SweepJobType
          DEF StartExpire, Moving, Phases, RowsOK, RowsKept, ledgerVars, couponVars, historyVars
<1>7. CASE NextEntry(r)
  <2>1. RowsOK' /\ RowsKept
    BY <1>0, <1>7 DEF NextEntry, RowsOK, RowsKept, ledgerVars, couponVars
  <2>2. PICK p \in job[r].payments :
          \/ /\ Lesser(Earn[p], balance) > 0
             /\ Moves(r, "close", CloseJob(job[r].payments \ {p}, p, Lesser(Earn[p], balance)))
          \/ Moves(r, "sweep", SweepJob(job[r].payments \ {p}))
    <3>1. pc[r] = "sweep" /\ pc = [pc EXCEPT ![r] = "sweep"]
      BY <1>7 DEF NextEntry, TypeOK
    <3> QED BY <1>7, <3>1 DEF NextEntry, Moves, SweepJob, CloseJob
  <2> DEFINE rest == job[r].payments \ {p}
             units == Lesser(Earn[p], balance)
             go == CloseJob(rest, p, units)
             skip == SweepJob(rest)
  <2>3. p \in Payments /\ rest \in SUBSET Payments
    BY <1>0
  <2>4. units \in Int
    BY <1>0, <2>3 DEF Lesser, RowsOK
  <2>5. CASE units > 0 /\ Moves(r, "close", go)
    <3>1. go \in Job /\ go.payment = p /\ go.units = units
      BY <2>3, <2>4, SweepJobType, CloseJobType
    <3> HIDE DEF go, units
    <3>2. Fits("close", go, redeemed')
      BY <2>3, <2>5, <3>1 DEF Fits
    <3> QED BY <2>1, <2>5, <3>1, <3>2 DEF Moving, Phases
  <2>6. CASE Moves(r, "sweep", skip)
    <3>1. skip \in Job
      BY <2>3, SweepJobType, CloseJobType
    <3>2. Fits("sweep", skip, redeemed')
      BY DEF Fits
    <3> HIDE DEF skip
    <3> QED BY <2>1, <2>6, <3>1, <3>2 DEF Moving, Phases
  <2> QED BY <2>2, <2>5, <2>6
<1>8. CASE Close(r)
  <2> DEFINE j == SweepJob(job[r].payments)
  <2>1. job[r].payment \in Payments /\ job[r].units \in Nat \ {0}
    BY <1>0, <1>8 DEF Close, Fits
  <2>2. RowsOK' /\ RowsKept
    BY <1>0, <1>8, <2>1 DEF Close, WriteDebit, Others, RowsOK, RowsKept, couponVars
  <2>3. Moves(r, "sweep", j) /\ j \in Job
    BY <1>0, <1>8, SweepJobType DEF Close, Moves, SweepJob
  <2>4. Fits("sweep", j, redeemed')
    BY DEF Fits
  <2> HIDE DEF j
  <2> QED BY <2>2, <2>3, <2>4 DEF Moving, Phases
<1>9. CASE SweepEnds(r)
  BY <1>0, <1>9, EndMoves
     DEF SweepEnds, RowsOK, RowsKept, ledgerVars, couponVars, historyVars
<1>10. CASE StartRedeem(r)
  <2>1. PICK a \in Appointments, n \in Units :
          Begin(r, UnitsJob(a, n), "fund")
    BY <1>10 DEF StartRedeem, UnitsJob
  <2> DEFINE j == UnitsJob(a, n)
  <2>2. j \in Job /\ j.appointment = a /\ j.units = n /\ n > 0
    <3>1. n \in Int /\ n > 0
      OBVIOUS
    <3> QED BY <3>1, UnitsJobType
  <2> HIDE DEF j
  <2>3. Moves(r, "fund", j)
    BY <2>1, BeginMoves DEF j
  <2>4. Fits("fund", j, redeemed')
    BY <2>2 DEF Fits
  <2> QED BY <1>0, <1>10, <2>2, <2>3, <2>4
          DEF StartRedeem, Moving, Phases, RowsOK, RowsKept, ledgerVars, couponVars, historyVars
<1>11. CASE Fund(r)
  <2>1. Moves(r, "measure", job[r]) /\ Fits("measure", job[r], redeemed')
    BY <1>0, <1>11, GotoMoves DEF Fund, Fits
  <2> QED BY <1>0, <1>11, <2>1
          DEF Fund, Moving, Phases, RowsOK, RowsKept, ledgerVars, couponVars, historyVars
<1>12. CASE Measure(r)
  <2>1. Moves(r, "debit", job[r]) /\ Fits("debit", job[r], redeemed')
    BY <1>0, <1>12, GotoMoves DEF Measure, Fits
  <2> QED BY <1>0, <1>12, <2>1
          DEF Measure, Moving, Phases, RowsOK, RowsKept, ledgerVars, couponVars, historyVars
<1>13. CASE Debit(r)
  <2>1. Moving(r)
    BY <1>13, EndMoves DEF Debit
  <2>2. [appointment |-> job[r].appointment, units |-> job[r].units, restored |-> 0] \in Redemption
    BY <1>0, <1>13 DEF Debit, Fits, Redemption
  <2> DEFINE row == [appointment |-> job[r].appointment, units |-> job[r].units, restored |-> 0]
  <2> HIDE DEF row
  <2>3. row # None
    BY <2>2 DEF row
  <2>4. RowsKept /\ redeemed' \in [Redemptions -> Redemption \cup {None}]
    BY <1>0, <1>13, <2>2, <2>3 DEF row, Debit, RowsKept, RowsOK
  <2> QED BY <1>0, <1>13, <2>1, <2>4 DEF Debit, WriteDebit, Others, RowsOK, couponVars
<1>14. CASE StartRestore(r)
  <2>1. PICK x \in Redemptions : Active(x) /\ Begin(r, RowJob(x), "restore")
    BY <1>14 DEF StartRestore, RowJob
  <2>2. Moves(r, "restore", RowJob(x))
    BY <2>1, BeginMoves
  <2>3. redeemed[x] # None /\ redeemed' = redeemed /\ x # None
    BY <1>14, <2>1 DEF StartRestore, Active, ledgerVars
  <2>4. Fits("restore", RowJob(x), redeemed')
    BY <2>3, RowJobType DEF Fits
  <2> QED BY <1>0, <1>14, <2>2, <2>4, RowJobType
          DEF StartRestore, Moving, Phases, RowsOK, RowsKept, ledgerVars, couponVars, historyVars
<1>15. CASE Restore(r)
  <2> DEFINE x == job[r].row
  <2>1. Moving(r)
    BY <1>15, EndMoves DEF Restore
  <2>2. x \in Redemptions /\ redeemed[x] \in Redemption /\ redeemed[x].restored = 0
    BY <1>0, <1>15 DEF Restore, Fits, RowsOK
  <2>3. [redeemed[x] EXCEPT !.restored = @ + 1] \in Redemption
    BY <2>2 DEF Redemption
  <2>4. redeemed' = [redeemed EXCEPT ![x] = [redeemed[x] EXCEPT !.restored = @ + 1]]
    BY <1>15 DEF Restore
  <2>5. RowsKept /\ redeemed' \in [Redemptions -> Redemption \cup {None}]
    BY <1>0, <2>2, <2>3, <2>4 DEF RowsKept, RowsOK
  <2>6. balance' \in Int
    BY <1>0, <1>15, <2>2 DEF Restore, RowsOK, Redemption
  <2> QED BY <1>0, <1>15, <2>1, <2>5, <2>6 DEF Restore, RowsOK, couponVars, historyVars
<1>16. CASE StartUse(r)
  <2>1. PICK a \in Appointments :
          Begin(r, UnitsJob(a, limit), "count")
    BY <1>16 DEF StartUse, UnitsJob
  <2> DEFINE j == UnitsJob(a, limit)
  <2>2. j \in Job /\ j.appointment = a
    BY <1>0, UnitsJobType DEF RowsOK
  <2> HIDE DEF j
  <2>3. Moves(r, "count", j) /\ Fits("count", j, redeemed')
    BY <2>1, <2>2, BeginMoves DEF j, Fits
  <2> QED BY <1>0, <1>16, <2>2, <2>3
          DEF StartUse, Moving, Phases, RowsOK, RowsKept, ledgerVars, couponVars, historyVars
<1>17. CASE Count(r)
  <2>1. Moves(r, "value", job[r]) /\ Fits("value", job[r], redeemed')
    BY <1>0, <1>17, GotoMoves DEF Count, Fits
  <2> QED BY <1>0, <1>17, <2>1 DEF Count, Moving, Phases, RowsOK, RowsKept, ledgerVars, couponVars
<1>18. CASE ValueOf(r)
  <2>1. Moves(r, "use", job[r]) /\ Fits("use", job[r], redeemed')
    BY <1>0, <1>18, GotoMoves DEF ValueOf, Fits
  <2> QED BY <1>0, <1>18, <2>1
          DEF ValueOf, Moving, Phases, RowsOK, RowsKept, ledgerVars, couponVars, historyVars
<1>19. CASE Use(r)
  BY <1>0, <1>19, EndMoves DEF Use, Others, RowsOK, RowsKept, ledgerVars
<1>20. CASE StartReturn(r)
  <2>1. PICK a \in Appointments : Begin(r, VisitJob(a), "return")
    BY <1>20 DEF StartReturn, VisitJob
  <2>2. Moves(r, "return", VisitJob(a))
    BY <2>1, BeginMoves
  <2>3. Fits("return", VisitJob(a), redeemed')
    BY VisitJobType DEF Fits
  <2> QED BY <1>0, <1>20, <2>2, <2>3, VisitJobType
          DEF StartReturn, Moving, Phases, RowsOK, RowsKept, ledgerVars, couponVars, historyVars
<1>21. CASE Return(r)
  BY <1>0, <1>21, EndMoves DEF Return, RowsOK, RowsKept, ledgerVars, historyVars
<1>22. CASE Fail(r)
  BY <1>0, <1>22, EndMoves DEF Fail, Canceled, RowsOK, RowsKept, ledgerVars, couponVars
<1> QED BY <1>1, <1>2, <1>3, <1>4, <1>5, <1>6, <1>7, <1>8, <1>9, <1>10, <1>11, <1>12, <1>13,
           <1>14, <1>15, <1>16, <1>17, <1>18, <1>19, <1>20, <1>21, <1>22 DEF Step

\* The rows, the requests and what the requests go on with are of their types.
THEOREM DiscountsTypeOK == Spec => []TypeOK
<1>1. Init => TypeOK
  <2>1. Init => RowsOK
    <3> SUFFICES ASSUME Init PROVE RowsOK
      OBVIOUS
    <3>1. /\ payment \in [Payments -> {"none", "PAID", "CANCELED"}]
          /\ closing \in [Payments -> Nat]
          /\ use \in [Appointments -> {"none", "active", "canceled"}]
      BY DEF Init
    <3>2. redeemed \in [Redemptions -> Redemption \cup {None}]
      BY DEF Init
    <3>3. ruled \in BOOLEAN /\ offered \in BOOLEAN /\ overdrawn \in BOOLEAN /\ crowded \in BOOLEAN
      BY DEF Init
    <3>4. /\ earned \subseteq Payments /\ balance \in Int /\ limit \in Limits
          /\ stale \subseteq Requests /\ short \subseteq Payments
      BY DEF Init
    <3> QED BY <3>1, <3>2, <3>3, <3>4 DEF RowsOK
  <2>2. Init => JobsOK
    BY NoJobType DEF Init, JobsOK, Fits, Phases
  <2> QED BY <2>1, <2>2, TypeParts
<1>2. TypeOK /\ [Next]_vars => TypeOK'
  <2> SUFFICES ASSUME TypeOK, [Next]_vars PROVE TypeOK'
    OBVIOUS
  <2>1. ASSUME NEW r \in Requests, Step(r) PROVE TypeOK'
    BY <2>1, StepMoves, MovesType, TypeParts, PTL
  <2>2. CASE UpdateRule \/ UpdateCoupon
    BY <2>2 DEF TypeOK, UpdateRule, UpdateCoupon, ledgerVars, couponVars, historyVars
  <2>3. CASE UNCHANGED vars
    BY <2>3 DEF TypeOK, vars, ledgerVars, couponVars, historyVars
  <2> QED BY <2>1, <2>2, <2>3 DEF Next
<1> QED BY <1>1, <1>2, PTL DEF Spec

-----------------------------------------------------------------------------
\* The three invariants, for a step of request r.  Each lemma says what it has to
\* show; the others are only concerned by what they read becoming stale.

LEMMA StepSteady ==
  ASSUME TypeOK, NEW r \in Requests, Moving(r)
  PROVE  Steady(r)
BY MovesSteady DEF Moving

LEMMA FundedStep ==
  ASSUME TypeOK, TypeOK', FundedInv, NEW r \in Requests, Steady(r),
         stale \ {r} \subseteq stale', overdrawn => overdrawn', balance' >= balance,
         pc'[r] \in Debiting => r \in stale' \/ job'[r].units <= balance'
  PROVE  FundedInv'
<1>1. balance \in Int /\ balance' \in Int
  BY DEF TypeOK
<1>2. \A q \in Requests : job[q].units \in Int
  BY DEF TypeOK, Job
<1>3. ASSUME NEW q \in Requests \ stale', pc'[q] \in Debiting PROVE job'[q].units <= balance'
  <2>1. CASE q = r
    BY <1>3, <2>1
  <2>2. CASE q # r
    <3>1. job'[q] = job[q] /\ job[q].units <= balance
      BY <1>3, <2>2 DEF Steady, FundedInv
    <3> QED BY <1>1, <1>2, <3>1
  <2> QED BY <2>1, <2>2
<1> QED BY <1>1, <1>3 DEF FundedInv, NegativeOnlyByRace

LEMMA FundedDebit ==
  ASSUME TypeOK, TypeOK', FundedInv, NEW r \in Requests, Steady(r),
         pc[r] \in Debiting, pc'[r] \notin Debiting, WriteDebit(r, job[r].units)
  PROVE  FundedInv'
<1>1. balance \in Int /\ balance' = balance - job[r].units /\ job[r].units \in Int
      /\ job[r].units > 0
  BY DEF TypeOK, Job, WriteDebit, Debiting
<1>2. \A q \in Requests \ stale' : pc'[q] \notin Debiting
  BY DEF Steady, WriteDebit, Others
<1>3. balance' < 0 => overdrawn'
  <2>1. CASE r \in stale
    BY <2>1 DEF WriteDebit
  <2>2. CASE r \notin stale
    <3>1. job[r].units <= balance
      BY <2>2 DEF FundedInv
    <3> QED BY <1>1, <3>1
  <2> QED BY <2>1, <2>2
<1> QED BY <1>2, <1>3 DEF FundedInv, NegativeOnlyByRace

LEMMA FundedPreserved ==
  ASSUME TypeOK, TypeOK', FundedInv, [Next]_vars
  PROVE  FundedInv'
<1> USE DEF ledgerVars, couponVars, historyVars
<1>0. balance \in Int /\ balance' \in Int
  BY DEF TypeOK
<1>1. ASSUME NEW r \in Requests, Step(r) PROVE FundedInv'
  <2>1. Steady(r) /\ pc \in [Requests -> Phases] /\ job[r].units \in Int
    BY <1>1, StepMoves, StepSteady DEF TypeOK, Job
  <2>2. CASE StartPay(r) \/ StartVoid(r) \/ StartExpire(r) \/ StartRedeem(r)
             \/ StartRestore(r) \/ StartUse(r) \/ StartReturn(r)
    <3>1. pc'[r] \notin Debiting /\ UNCHANGED <<balance, historyVars>>
      BY <2>1, <2>2 DEF StartPay, StartVoid, StartExpire, StartRedeem, StartRestore,
           StartUse, StartReturn, Begin, Debiting
    <3> QED BY <1>0, <2>1, <3>1, FundedStep
  <2>3. CASE Void(r) \/ ListEarned(r) \/ SweepEnds(r) \/ ValueOf(r) \/ Return(r)
    <3>1. pc'[r] \notin Debiting /\ UNCHANGED <<balance, historyVars>>
      BY <2>1, <2>3 DEF Void, ListEarned, SweepEnds, ValueOf, Return, Goto, End, Debiting
    <3> QED BY <1>0, <2>1, <3>1, FundedStep
  <2>4. CASE RecordForPayment(r)
    <3>1. balance' >= balance
      <4>1. job[r].payment \in Payments
        BY <2>4 DEF RecordForPayment, TypeOK, Job
      <4>2. Earn[job[r].payment] \in Nat
        BY <4>1, DiscountsAssumption
      <4> QED BY <1>0, <2>4, <4>2 DEF RecordForPayment
    <3>2. pc'[r] \notin Debiting /\ UNCHANGED <<stale, overdrawn>>
      BY <2>1, <2>4 DEF RecordForPayment, End, Debiting
    <3> QED BY <2>1, <3>1, <3>2, FundedStep
  <2>5. CASE NextEntry(r)
    <3>1. UNCHANGED <<balance, stale, overdrawn>>
      BY <2>5 DEF NextEntry
    <3>2. pc'[r] \in Debiting => job'[r].units <= balance'
      <4>1. PICK p \in job[r].payments :
              \/ /\ pc' = [pc EXCEPT ![r] = "close"]
                 /\ job' = [job EXCEPT ![r] = CloseJob(job[r].payments \ {p}, p,
                                                       Lesser(Earn[p], balance))]
              \/ UNCHANGED pc
        BY <2>5 DEF NextEntry, CloseJob
      <4>2. CASE UNCHANGED pc
        BY <2>5, <4>2 DEF NextEntry, Debiting
      <4>3. p \in Payments /\ job[r].payments \ {p} \in SUBSET Payments
            /\ Lesser(Earn[p], balance) \in Int /\ Lesser(Earn[p], balance) <= balance
        <5>1. job[r].payments \in SUBSET Payments
          BY DEF TypeOK, Job
        <5>2. Earn[p] \in Nat
          BY <5>1, DiscountsAssumption
        <5> QED BY <1>0, <5>1, <5>2 DEF Lesser
      <4>4. CASE job' = [job EXCEPT ![r] = CloseJob(job[r].payments \ {p}, p,
                                                    Lesser(Earn[p], balance))]
        <5>1. job'[r].units = Lesser(Earn[p], balance)
          BY <4>3, <4>4, CloseJobType DEF TypeOK
        <5> QED BY <3>1, <4>3, <5>1
      <4> QED BY <4>1, <4>2, <4>4
    <3> QED BY <1>0, <2>1, <3>1, <3>2, FundedStep
  <2>6. CASE Close(r)
    <3>1. pc[r] \in Debiting /\ pc'[r] \notin Debiting /\ WriteDebit(r, job[r].units)
      BY <2>1, <2>6 DEF Close, Debiting
    <3> QED BY <2>1, <3>1, FundedDebit
  <2>7. CASE Debit(r)
    <3>1. pc[r] \in Debiting /\ pc'[r] \notin Debiting /\ WriteDebit(r, job[r].units)
      BY <2>1, <2>7 DEF Debit, End, Debiting
    <3> QED BY <2>1, <3>1, FundedDebit
  <2>8. CASE Fund(r)
    <3>1. job[r].units <= balance /\ job'[r] = job[r] /\ UNCHANGED <<balance, historyVars>>
      BY <2>1, <2>8 DEF Fund, Goto
    <3> QED BY <1>0, <2>1, <3>1, FundedStep
  <2>9. CASE Measure(r)
    <3>1. pc[r] \in Debiting /\ job'[r] = job[r] /\ UNCHANGED <<balance, historyVars>>
      BY <2>1, <2>9 DEF Measure, Goto, Debiting
    <3> QED BY <1>0, <2>1, <3>1, FundedStep DEF FundedInv
  <2>10. CASE Restore(r)
    <3>1. balance' >= balance
      <4>1. job[r].row \in Redemptions /\ redeemed[job[r].row] \in Redemption
        BY <2>10 DEF Restore, TypeOK, Job
      <4> QED BY <1>0, <2>10, <4>1 DEF Restore, Redemption
    <3>2. pc'[r] \notin Debiting /\ UNCHANGED historyVars
      BY <2>1, <2>10 DEF Restore, End, Debiting
    <3> QED BY <2>1, <3>1, <3>2, FundedStep
  <2>11. CASE Count(r)
    <3>1. pc'[r] \notin Debiting /\ stale \subseteq stale' /\ UNCHANGED <<balance, overdrawn>>
      BY <2>1, <2>11 DEF Count, Goto, Debiting
    <3> QED BY <1>0, <2>1, <3>1, FundedStep
  <2>12. CASE Use(r) \/ Fail(r)
    <3>1. pc'[r] \notin Debiting /\ stale \ {r} \subseteq stale'
          /\ UNCHANGED <<balance, overdrawn>>
      BY <2>1, <2>12 DEF Use, Fail, End, Debiting
    <3> QED BY <1>0, <2>1, <3>1, FundedStep
  <2> QED BY <1>1, <2>2, <2>3, <2>4, <2>5, <2>6, <2>7, <2>8, <2>9, <2>10, <2>11, <2>12 DEF Step
<1>2. CASE UpdateRule \/ UpdateCoupon
  <2>1. UNCHANGED <<balance, overdrawn, pc, job>> /\ stale \subseteq stale'
    BY <1>2 DEF UpdateRule, UpdateCoupon
  <2> QED BY <2>1 DEF FundedInv, NegativeOnlyByRace
<1>3. CASE UNCHANGED vars
  BY <1>3 DEF vars, FundedInv, NegativeOnlyByRace
<1> QED BY <1>1, <1>2, <1>3 DEF Next

\* A debit is limited by the balance it was decided on, so only a debit that was
\* decided before another one lowered the balance leaves it negative.
THEOREM OverdraftsAreRaces == Spec => []NegativeOnlyByRace
<1>1. Init => FundedInv
  BY DEF Init, FundedInv, NegativeOnlyByRace, Debiting
<1>2. FundedInv => NegativeOnlyByRace
  BY DEF FundedInv
<1> QED BY <1>1, <1>2, DiscountsTypeOK, FundedPreserved, PTL DEF Spec

-----------------------------------------------------------------------------
\* Request r has yet to take back what payment p earned
Works(r, p) == (pc[r] \in {"list", "close"} /\ job[r].payment = p) \/ p \in job[r].payments

\* What is left to sweep is only there while sweeping
SweepsOnly(phase, j) == j.payments # {} => phase \in {"sweep", "close"}

WorksInv == ClosedInv /\ \A r \in Requests : SweepsOnly(pc[r], job[r])

LEMMA ClosedStep ==
  ASSUME TypeOK, TypeOK', WorksInv, NEW r \in Requests, Steady(r),
         short \subseteq short', SweepsOnly(pc'[r], job'[r]),
         pc'[r] = "close" => job'[r].units <= Earn[job'[r].payment],
         \A p \in Payments \ short' : closing'[p] \in {0, Earn[p]},
         \A p \in Payments \ short' : closing[p] = Earn[p] => closing'[p] = Earn[p],
         \A p \in earned' \ earned : payment'[p] = "CANCELED" => p \in short',
         \A p \in earned : payment'[p] = "CANCELED" =>
           payment[p] = "CANCELED" \/ Works(r, p)',
         \A p \in earned : Works(r, p) =>
           \/ Works(r, p)'
           \/ payment'[p] # "CANCELED" \/ p \in short' \/ closing'[p] # 0
  PROVE  WorksInv'
<1>1. ASSUME NEW q \in Requests, pc'[q] = "close" PROVE job'[q].units <= Earn[job'[q].payment]
  BY <1>1 DEF Steady, WorksInv, ClosedInv
<1>2. \A q \in Requests : SweepsOnly(pc'[q], job'[q])
  BY DEF Steady, WorksInv
<1>3. ASSUME NEW p \in (earned' \cap Canceled') \ short'
      PROVE  closing'[p] = Earn[p] \/ \E q \in Requests : Works(q, p)'
  <2>1. p \in earned /\ payment'[p] = "CANCELED" /\ p \in Payments
    BY DEF TypeOK, Canceled
  <2>2. CASE Works(r, p)'
    BY <2>2
  <2>3. CASE closing[p] = Earn[p]
    BY <2>1, <2>3
  <2>4. CASE payment[p] = "CANCELED" /\ closing[p] # Earn[p]
    <3>1. PICK q \in Requests : Works(q, p)
      BY <2>1, <2>4 DEF WorksInv, ClosedInv, CanceledIsTakenBack, Canceled, Works
    <3>2. CASE q = r
      BY <2>1, <3>1, <3>2
    <3>3. CASE q # r
      BY <3>1, <3>3 DEF Steady, Works
    <3> QED BY <3>2, <3>3
  <2> QED BY <2>1, <2>2, <2>3, <2>4
<1> QED BY <1>1, <1>2, <1>3 DEF WorksInv, ClosedInv, CanceledIsTakenBack, Works

\* Steps that neither cancel, record nor close, of a request with nothing to take back
LEMMA ClosedAside ==
  ASSUME TypeOK, TypeOK', WorksInv, NEW r \in Requests, Steady(r),
         \A p \in Canceled : payment'[p] = "CANCELED",
         \A p \in Payments : payment'[p] = "CANCELED" => payment[p] = "CANCELED",
         earned' = earned, closing' = closing, short \subseteq short',
         pc[r] \notin {"list", "sweep", "close"}, pc'[r] # "close", job'[r].payments = {}
  PROVE  WorksInv'
<1>1. \A p \in Payments : ~Works(r, p)
  BY DEF WorksInv, SweepsOnly, Works
<1>2. SweepsOnly(pc'[r], job'[r])
  BY DEF SweepsOnly
<1>3. \A p \in Payments \ short' : closing'[p] \in {0, Earn[p]}
  BY DEF WorksInv, ClosedInv
<1>4. earned \subseteq Payments
  BY DEF TypeOK
<1> QED BY <1>1, <1>2, <1>3, <1>4, ClosedStep

LEMMA ClosedPreserved ==
  ASSUME TypeOK, TypeOK', WorksInv, [Next]_vars
  PROVE  WorksInv'
<1> USE DEF ledgerVars, couponVars, historyVars
<1>1. ASSUME NEW r \in Requests, Step(r) PROVE WorksInv'
  <2>1. Steady(r) /\ pc \in [Requests -> Phases] /\ job \in [Requests -> Job]
    BY <1>1, StepMoves, StepSteady DEF TypeOK
  <2>2. /\ job[r] \in Job /\ job[r].payments \in SUBSET Payments
        /\ payment \in [Payments -> {"none", "PAID", "CANCELED"}]
        /\ closing \in [Payments -> Nat] /\ earned \subseteq Payments
    BY DEF TypeOK, Job
  <2>3. pc[r] \notin {"sweep", "close"} => job[r].payments = {}
    BY DEF WorksInv, SweepsOnly
  <2>4. \A p \in Payments \ short : closing[p] \in {0, Earn[p]}
    BY DEF WorksInv, ClosedInv
  <2>5. NoJob.payments = {}
    BY NoJobType
  <2>6. CASE StartPay(r)
    <3>1. PICK p \in Payments :
            /\ payment[p] = "none" /\ payment' = [payment EXCEPT ![p] = "PAID"]
            /\ Begin(r, PaymentJob(p), "earn") /\ UNCHANGED <<earned, closing, short>>
      BY <2>6 DEF StartPay, PaymentJob
    <3>2. pc[r] = "idle" /\ pc'[r] = "earn" /\ job'[r].payments = {}
      BY <2>1, <3>1, PaymentJobType DEF Begin
    <3> QED BY <2>1, <2>2, <3>1, <3>2, ClosedAside DEF Canceled
  <2>7. CASE RecordForPayment(r)
    <3>1. pc[r] = "earn" /\ pc'[r] = "idle" /\ job'[r].payments = {}
      BY <2>1, <2>5, <2>7 DEF RecordForPayment, End
    <3>2. UNCHANGED <<payment, closing>> /\ short \subseteq short'
          /\ \A p \in earned' \ earned : p \in Canceled => p \in short'
      BY <2>7 DEF RecordForPayment
    <3>3. \A p \in Payments : ~Works(r, p)
      BY <2>3, <3>1 DEF Works
    <3>4. \A p \in earned' \ earned : payment'[p] = "CANCELED" => p \in short'
      <4>1. earned' \subseteq Payments
        BY DEF TypeOK
      <4> QED BY <3>2, <4>1 DEF Canceled
    <3> QED BY <2>1, <2>2, <2>4, <3>1, <3>2, <3>3, <3>4, ClosedStep DEF SweepsOnly
  <2>8. CASE StartVoid(r)
    <3>1. PICK p \in Payments : Begin(r, PaymentJob(p), "void")
      BY <2>8 DEF StartVoid, PaymentJob
    <3>2. pc[r] = "idle" /\ pc'[r] = "void" /\ job'[r].payments = {}
      BY <2>1, <3>1, PaymentJobType DEF Begin
    <3> QED BY <2>1, <2>8, <3>2, ClosedAside DEF StartVoid, Canceled
  <2>9. CASE Void(r)
    <3>1. /\ pc[r] = "void" /\ pc'[r] = "list" /\ job'[r] = job[r]
          /\ payment' = [payment EXCEPT ![job[r].payment] = "CANCELED"]
          /\ UNCHANGED <<earned, closing, short>>
      BY <2>1, <2>9 DEF Void, Goto
    <3>2. \A p \in Payments :
            payment'[p] = "CANCELED" => payment[p] = "CANCELED" \/ Works(r, p)'
      BY <2>2, <3>1 DEF Works
    <3>3. \A p \in Payments : ~Works(r, p)
      BY <2>3, <3>1 DEF Works
    <3>4. SweepsOnly(pc'[r], job'[r])
      BY <2>3, <3>1 DEF SweepsOnly
    <3> QED BY <2>1, <2>2, <2>4, <3>1, <3>2, <3>3, <3>4, ClosedStep
  <2>10. CASE ListEarned(r)
    <3> DEFINE S == {job[r].payment} \cap OpenEntries
    <3>1. S \in SUBSET Payments
      BY <2>2 DEF OpenEntries
    <3>2. pc[r] = "list" /\ pc'[r] = "sweep" /\ job'[r] = SweepJob(S)
          /\ UNCHANGED <<payment, earned, closing, short>>
      BY <2>1, <2>10 DEF ListEarned, SweepJob
    <3>3. job'[r].payments = S
      BY <3>1, <3>2, SweepJobType
    <3>4. \A p \in earned : Works(r, p) => Works(r, p)' \/ closing'[p] # 0
      BY <2>3, <3>2, <3>3 DEF Works, OpenEntries
    <3>5. SweepsOnly(pc'[r], job'[r])
      BY <3>2 DEF SweepsOnly
    <3> HIDE DEF S
    <3> QED BY <2>1, <2>2, <2>4, <3>2, <3>4, <3>5, ClosedStep
  <2>11. CASE StartExpire(r)
    <3>1. PICK S \in SUBSET OpenEntries : Begin(r, SweepJob(S), "sweep")
      BY <2>11 DEF StartExpire, SweepJob
    <3>2. pc[r] = "idle" /\ pc'[r] = "sweep" /\ UNCHANGED <<payment, earned, closing, short>>
      BY <2>1, <2>11, <3>1 DEF Begin, StartExpire
    <3>3. \A p \in Payments : ~Works(r, p)
      BY <2>3, <3>2 DEF Works
    <3>4. SweepsOnly(pc'[r], job'[r])
      BY <3>2 DEF SweepsOnly
    <3> QED BY <2>1, <2>2, <2>4, <3>2, <3>3, <3>4, ClosedStep
  <2>12. CASE NextEntry(r)
    <3>1. UNCHANGED <<payment, earned, closing>> /\ short \subseteq short' /\ pc[r] = "sweep"
      BY <2>12 DEF NextEntry
    <3>2. PICK p \in job[r].payments :
            \/ /\ pc' = [pc EXCEPT ![r] = "close"]
               /\ job' = [job EXCEPT ![r] = CloseJob(job[r].payments \ {p}, p,
                                                     Lesser(Earn[p], balance))]
            \/ /\ job' = [job EXCEPT ![r] = SweepJob(job[r].payments \ {p})]
               /\ short' = short \cup ({p} \cap Canceled)
               /\ UNCHANGED pc
      BY <2>12 DEF NextEntry, CloseJob, SweepJob
    <3>3. p \in Payments /\ job[r].payments \ {p} \in SUBSET Payments
      BY <2>2
    <3>4. CASE /\ pc' = [pc EXCEPT ![r] = "close"]
               /\ job' = [job EXCEPT ![r] = CloseJob(job[r].payments \ {p}, p,
                                                     Lesser(Earn[p], balance))]
      <4>1. Lesser(Earn[p], balance) \in Int /\ Lesser(Earn[p], balance) <= Earn[p]
        <5>1. Earn[p] \in Nat /\ balance \in Int
          BY <3>3, DiscountsAssumption DEF TypeOK
        <5> QED BY <5>1 DEF Lesser
      <4>2. pc'[r] = "close" /\ job'[r].payments = job[r].payments \ {p} /\ job'[r].payment = p
            /\ job'[r].units = Lesser(Earn[p], balance)
        BY <2>1, <3>3, <3>4, <4>1, CloseJobType
      <4>3. \A q \in Payments : Works(r, q) => Works(r, q)'
        BY <3>1, <4>2 DEF Works
      <4>4. SweepsOnly(pc'[r], job'[r]) /\ job'[r].units <= Earn[job'[r].payment]
        BY <4>1, <4>2 DEF SweepsOnly
      <4> QED BY <2>1, <2>2, <2>4, <3>1, <4>3, <4>4, ClosedStep
    <3>5. CASE /\ job' = [job EXCEPT ![r] = SweepJob(job[r].payments \ {p})]
               /\ short' = short \cup ({p} \cap Canceled)
               /\ UNCHANGED pc
      <4>1. pc'[r] = "sweep" /\ job'[r].payments = job[r].payments \ {p}
        BY <2>1, <3>1, <3>3, <3>5, SweepJobType
      <4>2. \A q \in Payments : Works(r, q) => Works(r, q)' \/ q = p
        BY <3>1, <4>1 DEF Works
      <4>3. payment'[p] # "CANCELED" \/ p \in short'
        BY <3>1, <3>3, <3>5 DEF Canceled
      <4>4. SweepsOnly(pc'[r], job'[r])
        BY <4>1 DEF SweepsOnly
      <4> QED BY <2>1, <2>2, <2>4, <3>1, <4>1, <4>2, <4>3, <4>4, ClosedStep
    <3> QED BY <3>2, <3>4, <3>5
  <2>13. CASE Close(r)
    <3> DEFINE p == job[r].payment
    <3>1. /\ p \in Payments /\ Earn[p] \in Nat /\ job[r].units \in Nat /\ job[r].units <= Earn[p]
          /\ pc[r] = "close"
      <4>1. pc[r] = "close" /\ p \in Payments
        BY <2>13 DEF Close, TypeOK, Job
      <4>2. Earn[p] \in Nat /\ job[r].units \in Nat
        BY <4>1, DiscountsAssumption DEF TypeOK, Job
      <4> QED BY <4>1, <4>2 DEF WorksInv, ClosedInv
    <3>2. /\ closing[p] = 0 /\ closing' = [closing EXCEPT ![p] = job[r].units]
          /\ short' = short \cup (IF job[r].units < Earn[p] THEN {p} ELSE {})
          /\ UNCHANGED <<payment, earned>>
      BY <2>13 DEF Close
    <3>3. pc'[r] = "sweep" /\ job'[r].payments = job[r].payments
      <4>1. pc'[r] = "sweep" /\ job'[r] = SweepJob(job[r].payments)
        BY <2>1, <2>13 DEF Close, SweepJob
      <4> QED BY <2>2, <4>1, SweepJobType
    <3>4. p \in short' \/ closing'[p] = Earn[p]
      BY <2>2, <3>1, <3>2
    <3>5. \A q \in Payments \ {p} : closing'[q] = closing[q]
      BY <2>2, <3>1, <3>2
    <3>6. short \subseteq short' /\ SweepsOnly(pc'[r], job'[r]) /\ pc'[r] # "close"
      BY <3>2, <3>3 DEF SweepsOnly
    <3>7. \A q \in Payments : Works(r, q) => Works(r, q)' \/ q = p
      BY <3>1, <3>3 DEF Works
    <3>8. \A q \in Payments \ short' : closing'[q] \in {0, Earn[q]}
      BY <2>4, <3>4, <3>5, <3>6
    <3>9. \A q \in Payments \ short' : closing[q] = Earn[q] => closing'[q] = Earn[q]
      BY <3>4, <3>5
    <3>10. p \in short' \/ closing'[p] # 0
      BY <2>2, <3>1, <3>2, <2>13 DEF Close, TypeOK
    <3> HIDE DEF p
    <3> QED BY <2>1, <2>2, <3>2, <3>6, <3>7, <3>8, <3>9, <3>10, ClosedStep
  <2>14. CASE SweepEnds(r)
    <3>1. /\ pc[r] = "sweep" /\ job[r].payments = {} /\ pc'[r] = "idle" /\ job'[r].payments = {}
          /\ UNCHANGED <<payment, earned, closing, short>>
      BY <2>1, <2>5, <2>14 DEF SweepEnds, End
    <3>2. \A p \in Payments : ~Works(r, p)
      BY <3>1 DEF Works
    <3> QED BY <2>1, <2>2, <2>4, <3>1, <3>2, ClosedStep DEF SweepsOnly
  <2>15. CASE StartRedeem(r)
    <3>1. PICK a \in Appointments, n \in Units : Begin(r, UnitsJob(a, n), "fund")
      BY <2>15 DEF StartRedeem, UnitsJob
    <3>2. n \in Int
      BY DiscountsAssumption
    <3>3. pc[r] = "idle" /\ pc'[r] = "fund" /\ job'[r].payments = {}
      BY <2>1, <3>1, <3>2, UnitsJobType DEF Begin
    <3> QED BY <2>1, <2>15, <3>3, ClosedAside DEF StartRedeem, Canceled
  <2>16. CASE StartRestore(r)
    <3>1. PICK x \in Redemptions : Begin(r, RowJob(x), "restore")
      BY <2>16 DEF StartRestore, RowJob
    <3>2. pc[r] = "idle" /\ pc'[r] = "restore" /\ job'[r].payments = {}
      BY <2>1, <3>1, RowJobType DEF Begin
    <3> QED BY <2>1, <2>16, <3>2, ClosedAside DEF StartRestore, Canceled
  <2>17. CASE StartUse(r)
    <3>1. PICK a \in Appointments : Begin(r, UnitsJob(a, limit), "count")
      BY <2>17 DEF StartUse, UnitsJob
    <3>2. limit \in Int
      BY DiscountsAssumption DEF TypeOK
    <3>3. pc[r] = "idle" /\ pc'[r] = "count" /\ job'[r].payments = {}
      BY <2>1, <3>1, <3>2, UnitsJobType DEF Begin
    <3> QED BY <2>1, <2>17, <3>3, ClosedAside DEF StartUse, Canceled
  <2>18. CASE StartReturn(r)
    <3>1. PICK a \in Appointments : Begin(r, VisitJob(a), "return")
      BY <2>18 DEF StartReturn, VisitJob
    <3>2. pc[r] = "idle" /\ pc'[r] = "return" /\ job'[r].payments = {}
      BY <2>1, <3>1, VisitJobType DEF Begin
    <3> QED BY <2>1, <2>18, <3>2, ClosedAside DEF StartReturn, Canceled
  <2>19. CASE Fund(r) \/ Measure(r) \/ Count(r) \/ ValueOf(r)
    <3>1. /\ pc[r] \in {"fund", "measure", "count", "value"} /\ job'[r] = job[r]
          /\ pc'[r] \in {"measure", "debit", "value", "use"}
          /\ UNCHANGED <<payment, earned, closing, short>>
      BY <2>1, <2>19 DEF Fund, Measure, Count, ValueOf, Goto
    <3> QED BY <2>1, <2>3, <3>1, ClosedAside DEF Canceled
  <2>20. CASE Debit(r) \/ Restore(r) \/ Use(r) \/ Return(r)
    <3>1. /\ pc[r] \in {"debit", "restore", "use", "return"} /\ pc'[r] = "idle"
          /\ job'[r].payments = {} /\ UNCHANGED <<payment, earned, closing, short>>
      BY <2>1, <2>5, <2>20 DEF Debit, Restore, Use, Return, End
    <3> QED BY <2>1, <3>1, ClosedAside DEF Canceled
  <2>21. CASE Fail(r)
    <3>1. pc'[r] = "idle" /\ job'[r].payments = {} /\ UNCHANGED <<payment, earned, closing>>
      BY <2>1, <2>5, <2>21 DEF Fail, End
    <3>2. \A p \in Payments : Works(r, p) /\ p \in Canceled => p \in short'
      BY <2>3, <2>21 DEF Fail, Works
    <3>3. short \subseteq short'
      BY <2>21 DEF Fail
    <3>4. \A p \in earned : Works(r, p) => payment'[p] # "CANCELED" \/ p \in short'
      BY <2>2, <3>1, <3>2 DEF Canceled
    <3> QED BY <2>1, <2>2, <2>4, <3>1, <3>3, <3>4, ClosedStep DEF SweepsOnly
  <2> QED BY <1>1, <2>6, <2>7, <2>8, <2>9, <2>10, <2>11, <2>12, <2>13, <2>14, <2>15, <2>16,
             <2>17, <2>18, <2>19, <2>20, <2>21 DEF Step
<1>2. CASE UpdateRule \/ UpdateCoupon \/ UNCHANGED vars
  <2>1. UNCHANGED <<payment, earned, closing, pc, job, short>>
    BY <1>2 DEF UpdateRule, UpdateCoupon, vars
  <2> QED BY <2>1 DEF WorksInv, ClosedInv, CanceledIsTakenBack, Canceled, SweepsOnly
<1> QED BY <1>1, <1>2 DEF Next

\* A canceled payment keeps none of its units, unless its entry was closed when the
\* balance was short, was recorded behind the cancellation, or taking it back failed.
THEOREM CanceledUnitsAreTakenBack == Spec => []CanceledIsTakenBack
<1>1. Init => WorksInv
  BY NoJobType DEF Init, WorksInv, ClosedInv, CanceledIsTakenBack, SweepsOnly
<1>2. WorksInv => CanceledIsTakenBack
  BY DEF WorksInv, ClosedInv
<1> QED BY <1>1, <1>2, DiscountsTypeOK, ClosedPreserved, PTL DEF Spec

-----------------------------------------------------------------------------
LEMMA CountedPreserved ==
  ASSUME TypeOK, TypeOK', CountedInv, [Next]_vars
  PROVE  CountedInv'
<1> USE DEF ledgerVars, couponVars, historyVars
<1> DEFINE Active0 == {a \in Appointments : use[a] = "active"}
           Active1 == {a \in Appointments : use'[a] = "active"}
<1>0. /\ Uses \in Nat /\ Uses' \in Nat /\ limit \in Nat /\ limit' \in Nat
      /\ IsFiniteSet(Active0) /\ IsFiniteSet(Active1)
      /\ Uses = Cardinality(Active0) /\ Uses' = Cardinality(Active1)
  <2>1. IsFiniteSet(Active0) /\ IsFiniteSet(Active1)
    BY DiscountsAssumption, FS_Subset
  <2>2. Uses = Cardinality(Active0) /\ Uses' = Cardinality(Active1)
    BY DEF Uses
  <2>3. limit \in Nat /\ limit' \in Nat
    BY DiscountsAssumption DEF TypeOK
  <2> QED BY <2>1, <2>2, <2>3, FS_CardinalityType
<1>1. ASSUME NEW r \in Requests, Step(r) PROVE CountedInv'
  <2>1. Steady(r) /\ pc \in [Requests -> Phases] /\ UNCHANGED limit
    BY <1>1, StepMoves, StepSteady
       DEF TypeOK, Step, StartPay, RecordForPayment, StartVoid, Void, ListEarned, StartExpire,
           NextEntry, Close, SweepEnds, StartRedeem, Fund, Measure, Debit, StartRestore, Restore,
           StartUse, Count, ValueOf, Use, StartReturn, Return, Fail
  <2>2. ASSUME Uses' <= Uses, stale \ {r} \subseteq stale', crowded => crowded',
               pc'[r] \in Using => r \in stale' \/ Uses < limit
        PROVE  CountedInv'
    <3>1. ASSUME NEW q \in Requests \ stale', pc'[q] \in Using PROVE Uses' < limit'
      <4>1. CASE q = r
        BY <1>0, <2>1, <2>2, <3>1, <4>1
      <4>2. CASE q # r
        BY <1>0, <2>1, <2>2, <3>1, <4>2 DEF Steady, CountedInv
      <4> QED BY <4>1, <4>2
    <3>2. Uses' > limit' => crowded'
      BY <1>0, <2>1, <2>2 DEF CountedInv, CouponWithinLimit
    <3> QED BY <3>1, <3>2 DEF CountedInv, CouponWithinLimit
  <2>3. UNCHANGED use => Uses' <= Uses
    BY <1>0 DEF Uses
  <2>4. CASE StartPay(r) \/ StartVoid(r) \/ StartExpire(r) \/ StartRedeem(r)
             \/ StartRestore(r) \/ StartUse(r) \/ StartReturn(r)
    <3>1. pc'[r] \notin Using /\ UNCHANGED <<use, historyVars>>
      BY <2>1, <2>4 DEF StartPay, StartVoid, StartExpire, StartRedeem, StartRestore,
           StartUse, StartReturn, Begin, Using
    <3> QED BY <2>2, <2>3, <3>1
  <2>5. CASE RecordForPayment(r) \/ Void(r) \/ ListEarned(r) \/ SweepEnds(r)
             \/ Fund(r) \/ Measure(r) \/ Restore(r)
    <3>1. pc'[r] \notin Using /\ UNCHANGED <<use, stale, crowded>>
      BY <2>1, <2>5 DEF RecordForPayment, Void, ListEarned, SweepEnds, Fund, Measure, Restore,
           Goto, End, Using
    <3> QED BY <2>2, <2>3, <3>1
  <2>6. CASE NextEntry(r)
    <3>1. pc'[r] \notin Using /\ UNCHANGED <<use, stale, crowded>>
      BY <2>1, <2>6 DEF NextEntry, Using
    <3> QED BY <2>2, <2>3, <3>1
  <2>7. CASE Close(r) \/ Debit(r)
    <3>1. pc'[r] \notin Using /\ UNCHANGED <<use, crowded>> /\ stale \ {r} \subseteq stale'
      BY <2>1, <2>7 DEF Close, Debit, WriteDebit, End, Using
    <3> QED BY <2>2, <2>3, <3>1
  <2>8. CASE Count(r)
    <3>1. /\ UNCHANGED <<use, crowded>> /\ stale \subseteq stale'
          /\ Uses < job[r].units /\ (job[r].units > limit => r \in stale')
      BY <2>8 DEF Count
    <3>2. job[r].units \in Int
      BY DEF TypeOK, Job
    <3>3. r \in stale' \/ Uses < limit
      BY <1>0, <3>1, <3>2
    <3> QED BY <2>2, <2>3, <3>1, <3>3
  <2>9. CASE ValueOf(r)
    <3>1. pc[r] \in Using /\ UNCHANGED <<use, stale, crowded>>
      BY <2>9 DEF ValueOf, Using
    <3> QED BY <2>2, <2>3, <3>1 DEF CountedInv
  <2>10. CASE Use(r)
    <3> DEFINE a == job[r].appointment
    <3>1. /\ pc[r] = "use" /\ pc'[r] = "idle" /\ use' = [use EXCEPT ![a] = "active"]
          /\ crowded' = (crowded \/ r \in stale)
          /\ stale' = (stale \ {r}) \cup Others(r, Using)
      BY <2>1, <2>10 DEF Use, End
    <3>2. a \in Appointments
      BY <3>1 DEF TypeOK, Job
    <3>3. Active1 = Active0 \cup {a}
      BY <3>1, <3>2 DEF TypeOK
    <3>4. Uses' <= Uses + 1
      <4>1. Cardinality(Active0 \cup {a})
              = IF a \in Active0 THEN Cardinality(Active0) ELSE Cardinality(Active0) + 1
        BY <1>0, FS_AddElement
      <4> HIDE DEF Active0, Active1, a
      <4> QED BY <1>0, <3>3, <4>1
    <3>5. \A q \in Requests \ stale' : pc'[q] \notin Using
      BY <2>1, <3>1 DEF Steady, Others, Using
    <3>6. Uses' > limit' => crowded'
      <4>1. CASE r \in stale
        BY <3>1, <4>1
      <4>2. CASE r \notin stale
        <5>1. Uses < limit
          BY <3>1, <4>2 DEF CountedInv, Using
        <5> QED BY <1>0, <2>1, <3>4, <5>1
      <4> QED BY <4>1, <4>2
    <3> QED BY <3>5, <3>6 DEF CountedInv, CouponWithinLimit
  <2>11. CASE Return(r)
    <3>1. pc'[r] \notin Using /\ UNCHANGED <<stale, crowded>>
          /\ use' = [use EXCEPT ![job[r].appointment] = "canceled"]
      BY <2>1, <2>11 DEF Return, End, Using
    <3>2. Active1 \subseteq Active0
      BY <3>1 DEF TypeOK
    <3>3. Uses' <= Uses
      BY <1>0, <3>2, FS_Subset
    <3> QED BY <2>2, <3>1, <3>3
  <2>12. CASE Fail(r)
    <3>1. pc'[r] \notin Using /\ UNCHANGED <<use, crowded>> /\ stale \ {r} \subseteq stale'
      BY <2>1, <2>12 DEF Fail, End, Using
    <3> QED BY <2>2, <2>3, <3>1
  <2> QED BY <1>1, <2>4, <2>5, <2>6, <2>7, <2>8, <2>9, <2>10, <2>11, <2>12 DEF Step
<1>2. CASE UpdateCoupon
  <2>1. UNCHANGED pc /\ Uses' = Uses /\ stale \subseteq stale'
    BY <1>2 DEF UpdateCoupon, Uses
  <2>2. CASE UNCHANGED <<limit, stale, crowded>>
    BY <2>1, <2>2 DEF CountedInv, CouponWithinLimit
  <2>3. CASE /\ stale' = IF limit' < limit
                         THEN stale \cup {q \in Requests : pc[q] \in Using} ELSE stale
             /\ crowded' = (crowded \/ Uses > limit')
    <3>1. ASSUME NEW q \in Requests \ stale', pc'[q] \in Using PROVE Uses' < limit'
      <4>1. ~(limit' < limit)
        BY <2>1, <2>3, <3>1
      <4>2. Uses < limit
        BY <2>1, <3>1 DEF CountedInv
      <4> QED BY <1>0, <2>1, <4>1, <4>2
    <3>2. Uses' > limit' => crowded'
      BY <2>1, <2>3
    <3> QED BY <3>1, <3>2 DEF CountedInv, CouponWithinLimit
  <2> QED BY <1>2, <2>2, <2>3 DEF UpdateCoupon
<1>3. CASE UpdateRule \/ UNCHANGED vars
  <2>1. UNCHANGED <<use, limit, pc, stale, crowded>>
    BY <1>3 DEF UpdateRule, vars
  <2> QED BY <2>1 DEF CountedInv, CouponWithinLimit, Uses
<1> QED BY <1>1, <1>2, <1>3 DEF Next

\* A coupon has no more uses than its limit, unless one was decided on a count or a
\* limit that changed meanwhile, or the limit was lowered below the uses it had.
THEOREM CouponsStayWithinLimits == Spec => []CouponWithinLimit
<1>1. Init => CountedInv
  <2>1. ASSUME Init PROVE {a \in Appointments : use[a] = "active"} = {}
    BY <2>1 DEF Init
  <2>2. Init => Uses = 0 /\ limit \in Nat
    BY <2>1, DiscountsAssumption, FS_EmptySet DEF Uses, Init
  <2> QED BY <2>2 DEF Init, CountedInv, CouponWithinLimit, Using
<1>2. CountedInv => CouponWithinLimit
  BY DEF CountedInv
<1> QED BY <1>1, <1>2, DiscountsTypeOK, CountedPreserved, PTL DEF Spec
=============================================================================
