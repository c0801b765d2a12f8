---------------------------- MODULE GatewayProofs ---------------------------
(***************************************************************************)
(* Proofs about Gateway for any charges, amounts, events and number of     *)
(* requests: what a PAID charge leaves behind, how often it is paid for,   *)
(* what its cancellation means, and that it implements Settlement.         *)
(***************************************************************************)
EXTENDS Gateway, TLAPS

\* A request was told, or saw to it, that its remote charge is canceled
KnowsCanceled(r) ==
  /\ pc[r] # "idle" /\ Charge(r) \notin Local
  /\ pc[r] = "cancel" \/ job[r].told = "CANCELED"

\* What a request or a webhook says of a remote charge that it is canceled, is so
CanceledInv ==
  /\ \A r \in Requests : KnowsCanceled(r) => world[Charge(r)] = "canceled"
  /\ \A e \in Events : sent[e] # None =>
       /\ sent[e].charge \notin Local
       /\ sent[e].status = "CANCELED" => world[sent[e].charge] = "canceled"
  /\ CanceledIsOver

\* A charge no two requests reconciled was reconciled once, or never to the end
OnceInv(c) ==
  /\ \A r, q \in Requests :
       pc[r] \in Reconciling /\ Charge(r) = c /\ pc[q] \in Reconciling /\ Charge(q) = c => r = q
  /\ c \in linked => ~Busy(Reconciling, c)
  /\ c \notin unlinked =>
       /\ made[c] <= 1
       /\ c \notin linked /\ ~Busy({"link"}, c) => made[c] = 0

PaidOnceInv == \A c \in Charges \ repeated : OnceInv(c)

\* Only charges somebody vouched for are reconciled
VouchedInv == \A r \in Requests : pc[r] \in Reconciling => Charge(r) \in vouched

-----------------------------------------------------------------------------
LEMMA NoJobType ==
  /\ NoJob \in Job
  /\ NoJob.charge = None /\ NoJob.told = None /\ NoJob.event = None
BY DEF NoJob, Job

LEMMA NewJobType ==
  ASSUME NEW c \in Charges
  PROVE  /\ [NoJob EXCEPT !.charge = c] \in Job
         /\ [NoJob EXCEPT !.charge = c].charge = c
         /\ [NoJob EXCEPT !.charge = c].told = None
BY DEF NoJob, Job

LEMMA AnswerType ==
  ASSUME TypeOK, NEW c \in Charges
  PROVE  /\ Answer(c) \in Status
         /\ Answer(c) = "CANCELED" => world[c] = "canceled"
<1>1. world[c] \in World
  BY DEF TypeOK
<1> QED BY <1>1 DEF Answer, World, Status

\* A request that is not idle has a charge.
LEMMA ChargeType ==
  ASSUME TypeOK, NEW r \in Requests, pc[r] # "idle"
  PROVE  /\ Charge(r) \in Charges
         /\ job[r] \in Job
         /\ job[r].told \in Status \cup {None}
         /\ job[r].event \in Events \cup {None}
<1>1. job[r] \in Job /\ job[r].charge # None
  BY DEF TypeOK
<1> QED BY <1>1 DEF Job, Charge

LEMMA EndType ==
  ASSUME TypeOK, NEW r \in Requests, End(r)
  PROVE  /\ pc' \in [Requests -> Phases] /\ job' \in [Requests -> Job]
         /\ \A q \in Requests : pc'[q] # "idle" => job'[q].charge # None
         /\ \A q \in Requests : pc'[q] \in {"insert", "apply"} => job'[q].told # None
         /\ \A q \in Requests : pc'[q] = "log" => job'[q].event \in Events
<1>1. NoJob \in Job /\ "idle" \in Phases
  BY NoJobType DEF Phases
<1> QED BY <1>1 DEF End, TypeOK

LEMMA BeginType ==
  ASSUME TypeOK, NEW r \in Requests, NEW j \in Job, NEW phase \in Phases,
         j.charge # None, phase \notin {"insert", "apply"},
         phase = "log" => j.event \in Events, Begin(r, j, phase)
  PROVE  /\ pc' \in [Requests -> Phases] /\ job' \in [Requests -> Job]
         /\ \A q \in Requests : pc'[q] # "idle" => job'[q].charge # None
         /\ \A q \in Requests : pc'[q] \in {"insert", "apply"} => job'[q].told # None
         /\ \A q \in Requests : pc'[q] = "log" => job'[q].event \in Events
BY DEF Begin, TypeOK

LEMMA BeganType ==
  ASSUME TypeOK, NEW r \in Requests, NEW c \in Charges,
         NEW phase \in {"ask", "query", "revoke", "confirm"},
         Begin(r, [NoJob EXCEPT !.charge = c], phase),
         UNCHANGED <<rowVars, providerVars, historyVars>>
  PROVE  TypeOK'
<1>1. [NoJob EXCEPT !.charge = c] \in Job /\ [NoJob EXCEPT !.charge = c].charge # None
  BY NewJobType, GatewayAssumption
<1>2. phase \in Phases /\ phase \notin {"insert", "apply", "log"}
  BY DEF Phases
<1>3. /\ pc' \in [Requests -> Phases] /\ job' \in [Requests -> Job]
      /\ \A q \in Requests : pc'[q] # "idle" => job'[q].charge # None
      /\ \A q \in Requests : pc'[q] \in {"insert", "apply"} => job'[q].told # None
      /\ \A q \in Requests : pc'[q] = "log" => job'[q].event \in Events
  BY <1>1, <1>2, BeginType
<1> QED BY <1>3 DEF TypeOK, rowVars, providerVars, historyVars

LEMMA GotoType ==
  ASSUME TypeOK, NEW r \in Requests, NEW phase \in Phases \ {"log"}, pc[r] # "idle",
         phase \in {"insert", "apply"} => job[r].told # None, Goto(r, phase)
  PROVE  /\ pc' \in [Requests -> Phases] /\ job' \in [Requests -> Job]
         /\ \A q \in Requests : pc'[q] # "idle" => job'[q].charge # None
         /\ \A q \in Requests : pc'[q] \in {"insert", "apply"} => job'[q].told # None
         /\ \A q \in Requests : pc'[q] = "log" => job'[q].event \in Events
BY DEF Goto, TypeOK

LEMMA ReconcileType ==
  ASSUME TypeOK, NEW r \in Requests, pc[r] # "idle", NEW c \in Charges, Reconcile(r, c)
  PROVE  /\ pc' \in [Requests -> Phases] /\ job' \in [Requests -> Job]
         /\ \A q \in Requests : pc'[q] # "idle" => job'[q].charge # None
         /\ \A q \in Requests : pc'[q] \in {"insert", "apply"} => job'[q].told # None
         /\ \A q \in Requests : pc'[q] = "log" => job'[q].event \in Events
         /\ repeated' \subseteq Charges /\ unpaid' \subseteq Charges
         /\ unlinked' \subseteq Charges
<1>1. "findMethod" \in Phases /\ Goto(r, "findMethod")
  BY DEF Phases, Reconciling, Reconcile
<1>2. /\ pc' \in [Requests -> Phases] /\ job' \in [Requests -> Job]
      /\ \A q \in Requests : pc'[q] # "idle" => job'[q].charge # None
      /\ \A q \in Requests : pc'[q] \in {"insert", "apply"} => job'[q].told # None
      /\ \A q \in Requests : pc'[q] = "log" => job'[q].event \in Events
  BY <1>1, GotoType
<1>3. repeated' \subseteq Charges /\ unpaid' \subseteq Charges /\ unlinked' \subseteq Charges
  BY DEF Reconcile, TypeOK
<1> QED BY <1>2, <1>3

LEMMA WriteType ==
  ASSUME TypeOK, NEW r \in Requests, pc[r] # "idle", NEW c \in Charges, NEW s \in Status,
         WriteAndReconcile(r, c, s), UNCHANGED providerVars
  PROVE  TypeOK'
<1>1. status' \in [Charges -> Status \cup {"none"}] /\ vouched' \subseteq Charges
  BY DEF WriteAndReconcile, TypeOK
<1>2. UNCHANGED <<linked, logged, active, methods, made, desk, world, sent>>
  BY DEF WriteAndReconcile, providerVars
<1>3. CASE ToReconcile(c, s) /\ Reconcile(r, c)
  BY <1>1, <1>2, <1>3, ReconcileType DEF TypeOK
<1>4. CASE End(r) /\ UNCHANGED <<repeated, unpaid, unlinked>>
  BY <1>1, <1>2, <1>4, EndType DEF TypeOK
<1> QED BY <1>3, <1>4 DEF WriteAndReconcile

LEMMA GatewayInitType == Init => TypeOK
<1> SUFFICES ASSUME Init PROVE TypeOK
  OBVIOUS
<1>1. job \in [Requests -> Job]
  BY NoJobType DEF Init
<1>2. pc \in [Requests -> Phases] /\ \A r \in Requests : pc[r] = "idle"
  BY DEF Init, Phases
<1> QED BY <1>1, <1>2 DEF Init, TypeOK, World, Status, Providers

LEMMA StepType ==
  ASSUME TypeOK, NEW r \in Requests, Step(r)
  PROVE  TypeOK'
<1>0. {"idle", "ask", "insert", "query", "apply", "revoke", "cancel", "log", "confirm",
       "findMethod", "addMethod", "sum", "pay", "link"} = Phases
  BY DEF Phases, Reconciling
<1>1. CASE StartCreate(r)
  <2>1. PICK c \in Charges : Begin(r, [NoJob EXCEPT !.charge = c], "ask")
    BY <1>1 DEF StartCreate
  <2>2. UNCHANGED <<rowVars, providerVars, historyVars>>
    BY <1>1 DEF StartCreate
  <2> QED BY <2>1, <2>2, BeganType
<1>2. CASE Ask(r)
  <2>1. /\ pc[r] = "ask" /\ Charge(r) \in Charges /\ Answer(Charge(r)) \in Status
        /\ job[r] \in Job
    BY <1>2, ChargeType, AnswerType DEF Ask
  <2>2. job' \in [Requests -> Job]
    BY <1>2, <2>1 DEF Ask, TypeOK, Job
  <2>3. \A q \in Requests : pc'[q] # "idle" => job'[q].charge # None
    BY <1>2, <2>1 DEF Ask, TypeOK, Job, Charge
  <2>4. \A q \in Requests : pc'[q] \in {"insert", "apply"} => job'[q].told # None
    BY <1>2, <2>1, GatewayAssumption DEF Ask, TypeOK, Job
  <2>6. \A q \in Requests : pc'[q] = "log" => job'[q].event \in Events
    BY <1>2, <2>1 DEF Ask, TypeOK, Job
  <2>5. world' \in [Charges -> World]
    BY <1>2 DEF Ask, TypeOK, World
  <2> QED BY <1>0, <1>2, <2>2, <2>3, <2>4, <2>5, <2>6
          DEF Ask, TypeOK, rowVars, historyVars
<1>3. CASE Insert(r)
  <2>1. pc[r] = "insert" /\ Charge(r) \in Charges /\ job[r].told \in Status
    BY <1>3, ChargeType DEF Insert, TypeOK
  <2>2. CASE status[Charge(r)] = "none"
    BY <1>3, <2>1, <2>2, WriteType DEF Insert
  <2>3. CASE status[Charge(r)] # "none"
    BY <1>3, <2>3, EndType DEF Insert, TypeOK, rowVars, providerVars, historyVars
  <2> QED BY <2>2, <2>3
<1>4. CASE StartRefresh(r)
  <2>1. PICK c \in Charges : Begin(r, [NoJob EXCEPT !.charge = c], "query")
    BY <1>4 DEF StartRefresh
  <2>2. UNCHANGED <<rowVars, providerVars, historyVars>>
    BY <1>4 DEF StartRefresh
  <2> QED BY <2>1, <2>2, BeganType
<1>5. CASE Query(r)
  <2>1. /\ pc[r] = "query" /\ Charge(r) \in Charges /\ Answer(Charge(r)) \in Status
        /\ job[r] \in Job
    BY <1>5, ChargeType, AnswerType DEF Query
  <2>2. job' \in [Requests -> Job]
    BY <1>5, <2>1 DEF Query, TypeOK, Job
  <2>3. \A q \in Requests : pc'[q] # "idle" => job'[q].charge # None
    BY <1>5, <2>1 DEF Query, TypeOK, Job, Charge
  <2>4. \A q \in Requests : pc'[q] \in {"insert", "apply"} => job'[q].told # None
    BY <1>5, <2>1, GatewayAssumption DEF Query, TypeOK, Job
  <2>5. \A q \in Requests : pc'[q] = "log" => job'[q].event \in Events
    BY <1>5, <2>1 DEF Query, TypeOK, Job
  <2> QED BY <1>0, <1>5, <2>2, <2>3, <2>4, <2>5
          DEF Query, TypeOK, rowVars, providerVars, historyVars
<1>6. CASE Apply(r)
  <2>1. pc[r] = "apply" /\ Charge(r) \in Charges /\ job[r].told \in Status
    BY <1>6, ChargeType DEF Apply, TypeOK
  <2> QED BY <1>6, <2>1, WriteType DEF Apply
<1>7. CASE StartCancel(r)
  <2>1. PICK c \in Charges : Begin(r, [NoJob EXCEPT !.charge = c], "revoke")
    BY <1>7 DEF StartCancel
  <2>2. UNCHANGED <<rowVars, providerVars, historyVars>>
    BY <1>7 DEF StartCancel
  <2> QED BY <2>1, <2>2, BeganType
<1>8. CASE Revoke(r)
  <2>1. pc[r] # "idle" /\ Goto(r, "cancel")
    BY <1>8 DEF Revoke
  <2>2. world' \in [Charges -> World]
    BY <1>8 DEF Revoke, TypeOK, World
  <2> QED BY <1>0, <1>8, <2>1, <2>2, GotoType DEF Revoke, TypeOK, rowVars, historyVars
<1>9. CASE Cancel(r)
  <2>1. status' \in [Charges -> Status \cup {"none"}]
    BY <1>9 DEF Cancel, TypeOK, Status
  <2> QED BY <1>9, <2>1, EndType DEF Cancel, TypeOK, providerVars, historyVars
<1>10. CASE StartWebhook(r)
  <2> PICK e \in Events \ logged :
        /\ sent[e] # None
        /\ LET c == sent[e].charge
           IN  Begin(r, [charge |-> c, event |-> e,
                         told |-> IF status[c] = "none" THEN None ELSE sent[e].status], "log")
    BY <1>10 DEF StartWebhook
  <2> DEFINE j == [charge |-> sent[e].charge, event |-> e,
                   told |-> IF status[sent[e].charge] = "none" THEN None ELSE sent[e].status]
  <2>1. sent[e] \in [charge : Charges, status : Status]
    BY DEF TypeOK
  <2>2. j \in Job /\ j.charge # None /\ j.event \in Events /\ Begin(r, j, "log")
    BY <2>1, GatewayAssumption DEF Job
  <2> HIDE DEF j
  <2> QED BY <1>0, <1>10, <2>2, BeginType
          DEF StartWebhook, TypeOK, rowVars, providerVars, historyVars
<1>11. CASE LogEvent(r)
  <2>1. logged' \subseteq Events /\ pc[r] = "log"
    <3>1. job[r].event \in Events
      BY <1>11 DEF LogEvent, TypeOK
    <3> QED BY <1>11, <3>1 DEF LogEvent, TypeOK
  <2>2. CASE job[r].told # None /\ Goto(r, "apply")
    BY <1>0, <1>11, <2>1, <2>2, GotoType DEF LogEvent, TypeOK, providerVars, historyVars
  <2>3. CASE End(r)
    BY <1>11, <2>1, <2>3, EndType DEF LogEvent, TypeOK, providerVars, historyVars
  <2> QED BY <1>11, <2>2, <2>3 DEF LogEvent
<1>12. CASE StartConfirm(r)
  <2>1. PICK c \in Charges : Begin(r, [NoJob EXCEPT !.charge = c], "confirm")
    BY <1>12 DEF StartConfirm
  <2>2. UNCHANGED <<rowVars, providerVars, historyVars>>
    BY <1>12 DEF StartConfirm
  <2> QED BY <2>1, <2>2, BeganType
<1>13. CASE Confirm(r)
  <2>1. pc[r] = "confirm" /\ Charge(r) \in Charges /\ Reconcile(r, Charge(r))
    BY <1>13, ChargeType DEF Confirm
  <2>2. status' \in [Charges -> Status \cup {"none"}] /\ vouched' \subseteq Charges
    BY <1>13, <2>1 DEF Confirm, TypeOK, Status
  <2> QED BY <1>13, <2>1, <2>2, ReconcileType DEF Confirm, TypeOK, providerVars
<1>14. CASE FindMethod(r)
  <2>1. PICK phase \in {"sum", "addMethod"} : pc[r] # "idle" /\ Goto(r, phase)
    BY <1>14 DEF FindMethod
  <2> QED BY <1>0, <1>14, <2>1, GotoType
          DEF FindMethod, TypeOK, rowVars, providerVars, historyVars
<1>15. CASE AddMethod(r)
  <2>1. pc[r] # "idle" /\ Goto(r, "sum") /\ methods' \subseteq Providers
    BY <1>15 DEF AddMethod, Provider, Providers, TypeOK
  <2> QED BY <1>0, <1>15, <2>1, GotoType DEF AddMethod, TypeOK, providerVars, historyVars
<1>16. CASE Sum(r)
  <2>1. pc[r] # "idle" /\ Goto(r, "pay")
    BY <1>16 DEF Sum
  <2> QED BY <1>0, <1>16, <2>1, GotoType
          DEF Sum, TypeOK, rowVars, providerVars, historyVars
<1>17. CASE Pay(r)
  <2>1. pc[r] # "idle" /\ Goto(r, "link") /\ Charge(r) \in Charges
    BY <1>17, ChargeType DEF Pay
  <2>2. made' \in [Charges -> Nat]
    BY <1>17, <2>1 DEF Pay, TypeOK
  <2> QED BY <1>0, <1>17, <2>1, <2>2, GotoType DEF Pay, TypeOK, providerVars, historyVars
<1>18. CASE Link(r)
  <2>1. Charge(r) \in Charges
    BY <1>18, ChargeType DEF Link
  <2> QED BY <1>18, <2>1, EndType DEF Link, TypeOK, providerVars, historyVars
<1>19. CASE Fail(r)
  <2>1. Charge(r) \in Charges
    BY <1>19, ChargeType DEF Fail
  <2> QED BY <1>19, <2>1, EndType DEF Fail, TypeOK, rowVars, providerVars
<1> QED BY <1>1, <1>2, <1>3, <1>4, <1>5, <1>6, <1>7, <1>8, <1>9, <1>10, <1>11, <1>12,
           <1>13, <1>14, <1>15, <1>16, <1>17, <1>18, <1>19 DEF Step

LEMMA NextType == TypeOK /\ [Next]_vars => TypeOK'
<1> SUFFICES ASSUME TypeOK, [Next]_vars PROVE TypeOK'
  OBVIOUS
<1>1. CASE UNCHANGED vars
  BY <1>1 DEF vars, rowVars, providerVars, historyVars, TypeOK
<1>2. ASSUME NEW r \in Requests, Step(r) PROVE TypeOK'
  BY <1>2, StepType
<1>3. ASSUME NEW c \in Charges, CustomerPays(c) PROVE TypeOK'
  BY <1>3 DEF CustomerPays, TypeOK, rowVars, historyVars, World
<1>4. ASSUME NEW c \in Charges, DeskCancels(c) PROVE TypeOK'
  BY <1>4 DEF DeskCancels, TypeOK, providerVars, historyVars
<1>5. ASSUME NEW e \in Events, SendWebhook(e) PROVE TypeOK'
  <2>1. PICK c \in Charges \ Local, s \in Status :
          sent' = [sent EXCEPT ![e] = [charge |-> c, status |-> s]]
    BY <1>5, AnswerType DEF SendWebhook, Status
  <2> QED BY <1>5, <2>1 DEF SendWebhook, TypeOK, rowVars, historyVars
<1>6. CASE Configure
  BY <1>6 DEF Configure, TypeOK, providerVars, historyVars
<1>7. CASE DeskPays
  BY <1>7 DEF DeskPays, TypeOK, providerVars, historyVars
<1> QED BY <1>1, <1>2, <1>3, <1>4, <1>5, <1>6, <1>7 DEF Next

\* Rows, requests, webhooks and histories keep their types.
THEOREM GatewayTypeOK == Spec => []TypeOK
BY GatewayInitType, NextType, PTL DEF Spec

-----------------------------------------------------------------------------
LEMMA OthersStay ==
  ASSUME TypeOK, NEW r \in Requests, Step(r)
  PROVE  \A q \in Requests \ {r} : pc'[q] = pc[q] /\ job'[q] = job[q]
<1> USE DEF TypeOK
<1>1. CASE StartCreate(r) \/ StartRefresh(r) \/ StartCancel(r) \/ StartConfirm(r)
  BY <1>1 DEF StartCreate, StartRefresh, StartCancel, StartConfirm, Begin
<1>2. CASE StartWebhook(r)
  BY <1>2 DEF StartWebhook, Begin
<1>3. CASE Ask(r) \/ Query(r)
  BY <1>3 DEF Ask, Query
<1>4. CASE Insert(r) \/ Apply(r)
  BY <1>4 DEF Insert, Apply, WriteAndReconcile, Reconcile, Goto, End
<1>5. CASE Revoke(r) \/ Cancel(r) \/ LogEvent(r) \/ Confirm(r)
  BY <1>5 DEF Revoke, Cancel, LogEvent, Confirm, Reconcile, Goto, End
<1>6. CASE FindMethod(r) \/ AddMethod(r) \/ Sum(r) \/ Pay(r) \/ Link(r) \/ Fail(r)
  BY <1>6 DEF FindMethod, AddMethod, Sum, Pay, Link, Fail, Goto, End
<1> QED BY <1>1, <1>2, <1>3, <1>4, <1>5, <1>6 DEF Step

\* The steps that are about neither the end nor the beginning of a reconciliation.
Aside(r) ==
  \/ StartCreate(r) \/ Ask(r) \/ StartRefresh(r) \/ Query(r)
  \/ StartCancel(r) \/ Revoke(r) \/ StartWebhook(r) \/ LogEvent(r) \/ StartConfirm(r)

Onwards(r) == FindMethod(r) \/ AddMethod(r) \/ Sum(r) \/ Pay(r)

LEMMA AsideStep ==
  ASSUME TypeOK, NEW r \in Requests, Aside(r)
  PROVE  /\ pc[r] \notin Reconciling /\ pc'[r] \notin Reconciling
         /\ UNCHANGED <<status, linked, made, vouched, repeated, unpaid, unlinked>>
<1> USE DEF TypeOK, Reconciling
<1>1. CASE StartCreate(r) \/ StartRefresh(r) \/ StartCancel(r) \/ StartConfirm(r)
  BY <1>1 DEF StartCreate, StartRefresh, StartCancel, StartConfirm, Begin, rowVars, historyVars
<1>2. CASE StartWebhook(r)
  BY <1>2 DEF StartWebhook, Begin, rowVars, historyVars
<1>3. CASE Ask(r) \/ Query(r)
  BY <1>3 DEF Ask, Query, rowVars, historyVars
<1>4. CASE Revoke(r) \/ LogEvent(r)
  BY <1>4 DEF Revoke, LogEvent, Goto, End, rowVars, historyVars
<1> QED BY <1>1, <1>2, <1>3, <1>4 DEF Aside

LEMMA OnwardsStep ==
  ASSUME TypeOK, NEW r \in Requests, Onwards(r)
  PROVE  /\ pc[r] \in Reconciling /\ pc[r] # "link" /\ pc'[r] \in Reconciling
         /\ pc'[r] = "link" => Pay(r)
         /\ job' = job
         /\ UNCHANGED <<status, linked, vouched, repeated, unpaid, unlinked>>
         /\ ~Pay(r) => UNCHANGED made
BY DEF Onwards, FindMethod, AddMethod, Sum, Pay, Goto, rowVars, historyVars, TypeOK, Reconciling

LEMMA StepCases ==
  ASSUME NEW r \in Requests, Step(r)
  PROVE  \/ Aside(r) \/ Onwards(r) \/ Insert(r) \/ Apply(r) \/ Cancel(r)
         \/ Confirm(r) \/ Link(r) \/ Fail(r)
BY DEF Step, Aside, Onwards

\* What a write of a status does, to its charge and to the reconciliations.
LEMMA WriteStep ==
  ASSUME TypeOK, NEW r \in Requests, NEW c \in Charges, NEW s \in Status,
         pc[r] \notin Reconciling, Charge(r) = c,
         \/ WriteAndReconcile(r, c, s)
         \/ s = "PAID" /\ Confirm(r)
  PROVE  /\ status' = [status EXCEPT ![c] = s]
         /\ UNCHANGED <<linked, made>>
         /\ vouched' = vouched \cup (IF s = "PAID" THEN {c} ELSE {})
         /\ \/ pc'[r] = "findMethod" /\ job' = job /\ Reconcile(r, c) /\ s = "PAID"
            \/ /\ pc'[r] = "idle" /\ UNCHANGED <<repeated, unpaid, unlinked>>
               /\ s = "PAID" => c \in linked
<1>1. CASE WriteAndReconcile(r, c, s)
  <2>1. CASE ToReconcile(c, s) /\ Reconcile(r, c)
    BY <1>1, <2>1 DEF WriteAndReconcile, ToReconcile, Reconcile, Goto, TypeOK
  <2>2. CASE ~ToReconcile(c, s) /\ End(r) /\ UNCHANGED <<repeated, unpaid, unlinked>>
    BY <1>1, <2>2 DEF WriteAndReconcile, ToReconcile, End, TypeOK
  <2> QED BY <1>1, <2>1, <2>2 DEF WriteAndReconcile
<1>2. CASE s = "PAID" /\ Confirm(r)
  BY <1>2 DEF Confirm, Reconcile, Goto, TypeOK
<1> QED BY <1>1, <1>2

\* Insert, Apply and Confirm write, or Insert finds the row there.
LEMMA WriteCases ==
  ASSUME TypeOK, NEW r \in Requests, Insert(r) \/ Apply(r) \/ Confirm(r)
  PROVE  /\ Charge(r) \in Charges /\ pc[r] \notin Reconciling
         /\ \/ \E s \in Status : \/ WriteAndReconcile(r, Charge(r), s) /\ s = job[r].told
                                 \/ s = "PAID" /\ Confirm(r)
            \/ End(r) /\ UNCHANGED <<rowVars, historyVars>>
<1>1. Charge(r) \in Charges
  BY ChargeType DEF Insert, Apply, Confirm
<1>2. CASE Insert(r)
  <2>1. pc[r] = "insert" /\ job[r].told \in Status
    BY <1>2, ChargeType DEF Insert, TypeOK
  <2> QED BY <1>1, <1>2, <2>1 DEF Insert, Reconciling
<1>3. CASE Apply(r)
  <2>1. pc[r] = "apply" /\ job[r].told \in Status
    BY <1>3, ChargeType DEF Apply, TypeOK
  <2> QED BY <1>1, <1>3, <2>1 DEF Apply, Reconciling
<1>4. CASE Confirm(r)
  BY <1>1, <1>4 DEF Confirm, Reconciling, Status
<1> QED BY <1>2, <1>3, <1>4

-----------------------------------------------------------------------------
LEMMA RecordedStep ==
  ASSUME TypeOK, PaidIsRecorded, NEW r \in Requests, Step(r)
  PROVE  PaidIsRecorded'
<1> SUFFICES ASSUME NEW d \in Charges, d \notin (unpaid \cup unlinked)',
                    status'[d] = "PAID", ~Busy(Reconciling, d)'
             PROVE  d \in linked'
  BY DEF PaidIsRecorded
<1>0. \A q \in Requests \ {r} : pc'[q] = pc[q] /\ job'[q] = job[q]
  BY OthersStay
<1>1. CASE Aside(r)
  BY <1>0, <1>1, AsideStep DEF Busy, Charge, PaidIsRecorded
<1>2. CASE Onwards(r)
  BY <1>0, <1>2, OnwardsStep DEF Busy, Charge, PaidIsRecorded
<1>3. CASE Insert(r) \/ Apply(r) \/ Confirm(r)
  <2> DEFINE c == Charge(r)
  <2>1. c \in Charges /\ pc[r] \notin Reconciling
    BY <1>3, WriteCases
  <2>2. CASE End(r) /\ UNCHANGED <<rowVars, historyVars>>
    BY <1>0, <2>1, <2>2 DEF Busy, Charge, PaidIsRecorded, End, rowVars, historyVars
  <2>3. ASSUME NEW s \in Status,
               WriteAndReconcile(r, c, s) \/ (s = "PAID" /\ Confirm(r))
        PROVE  d \in linked'
    <3>1. /\ status' = [status EXCEPT ![c] = s] /\ linked' = linked
          /\ \/ pc'[r] = "findMethod" /\ job' = job /\ Reconcile(r, c)
             \/ /\ pc'[r] = "idle" /\ UNCHANGED <<repeated, unpaid, unlinked>>
                /\ s = "PAID" => c \in linked
      BY <2>1, <2>3, WriteStep
    <3>2. CASE d = c
      <4>1. ~(pc'[r] = "findMethod" /\ job' = job)
        BY <3>2 DEF Busy, Charge, Reconciling
      <4> QED BY <2>1, <3>1, <3>2, <4>1 DEF TypeOK
    <3>3. CASE d # c
      <4>1. status[d] = "PAID" /\ d \notin unpaid \cup unlinked
        BY <2>1, <3>1, <3>3 DEF TypeOK, Reconcile
      <4>2. ~Busy(Reconciling, d)
        BY <1>0, <2>1 DEF Busy, Charge
      <4> QED BY <3>1, <4>1, <4>2 DEF PaidIsRecorded
    <3> QED BY <3>2, <3>3
  <2> QED BY <1>3, <2>2, <2>3, WriteCases
<1>4. CASE Cancel(r)
  <2>1. /\ Charge(r) \in Charges /\ pc[r] \notin Reconciling
        /\ status' = [status EXCEPT ![Charge(r)] = "CANCELED"]
        /\ UNCHANGED <<linked, unpaid, unlinked>>
    BY <1>4, ChargeType DEF Cancel, Reconciling, historyVars
  <2>2. status[d] = "PAID"
    BY <2>1 DEF TypeOK
  <2> QED BY <1>0, <2>1, <2>2 DEF Busy, Charge, PaidIsRecorded
<1>5. CASE Link(r)
  <2>1. linked' = linked \cup {Charge(r)} /\ UNCHANGED <<status, unpaid, unlinked>>
    BY <1>5 DEF Link, historyVars
  <2>2. CASE d = Charge(r)
    BY <2>1, <2>2
  <2>3. CASE d # Charge(r)
    BY <1>0, <2>1, <2>3 DEF Busy, Charge, PaidIsRecorded
  <2> QED BY <2>2, <2>3
<1>6. CASE Fail(r)
  <2>1. /\ UNCHANGED <<status, linked>>
        /\ unpaid \subseteq unpaid' /\ unlinked \subseteq unlinked'
        /\ pc[r] \in Reconciling => Charge(r) \in (unpaid \cup unlinked)'
    BY <1>6 DEF Fail, rowVars
  <2>2. pc[r] \in Reconciling => d # Charge(r)
    BY <2>1
  <2> QED BY <1>0, <2>1, <2>2 DEF Busy, Charge, PaidIsRecorded
<1> QED BY <1>1, <1>2, <1>3, <1>4, <1>5, <1>6, StepCases

LEMMA RecordedNext == TypeOK /\ PaidIsRecorded /\ [Next]_vars => PaidIsRecorded'
<1> SUFFICES ASSUME TypeOK, PaidIsRecorded, [Next]_vars PROVE PaidIsRecorded'
  OBVIOUS
<1>1. CASE \E r \in Requests : Step(r)
  BY <1>1, RecordedStep
<1>2. CASE UNCHANGED <<status, linked, unpaid, unlinked, pc, job>>
  BY <1>2 DEF PaidIsRecorded, Busy, Charge
<1>3. ASSUME NEW c \in Charges, CustomerPays(c) \/ DeskCancels(c) PROVE PaidIsRecorded'
  BY <1>2, <1>3 DEF CustomerPays, DeskCancels, rowVars, historyVars
<1>4. ASSUME NEW e \in Events, SendWebhook(e) PROVE PaidIsRecorded'
  BY <1>2, <1>4 DEF SendWebhook, rowVars, historyVars
<1>5. CASE Configure \/ DeskPays
  BY <1>2, <1>5 DEF Configure, DeskPays, historyVars
<1>6. CASE UNCHANGED vars
  BY <1>2, <1>6 DEF vars, rowVars, historyVars
<1> QED BY <1>1, <1>3, <1>4, <1>5, <1>6 DEF Next

\* A charge that is PAID is tied to its payment, is on its way there, or the last
\* attempt failed.
THEOREM PaidChargesAreRecorded == Spec => []PaidIsRecorded
<1>1. Init => TypeOK /\ PaidIsRecorded
  BY GatewayInitType DEF Init, PaidIsRecorded
<1>2. TypeOK /\ PaidIsRecorded /\ [Next]_vars => (TypeOK /\ PaidIsRecorded)'
  BY NextType, RecordedNext
<1> QED BY <1>1, <1>2, PTL DEF Spec
-----------------------------------------------------------------------------
\* A step that neither begins nor completes a reconciliation of c
LEMMA OnceFrame ==
  ASSUME NEW c \in Charges, OnceInv(c), NEW r \in Requests,
         \A q \in Requests \ {r} : pc'[q] = pc[q] /\ job'[q] = job[q],
         \/ pc'[r] \notin Reconciling
         \/ pc[r] \in Reconciling /\ job'[r] = job[r],
         pc[r] = "link" /\ Charge(r) = c => c \in unlinked',
         unlinked \subseteq unlinked', UNCHANGED <<made, linked>>
  PROVE  OnceInv(c)'
<1>1. \A q \in Requests : pc'[q] \in Reconciling /\ Charge(q)' = c
                           => pc[q] \in Reconciling /\ Charge(q) = c
  BY DEF Charge
<1>2. c \notin unlinked' => (Busy({"link"}, c) => Busy({"link"}, c)')
  BY DEF Busy, Charge
<1>3. Busy(Reconciling, c)' => Busy(Reconciling, c)
  BY <1>1 DEF Busy
<1> QED BY <1>1, <1>2, <1>3 DEF OnceInv

LEMMA OnceStep ==
  ASSUME TypeOK, PaidOnceInv, NEW r \in Requests, Step(r)
  PROVE  PaidOnceInv'
<1>0. \A q \in Requests \ {r} : pc'[q] = pc[q] /\ job'[q] = job[q]
  BY OthersStay
<1>1. CASE Aside(r)
  BY <1>0, <1>1, AsideStep, OnceFrame DEF PaidOnceInv, Reconciling
<1>2. CASE Onwards(r)
  <2>1. CASE ~Pay(r)
    BY <1>0, <1>2, <2>1, OnwardsStep, OnceFrame DEF PaidOnceInv
  <2>2. CASE Pay(r)
    <3> DEFINE c == Charge(r)
    <3>1. /\ c \in Charges /\ pc[r] = "pay" /\ pc'[r] = "link" /\ job' = job
          /\ made' = [made EXCEPT ![c] = @ + 1]
          /\ UNCHANGED <<linked, repeated, unlinked>>
      BY <2>2, ChargeType DEF Pay, Goto, historyVars, TypeOK
    <3>2. ASSUME NEW d \in Charges \ repeated PROVE OnceInv(d)'
      <4>1. OnceInv(d)
        BY DEF PaidOnceInv
      <4>2. \A q \in Requests : pc'[q] \in Reconciling <=> pc[q] \in Reconciling
        BY <1>0, <3>1 DEF Reconciling
      <4>3. CASE d = c
        <5>1. c \notin linked
          BY <3>1, <4>1, <4>3 DEF OnceInv, Busy, Reconciling
        <5>2. ~Busy({"link"}, c)
          BY <3>1, <4>1, <4>3 DEF OnceInv, Busy, Reconciling
        <5>3. Busy({"link"}, c)'
          BY <3>1 DEF Busy, Charge
        <5>4. c \notin unlinked => made'[c] = 1
          BY <3>1, <4>1, <4>3, <5>1, <5>2 DEF OnceInv, TypeOK
        <5> QED BY <3>1, <4>1, <4>2, <4>3, <5>1, <5>3, <5>4 DEF OnceInv, Busy, Charge
      <4>4. CASE d # c
        <5>1. made'[d] = made[d]
          BY <3>1, <4>4 DEF TypeOK
        <5>2. Busy({"link"}, d)' <=> Busy({"link"}, d)
          BY <1>0, <3>1, <4>4 DEF Busy, Charge
        <5>3. Busy(Reconciling, d)' <=> Busy(Reconciling, d)
          BY <3>1, <4>2 DEF Busy, Charge
        <5> QED BY <3>1, <4>1, <4>2, <5>1, <5>2, <5>3 DEF OnceInv, Charge
      <4> QED BY <4>3, <4>4
    <3> QED BY <3>1, <3>2 DEF PaidOnceInv
  <2> QED BY <2>1, <2>2
<1>3. CASE Insert(r) \/ Apply(r) \/ Confirm(r)
  <2> DEFINE c == Charge(r)
  <2>1. c \in Charges /\ pc[r] \notin Reconciling
    BY <1>3, WriteCases
  <2>2. CASE End(r) /\ UNCHANGED <<rowVars, historyVars>>
    BY <1>0, <2>1, <2>2, OnceFrame
       DEF PaidOnceInv, Reconciling, End, rowVars, historyVars, TypeOK
  <2>3. ASSUME NEW s \in Status,
               WriteAndReconcile(r, c, s) \/ (s = "PAID" /\ Confirm(r))
        PROVE  PaidOnceInv'
    <3>1. /\ UNCHANGED <<linked, made>>
          /\ \/ pc'[r] = "findMethod" /\ job' = job /\ Reconcile(r, c)
             \/ pc'[r] = "idle" /\ UNCHANGED <<repeated, unlinked>>
      BY <2>1, <2>3, WriteStep
    <3>2. CASE pc'[r] = "idle" /\ UNCHANGED <<repeated, unlinked>>
      BY <1>0, <2>1, <3>1, <3>2, OnceFrame DEF PaidOnceInv, Reconciling
    <3>3. CASE pc'[r] = "findMethod" /\ job' = job /\ Reconcile(r, c)
      <4>1. /\ UNCHANGED unlinked /\ repeated \subseteq repeated'
            /\ c \notin repeated' => c \notin linked /\ ~Busy(Reconciling, c)
        BY <3>3 DEF Reconcile
      <4>2. ASSUME NEW d \in Charges \ repeated' PROVE OnceInv(d)'
        <5>1. OnceInv(d)
          BY <4>1 DEF PaidOnceInv
        <5>2. Busy({"link"}, d)' <=> Busy({"link"}, d)
          BY <1>0, <2>1, <3>3 DEF Busy, Charge, Reconciling
        <5>3. CASE d = c
          <6>1. \A q \in Requests : pc'[q] \in Reconciling /\ Charge(q)' = c => q = r
            BY <1>0, <4>1, <5>3 DEF Busy, Charge
          <6> QED BY <3>1, <4>1, <5>1, <5>2, <5>3, <6>1 DEF OnceInv
        <5>4. CASE d # c
          <6>1. \A q \in Requests : pc'[q] \in Reconciling /\ Charge(q)' = d
                                    => pc[q] \in Reconciling /\ Charge(q) = d
            BY <1>0, <3>3, <5>4 DEF Charge
          <6> QED BY <3>1, <4>1, <5>1, <5>2, <6>1 DEF OnceInv, Busy
        <5> QED BY <5>3, <5>4
      <4> QED BY <4>2 DEF PaidOnceInv
    <3> QED BY <3>1, <3>2, <3>3
  <2> QED BY <1>3, <2>2, <2>3, WriteCases
<1>4. CASE Cancel(r)
  BY <1>0, <1>4, OnceFrame DEF Cancel, End, PaidOnceInv, Reconciling, historyVars, TypeOK
<1>5. CASE Link(r)
  <2> DEFINE c == Charge(r)
  <2>1. /\ pc[r] = "link" /\ pc'[r] = "idle" /\ linked' = linked \cup {c}
        /\ UNCHANGED <<made, repeated, unlinked>>
    BY <1>5 DEF Link, End, historyVars, TypeOK
  <2>2. ASSUME NEW d \in Charges \ repeated PROVE OnceInv(d)'
    <3>1. OnceInv(d)
      BY DEF PaidOnceInv
    <3>2. \A q \in Requests : pc'[q] \in Reconciling /\ Charge(q)' = d
                              => q # r /\ pc[q] \in Reconciling /\ Charge(q) = d
      BY <1>0, <2>1 DEF Charge, Reconciling
    <3>3. CASE d = c
      <4>1. ~Busy(Reconciling, d)'
        BY <2>1, <3>1, <3>2, <3>3 DEF Busy, OnceInv, Reconciling
      <4> QED BY <2>1, <3>1, <3>2, <3>3, <4>1 DEF OnceInv
    <3>4. CASE d # c
      <4>1. Busy({"link"}, d) => Busy({"link"}, d)'
        BY <1>0, <2>1, <3>4 DEF Busy, Charge
      <4>2. Busy(Reconciling, d)' => Busy(Reconciling, d)
        BY <3>2 DEF Busy
      <4> QED BY <2>1, <3>1, <3>2, <3>4, <4>1, <4>2 DEF OnceInv
    <3> QED BY <3>3, <3>4
  <2> QED BY <2>1, <2>2 DEF PaidOnceInv
<1>6. CASE Fail(r)
  <2>1. /\ pc'[r] = "idle" /\ UNCHANGED <<made, linked, repeated>>
        /\ unlinked \subseteq unlinked'
        /\ pc[r] = "link" => Charge(r) \in unlinked'
    BY <1>6 DEF Fail, End, rowVars, TypeOK
  <2> QED BY <1>0, <2>1, OnceFrame DEF PaidOnceInv, Reconciling
<1> QED BY <1>1, <1>2, <1>3, <1>4, <1>5, <1>6, StepCases

LEMMA OnceNext == TypeOK /\ PaidOnceInv /\ [Next]_vars => PaidOnceInv'
<1> SUFFICES ASSUME TypeOK, PaidOnceInv, [Next]_vars PROVE PaidOnceInv'
  OBVIOUS
<1>1. CASE \E r \in Requests : Step(r)
  BY <1>1, OnceStep
<1>2. CASE UNCHANGED <<made, linked, repeated, unlinked, pc, job>>
  BY <1>2 DEF PaidOnceInv, OnceInv, Busy, Charge
<1>3. ASSUME NEW c \in Charges, CustomerPays(c) PROVE PaidOnceInv'
  BY <1>2, <1>3 DEF CustomerPays, rowVars, historyVars
<1>4. ASSUME NEW c \in Charges, DeskCancels(c) PROVE PaidOnceInv'
  <2>1. /\ made[c] > 0 /\ made' = [made EXCEPT ![c] = @ - 1]
        /\ UNCHANGED <<linked, repeated, unlinked, pc, job>>
    BY <1>4 DEF DeskCancels, historyVars
  <2>2. ASSUME NEW d \in Charges \ repeated PROVE OnceInv(d)'
    <3>1. OnceInv(d)
      BY DEF PaidOnceInv
    <3>2. made[d] \in Nat /\ made'[d] <= made[d] /\ (made[d] = 0 => made'[d] = 0)
      BY <2>1 DEF TypeOK
    <3>3. Busy({"link"}, d)' <=> Busy({"link"}, d)
      BY <2>1 DEF Busy, Charge
    <3>4. d \notin unlinked => made'[d] <= 1
      <4>1. made'[d] \in Int
        BY <2>1 DEF TypeOK
      <4> QED BY <3>1, <3>2, <4>1 DEF OnceInv
    <3> QED BY <2>1, <3>1, <3>2, <3>3, <3>4 DEF OnceInv, Busy, Charge
  <2> QED BY <2>1, <2>2 DEF PaidOnceInv
<1>5. ASSUME NEW e \in Events, SendWebhook(e) PROVE PaidOnceInv'
  BY <1>2, <1>5 DEF SendWebhook, rowVars, historyVars
<1>6. CASE Configure \/ DeskPays
  BY <1>2, <1>6 DEF Configure, DeskPays, historyVars
<1>7. CASE UNCHANGED vars
  BY <1>2, <1>7 DEF vars, rowVars, historyVars
<1> QED BY <1>1, <1>3, <1>4, <1>5, <1>6, <1>7 DEF Next

\* A charge that was reconciled by one request at a time has one payment.
THEOREM ChargesArePaidOnce == Spec => []PaidOnce
<1>1. Init => TypeOK /\ PaidOnceInv
  BY GatewayInitType DEF Init, PaidOnceInv, OnceInv, Busy, Reconciling
<1>2. TypeOK /\ PaidOnceInv /\ [Next]_vars => (TypeOK /\ PaidOnceInv)'
  BY NextType, OnceNext
<1>3. PaidOnceInv => PaidOnce
  BY DEF PaidOnceInv, OnceInv, PaidOnce
<1> QED BY <1>1, <1>2, <1>3, PTL DEF Spec

-----------------------------------------------------------------------------
LEMMA CanceledStep ==
  ASSUME TypeOK, CanceledInv, NEW r \in Requests, Step(r)
  PROVE  CanceledInv'
<1> USE DEF CanceledInv
<1>0. \A q \in Requests \ {r} : pc'[q] = pc[q] /\ job'[q] = job[q]
  BY OthersStay
<1>w. \A c \in Charges : world[c] = "canceled" => world'[c] = "canceled"
  <2>1. CASE UNCHANGED world
    BY <2>1
  <2>2. CASE Ask(r) \/ Revoke(r)
    BY <2>2 DEF Ask, Revoke, TypeOK
  <2>3. CASE Aside(r) /\ ~Ask(r) /\ ~Revoke(r)
    BY <2>1, <2>3 DEF Aside, StartCreate, StartRefresh, Query, StartCancel, StartWebhook,
                      LogEvent, StartConfirm, providerVars
  <2>4. CASE Onwards(r)
    BY <2>1, <2>4 DEF Onwards, FindMethod, AddMethod, Sum, Pay, providerVars
  <2>5. CASE Insert(r) \/ Apply(r) \/ Cancel(r) \/ Confirm(r) \/ Link(r) \/ Fail(r)
    BY <2>1, <2>5 DEF Insert, Apply, Cancel, Confirm, Link, Fail, providerVars
  <2> QED BY <2>2, <2>3, <2>4, <2>5, StepCases
<1>s. /\ sent' = sent
      /\ \A e \in Events : sent[e] # None =>
           /\ sent'[e].charge \notin Local
           /\ sent'[e].status = "CANCELED" => world'[sent'[e].charge] = "canceled"
  <2>1. sent' = sent
    BY StepCases DEF Aside, StartCreate, StartRefresh, StartCancel, StartConfirm, StartWebhook,
                Ask, Query, Revoke, LogEvent, Onwards, FindMethod, AddMethod, Sum, Pay,
                Insert, Apply, Cancel, Confirm, Link, Fail, providerVars
  <2>2. \A e \in Events : sent[e] # None => sent[e] \in [charge : Charges, status : Status]
    BY DEF TypeOK
  <2> QED BY <1>w, <2>1, <2>2
<1>a. ASSUME KnowsCanceled(r)' => world'[Charge(r)'] = "canceled",
             \A c \in Charges \ Local : status'[c] = "CANCELED"
               => status[c] = "CANCELED" \/ world'[c] = "canceled"
      PROVE  CanceledInv'
  <2>1. \A q \in Requests \ {r} : KnowsCanceled(q)' => KnowsCanceled(q) /\ Charge(q) \in Charges
    BY <1>0, ChargeType DEF KnowsCanceled, Charge
  <2>2. \A q \in Requests : KnowsCanceled(q)' => world'[Charge(q)'] = "canceled"
    BY <1>0, <1>w, <1>a, <2>1 DEF Charge
  <2>3. CanceledIsOver'
    BY <1>w, <1>a DEF CanceledIsOver
  <2> QED BY <1>s, <2>2, <2>3
<1>b. ASSUME job'[r].told # "CANCELED" \/ pc'[r] = "idle", pc'[r] # "cancel", UNCHANGED status
      PROVE  CanceledInv'
  BY <1>a, <1>b DEF KnowsCanceled
<1>1. CASE StartCreate(r) \/ StartRefresh(r) \/ StartCancel(r) \/ StartConfirm(r)
  <2>1. PICK c \in Charges, phase \in {"ask", "query", "revoke", "confirm"} :
          Begin(r, [NoJob EXCEPT !.charge = c], phase)
    BY <1>1 DEF StartCreate, StartRefresh, StartCancel, StartConfirm
  <2>2. pc'[r] # "cancel" /\ job'[r].told = None
    BY <2>1, NewJobType DEF Begin, TypeOK
  <2>3. status' = status
    BY <1>1 DEF StartCreate, StartRefresh, StartCancel, StartConfirm, rowVars
  <2> QED BY <1>b, <2>2, <2>3, GatewayAssumption DEF Status
<1>2. CASE Ask(r) \/ Query(r)
  <2>1. Charge(r) \in Charges /\ job[r] \in Job
    BY <1>2, ChargeType DEF Ask, Query
  <2>2. /\ job'[r].told = Answer(Charge(r)) /\ Charge(r)' = Charge(r)
        /\ pc'[r] # "cancel" /\ status' = status
    BY <1>2, <2>1 DEF Ask, Query, TypeOK, Job, Charge, rowVars
  <2>3. Answer(Charge(r)) = "CANCELED" => world[Charge(r)] = "canceled"
    BY <2>1, AnswerType
  <2>4. KnowsCanceled(r)' => world'[Charge(r)'] = "canceled"
    BY <1>w, <2>1, <2>2, <2>3 DEF KnowsCanceled
  <2> QED BY <1>a, <2>2, <2>4
<1>3. CASE Revoke(r)
  <2>1. Charge(r) \in Charges
    BY <1>3, ChargeType DEF Revoke
  <2>2. Charge(r) \notin Local => world'[Charge(r)] = "canceled"
    BY <1>3, <2>1 DEF Revoke, TypeOK
  <2>3. Charge(r)' = Charge(r) /\ status' = status
    BY <1>3 DEF Revoke, Goto, Charge, rowVars
  <2>4. KnowsCanceled(r)' => world'[Charge(r)'] = "canceled"
    BY <2>2, <2>3 DEF KnowsCanceled
  <2> QED BY <1>a, <2>3, <2>4
<1>4. CASE StartWebhook(r)
  <2>1. PICK e \in Events \ logged :
          /\ sent[e] # None
          /\ LET c == sent[e].charge
             IN  Begin(r, [charge |-> c, event |-> e,
                           told |-> IF status[c] = "none" THEN None ELSE sent[e].status], "log")
    BY <1>4 DEF StartWebhook
  <2>2. /\ pc'[r] = "log" /\ status' = status /\ Charge(r)' = sent[e].charge
        /\ job'[r].told = None \/ job'[r].told = sent[e].status
    BY <1>4, <2>1 DEF StartWebhook, Begin, TypeOK, Charge, rowVars
  <2>3. KnowsCanceled(r)' => world'[Charge(r)'] = "canceled"
    BY <1>s, <2>1, <2>2, GatewayAssumption DEF KnowsCanceled, Status
  <2> QED BY <1>a, <2>2, <2>3
<1>5. CASE LogEvent(r)
  <2>1. /\ pc[r] = "log" /\ status' = status
        /\ pc'[r] = "idle" \/ (pc'[r] = "apply" /\ job' = job)
    BY <1>5 DEF LogEvent, Goto, End, TypeOK
  <2>2. KnowsCanceled(r)' => KnowsCanceled(r) /\ Charge(r)' = Charge(r)
    BY <2>1 DEF KnowsCanceled, Charge
  <2>3. KnowsCanceled(r) => Charge(r) \in Charges
    BY ChargeType DEF KnowsCanceled
  <2> QED BY <1>a, <1>w, <2>1, <2>2, <2>3
<1>6. CASE Onwards(r)
  <2>1. Charge(r) \in Charges
    BY <1>6, ChargeType DEF Onwards, FindMethod, AddMethod, Sum, Pay
  <2>2. KnowsCanceled(r)' => KnowsCanceled(r) /\ Charge(r)' = Charge(r)
    BY <1>6, OnwardsStep DEF KnowsCanceled, Charge, Reconciling
  <2> QED BY <1>a, <1>6, <1>w, <2>1, <2>2, OnwardsStep
<1>7. CASE Insert(r) \/ Apply(r) \/ Confirm(r)
  <2> DEFINE c == Charge(r)
  <2>1. c \in Charges /\ pc[r] \notin Reconciling /\ pc[r] # "idle"
    BY <1>7, WriteCases DEF Insert, Apply, Confirm
  <2>2. CASE End(r) /\ UNCHANGED <<rowVars, historyVars>>
    BY <1>b, <2>2 DEF End, TypeOK, rowVars
  <2>3. ASSUME NEW s \in Status,
               \/ WriteAndReconcile(r, c, s) /\ s = job[r].told
               \/ s = "PAID" /\ Confirm(r)
        PROVE  CanceledInv'
    <3>1. /\ status' = [status EXCEPT ![c] = s]
          /\ pc'[r] = "idle" \/ (pc'[r] = "findMethod" /\ job' = job)
      BY <2>1, <2>3, WriteStep
    <3>2. KnowsCanceled(r)' => KnowsCanceled(r) /\ Charge(r)' = Charge(r)
      BY <2>1, <3>1 DEF KnowsCanceled, Charge
    <3>3. s = "CANCELED" /\ c \notin Local => world'[c] = "canceled"
      <4>1. s = "CANCELED" /\ c \notin Local => KnowsCanceled(r)
        BY <2>1, <2>3 DEF KnowsCanceled
      <4> QED BY <1>w, <2>1, <4>1
    <3>4. \A d \in Charges \ Local : status'[d] = "CANCELED"
            => status[d] = "CANCELED" \/ world'[d] = "canceled"
      BY <2>1, <3>1, <3>3 DEF TypeOK
    <3> QED BY <1>a, <1>w, <2>1, <3>2, <3>4
  <2> QED BY <1>7, <2>2, <2>3, WriteCases
<1>8. CASE Cancel(r)
  <2> DEFINE c == Charge(r)
  <2>1. /\ c \in Charges /\ pc'[r] = "idle" /\ pc[r] = "cancel"
        /\ status' = [status EXCEPT ![c] = "CANCELED"]
    BY <1>8, ChargeType DEF Cancel, End, TypeOK
  <2>2. c \notin Local => world'[c] = "canceled"
    BY <1>w, <2>1 DEF KnowsCanceled
  <2>3. \A d \in Charges \ Local : status'[d] = "CANCELED"
          => status[d] = "CANCELED" \/ world'[d] = "canceled"
    BY <2>1, <2>2 DEF TypeOK
  <2> QED BY <1>a, <2>1, <2>3 DEF KnowsCanceled
<1>9. CASE Link(r) \/ Fail(r)
  BY <1>9, <1>b DEF Link, Fail, End, rowVars, TypeOK
<1> QED BY <1>1, <1>2, <1>3, <1>4, <1>5, <1>6, <1>7, <1>8, <1>9, StepCases DEF Aside

LEMMA CanceledNext == TypeOK /\ CanceledInv /\ [Next]_vars => CanceledInv'
<1> SUFFICES ASSUME TypeOK, CanceledInv, [Next]_vars PROVE CanceledInv'
  OBVIOUS
<1>1. CASE \E r \in Requests : Step(r)
  BY <1>1, CanceledStep
<1>2. CASE UNCHANGED <<status, world, sent, pc, job>>
  BY <1>2 DEF CanceledInv, KnowsCanceled, CanceledIsOver, Charge
<1>3. ASSUME NEW c \in Charges, CustomerPays(c) PROVE CanceledInv'
  <2>1. \A d \in Charges : world[d] = "canceled" => world'[d] = "canceled"
    BY <1>3 DEF CustomerPays, TypeOK
  <2>2. UNCHANGED <<status, sent, pc, job>>
    BY <1>3 DEF CustomerPays, rowVars
  <2>3. \A r \in Requests : KnowsCanceled(r) => Charge(r) \in Charges
    BY ChargeType DEF KnowsCanceled
  <2>4. \A e \in Events : sent[e] # None => sent[e] \in [charge : Charges, status : Status]
    BY DEF TypeOK
  <2> QED BY <2>1, <2>2, <2>3, <2>4 DEF CanceledInv, KnowsCanceled, CanceledIsOver, Charge
<1>4. ASSUME NEW e \in Events, SendWebhook(e) PROVE CanceledInv'
  <2>1. PICK c \in Charges \ Local : \E s \in {"PROCESSING", Answer(c)} :
          sent' = [sent EXCEPT ![e] = [charge |-> c, status |-> s]]
    <3>1. PICK d \in Charges \ Local :
            \E t \in {"PROCESSING"} \cup (IF d \in Telling THEN {Answer(d)} ELSE {}) :
              sent' = [sent EXCEPT ![e] = [charge |-> d, status |-> t]]
      BY <1>4 DEF SendWebhook
    <3>2. \E t \in {"PROCESSING", Answer(d)} :
            sent' = [sent EXCEPT ![e] = [charge |-> d, status |-> t]]
      BY <3>1
    <3> QED BY <3>2
  <2>s. PICK s \in {"PROCESSING", Answer(c)} :
          sent' = [sent EXCEPT ![e] = [charge |-> c, status |-> s]]
    BY <2>1
  <2>2. UNCHANGED <<status, world, pc, job>>
    BY <1>4 DEF SendWebhook, rowVars
  <2>3. \A f \in Events : sent'[f] # None =>
          /\ sent'[f].charge \notin Local
          /\ sent'[f].status = "CANCELED" => world[sent'[f].charge] = "canceled"
    BY <2>s, AnswerType DEF TypeOK, CanceledInv
  <2> QED BY <2>2, <2>3 DEF CanceledInv, KnowsCanceled, CanceledIsOver, Charge
<1>5. CASE Configure \/ DeskPays \/ \E c \in Charges : DeskCancels(c)
  BY <1>2, <1>5 DEF Configure, DeskPays, DeskCancels, providerVars
<1>6. CASE UNCHANGED vars
  BY <1>2, <1>6 DEF vars, rowVars, providerVars
<1> QED BY <1>1, <1>3, <1>4, <1>5, <1>6 DEF Next

\* Nobody can pay a charge that is shown as canceled.
THEOREM CanceledChargesAreOver == Spec => []CanceledIsOver
<1>1. Init => TypeOK /\ CanceledInv
  BY GatewayInitType DEF Init, CanceledInv, KnowsCanceled, CanceledIsOver
<1>2. TypeOK /\ CanceledInv /\ [Next]_vars => (TypeOK /\ CanceledInv)'
  BY NextType, CanceledNext
<1>3. CanceledInv => CanceledIsOver
  BY DEF CanceledInv
<1> QED BY <1>1, <1>2, <1>3, PTL DEF Spec

-----------------------------------------------------------------------------
\* A request that comes to the link, or leaves it, is one whose charge is backed.
LEMMA BackedStep ==
  ASSUME TypeOK, NEW r \in Requests,
         \A q \in Requests \ {r} : pc'[q] = pc[q] /\ job'[q] = job[q],
         pc'[r] # "link",
         pc[r] # "link" => UNCHANGED <<linked, unlinked>>,
         pc[r] = "link" => linked' \cup unlinked' = linked \cup unlinked \cup {Charge(r)}
  PROVE  Backed' = Backed
<1>1. ASSUME NEW c \in Charges
      PROVE  Busy({"link"}, c)'
               <=> \E q \in Requests \ {r} : pc[q] = "link" /\ Charge(q) = c
  BY <1>1 DEF Busy, Charge
<1>2. ASSUME NEW c \in Charges
      PROVE  Busy({"link"}, c) <=>
               \/ \E q \in Requests \ {r} : pc[q] = "link" /\ Charge(q) = c
               \/ pc[r] = "link" /\ Charge(r) = c
  BY <1>2 DEF Busy
<1>3. pc[r] = "link" => Charge(r) \in Charges
  BY ChargeType
<1> HIDE DEF Charge, Busy
<1> QED BY <1>1, <1>2, <1>3 DEF Backed

LEMMA VouchedStep ==
  ASSUME TypeOK, VouchedInv, NEW r \in Requests, Step(r)
  PROVE  /\ VouchedInv'
         /\ [Settled!SettlementNext]_(Settled!settlementVars)
<1> USE DEF VouchedInv, Settled!SettlementNext, Settled!settlementVars
<1>0. \A q \in Requests \ {r} : pc'[q] = pc[q] /\ job'[q] = job[q]
  BY OthersStay
<1>1. CASE Aside(r)
  <2>1. VouchedInv'
    BY <1>0, <1>1, AsideStep DEF Charge
  <2>2. Backed' = Backed
    BY <1>0, <1>1, AsideStep, BackedStep DEF Reconciling
  <2> QED BY <1>1, <2>1, <2>2, AsideStep
<1>2. CASE Onwards(r)
  <2>1. VouchedInv'
    BY <1>0, <1>2, OnwardsStep DEF Charge
  <2>2. CASE Pay(r)
    <3>1. Charge(r) \in Charges /\ Charge(r) \in vouched
      BY <1>2, <2>2, OnwardsStep, ChargeType DEF Pay
    <3>2. Backed' = Backed \cup {Charge(r)}
      <4>1. /\ pc[r] = "pay" /\ pc'[r] = "link" /\ job' = job
            /\ UNCHANGED <<linked, unlinked>>
        BY <2>2 DEF Pay, Goto, historyVars, TypeOK
      <4>2. \A c \in Charges : Busy({"link"}, c)' <=> Busy({"link"}, c) \/ c = Charge(r)
        BY <1>0, <4>1 DEF Busy, Charge
      <4> QED BY <3>1, <4>1, <4>2 DEF Backed
    <3>3. Settled!Make(Charge(r))
      BY <2>2, <3>1, <3>2 DEF Pay, historyVars, Settled!Make
    <3> QED BY <2>1, <3>1, <3>3
  <2>3. CASE ~Pay(r)
    <3>1. Backed' = Backed
      BY <1>0, <1>2, <2>3, OnwardsStep, BackedStep
    <3> QED BY <1>2, <2>1, <2>3, <3>1, OnwardsStep
  <2> QED BY <2>2, <2>3
<1>3. CASE Insert(r) \/ Apply(r) \/ Confirm(r)
  <2> DEFINE c == Charge(r)
  <2>1. c \in Charges /\ pc[r] \notin Reconciling
    BY <1>3, WriteCases
  <2>2. CASE End(r) /\ UNCHANGED <<rowVars, historyVars>>
    <3>1. VouchedInv'
      BY <1>0, <2>2 DEF End, historyVars, Charge, Reconciling, TypeOK
    <3>2. /\ pc'[r] # "link" /\ pc[r] # "link"
          /\ UNCHANGED <<vouched, made, linked, unlinked>>
      BY <2>1, <2>2 DEF End, rowVars, historyVars, Reconciling, TypeOK
    <3>3. Backed' = Backed
      BY <1>0, <3>2, BackedStep
    <3> QED BY <3>1, <3>2, <3>3
  <2>3. ASSUME NEW s \in Status,
               WriteAndReconcile(r, c, s) \/ (s = "PAID" /\ Confirm(r))
        PROVE  /\ VouchedInv'
               /\ [Settled!SettlementNext]_(Settled!settlementVars)
    <3>1. /\ UNCHANGED <<linked, made>>
          /\ vouched' = vouched \cup (IF s = "PAID" THEN {c} ELSE {})
          /\ \/ pc'[r] = "findMethod" /\ job' = job /\ s = "PAID"
             \/ pc'[r] = "idle"
      BY <2>1, <2>3, WriteStep
    <3>2. VouchedInv'
      BY <1>0, <3>1 DEF Charge, Reconciling
    <3>3. pc[r] # "link" /\ pc'[r] # "link" /\ unlinked' = unlinked
      BY <2>1, <2>3, WriteStep DEF Reconciling, Reconcile
    <3>4. Backed' = Backed
      BY <1>0, <3>1, <3>3, BackedStep
    <3>5. Settled!Vouch(c) \/ UNCHANGED <<vouched, made, Backed, linked>>
      BY <3>1, <3>4 DEF Settled!Vouch
    <3> QED BY <2>1, <3>2, <3>5
  <2> QED BY <1>3, <2>2, <2>3, WriteCases
<1>4. CASE Cancel(r)
  <2>1. VouchedInv'
    BY <1>0, <1>4 DEF Cancel, End, historyVars, Charge, Reconciling, TypeOK
  <2>2. /\ pc'[r] # "link" /\ pc[r] # "link"
        /\ UNCHANGED <<vouched, made, linked, unlinked>>
    BY <1>4 DEF Cancel, End, historyVars, TypeOK
  <2>3. Backed' = Backed
    BY <1>0, <2>2, BackedStep
  <2> QED BY <2>1, <2>2, <2>3
<1>5. CASE Link(r)
  <2>1. Charge(r) \in Charges /\ Charge(r) \in vouched
    BY <1>5, ChargeType DEF Link, Reconciling
  <2>2. Settled!Tie(Charge(r))
    <3>1. /\ pc[r] = "link" /\ pc'[r] # "link"
          /\ linked' = linked \cup {Charge(r)}
          /\ UNCHANGED <<vouched, made, unlinked>>
      BY <1>5 DEF Link, End, historyVars, TypeOK
    <3>2. Backed' = Backed
      BY <1>0, <3>1, BackedStep
    <3>3. Charge(r) \in Backed
      BY <2>1, <3>1 DEF Backed, Busy
    <3> QED BY <3>1, <3>2, <3>3 DEF Settled!Tie
  <2>3. VouchedInv'
    BY <1>0, <1>5 DEF Link, End, historyVars, Charge, Reconciling, TypeOK
  <2> QED BY <2>1, <2>2, <2>3
<1>6. CASE Fail(r)
  <2>1. VouchedInv'
    BY <1>0, <1>6 DEF Fail, End, rowVars, Charge, Reconciling, TypeOK
  <2>2. /\ pc'[r] # "link"
        /\ UNCHANGED <<vouched, made, linked>>
        /\ unlinked' = unlinked \cup (IF pc[r] = "link" THEN {Charge(r)} ELSE {})
    BY <1>6 DEF Fail, End, rowVars, TypeOK
  <2>3. Backed' = Backed
    BY <1>0, <2>2, BackedStep
  <2> QED BY <2>1, <2>2, <2>3
<1> QED BY <1>1, <1>2, <1>3, <1>4, <1>5, <1>6, StepCases

LEMMA VouchedNext ==
  TypeOK /\ VouchedInv /\ [Next]_vars
    => VouchedInv' /\ [Settled!SettlementNext]_(Settled!settlementVars)
<1> SUFFICES ASSUME TypeOK, VouchedInv, [Next]_vars
             PROVE  VouchedInv' /\ [Settled!SettlementNext]_(Settled!settlementVars)
  OBVIOUS
<1>1. CASE \E r \in Requests : Step(r)
  BY <1>1, VouchedStep
<1>2. CASE UNCHANGED <<vouched, made, linked, unlinked, pc, job>>
  BY <1>2 DEF VouchedInv, Backed, Busy, Charge, Settled!settlementVars
<1>3. ASSUME NEW c \in Charges, CustomerPays(c)
      PROVE  UNCHANGED <<vouched, made, linked, unlinked, pc, job>>
  BY <1>3 DEF CustomerPays, rowVars, historyVars
<1>4. ASSUME NEW c \in Charges, DeskCancels(c)
      PROVE  VouchedInv' /\ [Settled!SettlementNext]_(Settled!settlementVars)
  <2>1. Settled!Return(c) /\ UNCHANGED <<vouched, linked, pc, job>>
    BY <1>4 DEF DeskCancels, historyVars, Settled!Return, Backed, Busy, Charge
  <2> QED BY <2>1 DEF VouchedInv, Charge, Settled!SettlementNext
<1>5. ASSUME NEW e \in Events, SendWebhook(e)
      PROVE  UNCHANGED <<vouched, made, linked, unlinked, pc, job>>
  BY <1>5 DEF SendWebhook, rowVars, historyVars
<1>6. CASE Configure \/ DeskPays
  BY <1>2, <1>6 DEF Configure, DeskPays, historyVars
<1>7. CASE UNCHANGED vars
  BY <1>2, <1>7 DEF vars, rowVars, historyVars
<1> QED BY <1>1, <1>2, <1>3, <1>4, <1>5, <1>6, <1>7 DEF Next

\* Gateway implements Settlement: payments are made from charges somebody vouched for,
\* and charges are linked that a payment was made from.
THEOREM GatewaySettles == Spec => ImplementsSettlement
<1>1. Init => TypeOK /\ VouchedInv /\ Settled!SettlementInit
  BY GatewayInitType DEF Init, VouchedInv, Reconciling, Backed, Busy, Settled!SettlementInit
<1>2. TypeOK /\ VouchedInv /\ [Next]_vars
        => /\ (TypeOK /\ VouchedInv)'
           /\ [Settled!SettlementNext]_(Settled!settlementVars)
  BY NextType, VouchedNext
<1> QED BY <1>1, <1>2, PTL DEF Spec, ImplementsSettlement, Settled!SettlementSpec
=============================================================================
