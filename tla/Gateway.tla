------------------------------ MODULE Gateway -------------------------------
(***************************************************************************)
(* The charges of one appointment at payment providers (modules/payments/  *)
(* gateway).  A charge is asked for once per idempotency key; afterwards   *)
(* webhooks, refreshes, a cancellation and a confirmation by hand write    *)
(* its status, each from what it read before it called the provider, and   *)
(* the first of them that finds it PAID makes a payment of it.  No step    *)
(* shares a transaction with another.                                      *)
(*                                                                         *)
(* The providers are external.  One, pix-local, answers PENDING whatever   *)
(* happened and sends no webhooks.                                         *)
(***************************************************************************)
EXTENDS Integers, FiniteSets, FiniteSetsExt

CONSTANTS
  Charges,    \* idempotency keys of the appointment: one row each, created or not
  Local,      \* those of the provider pix-local
  Telling,    \* those of a provider whose webhooks may tell the status
  Events,     \* webhook events a provider sends, each as often as it likes (a bound)
  Requests,   \* requests that run at the same time (a bound)
  Cents,      \* [Charges -> amount]
  Price,      \* price of the appointment
  ByHand,     \* most payments at the desk (a bound)
  None

Status == {"PENDING", "PROCESSING", "PAID", "CANCELED"}

ASSUME GatewayAssumption ==
  /\ Local \subseteq Charges /\ Telling \subseteq Charges \ Local
  /\ Cents \in [Charges -> Nat \ {0}]
  /\ Price \in Nat /\ ByHand \in Nat
  /\ None \notin Charges \cup Status

VARIABLES
  status,    \* [Charges -> Status \cup {"none"}]: the rows
  linked,    \* charges whose row has a paymentId
  world,     \* [Charges -> World]: what happened at the provider (external)
  sent,      \* [Events -> [charge, status] \cup {None}]: webhooks sent (external)
  logged,    \* events of payment_gateway_events
  active,    \* providers that are configured and active
  methods,   \* providers whose payment method "Gateway (..)" exists
  made,      \* [Charges -> Nat]: payments made from each that are not canceled
  desk,      \* payments of one cent registered at the desk
  pc,        \* [Requests -> Phases]: where each request is
  job,       \* [Requests -> Job]: its charge, and what it was told about it
  vouched,   \* charges a provider or the establishment said are paid (history)
  repeated,  \* charges reconciled while linked or being reconciled (history)
  unpaid,    \* charges whose reconciliation ended before its payment (history)
  unlinked   \* charges whose reconciliation ended before its link (history)

rowVars == <<status, linked, logged, active, methods, made, desk>>
providerVars == <<world, sent>>
historyVars == <<vouched, repeated, unpaid, unlinked>>
vars == <<rowVars, providerVars, pc, job, historyVars>>

Providers == {"pix-local", "remote"}

Provider(c) == IF c \in Local THEN "pix-local" ELSE "remote"

World == {"none", "open", "paid", "canceled"}

Reconciling == {"findMethod", "addMethod", "sum", "pay", "link"}

Phases == {"idle", "ask", "insert", "query", "apply", "revoke", "cancel",
           "log", "confirm"} \cup Reconciling

Job == [charge : Charges \cup {None}, told : Status \cup {None}, event : Events \cup {None}]

NoJob == [charge |-> None, told |-> None, event |-> None]

TypeOK ==
  /\ status \in [Charges -> Status \cup {"none"}]
  /\ linked \subseteq Charges
  /\ world \in [Charges -> World]
  /\ sent \in [Events -> [charge : Charges, status : Status] \cup {None}]
  /\ logged \subseteq Events
  /\ active \subseteq Providers /\ methods \subseteq Providers
  /\ made \in [Charges -> Nat] /\ desk \in Nat
  /\ pc \in [Requests -> Phases]
  /\ job \in [Requests -> Job]
  /\ vouched \subseteq Charges /\ repeated \subseteq Charges
  /\ unpaid \subseteq Charges /\ unlinked \subseteq Charges
  /\ \A r \in Requests : pc[r] # "idle" => job[r].charge # None
  /\ \A r \in Requests : pc[r] \in {"insert", "apply"} => job[r].told # None
  /\ \A r \in Requests : pc[r] = "log" => job[r].event \in Events

Init ==
  /\ status = [c \in Charges |-> "none"]
  /\ linked = {} /\ logged = {}
  /\ world = [c \in Charges |-> "none"]
  /\ sent = [e \in Events |-> None]
  /\ active = Providers /\ methods = {}
  /\ made = [c \in Charges |-> 0] /\ desk = 0
  /\ pc = [r \in Requests |-> "idle"]
  /\ job = [r \in Requests |-> NoJob]
  /\ vouched = {} /\ repeated = {} /\ unpaid = {} /\ unlinked = {}

-----------------------------------------------------------------------------
Goto(r, phase) == pc' = [pc EXCEPT ![r] = phase] /\ UNCHANGED job

Begin(r, j, phase) ==
  /\ pc[r] = "idle"
  /\ pc' = [pc EXCEPT ![r] = phase]
  /\ job' = [job EXCEPT ![r] = j]

\* The answer, or the error, is sent
End(r) ==
  /\ pc' = [pc EXCEPT ![r] = "idle"]
  /\ job' = [job EXCEPT ![r] = NoJob]

Charge(r) == job[r].charge

Busy(phases, c) == \E r \in Requests : pc[r] \in phases /\ Charge(r) = c

Till == desk + MapThenSumSet(LAMBDA c : made[c] * Cents[c], Charges)

\* mapStatus; pix-local has nobody to ask.  A refused payment counts as pending.
Answer(c) ==
  CASE c \in Local \/ world[c] \in {"none", "open"} -> "PENDING"
    [] c \notin Local /\ world[c] = "paid" -> "PAID"
    [] c \notin Local /\ world[c] = "canceled" -> "CANCELED"

\* (fault) a charge in process makes a payment
ReconcileEarly(c, s) == s \in {"PROCESSING", "PAID"} /\ c \notin linked

ToReconcile(c, s) == s = "PAID" /\ c \notin linked

\* reconcilePaidCharge is called: right behind the write of the status
Reconcile(r, c) ==
  /\ Goto(r, "findMethod")
  /\ repeated' = repeated \cup
       (IF c \in linked \/ Busy(Reconciling, c) THEN {c} ELSE {})
  /\ unpaid' = unpaid \ {c}
  /\ UNCHANGED unlinked

\* status := s, and a payment if that makes the charge PAID
WriteAndReconcile(r, c, s) ==
  /\ status' = [status EXCEPT ![c] = s]
  /\ vouched' = vouched \cup (IF s = "PAID" THEN {c} ELSE {})
  /\ \/ ToReconcile(c, s) /\ Reconcile(r, c)
     \/ ~ToReconcile(c, s) /\ End(r) /\ UNCHANGED <<repeated, unpaid, unlinked>>
  /\ UNCHANGED <<linked, logged, active, methods, made, desk>>

-----------------------------------------------------------------------------
\* createCharge: a key that has a row is answered with it

StartCreate(r) ==
  /\ \E c \in Charges :
       /\ status[c] = "none" /\ Provider(c) \in active
       /\ Begin(r, [NoJob EXCEPT !.charge = c], "ask")
  /\ UNCHANGED <<rowVars, providerVars, historyVars>>

\* The provider knows the idempotency key: asked again, it tells what it has
Ask(r) ==
  LET c == Charge(r) IN
  /\ pc[r] = "ask"
  /\ world' = [world EXCEPT ![c] = IF @ = "none" THEN "open" ELSE @]
  /\ job' = [job EXCEPT ![r].told = Answer(c)]
  /\ pc' = [pc EXCEPT ![r] = "insert"]
  /\ UNCHANGED <<rowVars, sent, historyVars>>

\* (fault) a charge is taken for unpaid when it is created
InsertUnpaid(r) ==
  LET c == Charge(r) IN
  /\ pc[r] = "insert"
  /\ status' = [status EXCEPT ![c] = IF @ = "none" THEN job[r].told ELSE @]
  /\ End(r)
  /\ UNCHANGED <<linked, logged, active, methods, made, desk, providerVars, historyVars>>

\* @@unique([tenantId, idempotencyKey]): the second of two rows is refused
Insert(r) ==
  LET c == Charge(r) IN
  /\ pc[r] = "insert"
  /\ IF status[c] = "none"
     THEN WriteAndReconcile(r, c, job[r].told)
     ELSE End(r) /\ UNCHANGED <<rowVars, historyVars>>
  /\ UNCHANGED providerVars

-----------------------------------------------------------------------------
\* getCharge(refresh)

StartRefresh(r) ==
  /\ \E c \in Charges :
       /\ status[c] # "none" /\ Provider(c) \in active
       /\ Begin(r, [NoJob EXCEPT !.charge = c], "query")
  /\ UNCHANGED <<rowVars, providerVars, historyVars>>

Query(r) ==
  /\ pc[r] = "query"
  /\ job' = [job EXCEPT ![r].told = Answer(Charge(r))]
  /\ pc' = [pc EXCEPT ![r] = "apply"]
  /\ UNCHANGED <<rowVars, providerVars, historyVars>>

\* Update by id, of getCharge and of handleWebhook: whatever the status was
Apply(r) ==
  /\ pc[r] = "apply"
  /\ WriteAndReconcile(r, Charge(r), job[r].told)
  /\ UNCHANGED providerVars

-----------------------------------------------------------------------------
\* cancelCharge

StartCancel(r) ==
  /\ \E c \in Charges :
       /\ status[c] \in {"PENDING", "PROCESSING"} /\ Provider(c) \in active
       /\ Begin(r, [NoJob EXCEPT !.charge = c], "revoke")
  /\ UNCHANGED <<rowVars, providerVars, historyVars>>

\* (fault) the answer of the provider is not looked at
RevokeAnyway(r) ==
  LET c == Charge(r) IN
  /\ pc[r] = "revoke"
  /\ world' = [world EXCEPT ![c] = IF c \notin Local /\ @ = "open" THEN "canceled" ELSE @]
  /\ Goto(r, "cancel")
  /\ UNCHANGED <<rowVars, sent, historyVars>>

\* The provider refuses to cancel what is paid; pix-local has nothing to cancel
Revoke(r) ==
  LET c == Charge(r) IN
  /\ pc[r] = "revoke"
  /\ \/ c \in Local /\ UNCHANGED world
     \/ /\ c \notin Local /\ world[c] = "open"
        /\ world' = [world EXCEPT ![c] = "canceled"]
  /\ Goto(r, "cancel")
  /\ UNCHANGED <<rowVars, sent, historyVars>>

Cancel(r) ==
  /\ pc[r] = "cancel"
  /\ status' = [status EXCEPT ![Charge(r)] = "CANCELED"]
  /\ End(r)
  /\ UNCHANGED <<linked, logged, active, methods, made, desk, providerVars, historyVars>>

-----------------------------------------------------------------------------
\* handleWebhook

\* An event that was logged is answered as a duplicate; pix-local never signs.
\* An event whose charge has no row yet matches nothing.
StartWebhook(r) ==
  /\ \E e \in Events \ logged :
       /\ sent[e] # None /\ Provider(sent[e].charge) \in active
       /\ LET c == sent[e].charge
          IN  Begin(r, [charge |-> c, event |-> e,
                        told |-> IF status[c] = "none" THEN None ELSE sent[e].status], "log")
  /\ UNCHANGED <<rowVars, providerVars, historyVars>>

\* @@unique([tenantId, provider, externalEventId]); logged before it is applied
LogEvent(r) ==
  LET e == job[r].event IN
  /\ pc[r] = "log"
  /\ IF e \notin logged /\ job[r].told # None THEN Goto(r, "apply") ELSE End(r)
  /\ logged' = logged \cup {e}
  /\ UNCHANGED <<status, linked, active, methods, made, desk, providerVars, historyVars>>

-----------------------------------------------------------------------------
\* confirmManualCharge: of any provider, also an inactive one

StartConfirm(r) ==
  /\ \E c \in Charges :
       /\ status[c] \in {"PENDING", "PROCESSING"}
       /\ Begin(r, [NoJob EXCEPT !.charge = c], "confirm")
  /\ UNCHANGED <<rowVars, providerVars, historyVars>>

Confirm(r) ==
  LET c == Charge(r) IN
  /\ pc[r] = "confirm"
  /\ status' = [status EXCEPT ![c] = "PAID"]
  /\ vouched' = vouched \cup {c}
  /\ Reconcile(r, c)
  /\ UNCHANGED <<linked, logged, active, methods, made, desk, providerVars>>

-----------------------------------------------------------------------------
\* reconcilePaidCharge

FindMethod(r) ==
  /\ pc[r] = "findMethod"
  /\ Goto(r, IF Provider(Charge(r)) \in methods THEN "sum" ELSE "addMethod")
  /\ UNCHANGED <<rowVars, providerVars, historyVars>>

\* The name of a method is unique: the second request to add it fails
AddMethod(r) ==
  /\ pc[r] = "addMethod"
  /\ Provider(Charge(r)) \notin methods
  /\ methods' = methods \cup {Provider(Charge(r))}
  /\ Goto(r, "sum")
  /\ UNCHANGED <<status, linked, logged, active, made, desk, providerVars, historyVars>>

\* PaymentService.create: what is paid already leaves room for the charge
Sum(r) ==
  /\ pc[r] = "sum"
  /\ Till + Cents[Charge(r)] <= Price
  /\ Goto(r, "pay")
  /\ UNCHANGED <<rowVars, providerVars, historyVars>>

Pay(r) ==
  /\ pc[r] = "pay"
  /\ made' = [made EXCEPT ![Charge(r)] = @ + 1]
  /\ Goto(r, "link")
  /\ UNCHANGED <<status, linked, logged, active, methods, desk, providerVars, historyVars>>

\* (fault) only a charge that is still PAID is linked
LinkIfPaid(r) ==
  LET c == Charge(r) IN
  /\ pc[r] = "link"
  /\ linked' = linked \cup (IF status[c] = "PAID" THEN {c} ELSE {})
  /\ End(r)
  /\ UNCHANGED <<status, logged, active, methods, made, desk, providerVars, historyVars>>

Link(r) ==
  /\ pc[r] = "link"
  /\ linked' = linked \cup {Charge(r)}
  /\ End(r)
  /\ UNCHANGED <<status, logged, active, methods, made, desk, providerVars, historyVars>>

\* A call or a statement fails, a check refuses (the price is exceeded, the
\* appointment canceled, the method inactive or just added by another), or the
\* process ends: what is written stays written.
Fail(r) ==
  /\ pc[r] # "idle"
  /\ End(r)
  /\ unpaid' = unpaid \cup
       (IF pc[r] \in Reconciling \ {"link"} THEN {Charge(r)} ELSE {})
  /\ unlinked' = unlinked \cup (IF pc[r] = "link" THEN {Charge(r)} ELSE {})
  /\ UNCHANGED <<rowVars, providerVars, vouched, repeated>>

-----------------------------------------------------------------------------
\* The world around the service

\* The customer pays what was not canceled
CustomerPays(c) ==
  /\ world[c] = "open"
  /\ world' = [world EXCEPT ![c] = "paid"]
  /\ UNCHANGED <<rowVars, sent, pc, job, historyVars>>

\* A webhook says how the charge is now, or only that something happened to it
SendWebhook(e) ==
  /\ sent[e] = None
  /\ \E c \in Charges \ Local :
       /\ world[c] # "none"
       /\ \E s \in {"PROCESSING"} \cup (IF c \in Telling THEN {Answer(c)} ELSE {}) :
            sent' = [sent EXCEPT ![e] = [charge |-> c, status |-> s]]
  /\ UNCHANGED <<rowVars, world, pc, job, historyVars>>

\* upsertConfig
Configure ==
  /\ \E p \in Providers :
       active' = IF p \in active THEN active \ {p} ELSE active \cup {p}
  /\ UNCHANGED <<status, linked, logged, methods, made, desk, providerVars, pc, job, historyVars>>

\* Payments registered and canceled at the desk (module Payments)
DeskPays ==
  /\ desk < ByHand /\ Till + 1 <= Price
  /\ desk' = desk + 1
  /\ UNCHANGED <<status, linked, logged, active, methods, made, providerVars, pc, job, historyVars>>

\* PaymentService.cancel, of a payment made from a charge: the charge stays linked
DeskCancels(c) ==
  /\ made[c] > 0
  /\ made' = [made EXCEPT ![c] = @ - 1]
  /\ UNCHANGED <<status, linked, logged, active, methods, desk, providerVars, pc, job, historyVars>>

Step(r) ==
  \/ StartCreate(r) \/ Ask(r) \/ Insert(r)
  \/ StartRefresh(r) \/ Query(r) \/ Apply(r)
  \/ StartCancel(r) \/ Revoke(r) \/ Cancel(r)
  \/ StartWebhook(r) \/ LogEvent(r)
  \/ StartConfirm(r) \/ Confirm(r)
  \/ FindMethod(r) \/ AddMethod(r) \/ Sum(r) \/ Pay(r) \/ Link(r)
  \/ Fail(r)

Next ==
  \/ \E r \in Requests : Step(r)
  \/ \E c \in Charges : CustomerPays(c) \/ DeskCancels(c)
  \/ \E e \in Events : SendWebhook(e)
  \/ Configure \/ DeskPays

Spec == Init /\ [][Next]_vars

-----------------------------------------------------------------------------
\* docs/STATUS.md:168: a charge that is PAID has its payment, also when webhooks
\* come twice or late and refreshes cross them, unless the last attempt to make
\* that payment, or the link behind it, failed.
PaidIsRecorded ==
  \A c \in Charges \ (unpaid \cup unlinked) :
    status[c] = "PAID" /\ ~Busy(Reconciling, c) => c \in linked

\* A charge has one payment, unless two requests reconciled it at the same time,
\* a status written over PAID let it be confirmed again, or a payment was made
\* whose link was not: the row is the only thing that says it was.
PaidOnce == \A c \in Charges \ (repeated \cup unlinked) : made[c] <= 1

\* A charge shown as canceled cannot be paid at its provider any more: the
\* provider is told first.  At pix-local nobody can be told.
CanceledIsOver ==
  \A c \in Charges \ Local : status[c] = "CANCELED" => world[c] = "canceled"

\* The charges a payment was made from: its link is due, done or has failed
Backed == linked \cup unlinked \cup {c \in Charges : Busy({"link"}, c)}

Settled == INSTANCE Settlement WITH
  vouched <- vouched, made <- made, backed <- Backed, linked <- linked

\* A payment is made from a charge only after its provider said it is paid or
\* the establishment confirmed it, in whatever order the answers and webhooks
\* arrive; a charge is tied to a payment only after one was made from it, and
\* stays so, also when that payment is canceled.
ImplementsSettlement == Settled!SettlementSpec
=============================================================================
