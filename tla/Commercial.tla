----------------------------- MODULE Commercial -----------------------------
(***************************************************************************)
(* The commercial life of establishments: the subscriptions the platform's *)
(* administrators create, move and extend (platform.service.ts), and the   *)
(* sweep of the worker that demotes the ones past their dates              *)
(* (tenant-commercial-sweep.service.ts).                                   *)
(*                                                                         *)
(* A subscription is one row, named by its place in the order of creation. *)
(* An administrator's transition is one update by id of a row whose only   *)
(* condition (not EXPIRED) is always met, so it is one step; an extension  *)
(* checks what it read before. The sweep lists rows and then writes them   *)
(* one by one, by id, without looking again: others act in between, and    *)
(* any statement of it may throw, which ends the run.                      *)
(*                                                                         *)
(* Time is in days. The plan of a subscription only prices it and gives    *)
(* the days of the trial and of the period, which are inputs here.         *)
(***************************************************************************)
EXTENDS Database, Integers, FiniteSets

CONSTANTS
  Establishments,
  Subscriptions, \* ids, in order of creation
  Sweepers,      \* the workers: one per instance of the API
  Administrators, \* extending a trial
  Trials,        \* days of trial a plan or the policy gives
  Periods,       \* days of the first period
  Graces,        \* graceDays
  MaxTime,       \* (bound) last day
  MaxFailures    \* (bound) runs of the sweep that throw

Times == 0 .. MaxTime
Statuses == {"TRIALING", "ACTIVE", "PAST_DUE", "SUSPENDED", "CANCELED"}

ASSUME CommercialAssumption ==
  /\ Subscriptions \subseteq Nat
  /\ Trials \subseteq Nat \ {0}
  /\ Periods \subseteq Nat \ {0}
  /\ Graces \subseteq Nat
  /\ MaxTime \in Nat
  /\ MaxFailures \in Nat
  /\ None \notin Nat

VARIABLES
  now,
  subscription, \* the rows: establishment, status, dates of the trial, the period and the
                \* grace, and whether effectiveKey = 'EFFECTIVE' (effective)
  policy,       \* graceDays and autoSuspendAfterGrace
  sweep,        \* the run of each worker and the rows it has still to write
  extending,    \* the extension each administrator is about to write
  failures,
  overtaken     \* history: rows the sweep wrote that had changed since it read them

commercialVars == <<now, subscription, policy, sweep, extending, failures, overtaken>>

\* The records of the rows, of a run of the sweep and of an extension
Subscription ==
  [tenant : Establishments, status : Statuses, trialEnds : Nat \cup {None},
   periodEnds : Nat, graceEnds : Nat \cup {None}, effective : BOOLEAN]
Listed == [id : Subscriptions, row : Subscription]
Run ==
  [phase : {"idle", "trials", "periods", "graces"}, started : Nat, grace : Nat,
   suspends : BOOLEAN, list : SUBSET Listed]
Extension == [id : Subscriptions, end : Times]

ASSUME NoSubscriptionIsNone == None \notin Subscription \cup Extension

NoRun == [phase |-> "idle", started |-> 0, grace |-> 0, suspends |-> FALSE, list |-> {}]

\* No subscription and no run; the policy is provisioned on first use.
CommercialInit ==
  /\ now = 0
  /\ subscription = [s \in Subscriptions |-> None]
  /\ policy \in [grace : Graces, suspends : {TRUE}]
  /\ sweep = [w \in Sweepers |-> NoRun]
  /\ extending = [r \in Administrators |-> None]
  /\ failures = 0
  /\ overtaken = {}

-----------------------------------------------------------------------------
(* The rows *)

Exists(s) == subscription[s] # None
InForce(status) == status \in Statuses \ {"CANCELED"}
Of(t) == {s \in Subscriptions : Exists(s) /\ subscription[s].tenant = t}
Effective(t) == {s \in Of(t) : subscription[s].effective}
Reached(date, time) == date # None /\ date <= time

(* What the sweep looks for *)

TrialOver(x, time) == x.status = "TRIALING" /\ Reached(x.trialEnds, time) /\ x.effective
PeriodOver(x, time) == x.status = "ACTIVE" /\ Reached(x.periodEnds, time) /\ x.effective
GraceOver(x, time) == x.status = "PAST_DUE" /\ Reached(x.graceEnds, time) /\ x.effective

-----------------------------------------------------------------------------
(* The administrators *)

\* unique index (tenantId, effectiveKey)
NoOtherEffective(s, t) == Effective(t) \subseteq {s}

\* createSubscription, and createTenant for the first of an establishment. (bound) It
\* starts at once.
Create(s, t, trial, days) ==
  /\ ~Exists(s) /\ \A o \in Subscriptions : o < s => Exists(o)
  /\ NoOtherEffective(s, t)
  /\ subscription' = [subscription EXCEPT ![s] =
       [tenant |-> t,
        status |-> IF trial = None THEN "ACTIVE" ELSE "TRIALING",
        trialEnds |-> IF trial = None THEN None ELSE now + trial,
        periodEnds |-> now + days, graceEnds |-> None, effective |-> TRUE]]
  /\ UNCHANGED <<now, policy, sweep, extending, failures, overtaken>>

\* (fault) A canceled subscription that is activated again stays without the key
MovedKeyless(row, status) ==
  [row EXCEPT !.status = status, !.effective = @ /\ InForce(status),
              !.graceEnds = IF status = "ACTIVE" THEN None ELSE @]
\* The end of the period stays where it is.
Moved(row, status) ==
  [row EXCEPT !.status = status, !.effective = InForce(status),
              !.graceEnds = IF status = "ACTIVE" THEN None ELSE @]

\* transitionSubscription
Transition(s, status) ==
  /\ Exists(s)
  /\ InForce(status) => NoOtherEffective(s, subscription[s].tenant)
  /\ subscription' = [subscription EXCEPT ![s] = Moved(@, status)]
  /\ UNCHANGED <<now, policy, sweep, extending, failures, overtaken>>

\* extendTrial reads a TRIALING subscription
StartExtend(r, s, end) ==
  /\ extending[r] = None
  /\ Exists(s) /\ subscription[s].status = "TRIALING" /\ end > now
  /\ extending' = [extending EXCEPT ![r] = [id |-> s, end |-> end]]
  /\ UNCHANGED <<now, subscription, policy, sweep, failures, overtaken>>

\* ... and writes the date by id, whatever became of it
Extend(r) ==
  /\ extending[r] # None
  /\ subscription' = [subscription EXCEPT ![extending[r].id].trialEnds = extending[r].end]
  /\ extending' = [extending EXCEPT ![r] = None]
  /\ UNCHANGED <<now, policy, sweep, failures, overtaken>>

UpdatePolicy(grace, suspends) ==
  /\ policy' = [grace |-> grace, suspends |-> suspends]
  /\ UNCHANGED <<now, subscription, sweep, extending, failures, overtaken>>

-----------------------------------------------------------------------------
(* The sweep *)

Rows == {[id |-> s, row |-> subscription[s]] : s \in {o \in Subscriptions : Exists(o)}}
\* (fault) An activated subscription still has the date of its trial
ListTrialsAnyStatus(time) == {x \in Rows : x.row.effective /\ Reached(x.row.trialEnds, time)}
ListTrials(time) == {x \in Rows : TrialOver(x.row, time)}
ListPeriods(time) == {x \in Rows : PeriodOver(x.row, time)}
ListGraces(time) == {x \in Rows : GraceOver(x.row, time)}

\* The day and the policy are read once, at the start.
StartSweep(w) ==
  /\ sweep[w].phase = "idle"
  /\ sweep' = [sweep EXCEPT ![w] =
       [phase |-> "trials", started |-> now, grace |-> now + policy.grace,
        suspends |-> policy.suspends, list |-> ListTrials(now)]]
  /\ UNCHANGED <<now, subscription, policy, extending, failures, overtaken>>

\* (fault) The demotion leaves the grace as it is
DemotedGraceless(row, w) == [row EXCEPT !.status = "PAST_DUE"]
\* transition: the status of the row, by id
Demoted(row, w) == [row EXCEPT !.status = "PAST_DUE", !.graceEnds = sweep[w].grace]
Suspended(row) == [row EXCEPT !.status = "SUSPENDED"]

Write(w, x) ==
  /\ x \in sweep[w].list
  /\ subscription' = [subscription EXCEPT ![x.id] =
       IF sweep[w].phase = "graces" THEN Suspended(@) ELSE Demoted(@, w)]
  /\ sweep' = [sweep EXCEPT ![w].list = @ \ {x}]
  /\ overtaken' = IF subscription[x.id] = x.row THEN overtaken ELSE overtaken \cup {x.id}
  /\ UNCHANGED <<now, policy, extending, failures>>

ListNext(w) ==
  /\ sweep[w].phase # "idle" /\ sweep[w].list = {}
  /\ sweep' = [sweep EXCEPT ![w] =
       CASE sweep[w].phase = "trials" ->
              [@ EXCEPT !.phase = "periods", !.list = ListPeriods(sweep[w].started)]
         [] sweep[w].phase = "periods" /\ sweep[w].suspends ->
              [@ EXCEPT !.phase = "graces", !.list = ListGraces(sweep[w].started)]
         [] OTHER -> NoRun]
  /\ UNCHANGED <<now, subscription, policy, extending, failures, overtaken>>

\* A statement throws, or the process ends: what was written stays.
SweepFails(w) ==
  /\ sweep[w].phase # "idle" /\ failures < MaxFailures
  /\ sweep' = [sweep EXCEPT ![w] = NoRun]
  /\ failures' = failures + 1
  /\ UNCHANGED <<now, subscription, policy, extending, overtaken>>

Tick ==
  /\ now < MaxTime
  /\ now' = now + 1
  /\ UNCHANGED <<subscription, policy, sweep, extending, failures, overtaken>>

-----------------------------------------------------------------------------
Administer ==
  \/ \E s \in Subscriptions, t \in Establishments,
        trial \in Trials \cup {None}, days \in Periods :
       Create(s, t, trial, days)
  \/ \E s \in Subscriptions, status \in {"ACTIVE", "SUSPENDED", "CANCELED"} :
       Transition(s, status)
  \/ \E r \in Administrators, s \in Subscriptions, end \in Times : StartExtend(r, s, end)
  \/ \E r \in Administrators : Extend(r)
  \/ \E grace \in Graces, suspends \in BOOLEAN : UpdatePolicy(grace, suspends)

SweepStep(w) ==
  \/ StartSweep(w)
  \/ \E x \in sweep[w].list : Write(w, x)
  \/ ListNext(w)

CommercialNext ==
  \/ Administer
  \/ \E w \in Sweepers : SweepStep(w) \/ SweepFails(w)
  \/ Tick

\* The timer of the worker goes on, and a run goes on to its end unless it throws;
\* nobody has to administer anything.
CommercialSpec ==
  /\ CommercialInit
  /\ [][CommercialNext]_commercialVars
  /\ \A w \in Sweepers : WF_commercialVars(SweepStep(w))

-----------------------------------------------------------------------------
(* Properties *)

\* The rows and the runs are what the tables and the worker hold.
CommercialTypeOK ==
  /\ now \in Nat /\ failures \in Nat
  /\ subscription \in [Subscriptions -> Subscription \cup {None}]
  /\ policy \in [grace : Graces, suspends : BOOLEAN]
  /\ sweep \in [Sweepers -> Run]
  /\ extending \in [Administrators -> Extension \cup {None}]
  /\ overtaken \subseteq Subscriptions

\* The unique index keeps one effective key per establishment; that it keeps one
\* subscription in force depends on every writer of the status moving the key with it.
\* The sweep does not: only a row it wrote after it had changed (canceled, then another
\* created) may be in force beside another, or be in force without the key.
OneInForce ==
  \A s, o \in Subscriptions :
    (/\ Exists(s) /\ Exists(o) /\ s # o
     /\ subscription[s].tenant = subscription[o].tenant
     /\ InForce(subscription[s].status) /\ InForce(subscription[o].status))
    => (s \in overtaken \/ o \in overtaken)

\* "Rebaixa assinaturas vencidas ... e suspende as que excederam a carência": a step of
\* the sweep demotes a subscription only past the trial or the period it has, and
\* suspends it only past its grace, unless the row changed since the sweep listed it (an
\* extension, an activation, another worker).
SweptWhenDue ==
  [][\A w \in Sweepers, s \in Subscriptions :
       (sweep'[w] # sweep[w] /\ subscription'[s] # subscription[s]) =>
         \/ /\ subscription'[s].status = "PAST_DUE"
            /\ TrialOver(subscription[s], now) \/ PeriodOver(subscription[s], now)
         \/ /\ subscription'[s].status = "SUSPENDED"
            /\ GraceOver(subscription[s], now)
         \/ \E x \in sweep[w].list : x.id = s /\ x.row # subscription[s]]_commercialVars

\* The dates of the subscription are past and nothing happened yet
Overdue(s) ==
  /\ Exists(s)
  /\ subscription[s].effective
  /\ \/ TrialOver(subscription[s], now)
     \/ PeriodOver(subscription[s], now)
     \/ /\ subscription[s].status = "PAST_DUE" /\ policy.suspends
        /\ subscription[s].graceEnds = None \/ GraceOver(subscription[s], now)

\* The sweep gets to every subscription past its dates, although runs throw, rows are
\* written meanwhile and activations bring back a period that is over.
OverdueIsSettled == \A s \in Subscriptions : Overdue(s) ~> ~Overdue(s)
=============================================================================
