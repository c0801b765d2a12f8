# TLA+ models of plataforma-servicos

The repository is a multi-tenant platform for businesses that sell services by
appointment: a Fastify API over MySQL through Prisma (`src/apps/api/src`), a React
application (`src/apps/web`) and the zod contracts both share
(`src/packages/shared`). This directory holds TLA+ models of the API's core logic,
TLC configurations that check them on small instances, and TLAPS proofs that hold
for every instance.

Contents: [1 The system](#1-the-system) · [2 Models and code](#2-models-and-code) ·
[3 Runs](#3-runs) · [4 Bounds](#4-bounds) · [5 Fairness](#5-fairness) ·
[6 Proofs](#6-proofs) · [7 Findings](#7-findings) · [8 Not modelled](#8-not-modelled) ·
[9 What is left](#9-what-is-left)

## 1 The system

Every instance of the API handles requests concurrently: `async` handlers of one Node
process interleave at each `await`, and several instances share the database. All
state that matters is in MySQL. An instance has a pool of ten connections and one
worker timer, which every minute runs, one after the other, reminders, automations,
recovery campaigns, loyalty expiry, the commercial sweep and the notification queue.
Three idioms protect the data, and most of what is hard is where they meet or are
missing:

- *interactive transactions* of Prisma at isolation SERIALIZABLE, closed after 5 s
  (or 15 s where the code says so) even while their handler is still running;
- *named locks* of MySQL (`GET_LOCK`), which belong to a pooled connection, are
  re-entrant on it and survive the transaction that took them;
- *read, decide, write*: a plain read, a decision in JavaScript, and a later update by
  id. Unique indexes catch some of the races, others reach the data.

### Components

| Component | State it keeps | Operations | What makes it correct | Modelled by |
|---|---|---|---|---|
| Appointments | `appointments` rows: professional, slot, status, protocol | create, reschedule, status, check-in | no double booking; unique protocol; ordered life cycle; ended rows stay ended | `Appointments`, `Calendar` |
| Availability and calendar | none of its own | slots of a day, `assertSlot` | a slot is offered if, and only if, it can be given | `Availability` |
| Schedule, absences, hours of units | `professional_work_schedules`, `professional_unavailabilities`, `business_unit_operating_hours`, `business_unit_date_overrides` | create, copy, update, activate, remove, replace | active rows do not overlap | `Availability` |
| Waiting list | `appointment_waitlists`, opportunities | create, cancel, match after a cancellation, expire, convert | one customer per opportunity, one sale per opportunity | `Waitlist` |
| Stock | `product_unit_stocks`, `stock_movements` | move, transfer, sell, set | the ledger explains the balance, no movement is lost | `Stock` |
| Notifications | `notification_logs` | enqueue, claim, attempt, record, retry | one sender and one delivery per row, retries within the policy, everything settles | `Notifications` |
| Payments | `payments` | create, cancel | paid within the price; cash, commission and credit come and go with the payment | `Payments` |
| Cash register | `cash_registers`, `cash_movements` | open, close, move by hand, record and reverse a payment | one open register per unit; the closing balance is the sum | `CashRegister` |
| Commission | `professional_commissions` | record, cancel | active exactly for paid payments | `Payments` (in part) |
| Coupons and loyalty | redemptions, `loyalty_ledger_entries` | validate, redeem, earn, reverse, adjust, expire | no more uses than allowed; no negative balance; what is canceled is taken back | `Discounts` |
| Payment gateway | charges, events | charge, refresh, cancel, webhook, confirm, reconcile | a paid charge makes one payment; canceled is final | `Gateway`, `Settlement` |
| Commercial lifecycle | `tenant_subscriptions`, the policy | create, transition, extend, sweep | one subscription in force; only what is due is demoted, and all of it | `Commercial` (in part) |
| Staff authentication, memberships | users, sessions, reset tokens, invitations, memberships | sign up, log in, log out, recover, invite, accept, edit | session limit; sessions follow the password; an invitation tells what became of it | `Accounts` |
| Customer authentication | `customer_sessions` | register, log in, log out | a session is the customer's | no |
| Closing, reports, receipts | `financial_closings`, `receipts` | snapshot, cancel, read | closings do not overlap | no |
| Reminders, automations, recovery | executions, campaigns | decide what to enqueue | everything is sent once | no (the queue behind them is) |
| Registration data | customers, professionals, services, units, tenants, domains, integrations | single-row edits | unique keys | no |
| Web application, contracts, bootstrap | none of their own | | | no |

### Interactions

- Booking: `AppointmentService` asks the availability computation for the slot, then its
  repository for locks and the row. The computation reads the appointments, and what
  professionals and units have entered. Public booking and the conversion of the waiting
  list call the same `create`.
- A cancellation by `AppointmentService.status` commits, and then calls
  `matchCancellation` of the waiting list: two transactions, one after the other.
- `PaymentService.create` and `cancel` call the cash register, the commission and the
  loyalty service one after the other, each in statements of its own. A paid charge of
  the gateway becomes a payment too.
- A sale of products is one transaction over balances, ledger and cash movement.
- Reminders, automations and campaigns only write rows of `notification_logs`; the
  worker of any instance, or a manual retry, delivers them.
- The tick of the worker that delivers them also expires loyalty units and sweeps the
  subscriptions; what an earlier step throws ends the tick.

### What is hard

- Locks released before the commit; transactions closed under a running handler;
  locks that stay with the pool (appointments, waiting list).
- Rows written from stale copies: status changes, cancellations, settings of stock,
  expiry on read (appointments, waiting list, stock, payments).
- Several statements without a transaction, any of which may fail (payments, cash
  register, waiting list, gateway, enqueueing of webhooks).
- A provider outside that answers late, twice or out of order (gateway).
- Balances and counts read before the row that changes them is written (loyalty,
  coupons, schedule and absences).
- Computations at boundaries: slots, breaks, windows, notice (availability).
- Runs of a worker that meet the administrators' edits, or throw (commercial sweep).
- Claims that compare less than what was read (notifications).
- The other hazards, each at its line with the properties that cover it, are the list
  `hazards` in `PROJECT.json`.

## 2 Models and code

A step of a model is what the database does for one statement, or for statements
nothing can come between; what a handler keeps in local variables from one statement
to the next is in `job`, `visit`, `request`, `edit` or the like, and `pc` (or a phase in
the same record) says which statement comes next. Variables marked *(history)* are written by the models only, to say what the
exceptions of a property are. Operators marked *(fault)* are plausible bugs; no run and
no proof uses them, and putting one in the place of the definition after it makes a run
fail. The table `map` of `PROJECT.json` gives the lines behind every definition.

### Appointments

`AppointmentRules` holds the rules without state: statuses, transitions, the overlap
test of every conflict query. `Calendar` is the **abstract specification**: rows are
booked, moved, given a status or checked in, each atomically. `Book` and `Move` need a
free slot; `SetStatus` may write any status the code's transitions allow from *some*
status the row has had, which is all that is left of a decision taken on a stale copy.

`Appointments` has the handlers as they are. Booking: the unlocked pre-check (`assertSlot`
and `repo.conflict` are the same overlap test, merged in `PreCheck`), the transaction,
`GET_LOCK` on the agenda, the locking conflict query, `GET_LOCK` on the protocol
counter, count and insert, both `RELEASE_LOCK`s **before** the commit, the commit.
Rescheduling is the same without the counter. Status and check-in read, decide and
update by id, without lock. `Requests` are pooled connections with a request each:
named locks belong to them and are re-entrant, so a lock that a closed transaction
leaves behind (`orphans`) is taken again by the next request on the same connection
and blocks all others. SERIALIZABLE is modelled by what InnoDB does with it: a locking
read waits for uncommitted rows in its range (`MustWait`), a write waits for the ranges
others have read (`WriteBlocked`). `Fail` is any failing statement or a deadlock victim,
`TransactionTimeout` the 5 s limit, `Disconnect` the end of a connection. Prisma's
limit equals the wait of `GET_LOCK`, which is how a transaction may be closed while it
waits.

The pre-check stands for what `Availability` computes; here it only matters that it is
made outside the transaction. Left out, because they can only refuse a request earlier:
roles, the commercial status of the tenant, catalogue rows, and the first reads of `statusForProfessional` and
`cancelForCustomer`, which filter what `status` then reads again. History, audit and
notes are written and never read by these handlers.

### Waiting list

`Waitlist` extends `Calendar`: its appointments are booked, moved and canceled by
Calendar's actions, which `Appointments` implements, so the two fit together without
composing their locks. A canceled appointment becomes an opportunity (one row each,
`update: {}` keeps its first place), the oldest suitable entry claims it
(`claimed_at`, a conditional update), `convert` takes its named lock, reads the entry
again, books, and marks it CONVERTED in another statement. `list` and `get` expire
overdue entries; `cancel` writes by id. A failure between the statements
(`SaveFails`, `Crash`; the five retries of P2034 and the failure behind them are one of
these), the 15 s limit (`LockTimeout`) and the connection the lock then stays with
(`kept`) are modelled. The filter of the candidates by date, time, service and
professional is the constant `Suits`; refusals of `create` only refuse. An opportunity
whose holder gives up or expires is never offered again: the code has no second
matching, and the model has none.

### Stock

`Stock` has balances per product and unit, their ledgers, and the three SERIALIZABLE
transactions (movement, transfer, sale) with InnoDB's locks one by one: the upsert of
`ensureStock` shares a row or its gap, `FOR UPDATE` and inserts exclude. A sale holds a named
lock of its unit, which its `finally` frees before the commit (`Release`). One that lasted
too long leaves it with its pooled connection: later sales are refused unless they get that
connection, where `GET_LOCK` succeeds again, so the model lets whoever sells next begin from a
free lock. `setStock` reads outside any transaction and turns the difference into a movement, or, where no
balance exists and 0 is asked for, goes to `upsertStock`. `Rollback` may end any
transaction: deadlock victims, lock waits and the time limit. Cash, prices and
commissions of a sale are left out; `MaxStock` is Prisma's 32-bit `Int`.

### Notifications

`Notifications` has the rows of the queue, the workers of several instances and manual
retries. A tick reads a batch, then for each candidate claims it (`UPDATE .. WHERE
status = what was read`), delivers, and records by id. Deliveries may fail, be skipped,
or be taken for failures (`MistakeDelivery`); an execution may die at any point of an
attempt (`Die`). The clock is abstracted to `rested`: the backoff has passed since the
last update. The key of a row is given.

### Payments and the cash register

`CashRegister` is the registers of one unit: `open`, `close` and movements, each a read
and a later write. It is also what payments are held against, the **abstract
specification** `CashSpec`. `Payments` extends it with the payments of one appointment:
`create` sums what is paid, inserts, and then calls cash register, commission and
loyalty one after the other; `cancel` undoes them in the same order. `Fail` may end a
request anywhere behind its first read, with what it has written left in place.
`CashImplemented` says that to the registers a payment is one more movement.

The opening balance counts as 0. Discounts only lower the limit: `Fits` takes any part
of the price as due. Method, appointment status and kind only refuse; whether a payment
earns loyalty credit is a choice of `RecordCredit`. A reversal of credit is limited to
the balance the customer has: `SPENT` is a credit left standing because nothing was
left to take back. A query and the write behind it are one step where nothing but
another cancellation of the same payment could come between (`CancelCommission`,
`ReverseCredit`). Audit rows are left out; a failing audit write is a `Fail`.
`closing_balance_cents` is unsigned, so `Close` needs a balance of at least 0.

### Payment gateway

`Settlement` is the **abstract specification** of the money: somebody vouches for a
charge, payments are made from charges that are vouched for, and a charge is linked, for
good, only after a payment was made from it (`backed`). `Gateway` has the requests: creation under an
idempotency key (look up, ask the provider, insert), refresh, cancellation (the provider
first), webhook (a log entry behind a unique key, then the write), confirmation by hand,
and the reconciliation all of them end in: find or add the payment method, sum what is
paid, make the payment, link it. Each is a step of its own, and `Fail` may end a request
between any two. What the provider does (`world`, `sent`) is external: charges are paid
or canceled there, webhooks come twice, late and in any order. `pix-local` cannot be
asked and sends none.

Statuses FAILED, REFUNDED and EXPIRED, which nothing here waits for, are PENDING or
left out; signatures, credentials and the PIX payload are data. `Payments` makes the
payment; here it is one step that succeeds or does not.

### Coupons and loyalty

`Discounts` is one customer's ledger of one kind of units and one coupon. The ledger only
grows: `earned` and `closing` are the entries of a payment and the debits that close
them, `balance` is the sum. A payment earns behind its own commit and is taken back
behind its cancellation (`void`, `list`, `sweep`, `close`: entry by entry, limited to
the balance); the tick of the worker closes what has expired in the same way. A
redemption reads balance and appointment, then writes; a use of the coupon counts, then
writes. `stale` are the requests that decided on what another has changed since, and the
exceptions `overdrawn`, `crowded` and `short` follow from it. Percentages and rates are
abstracted to `Value` and `CentsPerUnit`.

### Commercial lifecycle

`Commercial` has the subscriptions of establishments and their unique `effectiveKey`.
Administrators create, activate, suspend, cancel and extend; the sweep lists what is
past its trial, its period or its grace, and writes the rows one by one by id.
`SweepFails` ends a run between any two statements. Days are numbers; the policy is one
row. Plans, benefits and prices are inputs.

### Accounts

`Accounts` is everything one e-mail address can be part of: the user, the sessions in
the order they were opened, reset tokens, invitations and memberships. The SERIALIZABLE
transactions (login session, recovery, reset, sign-up, invitation, acceptance) are one
step each; what a request read before them stays in `request`. Two transactions run at
default isolation and read without a lock, so that their write is a second step:
`revokeInvitation` and `updateMembership`. `restored`, `crossed`, `late` and `mixed`
mark the lost updates these allow. An edit of a membership that asks for neither a role nor a
status (its units only) writes the role it read all the same, and so it is one of them. Wrong
passwords, refusals and audit rows change nothing. Memberships are ACTIVE, SUSPENDED or
INACTIVE: the enum has INVITED too, and acceptance a branch for it
(`prisma-identity.repository.ts:659`), but nothing in the code creates such a row.

### Availability

`Availability` has the rows a professional's day is computed from, the computation, and
the edits of the rows. `GridSlots` is the grid from the start of each of the `Stretches` (period
clipped to a window of the unit: its exceptional day or holiday, else its week, else
all day), `Blocked` the absences the query finds and moves, `Reserved` the appointments,
`Available` the answer. A question is asked at a unit or at none and may leave out the
appointment that is being moved. `BookOffered` takes what is offered, `FitIn` anything free.
Edits of the schedule and of the absences read the table, compare, and write
afterwards: `Begin` to `Save` or `Insert`, row by row, with `Fail` in between. A creation
enters several periods, each with its copies on other days (`Expanded`, any set of periods),
and `Refused` compares them with the active rows and with one another.
`setStatus` compares the row as it was read, which is not active: the code compares
nothing then, and neither does `StartActivate`. `unchecked` *(history)* are the rows
written against rows their edit had not seen.

The properties do not repeat the grid. `OfferedIsFree` and `RoomIsOffered` say of the rows,
minute by minute, what can be given, and hold the answers against it from both sides.
Time is in the minutes of one zone whose clocks do not change. An absence that repeats may
have no end: the contract refuses a `recurrenceEndsAt` that is `null` and lets a missing one
through, which is stored as NULL (`until` is `None`). `LastsUntil` then does what the query
does, so that it is found for good where a unit is asked, and only on its first dates where
none is: the third exception of `OfferedIsFree`.

### Proof and model-checking modules

`AppointmentsProofs`, `AgendaProofs` (`Calendar`, `Waitlist` and `Availability`),
`StockProofs`, `PaymentsProofs` (with `CashRegister`), `GatewayProofs`, `DiscountsProofs`
and `PlatformProofs` (`Notifications`, `Accounts` and `Commercial`) hold the theorems of
section 6, `Sums` the facts about finite sums they cite. Components that are proved about
in one module share nothing but the constant `None` of `Database`, NULL; their
specifications have names of their own (`ListSpec`, `AgendaSpec`, `QueueSpec`,
`AccountsSpec`, `CommercialSpec`). The modules `MC...` define constants, symmetry sets and
constraints for TLC; `Notifications` needs none.

## 3 Runs

| Run | Configuration | Properties | Shows |
|---|---|---|---|
| `appointments_agenda` | `AppointmentsAgenda.cfg` | `CheckedSlotStaysFree`, `OverlapOnlyByRevival`, `ImplementsCalendar` | the lock protocol books and moves atomically, although the locks go before the commit; two active appointments overlap only if a stale status write brought one back; with the theorems on `Calendar`, protocols are unique and COMPLETED follows IN_PROGRESS follows CONFIRMED |
| `appointments_timeouts` | `AppointmentsTimeouts.cfg` | `NamedLockReleased` | a named lock is always given back, except by a transaction closed before its `finally` |
| `waitlist` | `Waitlist.cfg` | `OfferedOnce`, `SoldOnce` | an opportunity has one entry for good, across revivals, stale cancellations and expiry; two sales of it take a conversion that was cut short or lost its lock |
| `waitlist_double_sale` | `WaitlistDoubleSale.cfg` | `NoDoubleConversion` | *violated*: finding 1 |
| `stock_ledger` | `StockLedger.cfg` | `LedgerExplainsStock`, `SettingLands`, `TransfersConserve` | no movement is lost, transfers conserve, a setting misses only what came in between |
| `notification_queue` | `NotificationQueue.cfg` | `OneSender`, `DeliveredOnce`, `ProcessingIsAttended`, `RetryPolicy`, `Settles` | the conditional claim keeps one sender a row; second deliveries have two causes only; what is enqueued settles unless its execution dies |
| `payments` | `Payments.cfg` | `PaidWithinPrice`, `PaidIsComplete`, `CancelUndoes`, `ReversedOnce`, `OneOpenRegister`, `ClosingIsTheSum`, `CashImplemented` | exactly which crossings and failures let payments exceed the price, miss their commission, survive a cancellation, be reversed twice, or get past a closing; nothing else does |
| `gateway` | `Gateway.cfg` | `PaidIsRecorded`, `PaidOnce`, `CanceledIsOver`, `ImplementsSettlement` | what is PAID gets its payment, once, and what is canceled stays unpaid, unless a reconciliation fails half-way or two overlap |
| `discounts` | `Discounts.cfg` | `CanceledIsTakenBack`, `NegativeOnlyByRace`, `CouponWithinLimit` | units of canceled payments are taken back; balance and limit are passed only by a request that decided before another wrote |
| `commercial` | `Commercial.cfg` | `OneInForce`, `SweptWhenDue`, `OverdueIsSettled` | the sweep demotes and suspends only what is due, or changed while it ran, and gets to all that is due |
| `accounts` | `Accounts.cfg` | `PasswordIsTheChosen`, `SessionsFollowThePassword`, `SessionsWithinLimit`, `InvitationTellsTheTruth`, `RoleIsTheAssigned`, `InvitedStaysInvited` | sessions keep to their limit and to the password, invitations and roles to what was decided, up to three lost updates; an owner the platform provisions can never get in |
| `availability` | `Availability.cfg` | `OfferedIsFree`, `RoomIsOffered`, `ApartUnlessUnseen` | what is offered can be given and what can be given is offered, up to the ways absences that repeat and the notice are computed; active rows overlap only by an activation or by edits that crossed |

Many of the safety properties have the form "unless X happened": the code lacks the lock or
the transaction that would make them hold always, and X is the shortest list of
circumstances under which TLC and the proofs find them to fail. The exceptions are
history variables that the models set where the circumstance occurs, never where the
property would break.

Each property has a mutant in `PROJECT.json`: a fault in one definition of the model
under which TLC reports the property violated.

## 4 Bounds

All bounds are constants of the modules, definitions marked *(bound)*, or constraints
marked so in the MC modules.

- *Appointments*: two requests, two rows, two professionals with two overlapping slots
  (agenda), or one professional and one slot (timeouts). A race has two sides and a
  double booking two rows. The agenda run lets an appointment be confirmed, started and
  completed, the timeouts run lets it be confirmed and marked NO_SHOW: COMPLETED and
  CANCELED are treated alike everywhere but in the table of transitions, NO_SHOW ends a
  row that may still be moved.
- *Waiting list*: two requests, two entries and three rows; `TwoRowsOrOneEntry` keeps
  apart the competition of two entries (two rows) and the repeated conversion of one
  (three rows: one released, two sold). `Entries` are numbers because the order of their
  creation decides who is offered first, so they are not permuted.
- *Stock*: one product in two units, quantities of 1, balances up to 2, two movements a
  balance, two requests. Transfers need the two units; two movements are enough for one
  to be computed from a stale balance. `MaxMovements` bounds the ledger.
- *Notifications*: two rows, one a batch, two workers, a manual retry and two attempts.
  Each retry is one request; `MistakeDelivery` and `Die` occur once a row. Rows are in
  the order of `created_at` and not permuted.
- *Payments*: two payments of the whole price, so that the second is always one too
  many; two registers; two requests, one of which at a time may be the desk's
  (`MaxDesk`); one request cut short (`MaxBroken`); cash is moved by hand beside one
  payment only (`FewByHand`). `MaxBalance` is never reached.
- *Gateway*: a charge of `pix-local` and one of a provider whose webhooks tell the
  status, of which only one at a time has company (`OneThingMore`): a second charge, a
  webhook, a payment at the desk, a provider switched off. Two reconciliations at most
  go wrong for good (`LittleTrouble`). The price is two charges.
- *Discounts*: two payments of two units, two redemptions of one or two, one coupon of
  one or two uses, two appointments, two requests, three of these things at a time
  (`ThreeThings`): two debits that cross need two units and two requests.
- *Commercial*: one establishment, two subscriptions (the second is what the key is
  for), days 0 to 2, a trial and a grace of a day, a period of two, one extension under
  way, one worker (the flag of an instance keeps its own runs apart), one run that throws.
- *Accounts*: one address, two passwords, one reset token, one establishment, two
  invitations, two requests, two sessions. The limit is reached by two logins and passed
  by a third.
- *Availability*: days of four minutes in weeks of two days, three days, so that a weekly
  absence comes back once and has a day in between; two periods and two absences, one
  unit, one appointment, one minute of notice, services of one and two minutes on a grid
  of two; three rows, windows, appointments or days at a time (`MaxThings`), so that a period, an
  absence and one thing more (a second row, an appointment, an opening, a special day, the
  clock) meet; windows and openings one at a time (`MaxWindows`), two new periods in one
  request (`MaxPeriods`), which are enough to overlap each other. An absence is once, weekly
  for a week, for the three days or without an end, or a night, once or weekly (`ManySpans`).
  `EditsFirst` orders what does not depend on its order: the rows are edited before the clock,
  the hours and the appointments move, since no edit reads these and a day's offers depend
  only on the rows that are written, and nothing moves where no period is, since nothing is
  offered there. Comparisons read one table, and neither units nor repetitions: so edits
  concerning three rows have rows of no unit, and edits that write two rows are of one table,
  its absences not weekly.
- Symmetry is used where no definition tells the members of a set apart, and never in a
  run with a liveness property.
- `CHECK_DEADLOCK FALSE` everywhere: rows may all have ended, and nobody need ask.

## 5 Fairness

- `Appointments!FairSpec`: weak fairness of `Advance(r)`, the next statement of a
  request that has started. Node runs every handler whose awaited statement answered,
  and MySQL answers: `GET_LOCK` has a time limit, and so has a lock wait. Nothing
  makes a client send a request (`Arrive`), and no failure or timeout has to occur.
- `Notifications!QueueSpec`: weak fairness of `Step` (an execution that has begun goes on),
  of `Select` (the timer of an instance fires every minute) and of `PassBackoff` (time
  passes). The timer's fairness assumes that the steps of a tick before the queue
  (reminders, automations, recovery, loyalty, sweep) succeed again and again: where one
  of them throws, the tick ends before the queue. No enqueueing, retry or death is fair.
- `Commercial!CommercialSpec`: weak fairness of `SweepStep(w)`: the timer starts the sweep again, and
  a run goes on to its end unless it throws. As many runs may throw as `MaxFailures`
  allows: a sweep that throws for ever settles nothing. Days need not pass.
- The other runs check safety and need none.

## 6 Proofs

All theorems hold for every value of the constants that satisfies the named
assumptions of the modules, which TLC evaluates in every run: statuses, ids and `None`
are told apart, sets that are counted or added up are finite (the payments of an
appointment, products and units), numbers are natural, amounts come with their
reversals; for `Availability`, hours end after they start and within the day, absences end after
they start, only one that repeats may have an end of its repetition, which is not before its
start (what the contracts refuse otherwise), and rows of the two tables are different. What a
module leaves out (section 2: one time zone, data, what the providers may answer) holds for its
theorems as well: they are about the models. Each proof follows the same plan: an inductive invariant that holds initially and is kept by
every action (one step per action, one leaf per conjunct it can disturb), and from it
the properties, which TLC had found to hold in the runs, by `PTL`.

| Module | Theorems | The inductive invariant, and why it is needed |
|---|---|---|
| `AppointmentsProofs` | `AppointmentsTypeOK`, `CheckedSlot` (`CheckedSlotStaysFree`), `Refinement` (`ImplementsCalendar`), and, because every step is one of `Calendar`, `NoDoubleBooking` (`OverlapOnlyByRevival`), `ProtocolIsUnique`, `LifecycleIsOrdered` | `IInv`: what each request has read is consistent with its phase (`JobInv`); one insertion is uncommitted at a time and its protocol is the row count (`InsertInv`, `CountInv`); a transaction that moves a row holds it (`MoveInv`); two transactions that have checked conflicting slots have not both written (`Apart`); a checked slot stays free. `Apart` is the core: the named lock is gone before the commit, and only InnoDB's range locks keep the second transaction out |
| `AgendaProofs`, waiting list | `WaitlistTypeOK`, `OneEntryPerOpportunity`, `HeldOpportunities`, `OneSalePerOpportunity`, `WaitlistUsesCalendar`; `CalendarOverlap`, `CalendarLifecycle`, `CalendarProtocol` of `Calendar`, and so `WaitlistKeepsTheCalendar` | `RevivalInv`: a row's status is among those it has had, so an active row that overlaps was brought back. `OfferInv`: who holds an opportunity claimed it; `SaleInv`: the lock, the re-read and the first sale tie each conversion to an entry that is still matched, unless the opportunity is `broken` |
| `AgendaProofs`, availability | `AvailabilityTyped`, `RowsAreApart` (`ApartUnlessUnseen`), `OffersAreFree` (`OfferedIsFree`), `FreeIsOffered` (`RoomIsOffered`) | `Compared`: what an edit has read it has compared, the new active periods of one edit are apart, and rows written against all others are apart. The two properties of the answers are theorems about the computation in every well-typed state; their core is the arithmetic of the grid: the first multiple of the interval in a room long enough for a service and a gap is in the grid, fits, and is neither blocked nor reserved, and an occurrence that repeats keeps its time of the day |
| `StockProofs` | `StockTypeOK`, `LedgerIsComplete`, `SettingsLand`, `TransfersAreEven` (`TransfersConserve`) | `StockInv`: a request owns the rows it has locked, nobody else writes them until it ends, and so what it read is what it commits against. `ConserveInv`: the changes a transfer carries add up to nothing over the units of every product, and balances add up to what the movements brought; each commit adds the same to both sums |
| `PaymentsProofs` | `OneRegisterIsOpen`, `ClosingStaysTheSum` of `CashRegister`; `PaymentsTypeOK`, `PaidStaysComplete`, `CancelUndoesAll`, `CashLeavesOnce`, `PriceIsKept` (`PaidWithinPrice`), `PaymentsAreMovements` (`CashImplemented`), `RegistersWithPayments` | `CashInv`: an opening under way sees nothing open, and nothing moves between the sum and the close, unless they overlapped. `PaymentsInv`: the phase of a request says how far its payment is (`StageInv`), a payment is registered by one request (`AloneInv`), and what a cancellation has still to undo, some request is on its way to undo (`UndoInv`). `PriceInv`: without a crowd one request at most is about to create a payment, and it fits beside those that are paid |
| `GatewayProofs` | `GatewayTypeOK`, `PaidChargesAreRecorded`, `ChargesArePaidOnce`, `CanceledChargesAreOver`, `GatewaySettles` (`ImplementsSettlement`) | `CanceledInv`: who was told that a charge is canceled was told the truth, in answers and in webhooks still on their way; `PaidOnceInv`: a charge no two requests reconciled is reconciled by one at a time, and by none once linked; `VouchedInv`: only charges somebody vouched for are reconciled |
| `DiscountsProofs` | `DiscountsTypeOK`, `OverdraftsAreRaces`, `CanceledUnitsAreTakenBack`, `CouponsStayWithinLimits` | `FundedInv`: a debit that is not stale is covered until it is written; `CountedInv`: a use that is not stale still fits; `ClosedInv`: entries are closed in full or known to be short, and a canceled payment still open is in somebody's hands (`WorksInv`) |
| `PlatformProofs`, queue | `QueueTyped`, `OneSenderAtATime`, `NoSecondDelivery`, `NoneAbandoned`, `RetriesKeepThePolicy` | `QueueInv`: per row at most one attempt, which the row's status shows; a delivered row is SENT or about to be; a stale candidate has at most the attempts of its row |
| `PlatformProofs`, accounts | `AccountsTyped`, `PasswordStaysChosen`, `ResetEndsSessions`, `SessionsAreLimited`, `InvitationsTellTheTruth`, `RolesAreAssigned`, `InvitedNeverGetsIn` (`InvitedStaysInvited`, an action property) | `SignInInv`: only an active user has a password, sessions, live tokens or a login under way, and a login carries the password it verified; `ItemInv`: rows a request found are still there. The five promises are inductive beside these; that an invited owner is stuck follows from `SignInInv` alone |
| `PlatformProofs`, subscriptions | `CommercialTyped`, `OneSubscriptionInForce` (`OneInForce`), `SweepIsDue` (`SweptWhenDue`, an action property) | `OneKey` and `KeyFollowsStatus`: an establishment has one key and every row in force has it, but for those the sweep wrote over a change; `RunInv`: what a run has listed was due when it began, and what is due stays due while the row is the same |

`Sums` says what `MapThenSumSet` of the community modules computes, which is defined by a
recursive function over subsets and an unspecified order: that the function exists and is
unique, that any element adds its value to the sum of the others, that the sum depends on
the summed values only, and that sums add up. An induction over the finite set would need
a theorem with an operator as parameter; instead each fact is proved from a smallest
subset that violates it, which exists because strict inclusion is well-founded on finite
sets (`LeastSubset`, from `FiniteSetTheorems`).

`Appointments` refines `Calendar` with the identity on `appt` and `seen`: the commit of a
transaction is the abstract `Book` or `Move`, the status write is `SetStatus`, every
other step stutters. `Payments` refines `CashRegister` with the identity on the cash
variables. `Gateway` refines `Settlement` with the identity on `vouched`, `made` and
`linked`; `backed`, the charges a payment was ever made from, is mapped to those that are
linked, on their way to the link, or whose link failed (`Backed`).

What the theorems on types, `LifecycleOrder`, `UniqueProtocol` and `HeldIsClaimed` state is
not repeated by the runs: it holds for every instance.

Every invariant and every action property of the runs that pass is a theorem. Only
model-checked:

- liveness (`NamedLockReleased`, `Settles`, `OverdueIsSettled`): the prover has no
  ENABLED and no fairness rules;
- that the violated property is violated.

## 7 Findings

1. **One vacancy is sold twice** (run `waitlist_double_sale`). `convert` books and then
   marks the entry; if it dies in between and the booking is moved, a retry books again.
   `docs/STATUS.md:218` says "sem duas conversões da mesma vaga".

What the models show besides, as an exception of a property that holds otherwise:

- **An ended appointment comes back** (`OverlapOnlyByRevival`). `status` decides on a copy
  and writes by id (`appointment.service.ts:326`): a request that read PENDING writes
  CONFIRMED over another's CANCELED, which `docs/STATUS.md:86` excludes, and the slot may
  be taken by then: the one way to a double booking.
- **A balance changes without history** (`LedgerExplainsStock`). `setStock(0)` without a
  balance upserts; an entry that creates the balance meanwhile is overwritten with 0.
  `docs/STATUS.md:5` says "evitando alterações sem histórico".
- **A retry without backoff** (`RetryPolicy`). The claim compares the status only; a worker
  with a stale FAILED candidate tries again right after another failed, unlike the
  comment of `processPending` (`notification.service.ts:137`).
- **A schedule that overlaps** (`ApartUnlessUnseen`). `setStatus` calls `assertNoOverlap`
  before it activates a period or an absence, but hands it the row as it was read, and
  rows that are not active are not compared (`professional-schedule.service.ts:156`,
  `professional-unavailability.service.ts:149`): no activation is ever refused.
- **A weekly absence is a daily one** (`RoomIsOffered`). `available` moves an absence that
  repeats to the day that is asked, whichever day of the week it is
  (`availability.service.ts:171`); asked at a unit, the query forgets when it ends
  (`availability.repository.ts:91`, the second `OR` of one object); the part after
  midnight of a night stays free on the next morning; and one without an end is forgotten
  after its first dates where no unit is asked (`:90`, NULL compared) (`OfferedIsFree`).
- **The notice is kept by the day** (`OfferedIsFree`). `minimumAdvanceMinutes` moves the first
  day that may be asked, and every slot of that day is offered, those already past
  included (`availability.service.ts:118-126`).
- **An owner nobody can let in** (`InvitedStaysInvited`). The platform provisions the owner
  of an establishment INVITED, without a password, and drops the token of the invitation
  (`platform.service.ts:1806`): login and recovery ask for an ACTIVE user, acceptance for
  a token nobody has.
- **The last password is not the last** (`PasswordIsTheChosen`). A login that refreshes an
  old hash may write the old password over a reset (`auth.service.ts:147`).
- **A membership denied by its invitation** (`InvitationTellsTheTruth`), **a role that comes
  back** (`RoleIsTheAssigned`): two transactions at default isolation that write what
  they read.
- **A subscription in force beside another** (`OneInForce`): the sweep writes PAST_DUE over
  a cancellation, and another was created in between.
- **A loyalty balance below zero, a coupon past its limit** (`NegativeOnlyByRace`,
  `CouponWithinLimit`): read, then written, in no transaction.
- **Two payments of one charge** (`PaidOnce`): two reconciliations that overlap, or one that
  made the payment and failed to link it.

- **Delivered twice** (`DeliveredOnce`, `OneSender`). `docs/STATUS.md:130` says that the claim
  keeps two executions from processing one notification twice. A manual retry claims a row
  that is PROCESSING (`notification.service.ts:104`), and a delivery whose record fails is
  FAILED and sent again (`:224`).
- **Two open registers** (`OneOpenRegister`). `docs/STATUS.md:160`: `open()` "impede abrir um
  segundo caixa simultâneo". It checks and creates in two statements
  (`cash-register.service.ts:81`).
- **A closing balance that is not the sum** (`ClosingIsTheSum`). `docs/STATUS.md:160`: `close()`
  "calcula e grava o saldo final real a partir da soma de todas as movimentações". A movement
  that read OPEN lands behind the sum (`cash-register.service.ts:131`).
- **PAID without a payment** (`PaidIsRecorded`). `docs/STATUS.md:168`: "sempre que uma cobrança ...
  atinge o status PAID, reconcilePaidCharge() materializa um Payment real". A reconciliation
  that fails, at the price or between two statements, leaves the charge PAID without one.

A loyalty balance below zero contradicts `docs/STATUS.md:228` ("Saldo nunca fica negativo por
construção"), a coupon past its limit `docs/STATUS.md:226` ("não excedeu o limite total de
usos"). The exceptions in `PaidWithinPrice`, `PaidIsComplete`, `CancelUndoes` and
`ReversedOnce` are races and failures of the same kind, of which no document speaks.

Seen while reading, and stated by no property:

- a canceled establishment is not read-only: `tenant-context.plugin.ts:65` looks for a
  subscription with its key, which a cancellation clears, and lets a request pass where
  there is none, though `tenant-commercial-status.resolver.ts:93` gives CANCELED no
  `canManageData`;
- `redeem` limits a discount to the price without what is already paid
  (`loyalty.service.ts:390`);
- the follow-up of a completed appointment has the kind of its reminder, and where the
  reminder exists the unique key swallows it (`automation.service.ts:117`);
- a crash between a cancellation and the matching of the waiting list loses the vacancy
  (`appointment.service.ts:331`); nothing promises that it is offered;
- webhooks are enqueued behind the row they tell of, in no transaction
  (`notification.service.ts:83`), and `attempts`, a TINYINT, has no limit under manual
  retries (`notification.service.ts:189`);
- two `ensureStock` of one missing balance may deadlock, which MySQL ends; a closing
  balance below zero does not fit its unsigned column (`cash-register.service.ts:136`);
- the weekday of a date is taken at noon UTC (`availability.service.ts:53`), which is the
  next day in time zones twelve hours and more ahead.

## 8 Not modelled

- *Customer authentication*: sessions as in `Accounts`, without limit, recovery and
  invitations; rows created, found and ended by single statements.
- *The cash side of a product sale*: one movement in the transaction of the sale; the
  transaction is in `Stock`, the register in `CashRegister`.
- *Financial closings, reports, receipts, delinquency*: snapshots and reads. The overlap
  with an active closing is read in one statement and the closing inserted in another
  (`financial-closing.service.ts:80`): two at once may overlap.
- *Reminders, automations, recovery campaigns*: they decide what to enqueue, and the
  unique key of the queue makes a second enqueueing nothing (`Notifications`).
- *Amounts*: commissions, percentages, rounding; the models move amounts, they do not
  compute them.
- *Plans, benefits, registration data, catalogue, tenants, domains, white label,
  integrations, reviews, appointment operations*: single-row edits behind unique keys,
  or reads.
- *Public booking*: resolves a tenant and calls `create`.
- *Shared contracts and web application*: validation without state, and a client.
- *Formatting, audit rows, notes, e-mail and templates*: nothing reads them back.

## 9 What is left

In the order in which it would add most:

1. `Automations`: reminders and follow-ups as producers of the queue's rows, each kind sent
   once and none swallowing another, composed with `Notifications`.
2. A sale over `Stock` and `CashRegister` in one transaction, implementing both.
3. Closings over `Payments` and `CashRegister`.
