------------------------------- MODULE Stock --------------------------------
(***************************************************************************)
(* The stock of a tenant (modules/products): a balance per product and     *)
(* business unit, and the ledger of its movements.  Movements, transfers   *)
(* and sales are SERIALIZABLE transactions that lock the balances before   *)
(* they read them; setting a balance by hand turns what it read, outside   *)
(* any transaction, into a movement.  The locks of InnoDB are modelled as  *)
(* they are: a read shares a row, an upsert that finds nothing shares the  *)
(* gap, FOR UPDATE and INSERT exclude, all until the transaction ends.     *)
(***************************************************************************)
EXTENDS Integers, Sequences, FiniteSets, FiniteSetsExt, Functions

CONSTANTS
  Products, Units,  \* the numbers of the products and units of the tenant
  Requests,         \* concurrently running requests (a bound)
  Quantities,       \* quantities asked for (a bound)
  MaxStock,         \* Prisma's Int: 2^31 - 1
  MaxMovements,     \* movements recorded on one balance (a bound)
  None

ASSUME StockAssumption ==
  /\ Products \subseteq Nat /\ IsFiniteSet(Products)
  /\ Units \subseteq Nat /\ IsFiniteSet(Units)
  /\ Quantities \subseteq Nat \ {0}
  /\ MaxStock \in Nat
  /\ None \notin Requests \cup Nat

VARIABLES
  stock,      \* [Rows -> Nat \cup {None}]: committed quantity, or no row
  ledger,     \* [Rows -> Seq(Movement)]: its committed stock_movements
  pc,         \* where each request is
  job,        \* what each request is doing and has read
  shared,     \* [Rows -> SUBSET Requests]: shared locks on a row or its gap
  excl,       \* [Rows -> Requests \cup {None}]: exclusive locks
  seller,     \* [Units -> Requests \cup {None}]: lock product-sale:<tenant>:<unit>
  reset       \* balances upsertStock overwrote (history)

lockVars == <<shared, excl, seller>>
vars == <<stock, ledger, pc, job, lockVars, reset>>

Rows == Products \X Units

Kinds == {"move", "transfer", "sale"}

\* `want` is what a manual setting asked for, `since` the movements it knew of
Movement == [kind : Kinds, previous : Nat, resulting : Nat,
             want : Nat \cup {None}, since : Nat]

Phases == {"idle", "ensure", "insert", "lock", "read", "release", "commit",
           "upsert", "create", "overwrite"}

\* The quantity of row x as a query sees it
Quantity(x) == IF stock[x] = None THEN 0 ELSE stock[x]

\* The signed changes of the balances, the rows to ensure, those still to lock
\* and the balances read under the locks
Job == [kind : Kinds, delta : [Rows -> Int], todo : Seq(Rows), left : SUBSET Rows,
        read : [Rows -> Int], want : Nat \cup {None}, since : Nat]

\* The balances a change is about: no quantity is 0
Touched(delta) == {x \in Rows : delta[x] # 0}

\* Rows are locked in the order of the unique index (product, unit); those of
\* one request differ in one of the two only.
FirstRow(S) == CHOOSE x \in S : \A y \in S : x[1] + x[2] <= y[1] + y[2]

Nothing == [x \in Rows |-> 0]

NoJob == [kind |-> "move", delta |-> Nothing, todo |-> <<>>, left |-> {},
          read |-> Nothing, want |-> None, since |-> 0]

Init ==
  /\ stock = [x \in Rows |-> None]
  /\ ledger = [x \in Rows |-> <<>>]
  /\ pc = [r \in Requests |-> "idle"]
  /\ job = [r \in Requests |-> NoJob]
  /\ shared = [x \in Rows |-> {}]
  /\ excl = [x \in Rows |-> None]
  /\ seller = [u \in Units |-> None]
  /\ reset = {}

-----------------------------------------------------------------------------
Goto(r, phase) == pc' = [pc EXCEPT ![r] = phase]

\* A transaction that changes the balances by `delta`, some of which may not exist yet
Begin(r, kind, delta, todo) ==
  /\ pc[r] = "idle"
  /\ \A x \in Touched(delta) : Len(ledger[x]) < MaxMovements
  /\ job' = [job EXCEPT ![r] =
       [NoJob EXCEPT !.kind = kind, !.delta = delta, !.todo = todo, !.left = Touched(delta)]]
  /\ Goto(r, IF todo = <<>> THEN "lock" ELSE "ensure")

Unsold(r) == [u \in Units |-> IF seller[u] = r THEN None ELSE seller[u]]

\* Commit or rollback: InnoDB frees the rows, and the named lock is free as well.
\* A sale that lasted too long leaves the lock with its pooled connection: later
\* sales are refused unless they get that connection, where GET_LOCK succeeds
\* again, so that whoever sells next starts from a free lock, if anybody can.
End(r) ==
  /\ Goto(r, "idle")
  /\ job' = [job EXCEPT ![r] = NoJob]
  /\ shared' = [x \in Rows |-> shared[x] \ {r}]
  /\ excl' = [x \in Rows |-> IF excl[x] = r THEN None ELSE excl[x]]
  /\ seller' = Unsold(r)

CanShare(r, x) == excl[x] \in {r, None}

\* (fault) a plain read instead of FOR UPDATE, in a weaker isolation
PlainRead(r, x) == TRUE

CanExclude(r, x) == CanShare(r, x) /\ shared[x] \subseteq {r}

Share(r, x) ==
  /\ CanShare(r, x)
  /\ shared' = [shared EXCEPT ![x] = @ \cup {r}]
  /\ UNCHANGED <<excl, seller>>

Exclude(r, x) ==
  /\ CanExclude(r, x)
  /\ excl' = [excl EXCEPT ![x] = r]
  /\ UNCHANGED <<shared, seller>>

-----------------------------------------------------------------------------
\* Requests

StartMove(r) ==
  /\ \E x \in Rows, q \in Quantities, sign \in {1, -1} :
       Begin(r, "move", [Nothing EXCEPT ![x] = sign * q], <<x>>)
  /\ UNCHANGED <<stock, ledger, lockVars, reset>>

StartTransfer(r) ==
  /\ \E p \in Products, a, b \in Units, q \in Quantities :
       /\ a # b
       /\ Begin(r, "transfer",
                [Nothing EXCEPT ![<<p, a>>] = -q, ![<<p, b>>] = q],
                <<<<p, a>>, <<p, b>>>>)
  /\ UNCHANGED <<stock, ledger, lockVars, reset>>

\* Every product once; the lock of the unit is waited for 5 s, then SALE_BUSY
StartSale(r) ==
  /\ \E u \in Units, items \in (SUBSET Products) \ {{}}, q \in Quantities :
       /\ seller[u] = None
       /\ seller' = [seller EXCEPT ![u] = r]
       /\ Begin(r, "sale", [x \in Rows |-> IF x \in items \X {u} THEN -q ELSE 0], <<>>)
  /\ UNCHANGED <<stock, ledger, shared, excl, reset>>

\* (fault) the difference is taken the wrong way round
Backwards(x, want) == Quantity(x) - want

Difference(x, want) == want - Quantity(x)

\* setStock: the difference to what a plain read saw becomes a movement
StartSet(r) ==
  /\ pc[r] = "idle"
  /\ \E x \in Rows, want \in Quantities \cup {0} :
       /\ want # Quantity(x)
       /\ Len(ledger[x]) < MaxMovements
       /\ job' = [job EXCEPT ![r] =
            [NoJob EXCEPT !.delta = [Nothing EXCEPT ![x] = Difference(x, want)], !.todo = <<x>>,
                          !.left = {x}, !.want = want, !.since = Len(ledger[x])]]
  /\ Goto(r, "ensure")
  /\ UNCHANGED <<stock, ledger, lockVars, reset>>

\* setStock to 0 of a balance that does not exist: upsertStock
StartUpsert(r) ==
  /\ pc[r] = "idle"
  /\ \E x \in Rows :
       /\ stock[x] = None
       /\ job' = [job EXCEPT ![r] = [NoJob EXCEPT !.left = {x}]]
  /\ Goto(r, "upsert")
  /\ UNCHANGED <<stock, ledger, lockVars, reset>>

-----------------------------------------------------------------------------
\* Transactions

EnsureFound(r) ==
  /\ pc[r] = "ensure"
  /\ Share(r, Head(job[r].todo))
  /\ stock[Head(job[r].todo)] # None
  /\ job' = [job EXCEPT ![r].todo = Tail(@)]
  /\ Goto(r, IF Len(job[r].todo) = 1 THEN "lock" ELSE "ensure")
  /\ UNCHANGED <<stock, ledger, reset>>

EnsureMissing(r) ==
  /\ pc[r] = "ensure"
  /\ Share(r, Head(job[r].todo))
  /\ stock[Head(job[r].todo)] = None
  /\ Goto(r, "insert")
  /\ UNCHANGED <<stock, ledger, job, reset>>

\* The row is inserted with quantity 0, seen by others when r commits
InsertRow(r) ==
  /\ pc[r] = "insert"
  /\ Exclude(r, Head(job[r].todo))
  /\ job' = [job EXCEPT ![r].todo = Tail(@)]
  /\ Goto(r, IF Len(job[r].todo) = 1 THEN "lock" ELSE "ensure")
  /\ UNCHANGED <<stock, ledger, reset>>

\* SELECT .. FOR UPDATE, row by row
LockRow(r) ==
  LET x == FirstRow(job[r].left) IN
  /\ pc[r] = "lock"
  /\ Exclude(r, x)
  /\ job' = [job EXCEPT ![r].left = @ \ {x}]
  /\ Goto(r, IF job[r].left = {x} THEN "read" ELSE "lock")
  /\ UNCHANGED <<stock, ledger, reset>>

\* A sale needs the rows to be there; the others have ensured them
Refused(r, read) ==
  \E x \in Touched(job[r].delta) :
    \/ read[x] + job[r].delta[x] \notin 0 .. MaxStock
    \/ job[r].kind = "sale" /\ stock[x] = None

ReadRows(r) ==
  LET rows == Touched(job[r].delta)
      read == [x \in Rows |-> IF x \in rows THEN Quantity(x) ELSE 0]
  IN
  /\ pc[r] = "read"
  /\ \/ /\ Refused(r, read)
        /\ End(r)
     \/ /\ ~Refused(r, read)
        /\ job' = [job EXCEPT ![r].read = read]
        /\ Goto(r, IF job[r].kind = "sale" THEN "release" ELSE "commit")
        /\ UNCHANGED lockVars
  /\ UNCHANGED <<stock, ledger, reset>>

\* The `finally` of a sale frees its named lock before the transaction commits
Release(r) ==
  /\ pc[r] = "release"
  /\ seller' = Unsold(r)
  /\ Goto(r, "commit")
  /\ UNCHANGED <<stock, ledger, job, shared, excl, reset>>

\* (fault) the destination of a transfer is not credited
DebitOnly(r, x) ==
  IF job[r].kind = "transfer" /\ job[r].delta[x] > 0 THEN job[r].read[x]
  ELSE job[r].read[x] + job[r].delta[x]

Balance(r, x) == job[r].read[x] + job[r].delta[x]

\* The movement of row x
MovementOf(r, x) ==
  [kind |-> job[r].kind, previous |-> job[r].read[x], resulting |-> Balance(r, x),
   want |-> job[r].want, since |-> job[r].since]

Commit(r) ==
  LET rows == Touched(job[r].delta) IN
  /\ pc[r] = "commit"
  /\ stock' = [x \in Rows |-> IF x \in rows THEN Balance(r, x) ELSE stock[x]]
  /\ ledger' = [x \in Rows |->
       IF x \in rows THEN Append(ledger[x], MovementOf(r, x)) ELSE ledger[x]]
  /\ End(r)
  /\ UNCHANGED reset

\* A deadlock victim, a lock wait or a transaction that lasts too long
Rollback(r) ==
  /\ pc[r] # "idle"
  /\ End(r)
  /\ UNCHANGED <<stock, ledger, reset>>

-----------------------------------------------------------------------------
\* upsertStock, a transaction of its own whose first read locks nothing

UpsertRead(r) ==
  /\ pc[r] = "upsert"
  /\ \E x \in job[r].left :
       Goto(r, IF stock[x] = None THEN "create" ELSE "overwrite")
  /\ UNCHANGED <<stock, ledger, job, lockVars, reset>>

\* INSERT, refused when the row came into being since it was looked for
UpsertCreate(r) ==
  /\ pc[r] = "create"
  /\ \A x \in job[r].left : CanExclude(r, x)
  /\ stock' = [x \in Rows |->
       IF x \in job[r].left /\ stock[x] = None THEN 0 ELSE stock[x]]
  /\ End(r)
  /\ UNCHANGED <<ledger, reset>>

UpsertOverwrite(r) ==
  /\ pc[r] = "overwrite"
  /\ \A x \in job[r].left : CanExclude(r, x)
  /\ stock' = [x \in Rows |-> IF x \in job[r].left THEN 0 ELSE stock[x]]
  /\ reset' = reset \cup job[r].left
  /\ End(r)
  /\ UNCHANGED ledger

Step(r) ==
  \/ StartMove(r) \/ StartTransfer(r) \/ StartSale(r) \/ StartSet(r)
  \/ EnsureFound(r) \/ EnsureMissing(r) \/ InsertRow(r)
  \/ LockRow(r) \/ ReadRows(r) \/ Release(r) \/ Commit(r) \/ Rollback(r)
  \/ StartUpsert(r) \/ UpsertRead(r) \/ UpsertCreate(r) \/ UpsertOverwrite(r)

Next == \E r \in Requests : Step(r)

Spec == Init /\ [][Next]_vars

-----------------------------------------------------------------------------
TypeOK ==
  /\ stock \in [Rows -> 0 .. MaxStock \cup {None}]
  /\ ledger \in [Rows -> Seq(Movement)]
  /\ pc \in [Requests -> Phases]
  /\ job \in [Requests -> Job]
  /\ shared \in [Rows -> SUBSET Requests]
  /\ excl \in [Rows -> Requests \cup {None}]
  /\ seller \in [Units -> Requests \cup {None}]
  /\ reset \in SUBSET Rows

(***************************************************************************)
(* The ledger explains every balance that upsertStock did not overwrite:   *)
(* each movement starts at the quantity the one before it left, and the    *)
(* balance is what the last one left.  No concurrent movement, transfer or *)
(* sale is lost (docs/STATUS.md:5).                                        *)
(***************************************************************************)
Explained(x) ==
  /\ \A i \in DOMAIN ledger[x] :
       ledger[x][i].previous = IF i = 1 THEN 0 ELSE ledger[x][i - 1].resulting
  /\ Quantity(x) = IF ledger[x] = <<>> THEN 0 ELSE ledger[x][Len(ledger[x])].resulting

LedgerExplainsStock == \A x \in Rows \ reset : Explained(x)

(***************************************************************************)
(* Setting a balance by hand misses the quantity asked for only if another *)
(* movement came between the plain read of setStock and its own movement.  *)
(***************************************************************************)
SettingLands ==
  \A x \in Rows \ reset : \A i \in DOMAIN ledger[x] :
    LET m == ledger[x][i] IN
    m.want # None /\ m.resulting # m.want => m.since < i - 1

\* What movement m brought to the product over all units, row x by its movements
Added(m) == IF m.kind = "transfer" THEN 0 ELSE m.resulting - m.previous

Received(x) == SumFunction([i \in DOMAIN ledger[x] |-> Added(ledger[x][i])])

(***************************************************************************)
(* A transfer neither makes nor loses units of a product: their number     *)
(* over all units of the tenant is what the other movements add up to.     *)
(***************************************************************************)
TransfersConserve ==
  \A p \in Products : ({p} \X Units) \cap reset = {} =>
    MapThenSumSet(Quantity, {p} \X Units) = MapThenSumSet(Received, {p} \X Units)
=============================================================================
