---------------------------- MODULE StockProofs -----------------------------
(***************************************************************************)
(* Proofs about Stock for any number of products, units and requests, any  *)
(* quantities and any bound on the balances: the types, the ledger that    *)
(* explains the balances, the settings by hand that land and the transfers *)
(* that neither make nor lose a unit.                                      *)
(***************************************************************************)
EXTENDS Stock, Sums, TLAPS

Working == {"ensure", "insert", "lock", "read", "release", "commit"}

\* Nothing moved x since the setting that r works on read it, or it will miss
Settling(r, x) ==
  /\ job[r].since <= Len(ledger[x])
  /\ x \notin reset /\ Len(ledger[x]) = job[r].since =>
       Quantity(x) + job[r].delta[x] = job[r].want

(***************************************************************************)
(* What a request may rely on: the rows it does not have to lock any more  *)
(* are its own, and what it read of them is still there when it commits.   *)
(***************************************************************************)
RequestInv(r) ==
  /\ pc[r] \in {"ensure", "insert"} => job[r].todo # <<>>
  /\ pc[r] \in Working =>
       \A x \in Touched(job[r].delta) \ job[r].left : excl[x] = r
  /\ pc[r] \in {"read", "release", "commit"} => job[r].left = {}
  /\ pc[r] \in {"release", "commit"} => \A x \in Touched(job[r].delta) :
       /\ job[r].read[x] = Quantity(x)
       /\ job[r].read[x] + job[r].delta[x] \in 0 .. MaxStock
  /\ pc[r] \in Working /\ job[r].want # None =>
       \A x \in Touched(job[r].delta) : Settling(r, x)

\* The movements of x that set the balance by hand did, or came too late
Settled(x) ==
  \A i \in DOMAIN ledger[x] :
    ledger[x][i].want # None /\ ledger[x][i].resulting # ledger[x][i].want =>
      ledger[x][i].since < i - 1

StockInv ==
  /\ TypeOK
  /\ \A r \in Requests : RequestInv(r)
  /\ \A x \in Rows \ reset : Explained(x) /\ Settled(x)

-----------------------------------------------------------------------------
\* The balance of a row is an admissible quantity.
LEMMA QuantityType ==
  ASSUME TypeOK, NEW x \in Rows
  PROVE  Quantity(x) \in 0 .. MaxStock
BY StockAssumption DEF TypeOK, Quantity

\* A job without changes touches nothing.
LEMMA NoJobType ==
  /\ NoJob \in Job
  /\ Touched(NoJob.delta) = {}
BY DEF NoJob, Job, Nothing, Kinds, Touched

\* A request is not disturbed by the steps of others that spare its rows.
LEMMA Undisturbed ==
  ASSUME TypeOK, TypeOK', NEW r \in Requests, RequestInv(r),
         pc'[r] = pc[r], job'[r] = job[r],
         \A x \in Rows : excl[x] = r => excl'[x] = r,
         \A x \in Rows : excl[x] = r => Quantity(x)' = Quantity(x),
         \A x \in Rows : Len(ledger'[x]) >= Len(ledger[x]),
         \A x \in Rows : x \notin reset' /\ Len(ledger'[x]) = Len(ledger[x]) =>
           x \notin reset /\ Quantity(x)' = Quantity(x)
  PROVE  RequestInv(r)'
<1>1. /\ job[r] \in Job
      /\ \A x \in Touched(job[r].delta) : x \in Rows
  BY DEF TypeOK, Touched
<1>2. \A x \in Rows : Len(ledger[x]) \in Nat /\ Len(ledger'[x]) \in Nat
  BY DEF TypeOK
<1>3. pc[r] \in Working /\ job[r].want # None =>
        \A x \in Touched(job[r].delta) : Settling(r, x)'
  <2> SUFFICES ASSUME pc[r] \in Working, job[r].want # None,
                      NEW x \in Touched(job[r].delta)
               PROVE  Settling(r, x)'
    OBVIOUS
  <2>1. x \in Rows /\ Settling(r, x) /\ job[r].since \in Nat
    BY <1>1 DEF RequestInv, Job
  <2>2. CASE Len(ledger'[x]) = Len(ledger[x])
    BY <2>1, <2>2 DEF Settling
  <2>3. CASE Len(ledger'[x]) # Len(ledger[x])
    BY <2>1, <2>3, <1>2 DEF Settling
  <2> QED BY <2>2, <2>3
<1>4. pc[r] \in {"release", "commit"} => \A x \in Touched(job[r].delta) :
        job[r].read[x] = Quantity(x)'
  BY <1>1 DEF RequestInv, Working
<1> QED
  BY <1>1, <1>3, <1>4 DEF RequestInv, Working

\* A step that changes no balance and no ledger keeps what the rows promise.
LEMMA RowsKept ==
  ASSUME StockInv, UNCHANGED <<stock, ledger, reset>>
  PROVE  \A x \in Rows \ reset' : Explained(x)' /\ Settled(x)'
BY DEF StockInv, Explained, Settled, Quantity

-----------------------------------------------------------------------------
\* Committing or rolling back leaves the request and its locks well formed.
LEMMA EndType ==
  ASSUME TypeOK, NEW r \in Requests, End(r)
  PROVE  /\ pc' \in [Requests -> Phases]
         /\ job' \in [Requests -> Job]
         /\ shared' \in [Rows -> SUBSET Requests]
         /\ excl' \in [Rows -> Requests \cup {None}]
         /\ seller' \in [Units -> Requests \cup {None}]
BY NoJobType DEF TypeOK, End, Unsold, Goto, Phases

\* A job that starts is well formed.
LEMMA BeginType ==
  ASSUME TypeOK, NEW r \in Requests, NEW kind \in Kinds, NEW delta \in [Rows -> Int],
         NEW todo \in Seq(Rows), Begin(r, kind, delta, todo)
  PROVE  /\ pc' \in [Requests -> Phases]
         /\ job' \in [Requests -> Job]
<1>1. [NoJob EXCEPT !.kind = kind, !.delta = delta, !.todo = todo,
                    !.left = Touched(delta)] \in Job
  BY NoJobType DEF NoJob, Job, Touched
<1>2. pc' \in [Requests -> Phases]
  BY DEF TypeOK, Begin, Goto, Phases
<1>3. job' \in [Requests -> Job]
  BY <1>1 DEF TypeOK, Begin
<1> QED BY <1>2, <1>3

\* Every step keeps the types.
LEMMA TypeStep ==
  ASSUME StockInv, Next
  PROVE  TypeOK'
<1> USE DEF StockInv
<1>0. PICK r \in Requests : Step(r)
  BY DEF Next
<1>j. job[r] \in Job /\ Nothing \in [Rows -> Int]
  BY DEF TypeOK, Nothing
<1>1. CASE StartMove(r)
  <2>1. PICK x \in Rows, q \in Quantities, sign \in {1, -1} :
          Begin(r, "move", [Nothing EXCEPT ![x] = sign * q], <<x>>)
    BY <1>1 DEF StartMove
  <2>2. [Nothing EXCEPT ![x] = sign * q] \in [Rows -> Int]
    <3>1. sign * q \in Int
      BY StockAssumption
    <3> QED BY <3>1, <1>j
  <2>3. <<x>> \in Seq(Rows) /\ "move" \in Kinds
    BY DEF Kinds
  <2> QED BY <1>1, <2>1, <2>2, <2>3, BeginType DEF StartMove, TypeOK, lockVars
<1>2. CASE StartTransfer(r)
  <2>1. PICK p \in Products, a \in Units, b \in Units, q \in Quantities :
          Begin(r, "transfer", [Nothing EXCEPT ![<<p, a>>] = -q, ![<<p, b>>] = q],
                <<<<p, a>>, <<p, b>>>>)
    BY <1>2 DEF StartTransfer
  <2>2. [Nothing EXCEPT ![<<p, a>>] = -q, ![<<p, b>>] = q] \in [Rows -> Int]
    <3>1. -q \in Int /\ q \in Int
      BY StockAssumption
    <3> QED BY <3>1, <1>j
  <2>3. <<<<p, a>>, <<p, b>>>> \in Seq(Rows) /\ "transfer" \in Kinds
    BY DEF Kinds, Rows
  <2> QED BY <1>2, <2>1, <2>2, <2>3, BeginType DEF StartTransfer, TypeOK, lockVars
<1>3. CASE StartSale(r)
  <2>1. PICK u \in Units, items \in SUBSET Products, q \in Quantities :
          /\ seller' = [seller EXCEPT ![u] = r]
          /\ Begin(r, "sale", [x \in Rows |-> IF x \in items \X {u} THEN -q ELSE 0], <<>>)
    BY <1>3 DEF StartSale
  <2>2. [x \in Rows |-> IF x \in items \X {u} THEN -q ELSE 0] \in [Rows -> Int]
    <3>1. -q \in Int
      BY StockAssumption
    <3> QED BY <3>1
  <2>3. <<>> \in Seq(Rows) /\ "sale" \in Kinds
    BY DEF Kinds
  <2> QED BY <1>3, <2>1, <2>2, <2>3, BeginType DEF StartSale, TypeOK
<1>4. CASE StartSet(r)
  <2>1. PICK x \in Rows, want \in Quantities \cup {0} :
          job' = [job EXCEPT ![r] =
            [NoJob EXCEPT !.delta = [Nothing EXCEPT ![x] = Difference(x, want)],
               !.todo = <<x>>, !.left = {x}, !.want = want, !.since = Len(ledger[x])]]
    BY <1>4 DEF StartSet
  <2>2. Difference(x, want) \in Int /\ want \in Nat
    BY StockAssumption, QuantityType DEF Difference
  <2>3. [Nothing EXCEPT ![x] = Difference(x, want)] \in [Rows -> Int]
    BY <2>2, <1>j
  <2>4. Len(ledger[x]) \in Nat /\ <<x>> \in Seq(Rows)
    BY DEF TypeOK
  <2>5. job'[r] \in Job
    BY <2>1, <2>2, <2>3, <2>4, NoJobType DEF TypeOK, NoJob, Job
  <2>6. job' \in [Requests -> Job]
    BY <2>1, <2>5 DEF TypeOK
  <2>7. pc' \in [Requests -> Phases]
    BY <1>4 DEF StartSet, Goto, TypeOK, Phases
  <2> QED BY <1>4, <2>6, <2>7 DEF StartSet, TypeOK, lockVars
<1>5. CASE StartUpsert(r)
  <2>1. PICK x \in Rows : job' = [job EXCEPT ![r] = [NoJob EXCEPT !.left = {x}]]
    BY <1>5 DEF StartUpsert
  <2>2. job' \in [Requests -> Job]
    BY <2>1, NoJobType DEF TypeOK, NoJob, Job
  <2> QED BY <1>5, <2>2 DEF StartUpsert, Goto, TypeOK, Phases, lockVars
<1>6. CASE EnsureFound(r) \/ InsertRow(r)
  <2>1. job[r].todo # <<>>
    BY <1>6 DEF EnsureFound, InsertRow, RequestInv
  <2>2. Head(job[r].todo) \in Rows /\ Tail(job[r].todo) \in Seq(Rows)
    BY <2>1, <1>j DEF Job
  <2>3. job' = [job EXCEPT ![r] = [job[r] EXCEPT !.todo = Tail(job[r].todo)]]
    BY <1>6 DEF EnsureFound, InsertRow, TypeOK
  <2>4. job' \in [Requests -> Job]
    BY <2>2, <2>3, <1>j DEF TypeOK, Job
  <2>5. pc' \in [Requests -> Phases]
    BY <1>6 DEF EnsureFound, InsertRow, Goto, TypeOK, Phases
  <2>6. /\ shared' \in [Rows -> SUBSET Requests]
        /\ excl' \in [Rows -> Requests \cup {None}]
        /\ UNCHANGED <<stock, ledger, seller, reset>>
    <3>1. CASE EnsureFound(r)
      BY <3>1, <2>2 DEF EnsureFound, Share, TypeOK
    <3>2. CASE InsertRow(r)
      BY <3>2, <2>2 DEF InsertRow, Exclude, TypeOK
    <3> QED BY <1>6, <3>1, <3>2
  <2> QED BY <2>4, <2>5, <2>6 DEF TypeOK
<1>7. CASE EnsureMissing(r)
  BY <1>7 DEF EnsureMissing, Share, Goto, TypeOK, Phases
<1>8. CASE LockRow(r)
  <2> DEFINE x == FirstRow(job[r].left)
  <2>1. job' = [job EXCEPT ![r] = [job[r] EXCEPT !.left = job[r].left \ {x}]]
    BY <1>8 DEF LockRow, TypeOK
  <2>2. job' \in [Requests -> Job]
    BY <2>1, <1>j DEF TypeOK, Job
  <2> QED BY <1>8, <2>2 DEF LockRow, Exclude, Goto, TypeOK, Phases
<1>9. CASE ReadRows(r)
  <2> DEFINE read == [x \in Rows |-> IF x \in Touched(job[r].delta) THEN Quantity(x) ELSE 0]
  <2>1. CASE End(r)
    BY <1>9, <2>1, EndType DEF ReadRows, TypeOK
  <2>2. CASE ~End(r)
    <3>1. /\ job' = [job EXCEPT ![r].read = read]
          /\ Goto(r, IF job[r].kind = "sale" THEN "release" ELSE "commit")
          /\ UNCHANGED lockVars
      BY <1>9, <2>2 DEF ReadRows
    <3>2. read \in [Rows -> Int]
      BY QuantityType, StockAssumption
    <3>3. job' = [job EXCEPT ![r] = [job[r] EXCEPT !.read = read]]
      BY <3>1 DEF TypeOK
    <3>4. job' \in [Requests -> Job]
      BY <3>2, <3>3, <1>j DEF TypeOK, Job
    <3> QED BY <1>9, <3>1, <3>4 DEF ReadRows, Goto, TypeOK, Phases, lockVars
  <2> QED BY <2>1, <2>2
<1>10. CASE Commit(r)
  <2>1. \A x \in Touched(job[r].delta) :
          /\ Balance(r, x) \in 0 .. MaxStock
          /\ MovementOf(r, x) \in Movement
    <3> SUFFICES ASSUME NEW x \in Touched(job[r].delta)
                 PROVE  /\ Balance(r, x) \in 0 .. MaxStock
                        /\ MovementOf(r, x) \in Movement
      OBVIOUS
    <3>1. x \in Rows
      BY DEF Touched
    <3>2. job[r].read[x] \in Nat /\ Balance(r, x) \in 0 .. MaxStock
      BY <1>10, <3>1, QuantityType, StockAssumption DEF Commit, RequestInv, Balance
    <3>3. Balance(r, x) \in Nat
      BY <3>2, StockAssumption
    <3> QED BY <3>2, <3>3, <1>j DEF MovementOf, Movement, Job
  <2>2. stock' \in [Rows -> 0 .. MaxStock \cup {None}]
    BY <1>10, <2>1 DEF Commit, TypeOK
  <2>3. \A x \in Touched(job[r].delta) : Append(ledger[x], MovementOf(r, x)) \in Seq(Movement)
    BY <2>1 DEF TypeOK, Touched
  <2>4. ledger' \in [Rows -> Seq(Movement)]
    BY <1>10, <2>3 DEF Commit, TypeOK
  <2> QED BY <1>10, <2>2, <2>4, EndType DEF Commit, TypeOK
<1>11. CASE Rollback(r)
  BY <1>11, EndType DEF Rollback, TypeOK
<1>12. CASE UpsertRead(r)
  BY <1>12 DEF UpsertRead, Goto, TypeOK, Phases, lockVars
<1>13. CASE UpsertCreate(r)
  <2>1. stock' \in [Rows -> 0 .. MaxStock \cup {None}]
    BY <1>13, StockAssumption DEF UpsertCreate, TypeOK
  <2> QED BY <1>13, <2>1, EndType DEF UpsertCreate, TypeOK
<1>14. CASE UpsertOverwrite(r)
  <2>1. stock' \in [Rows -> 0 .. MaxStock \cup {None}]
    BY <1>14, StockAssumption DEF UpsertOverwrite, TypeOK
  <2>2. reset' \in SUBSET Rows
    BY <1>14, <1>j DEF UpsertOverwrite, TypeOK, Job
  <2> QED BY <1>14, <2>1, <2>2, EndType DEF UpsertOverwrite, TypeOK
<1>15. CASE Release(r)
  BY <1>15 DEF Release, Unsold, Goto, TypeOK, Phases
<1> QED
  BY <1>0, <1>1, <1>2, <1>3, <1>4, <1>5, <1>6, <1>7, <1>8, <1>9, <1>10, <1>11,
     <1>12, <1>13, <1>14, <1>15 DEF Step

-----------------------------------------------------------------------------
\* What r has locked exclusively is neither locked nor changed by another.
LEMMA OthersKept ==
  ASSUME StockInv, TypeOK', NEW r \in Requests, NEW w \in Requests, w # r, Step(r)
  PROVE  RequestInv(w)'
<1> USE DEF StockInv
<1>n. None \notin Requests
  BY StockAssumption
<1>t. \A x \in Rows : ledger[x] \in Seq(Movement) /\ Len(ledger[x]) \in Nat
  BY DEF TypeOK
<1>1. pc'[w] = pc[w] /\ job'[w] = job[w]
  BY DEF TypeOK, Step, StartMove, StartTransfer, StartSale, StartSet, StartUpsert, Begin,
         EnsureFound, EnsureMissing, InsertRow, LockRow, ReadRows, Release, Commit,
         Rollback,
         UpsertRead, UpsertCreate, UpsertOverwrite, End, Goto
<1>2. ASSUME End(r)
      PROVE  \A x \in Rows : excl[x] = w => excl'[x] = w
  BY <1>2, <1>n DEF End, TypeOK
<1>3. ASSUME NEW y, Exclude(r, y)
      PROVE  \A x \in Rows : excl[x] = w => excl'[x] = w
  BY <1>3, <1>n DEF Exclude, CanExclude, CanShare, TypeOK
<1>4. \A x \in Rows : excl[x] = w => excl'[x] = w
  <2>1. CASE \/ StartMove(r) \/ StartTransfer(r) \/ StartSale(r) \/ StartSet(r)
             \/ StartUpsert(r) \/ UpsertRead(r) \/ EnsureFound(r) \/ EnsureMissing(r)
             \/ Release(r)
    BY <2>1 DEF StartMove, StartTransfer, StartSale, StartSet, StartUpsert, UpsertRead,
                EnsureFound, EnsureMissing, Release, Share, lockVars
  <2>2. CASE InsertRow(r) \/ LockRow(r)
    BY <2>2, <1>3 DEF InsertRow, LockRow
  <2>3. CASE ReadRows(r)
    BY <2>3, <1>2 DEF ReadRows, lockVars
  <2>4. CASE Commit(r) \/ Rollback(r) \/ UpsertCreate(r) \/ UpsertOverwrite(r)
    BY <2>4, <1>2 DEF Commit, Rollback, UpsertCreate, UpsertOverwrite
  <2> QED BY <2>1, <2>2, <2>3, <2>4 DEF Step
<1>5. CASE UNCHANGED <<stock, ledger, reset>>
  <2>1. \A x \in Rows : Quantity(x)' = Quantity(x)
    BY <1>5 DEF Quantity
  <2> QED BY <2>1, <1>1, <1>4, <1>5, <1>t, Undisturbed
<1>6. CASE Commit(r)
  <2>1. \A x \in Touched(job[r].delta) : x \in Rows /\ excl[x] = r
    BY <1>6 DEF Commit, RequestInv, Working, Touched
  <2>2. \A x \in Rows \ Touched(job[r].delta) :
          Quantity(x)' = Quantity(x) /\ ledger'[x] = ledger[x]
    BY <1>6 DEF Commit, Quantity
  <2>3. \A x \in Touched(job[r].delta) : Len(ledger'[x]) = Len(ledger[x]) + 1
    BY <1>6, <1>t, <2>1 DEF Commit, Touched
  <2>4. \A x \in Rows : excl[x] = w => Quantity(x)' = Quantity(x)
    BY <2>1, <2>2
  <2>5. \A x \in Rows : /\ Len(ledger'[x]) >= Len(ledger[x])
                        /\ Len(ledger'[x]) = Len(ledger[x]) => Quantity(x)' = Quantity(x)
    BY <2>2, <2>3, <1>t
  <2>6. reset' = reset
    BY <1>6 DEF Commit
  <2> QED BY <2>4, <2>5, <2>6, <1>1, <1>4, Undisturbed
<1>7. CASE UpsertCreate(r)
  <2>1. \A x \in Rows : Quantity(x)' = Quantity(x)
    BY <1>7 DEF UpsertCreate, Quantity, TypeOK
  <2>2. ledger' = ledger /\ reset' = reset
    BY <1>7 DEF UpsertCreate
  <2> QED BY <2>1, <2>2, <1>1, <1>4, <1>t, Undisturbed
<1>8. CASE UpsertOverwrite(r)
  <2>1. \A x \in Rows \ job[r].left : Quantity(x)' = Quantity(x)
    BY <1>8 DEF UpsertOverwrite, Quantity
  <2>2. \A x \in job[r].left : excl[x] # w
    BY <1>8, <1>n DEF UpsertOverwrite, CanExclude, CanShare
  <2>3. ledger' = ledger /\ reset' = reset \cup job[r].left
    BY <1>8 DEF UpsertOverwrite
  <2> QED BY <2>1, <2>2, <2>3, <1>1, <1>4, <1>t, Undisturbed
<1> QED
  <2>1. \/ UNCHANGED <<stock, ledger, reset>>
        \/ Commit(r) \/ UpsertCreate(r) \/ UpsertOverwrite(r)
    BY DEF Step, StartMove, StartTransfer, StartSale, StartSet, StartUpsert, UpsertRead,
           EnsureFound, EnsureMissing, InsertRow, LockRow, ReadRows, Release,
           Rollback
  <2> QED BY <2>1, <1>5, <1>6, <1>7, <1>8

-----------------------------------------------------------------------------
\* A request that ends relies on nothing.
LEMMA EndKept ==
  ASSUME TypeOK, NEW r \in Requests, End(r)
  PROVE  RequestInv(r)'
BY DEF TypeOK, End, Goto, RequestInv, Working

\* A transaction that begins has all its rows to lock.
LEMMA BeginKept ==
  ASSUME TypeOK, NEW r \in Requests, NEW kind \in Kinds, NEW delta \in [Rows -> Int],
         NEW todo \in Seq(Rows), Begin(r, kind, delta, todo)
  PROVE  RequestInv(r)'
<1>1. /\ pc'[r] = IF todo = <<>> THEN "lock" ELSE "ensure"
      /\ job'[r].todo = todo
      /\ job'[r].delta = delta
      /\ job'[r].left = Touched(delta)
      /\ job'[r].want = None
  BY DEF Begin, Goto, TypeOK, NoJob
<1> QED BY <1>1 DEF RequestInv, Working, Touched

\* The tail of a sequence of several elements is not empty.
LEMMA LongTail ==
  ASSUME NEW S, NEW s \in Seq(S), s # <<>>, Len(s) # 1
  PROVE  Tail(s) # <<>>
<1>1. Len(s) \in Nat /\ Len(s) # 0
  OBVIOUS
<1>2. Len(Tail(s)) = Len(s) - 1
  BY <1>1
<1>3. Len(Tail(s)) # 0
  BY <1>1, <1>2
<1>4. Len(<<>>) = 0
  OBVIOUS
<1> QED BY <1>3, <1>4, Zenon

\* The steps of a request keep what it relies on.
LEMMA OwnKept ==
  ASSUME StockInv, TypeOK', NEW r \in Requests, Step(r)
  PROVE  RequestInv(r)'
<1> USE DEF StockInv
<1>j. job[r] \in Job /\ Nothing \in [Rows -> Int] /\ RequestInv(r)
  BY DEF TypeOK, Nothing
<1>1. CASE StartMove(r)
  <2>1. PICK x \in Rows, q \in Quantities, sign \in {1, -1} :
          Begin(r, "move", [Nothing EXCEPT ![x] = sign * q], <<x>>)
    BY <1>1 DEF StartMove
  <2>2. sign * q \in Int
    BY StockAssumption
  <2>3. [Nothing EXCEPT ![x] = sign * q] \in [Rows -> Int]
    BY <2>2, <1>j
  <2>4. <<x>> \in Seq(Rows) /\ "move" \in Kinds
    BY DEF Kinds
  <2> QED BY <2>1, <2>3, <2>4, BeginKept
<1>2. CASE StartTransfer(r)
  <2>1. PICK p \in Products, a \in Units, b \in Units, q \in Quantities :
          Begin(r, "transfer", [Nothing EXCEPT ![<<p, a>>] = -q, ![<<p, b>>] = q],
                <<<<p, a>>, <<p, b>>>>)
    BY <1>2 DEF StartTransfer
  <2>2. -q \in Int /\ q \in Int
    BY StockAssumption
  <2>3. [Nothing EXCEPT ![<<p, a>>] = -q, ![<<p, b>>] = q] \in [Rows -> Int]
    BY <2>2, <1>j
  <2>4. <<<<p, a>>, <<p, b>>>> \in Seq(Rows) /\ "transfer" \in Kinds
    BY DEF Rows, Kinds
  <2> QED BY <2>1, <2>3, <2>4, BeginKept
<1>3. CASE StartSale(r)
  <2>1. PICK u \in Units, items \in SUBSET Products, q \in Quantities :
          Begin(r, "sale", [x \in Rows |-> IF x \in items \X {u} THEN -q ELSE 0], <<>>)
    BY <1>3 DEF StartSale
  <2>2. -q \in Int
    BY StockAssumption
  <2>3. [x \in Rows |-> IF x \in items \X {u} THEN -q ELSE 0] \in [Rows -> Int]
    BY <2>2
  <2>4. <<>> \in Seq(Rows) /\ "sale" \in Kinds
    BY DEF Kinds
  <2> QED BY <2>1, <2>3, <2>4, BeginKept
<1>4. CASE StartSet(r)
  <2>1. PICK x \in Rows, want \in Quantities \cup {0} :
          job' = [job EXCEPT ![r] =
            [NoJob EXCEPT !.delta = [Nothing EXCEPT ![x] = Difference(x, want)],
               !.todo = <<x>>, !.left = {x}, !.want = want, !.since = Len(ledger[x])]]
    BY <1>4 DEF StartSet
  <2>2. /\ pc'[r] = "ensure"
        /\ job'[r].todo = <<x>>
        /\ job'[r].delta = [Nothing EXCEPT ![x] = Difference(x, want)]
        /\ job'[r].left = {x}
        /\ job'[r].want = want
        /\ job'[r].since = Len(ledger[x])
        /\ UNCHANGED <<stock, ledger, reset>>
    BY <1>4, <2>1 DEF StartSet, Goto, TypeOK, NoJob
  <2>3. Touched(job'[r].delta) \subseteq {x} /\ job'[r].delta[x] = Difference(x, want)
    BY <2>2 DEF Touched, Nothing
  <2>4. Quantity(x)' = Quantity(x) /\ Quantity(x) \in Int /\ want \in Int
    BY <2>2, QuantityType, StockAssumption DEF Quantity
  <2>5. Quantity(x)' + job'[r].delta[x] = want /\ Len(ledger[x]) \in Nat
    BY <2>3, <2>4 DEF Difference, TypeOK
  <2>6. Settling(r, x)'
    BY <2>2, <2>5 DEF Settling
  <2>7. \A y \in Touched(job'[r].delta) : Settling(r, y)'
    BY <2>3, <2>6
  <2>8. \A y \in Touched(job'[r].delta) : y \in job'[r].left
    BY <2>2, <2>3
  <2>9. job'[r].todo # <<>>
    <3>1. <<x>> # <<>>
      OBVIOUS
    <3> QED BY <2>2, <3>1
  <2> QED BY <2>2, <2>7, <2>8, <2>9 DEF RequestInv
<1>5. CASE StartUpsert(r) \/ UpsertRead(r)
  BY <1>5 DEF StartUpsert, UpsertRead, Goto, RequestInv, Working, TypeOK
<1>6. CASE EnsureFound(r) \/ EnsureMissing(r) \/ InsertRow(r)
  <2>0. /\ EnsureMissing(r) => job'[r] = job[r]
        /\ EnsureFound(r) \/ InsertRow(r) =>
             job'[r] = [job[r] EXCEPT !.todo = Tail(job[r].todo)]
        /\ UNCHANGED <<stock, ledger, reset>>
    BY <1>6 DEF EnsureFound, EnsureMissing, InsertRow, TypeOK
  <2>1. /\ job'[r].delta = job[r].delta
        /\ job'[r].left = job[r].left
        /\ job'[r].want = job[r].want
        /\ job'[r].since = job[r].since
        /\ UNCHANGED <<stock, ledger, reset>>
    BY <1>6, <1>j, <2>0 DEF Job
  <2>2. pc[r] \in {"ensure", "insert"} /\ pc'[r] \in {"ensure", "insert", "lock"}
    BY <1>6 DEF EnsureFound, EnsureMissing, InsertRow, Goto, TypeOK
  <2>3. pc'[r] \in {"ensure", "insert"} => job'[r].todo # <<>>
    <3>1. CASE EnsureMissing(r)
      BY <3>1, <1>j, <2>2 DEF EnsureMissing, RequestInv
    <3>2. CASE EnsureFound(r) \/ InsertRow(r)
      <4>1. job[r].todo \in Seq(Rows) /\ job[r].todo # <<>>
        BY <1>j, <2>2 DEF RequestInv, Job
      <4>2. job'[r].todo = Tail(job[r].todo)
        BY <3>2, <2>0, <1>j DEF Job
      <4>3. pc'[r] \in {"ensure", "insert"} => Len(job[r].todo) # 1
        BY <3>2 DEF EnsureFound, InsertRow, Goto, TypeOK
      <4> QED BY <4>1, <4>2, <4>3, LongTail
    <3> QED BY <3>1, <3>2, <1>6
  <2>4. \A x \in Rows : excl[x] = r => excl'[x] = r
    BY <1>6 DEF EnsureFound, EnsureMissing, InsertRow, Share, Exclude, TypeOK
  <2>5. \A x \in Touched(job[r].delta) : x \in Rows
    BY DEF Touched
  <2>6. \A x \in Rows : Settling(r, x) => Settling(r, x)'
    BY <2>1 DEF Settling, Quantity
  <2>7. pc[r] \in Working
    BY <2>2 DEF Working
  <2> QED BY <1>j, <2>1, <2>2, <2>3, <2>4, <2>5, <2>6, <2>7 DEF RequestInv
<1>7. CASE LockRow(r)
  <2> DEFINE y == FirstRow(job[r].left)
  <2>1. /\ job'[r].delta = job[r].delta
        /\ job'[r].left = job[r].left \ {y}
        /\ job'[r].want = job[r].want
        /\ job'[r].since = job[r].since
        /\ UNCHANGED <<stock, ledger, reset>>
    BY <1>7 DEF LockRow, TypeOK
  <2>2. /\ pc[r] = "lock" /\ pc[r] \in Working
        /\ pc'[r] \in {"lock", "read"}
        /\ pc'[r] = "read" => job'[r].left = {}
    BY <1>7, <2>1 DEF LockRow, Goto, TypeOK, Working
  <2>3. \A x \in Rows : excl[x] = r \/ x = y => excl'[x] = r
    BY <1>7 DEF LockRow, Exclude, TypeOK
  <2>4. \A x \in Touched(job[r].delta) : x \in Rows
    BY DEF Touched
  <2>5. \A x \in Rows : Settling(r, x) => Settling(r, x)'
    BY <2>1 DEF Settling, Quantity
  <2> QED BY <1>j, <2>1, <2>2, <2>3, <2>4, <2>5 DEF RequestInv
<1>8. CASE ReadRows(r)
  <2> DEFINE read == [x \in Rows |-> IF x \in Touched(job[r].delta) THEN Quantity(x) ELSE 0]
  <2>1. CASE End(r)
    BY <2>1, EndKept
  <2>2. CASE ~End(r)
    <3>1. /\ pc[r] = "read" /\ pc[r] \in Working
          /\ pc'[r] \in {"release", "commit"}
          /\ job'[r] = [job[r] EXCEPT !.read = read]
          /\ UNCHANGED <<stock, ledger, reset, excl>>
          /\ ~Refused(r, read)
      BY <1>8, <2>2 DEF ReadRows, Goto, TypeOK, lockVars, Working
    <3>2. /\ job'[r].delta = job[r].delta
          /\ job'[r].left = job[r].left
          /\ job'[r].want = job[r].want
          /\ job'[r].since = job[r].since
          /\ job'[r].read = read
      BY <3>1, <1>j DEF Job
    <3>3. \A x \in Touched(job[r].delta) :
            /\ x \in Rows
            /\ read[x] = Quantity(x)'
            /\ read[x] + job[r].delta[x] \in 0 .. MaxStock
      BY <3>1 DEF Touched, Refused, Quantity
    <3>4. \A x \in Rows : Settling(r, x) => Settling(r, x)'
      BY <3>1, <3>2 DEF Settling, Quantity
    <3> QED BY <1>j, <3>1, <3>2, <3>3, <3>4 DEF RequestInv
  <2> QED BY <2>1, <2>2
<1>9. CASE Commit(r) \/ Rollback(r) \/ UpsertCreate(r) \/ UpsertOverwrite(r)
  BY <1>9, EndKept DEF Commit, Rollback, UpsertCreate, UpsertOverwrite
<1>10. CASE Release(r)
  <2>1. /\ pc[r] = "release"
        /\ pc'[r] = "commit"
        /\ job'[r] = job[r]
        /\ UNCHANGED <<stock, ledger, excl, reset>>
    BY <1>10 DEF Release, Goto, TypeOK
  <2>2. \A x \in Rows : Quantity(x)' = Quantity(x) /\ (Settling(r, x) => Settling(r, x)')
    BY <2>1 DEF Settling, Quantity
  <2>3. \A x \in Touched(job[r].delta) : x \in Rows
    BY DEF Touched
  <2> QED BY <1>j, <2>1, <2>2, <2>3 DEF RequestInv, Working
<1> QED
  BY <1>1, <1>2, <1>3, <1>4, <1>5, <1>6, <1>7, <1>8, <1>9, <1>10 DEF Step

-----------------------------------------------------------------------------
\* The movement a commit records continues the ledger of its row.
LEMMA CommitExplained ==
  ASSUME StockInv, TypeOK', NEW r \in Requests, Commit(r)
  PROVE  \A x \in Rows \ reset' : Explained(x)' /\ Settled(x)'
<1> USE DEF StockInv
<1>1. SUFFICES ASSUME NEW x \in Rows \ reset
               PROVE  Explained(x)' /\ Settled(x)'
  BY DEF Commit
<1>2. Explained(x) /\ Settled(x) /\ ledger[x] \in Seq(Movement) /\ RequestInv(r)
  BY DEF TypeOK
<1>3. CASE x \notin Touched(job[r].delta)
  <2>1. ledger'[x] = ledger[x] /\ Quantity(x)' = Quantity(x)
    BY <1>3 DEF Commit, Quantity
  <2> QED BY <1>2, <2>1 DEF Explained, Settled
<1>4. CASE x \in Touched(job[r].delta)
  <2> DEFINE mv == MovementOf(r, x)
             n == Len(ledger[x])
  <2>1. /\ ledger'[x] = Append(ledger[x], mv)
        /\ stock'[x] = Balance(r, x)
    BY <1>4 DEF Commit
  <2>2. /\ job[r].read[x] = Quantity(x)
        /\ Balance(r, x) \in 0 .. MaxStock
        /\ job[r].want # None => Settling(r, x)
        /\ job[r].since \in Nat
    BY <1>2, <1>4 DEF Commit, RequestInv, Working, Balance, TypeOK, Job
  <2>3. Quantity(x)' = mv.resulting
    <3>1. Balance(r, x) # None
      BY <2>2, StockAssumption
    <3> QED BY <2>1, <3>1 DEF Quantity, MovementOf
  <2>4. /\ mv.previous = Quantity(x)
        /\ mv.want = job[r].want
        /\ mv.since = job[r].since
        /\ mv.resulting = Quantity(x) + job[r].delta[x]
    BY <2>2 DEF MovementOf, Balance
  <2>5. /\ n \in Nat
        /\ Len(ledger'[x]) = n + 1
        /\ DOMAIN ledger'[x] = 1 .. n + 1
        /\ DOMAIN ledger[x] = 1 .. n
        /\ ledger'[x] # <<>>
        /\ ledger'[x][n + 1] = mv
        /\ \A i \in 1 .. n : ledger'[x][i] = ledger[x][i]
    <3> HIDE DEF mv
    <3> QED BY <1>2, <2>1
  <2>6. mv.previous = IF n = 0 THEN 0 ELSE ledger[x][n].resulting
    BY <1>2, <2>4, <2>5 DEF Explained
  <2>7. Explained(x)'
    <3>1. \A i \in 1 .. n + 1 :
            ledger'[x][i].previous = IF i = 1 THEN 0 ELSE ledger'[x][i - 1].resulting
      <4> SUFFICES ASSUME NEW i \in 1 .. n + 1
                   PROVE  ledger'[x][i].previous
                            = IF i = 1 THEN 0 ELSE ledger'[x][i - 1].resulting
        OBVIOUS
      <4> HIDE DEF mv, n
      <4>1. CASE i = n + 1
        BY <4>1, <2>5, <2>6
      <4>2. CASE i # n + 1
        <5>1. i \in 1 .. n /\ (i # 1 => i - 1 \in 1 .. n)
          BY <4>2, <2>5
        <5>2. ledger[x][i].previous = IF i = 1 THEN 0 ELSE ledger[x][i - 1].resulting
          BY <5>1, <1>2, <2>5 DEF Explained
        <5> QED BY <5>1, <5>2, <2>5
      <4> QED BY <4>1, <4>2
    <3>2. Quantity(x)' = ledger'[x][Len(ledger'[x])].resulting
      BY <2>3, <2>5
    <3> QED BY <3>1, <3>2, <2>5 DEF Explained
  <2>8. Settled(x)'
    <3>1. mv.want # None /\ mv.resulting # mv.want => mv.since < n
      BY <2>2, <2>4, <2>5 DEF Settling
    <3> HIDE DEF mv, n
    <3>2. \A i \in 1 .. n + 1 :
            ledger'[x][i].want # None /\ ledger'[x][i].resulting # ledger'[x][i].want =>
              ledger'[x][i].since < i - 1
      BY <3>1, <2>5, <1>2 DEF Settled
    <3> QED BY <3>2, <2>5 DEF Settled
  <2> QED BY <2>7, <2>8
<1> QED BY <1>3, <1>4

\* Every step keeps what the rows promise.
LEMMA RowsStep ==
  ASSUME StockInv, TypeOK', NEW r \in Requests, Step(r)
  PROVE  \A x \in Rows \ reset' : Explained(x)' /\ Settled(x)'
<1> USE DEF StockInv
<1>1. CASE UNCHANGED <<stock, ledger, reset>>
  BY <1>1, RowsKept
<1>2. CASE Commit(r)
  BY <1>2, CommitExplained
<1>3. CASE UpsertCreate(r)
  <2>1. \A x \in Rows : Quantity(x)' = Quantity(x)
    BY <1>3 DEF UpsertCreate, Quantity, TypeOK
  <2> QED BY <1>3, <2>1 DEF UpsertCreate, Explained, Settled
<1>4. CASE UpsertOverwrite(r)
  <2>1. \A x \in Rows \ reset' : x \notin reset /\ Quantity(x)' = Quantity(x)
    BY <1>4 DEF UpsertOverwrite, Quantity
  <2> QED BY <1>4, <2>1 DEF UpsertOverwrite, Explained, Settled
<1> QED
  <2>1. \/ UNCHANGED <<stock, ledger, reset>>
        \/ Commit(r) \/ UpsertCreate(r) \/ UpsertOverwrite(r)
    BY DEF Step, StartMove, StartTransfer, StartSale, StartSet, StartUpsert, UpsertRead,
           EnsureFound, EnsureMissing, InsertRow, LockRow, ReadRows, Release,
           Rollback
  <2> QED BY <2>1, <1>1, <1>2, <1>3, <1>4

-----------------------------------------------------------------------------
(***************************************************************************)
(* The inductive invariant: a request owns the rows it has locked, reads   *)
(* them as they are when it commits, and every committed movement          *)
(* continues the ledger (stock-movement.repository.ts, move and transfer;  *)
(* product-sale.repository.ts, create).                                    *)
(***************************************************************************)
THEOREM StockInvariant == Spec => []StockInv
<1>1. Init => StockInv
  <2> SUFFICES ASSUME Init PROVE StockInv
    OBVIOUS
  <2>1. TypeOK
    BY NoJobType, StockAssumption DEF Init, TypeOK, Phases
  <2>2. \A r \in Requests : RequestInv(r)
    BY DEF Init, RequestInv, Working
  <2>3. \A x \in Rows : Explained(x) /\ Settled(x)
    BY DEF Init, Explained, Settled, Quantity
  <2> QED BY <2>1, <2>2, <2>3 DEF StockInv
<1>2. StockInv /\ [Next]_vars => StockInv'
  <2> SUFFICES ASSUME StockInv, [Next]_vars PROVE StockInv'
    OBVIOUS
  <2>1. CASE Next
    <3>1. TypeOK'
      BY <2>1, TypeStep
    <3>2. PICK r \in Requests : Step(r)
      BY <2>1 DEF Next
    <3>3. \A w \in Requests : RequestInv(w)'
      BY <3>1, <3>2, OthersKept, OwnKept
    <3>4. \A x \in Rows \ reset' : Explained(x)' /\ Settled(x)'
      BY <3>1, <3>2, RowsStep
    <3> QED BY <3>1, <3>3, <3>4 DEF StockInv
  <2>2. CASE UNCHANGED vars
    BY <2>2 DEF vars, lockVars, StockInv, TypeOK, RequestInv, Settling, Explained, Settled,
                Quantity
  <2> QED BY <2>1, <2>2
<1> QED BY <1>1, <1>2, PTL DEF Spec

(***************************************************************************)
(* Balances stay within 0 .. MaxStock and everything else well formed.     *)
(***************************************************************************)
THEOREM StockTypeOK == Spec => []TypeOK
BY StockInvariant, PTL DEF StockInv

(***************************************************************************)
(* The ledger explains every balance that upsertStock did not overwrite:   *)
(* no concurrent movement, transfer or sale is lost (docs/STATUS.md:5).    *)
(***************************************************************************)
THEOREM LedgerIsComplete == Spec => []LedgerExplainsStock
<1>1. StockInv => LedgerExplainsStock
  BY DEF StockInv, LedgerExplainsStock
<1> QED BY <1>1, StockInvariant, PTL

(***************************************************************************)
(* A setting by hand that nothing overtook reaches the quantity asked for  *)
(* (product.service.ts, setStock).                                         *)
(***************************************************************************)
THEOREM SettingsLand == Spec => []SettingLands
<1>1. StockInv => SettingLands
  BY DEF StockInv, SettingLands, Settled
<1> QED BY <1>1, StockInvariant, PTL

-----------------------------------------------------------------------------
(* Transfers neither make nor lose units of a product *)

UnitsOf(p) == {p} \X Units

Balances == [x \in Rows |-> Quantity(x)]

Receipts == [x \in Rows |-> Received(x)]

\* What the movements of s brought
Total(s) == SumFunction([i \in DOMAIN s |-> Added(s[i])])

\* What a transfer takes from one unit it gives to another.
Even(r) ==
  job[r].kind = "transfer" =>
    \A p \in Products : SumOver(job[r].delta, UnitsOf(p)) = 0

Conserved(p) ==
  UnitsOf(p) \cap reset = {} => SumOver(Balances, UnitsOf(p)) = SumOver(Receipts, UnitsOf(p))

ConserveInv ==
  /\ \A r \in Requests : Even(r)
  /\ \A p \in Products : Conserved(p)

LEMMA UnitsFinite ==
  ASSUME NEW p \in Products
  PROVE  IsFiniteSet(UnitsOf(p)) /\ UnitsOf(p) \subseteq Rows
<1>1. IsFiniteSet({p})
  BY FS_Singleton
<1>2. IsFiniteSet(UnitsOf(p))
  BY <1>1, FS_Product, StockAssumption DEF UnitsOf
<1> QED BY <1>2 DEF UnitsOf, Rows

LEMMA EvenIs ==
  ASSUME NEW r
  PROVE  Even(r)' <=> (job'[r].kind = "transfer" =>
           \A p \in Products : SumOver(job'[r].delta, UnitsOf(p)) = 0)
BY DEF Even, SumOver, MapThenSumSet, MapThenFoldSet, UnitsOf

LEMMA ConservedIs ==
  ASSUME NEW p
  PROVE  Conserved(p)' <=> (UnitsOf(p) \cap reset' = {} =>
           SumOver(Balances', UnitsOf(p)) = SumOver(Receipts', UnitsOf(p)))
BY DEF Conserved, SumOver, MapThenSumSet, MapThenFoldSet, UnitsOf

LEMMA ReceivedIs ==
  ASSUME NEW x
  PROVE  Received(x) = Total(ledger[x]) /\ Received(x)' = Total(ledger'[x])
BY DEF Received, Total, SumFunction, SumFunctionOnSet, FoldFunctionOnSet, MapThenFoldSet

LEMMA TotalIs ==
  ASSUME NEW s
  PROVE  Total(s) = SumOver([i \in DOMAIN s |-> Added(s[i])], DOMAIN s)
BY DEF Total, SumFunction, SumFunctionOnSet, FoldFunctionOnSet, MapThenFoldSet, SumOver,
       MapThenSumSet

\* A movement adds what it brings to what the ones before it brought.
LEMMA TotalAppend ==
  ASSUME NEW s \in Seq(Movement), NEW m \in Movement
  PROVE  Total(Append(s, m)) = Total(s) + Added(m)
<1> DEFINE n == Len(s)
           t == Append(s, m)
           f == [i \in DOMAIN s |-> Added(s[i])]
           g == [i \in DOMAIN t |-> Added(t[i])]
           old == DOMAIN s
           all == DOMAIN t
           new == n + 1
<1>1. /\ n \in Nat /\ old = 1 .. n /\ all = 1 .. n + 1
      /\ \A i \in old : t[i] = s[i] /\ s[i] \in Movement
      /\ t[new] = m
  OBVIOUS
<1>2. \A k \in Movement : Added(k) \in Int
  BY DEF Added, Movement
<1>3. /\ \A i \in old : f[i] = Added(s[i]) /\ g[i] = Added(s[i])
      /\ g[new] = Added(m)
  BY <1>1
<1>4. IsFiniteSet(old)
  <2>1. 1 \in Int /\ n \in Int
    BY <1>1
  <2> HIDE DEF n
  <2> QED BY <1>1, <2>1, FS_Interval
<1>5. new \notin old /\ all = old \cup {new}
  <2> HIDE DEF n, old, all
  <2> QED BY <1>1
<1>6. Total(s) = SumOver(f, old) /\ Total(t) = SumOver(g, all)
  BY TotalIs
<1>7. /\ \A i \in old : f[i] \in Int /\ g[i] \in Int /\ f[i] = g[i]
      /\ g[new] = Added(m) /\ Added(m) \in Int
  BY <1>1, <1>2, <1>3
<1> HIDE DEF f, g, n, t, old, all, new
<1>8. SumOver(f, old) \in Int
  BY <1>4, <1>7, SumType
<1>9. SumOver(f, old) = SumOver(g, old)
  BY <1>4, <1>7, SumSame
<1>10. \A i \in old \cup {new} : g[i] \in Int
  BY <1>7
<1>11. SumOver(g, old \cup {new}) = g[new] + SumOver(g, old)
  BY <1>4, <1>5, <1>10, SumWith
<1>12. Total(t) = Total(s) + Added(m)
  BY <1>5, <1>6, <1>7, <1>8, <1>9, <1>11
<1> QED BY <1>12 DEF t

LEMMA TotalType ==
  ASSUME NEW s \in Seq(Movement)
  PROVE  Total(s) \in Int
<1> DEFINE f == [i \in DOMAIN s |-> Added(s[i])]
<1>1. Len(s) \in Nat /\ DOMAIN s = 1 .. Len(s) /\ \A i \in DOMAIN s : s[i] \in Movement
  OBVIOUS
<1>2. \A i \in DOMAIN s : f[i] \in Int
  BY <1>1 DEF Added, Movement
<1>3. IsFiniteSet(DOMAIN s)
  BY <1>1, FS_Interval
<1>4. Total(s) = SumOver(f, DOMAIN s)
  BY TotalIs
<1> HIDE DEF f
<1> QED BY <1>2, <1>3, <1>4, SumType

\* The sums of TransfersConserve are those of the functions of the same values.
LEMMA QuantitiesAre ==
  ASSUME NEW p \in Products
  PROVE  MapThenSumSet(Quantity, UnitsOf(p)) = SumOver(Balances, UnitsOf(p))
<1> DEFINE S == UnitsOf(p)
           Is(g) == g = [s \in SUBSET S |->
                           IF s = {} THEN 0 ELSE Quantity(Chosen(s)) + g[s \ {Chosen(s)}]]
           g == CHOOSE h : Is(h)
<1>1. IsFiniteSet(S) /\ S \subseteq Rows
  BY UnitsFinite
<1>2. MapThenSumSet(Quantity, S) = g[S]
  BY DEF MapThenSumSet, MapThenFoldSet, Chosen
<1> HIDE DEF S
<1>3. \A s \in SUBSET S : s # {} => Balances[Chosen(s)] = Quantity(Chosen(s))
  BY <1>1 DEF Balances, Chosen
<1>4. \A h : Is(h) <=> IsSum(h, Balances, S)
  <2> TAKE h
  <2>1. [s \in SUBSET S |-> IF s = {} THEN 0 ELSE Quantity(Chosen(s)) + h[s \ {Chosen(s)}]]
        = [s \in SUBSET S |-> IF s = {} THEN 0 ELSE Balances[Chosen(s)] + h[s \ {Chosen(s)}]]
    BY <1>3
  <2> QED BY <2>1 DEF IsSum
<1>5. \E h : Is(h)
  <2>1. PICK h : IsSum(h, Balances, S)
    BY <1>1, SumExists
  <2> HIDE DEF Is
  <2> QED BY <2>1, <1>4
<1>6. Is(g)
  <2> HIDE DEF Is
  <2> QED BY <1>5
<1>7. IsSum(g, Balances, S)
  <2> HIDE DEF Is, g
  <2> QED BY <1>4, <1>6
<1> HIDE DEF g
<1>8. SumOver(Balances, S) = g[S]
  BY <1>1, <1>7, SumOf
<1> QED BY <1>2, <1>8 DEF S

LEMMA ReceiptsAre ==
  ASSUME NEW p \in Products
  PROVE  MapThenSumSet(Received, UnitsOf(p)) = SumOver(Receipts, UnitsOf(p))
<1> DEFINE S == UnitsOf(p)
           Is(g) == g = [s \in SUBSET S |->
                           IF s = {} THEN 0 ELSE Received(Chosen(s)) + g[s \ {Chosen(s)}]]
           g == CHOOSE h : Is(h)
<1>1. IsFiniteSet(S) /\ S \subseteq Rows
  BY UnitsFinite
<1>2. MapThenSumSet(Received, S) = g[S]
  BY DEF MapThenSumSet, MapThenFoldSet, Chosen
<1> HIDE DEF S
<1>3. \A s \in SUBSET S : s # {} => Receipts[Chosen(s)] = Received(Chosen(s))
  BY <1>1 DEF Receipts, Chosen
<1>4. \A h : Is(h) <=> IsSum(h, Receipts, S)
  <2> TAKE h
  <2>1. [s \in SUBSET S |-> IF s = {} THEN 0 ELSE Received(Chosen(s)) + h[s \ {Chosen(s)}]]
        = [s \in SUBSET S |-> IF s = {} THEN 0 ELSE Receipts[Chosen(s)] + h[s \ {Chosen(s)}]]
    BY <1>3
  <2> QED BY <2>1 DEF IsSum
<1>5. \E h : Is(h)
  <2>1. PICK h : IsSum(h, Receipts, S)
    BY <1>1, SumExists
  <2> HIDE DEF Is
  <2> QED BY <2>1, <1>4
<1>6. Is(g)
  <2> HIDE DEF Is
  <2> QED BY <1>5
<1>7. IsSum(g, Receipts, S)
  <2> HIDE DEF Is, g
  <2> QED BY <1>4, <1>6
<1> HIDE DEF g
<1>8. SumOver(Receipts, S) = g[S]
  BY <1>1, <1>7, SumOf
<1> QED BY <1>2, <1>8 DEF S

\* A transfer starts even, and no step changes what a request is about to add.
LEMMA EvenStep ==
  ASSUME StockInv, \A w \in Requests : Even(w), NEW r \in Requests, Step(r)
  PROVE  \A w \in Requests : Even(w)'
<1> USE DEF StockInv
<1>j. job[r] \in Job /\ Nothing \in [Rows -> Int]
  BY DEF TypeOK, Nothing
<1>1. ASSUME NEW w \in Requests, w # r PROVE Even(w)'
  <2>1. job'[w] = job[w]
    BY <1>1 DEF TypeOK, Step, StartMove, StartTransfer, StartSale, StartSet, StartUpsert,
         Begin, EnsureFound, EnsureMissing, InsertRow, LockRow, ReadRows, Release, Commit,
         Rollback,
         UpsertRead, UpsertCreate, UpsertOverwrite, End, Goto
  <2>2. Even(w)
    OBVIOUS
  <2> QED BY <2>1, <2>2, EvenIs DEF Even
<1>2. CASE StartTransfer(r)
  <2>1. PICK p \in Products, a \in Units, b \in Units, q \in Quantities :
          /\ a # b
          /\ Begin(r, "transfer", [Nothing EXCEPT ![<<p, a>>] = -q, ![<<p, b>>] = q],
                   <<<<p, a>>, <<p, b>>>>)
    BY <1>2 DEF StartTransfer
  <2> DEFINE half == [Nothing EXCEPT ![<<p, a>>] = -q]
             full == [half EXCEPT ![<<p, b>>] = q]
             x == <<p, a>>
             y == <<p, b>>
  <2>2. job'[r].delta = full
    BY <2>1 DEF Begin, TypeOK, NoJob
  <2>3. q \in Int /\ -q \in Int /\ x \in Rows /\ y \in Rows /\ x # y
    BY <2>1, StockAssumption DEF Rows
  <2>4. /\ \A z \in Rows : Nothing[z] = 0
        /\ \A z \in Rows \ {x} : half[z] = 0
        /\ half[x] = 0 + (-q)
        /\ \A z \in Rows \ {y} : full[z] = half[z]
        /\ full[y] = 0 + q
    BY <2>3 DEF Nothing
  <2> HIDE DEF half, full
  <2>5. ASSUME NEW o \in Products PROVE SumOver(full, UnitsOf(o)) = 0
    <3>1. IsFiniteSet(UnitsOf(o)) /\ UnitsOf(o) \subseteq Rows
      BY UnitsFinite
    <3>2. CASE o = p
      <4>1. x \in UnitsOf(o) /\ y \in UnitsOf(o)
        BY <3>2 DEF UnitsOf
      <4> HIDE DEF x, y
      <4>2. SumOver(Nothing, UnitsOf(o)) = 0
        BY <3>1, <2>4, SumZero
      <4>3. SumOver(half, UnitsOf(o)) = SumOver(Nothing, UnitsOf(o)) + (-q)
        <5>1. /\ -q \in Int
              /\ \A z \in UnitsOf(o) : Nothing[z] \in Int
              /\ \A z \in UnitsOf(o) \ {x} : half[z] = Nothing[z]
              /\ half[x] = Nothing[x] + (-q)
          BY <2>3, <2>4, <3>1
        <5> QED BY <5>1, <4>1, <3>1, SumChanged
      <4>4. SumOver(full, UnitsOf(o)) = SumOver(half, UnitsOf(o)) + q
        <5>1. /\ q \in Int
              /\ \A z \in UnitsOf(o) : half[z] \in Int
              /\ \A z \in UnitsOf(o) \ {y} : full[z] = half[z]
              /\ full[y] = half[y] + q
          BY <2>3, <2>4, <3>1
        <5> QED BY <5>1, <4>1, <3>1, SumChanged
      <4> QED BY <4>2, <4>3, <4>4, <2>3
    <3>3. CASE o # p
      <4>1. \A z \in UnitsOf(o) : z # x /\ z # y
        BY <3>3 DEF UnitsOf
      <4>2. \A z \in UnitsOf(o) : full[z] = 0
        BY <4>1, <2>4, <3>1
      <4> QED BY <3>1, <4>2, SumZero
    <3> QED BY <3>2, <3>3
  <2>6. Even(r)'
    BY <2>2, <2>5, EvenIs
  <2> QED BY <2>6, <1>1
<1>3. CASE \/ StartMove(r) \/ StartSale(r) \/ StartSet(r) \/ StartUpsert(r)
           \/ Commit(r) \/ Rollback(r) \/ UpsertCreate(r) \/ UpsertOverwrite(r)
  <2>1. job'[r].kind # "transfer"
    <3>1. "move" # "transfer" /\ "sale" # "transfer"
      OBVIOUS
    <3>2. CASE StartMove(r) \/ StartSale(r)
      BY <3>1, <3>2 DEF StartMove, StartSale, Begin, TypeOK, NoJob
    <3>3. CASE StartSet(r)
      BY <3>1, <3>3 DEF StartSet, TypeOK, NoJob
    <3>4. CASE StartUpsert(r)
      BY <3>1, <3>4 DEF StartUpsert, TypeOK, NoJob
    <3>5. CASE Commit(r) \/ Rollback(r) \/ UpsertCreate(r) \/ UpsertOverwrite(r)
      BY <3>1, <3>5 DEF Commit, Rollback, UpsertCreate, UpsertOverwrite, End, TypeOK, NoJob
    <3> QED BY <1>3, <3>2, <3>3, <3>4, <3>5
  <2>2. Even(r)'
    BY <2>1, EvenIs
  <2> QED BY <2>2, <1>1
<1>4. CASE \/ EnsureFound(r) \/ EnsureMissing(r) \/ InsertRow(r) \/ LockRow(r) \/ UpsertRead(r)
           \/ Release(r)
  <2>1. job'[r].kind = job[r].kind /\ job'[r].delta = job[r].delta
    BY <1>4, <1>j DEF EnsureFound, EnsureMissing, InsertRow, LockRow, UpsertRead,
                     Release, TypeOK, Job
  <2>2. Even(r)'
    BY <2>1, EvenIs DEF Even
  <2> QED BY <2>2, <1>1
<1>5. CASE ReadRows(r)
  <2>1. CASE End(r)
    <3>1. job'[r].kind # "transfer"
      BY <2>1 DEF End, TypeOK, NoJob
    <3>2. Even(r)'
      BY <3>1, EvenIs
    <3> QED BY <3>2, <1>1
  <2>2. CASE ~End(r)
    <3>1. job'[r].kind = job[r].kind /\ job'[r].delta = job[r].delta
      BY <1>5, <2>2, <1>j DEF ReadRows, TypeOK, Job
    <3>2. Even(r)'
      BY <3>1, EvenIs DEF Even
    <3> QED BY <3>2, <1>1
  <2> QED BY <2>1, <2>2
<1> QED BY <1>2, <1>3, <1>4, <1>5 DEF Step

\* Balances and receipts that are not touched add up as before.
LEMMA ConservedKept ==
  ASSUME NEW p \in Products, Conserved(p), reset \subseteq reset',
         UnitsOf(p) \cap reset' = {} => \A x \in UnitsOf(p) :
           Quantity(x)' = Quantity(x) /\ Received(x)' = Received(x)
  PROVE  Conserved(p)'
<1>1. IsFiniteSet(UnitsOf(p)) /\ UnitsOf(p) \subseteq Rows
  BY UnitsFinite
<1>2. SUFFICES ASSUME UnitsOf(p) \cap reset' = {}
               PROVE  SumOver(Balances', UnitsOf(p)) = SumOver(Receipts', UnitsOf(p))
  BY ConservedIs
<1>3. \A x \in UnitsOf(p) : Balances[x] = Balances'[x] /\ Receipts[x] = Receipts'[x]
  BY <1>1, <1>2 DEF Balances, Receipts
<1>4. /\ SumOver(Balances, UnitsOf(p)) = SumOver(Balances', UnitsOf(p))
      /\ SumOver(Receipts, UnitsOf(p)) = SumOver(Receipts', UnitsOf(p))
  BY <1>1, <1>3, SumSame
<1>5. SumOver(Balances, UnitsOf(p)) = SumOver(Receipts, UnitsOf(p))
  BY <1>2 DEF Conserved
<1> QED BY <1>4, <1>5

\* A commit adds to the balances what it records, or what is even.
LEMMA CommitConserves ==
  ASSUME StockInv, TypeOK', \A w \in Requests : Even(w), NEW r \in Requests, Commit(r),
         NEW p \in Products, Conserved(p)
  PROVE  Conserved(p)'
<1> USE DEF StockInv
<1> DEFINE d == job[r].delta
           e == [x \in Rows |-> IF job[r].kind = "transfer" THEN 0 ELSE d[x]]
<1>1. IsFiniteSet(UnitsOf(p)) /\ UnitsOf(p) \subseteq Rows
  BY UnitsFinite
<1>2. d \in [Rows -> Int] /\ e \in [Rows -> Int]
  BY DEF TypeOK, Job
<1>3. ASSUME NEW x \in Rows
      PROVE  /\ Balances'[x] = Balances[x] + d[x]
             /\ Receipts'[x] = Receipts[x] + e[x]
             /\ Balances[x] \in Int /\ Receipts[x] \in Int
  <2>1. /\ Balances[x] = Quantity(x) /\ Balances'[x] = Quantity(x)'
        /\ Receipts[x] = Total(ledger[x]) /\ Receipts'[x] = Total(ledger'[x])
    BY ReceivedIs DEF Balances, Receipts
  <2>2. Quantity(x) \in Int /\ ledger[x] \in Seq(Movement) /\ Total(ledger[x]) \in Int
    BY QuantityType, TotalType, StockAssumption DEF TypeOK
  <2>3. CASE x \notin Touched(job[r].delta)
    <3>1. d[x] = 0 /\ e[x] = 0 /\ Quantity(x)' = Quantity(x) /\ ledger'[x] = ledger[x]
      BY <2>3 DEF Touched, Commit, Quantity
    <3> HIDE DEF d, e
    <3> QED BY <2>1, <2>2, <3>1
  <2>4. CASE x \in Touched(job[r].delta)
    <3> DEFINE mv == MovementOf(r, x)
    <3>1. /\ job[r].read[x] = Quantity(x)
          /\ Balance(r, x) \in 0 .. MaxStock
      BY <2>4 DEF Commit, RequestInv, Balance
    <3>2. Balance(r, x) \in Nat /\ Balance(r, x) # None
      BY <3>1, StockAssumption
    <3>3. Quantity(x)' = Balance(r, x) /\ ledger'[x] = Append(ledger[x], mv)
      BY <2>4, <3>2 DEF Commit, Quantity
    <3>4. mv \in Movement
      <4>1. job[r].read[x] \in Nat
        BY <3>1, QuantityType, StockAssumption
      <4>2. /\ job[r].kind \in Kinds /\ job[r].want \in Nat \cup {None} /\ job[r].since \in Nat
        BY DEF TypeOK, Job
      <4> QED BY <4>1, <4>2, <3>2 DEF MovementOf, Movement
    <3>5. Added(mv) = e[x]
      <4>1. mv.kind = job[r].kind /\ mv.previous = Quantity(x)
            /\ mv.resulting = Quantity(x) + d[x]
        BY <3>1 DEF MovementOf, Balance
      <4>2. d[x] \in Int /\ Quantity(x) \in Int
        BY <1>2, <2>2
      <4> HIDE DEF mv, d
      <4> QED BY <4>1, <4>2 DEF Added
    <3>6. Balance(r, x) = Quantity(x) + d[x]
      BY <3>1 DEF Balance
    <3> HIDE DEF mv, d, e
    <3>7. Total(ledger'[x]) = Total(ledger[x]) + Added(mv)
      BY <2>2, <3>3, <3>4, TotalAppend
    <3> QED BY <2>1, <2>2, <3>3, <3>5, <3>6, <3>7
  <2> QED BY <2>3, <2>4
<1>4. SUFFICES ASSUME UnitsOf(p) \cap reset = {}
               PROVE  SumOver(Balances', UnitsOf(p)) = SumOver(Receipts', UnitsOf(p))
  BY ConservedIs DEF Commit
<1>5. SumOver(d, UnitsOf(p)) = SumOver(e, UnitsOf(p))
  <2>1. CASE job[r].kind = "transfer"
    <3>1. SumOver(d, UnitsOf(p)) = 0
      BY <2>1 DEF Even
    <3>2. \A x \in UnitsOf(p) : e[x] = 0
      BY <1>1, <2>1
    <3> HIDE DEF e
    <3>3. SumOver(e, UnitsOf(p)) = 0
      BY <1>1, <3>2, SumZero
    <3> QED BY <3>1, <3>3
  <2>2. CASE job[r].kind # "transfer"
    <3>1. \A x \in UnitsOf(p) : d[x] = e[x]
      BY <1>1, <2>2
    <3> HIDE DEF d, e
    <3> QED BY <1>1, <3>1, SumSame
  <2> QED BY <2>1, <2>2
<1> HIDE DEF d, e
<1>6. /\ \A x \in UnitsOf(p) : /\ Balances[x] \in Int /\ d[x] \in Int
                               /\ Balances'[x] = Balances[x] + d[x]
      /\ \A x \in UnitsOf(p) : /\ Receipts[x] \in Int /\ e[x] \in Int
                               /\ Receipts'[x] = Receipts[x] + e[x]
  BY <1>1, <1>2, <1>3
<1>7. SumOver(Balances', UnitsOf(p)) = SumOver(Balances, UnitsOf(p)) + SumOver(d, UnitsOf(p))
  BY <1>1, <1>6, SumPlus
<1>8. SumOver(Receipts', UnitsOf(p)) = SumOver(Receipts, UnitsOf(p)) + SumOver(e, UnitsOf(p))
  BY <1>1, <1>6, SumPlus
<1>9. SumOver(Balances, UnitsOf(p)) = SumOver(Receipts, UnitsOf(p))
  BY <1>4 DEF Conserved
<1> QED BY <1>5, <1>7, <1>8, <1>9

\* Every step keeps the units of every product.
LEMMA ConserveStep ==
  ASSUME StockInv, TypeOK', ConserveInv, [Next]_vars
  PROVE  ConserveInv'
<1> USE DEF ConserveInv
<1>0. ASSUME NEW x PROVE UNCHANGED <<stock, ledger>> =>
        Quantity(x)' = Quantity(x) /\ Received(x)' = Received(x)
  BY ReceivedIs DEF Quantity
<1>1. CASE UNCHANGED vars
  <2>1. ASSUME NEW w \in Requests PROVE Even(w)'
    BY <1>1, EvenIs DEF Even, vars
  <2>2. ASSUME NEW p \in Products PROVE Conserved(p)'
    <3>1. UNCHANGED <<stock, ledger>> /\ reset' = reset
      BY <1>1 DEF vars
    <3> QED BY <3>1, <1>0, ConservedKept
  <2> QED BY <2>1, <2>2
<1>2. ASSUME NEW r \in Requests, Step(r) PROVE ConserveInv'
  <2>1. \A w \in Requests : Even(w)'
    BY <1>2, EvenStep
  <2>2. ASSUME NEW p \in Products PROVE Conserved(p)'
    <3>1. CASE UNCHANGED <<stock, ledger, reset>>
      BY <3>1, <1>0, ConservedKept
    <3>2. CASE Commit(r)
      BY <3>2, CommitConserves
    <3>3. CASE UpsertCreate(r)
      <4>1. \A x \in Rows : Quantity(x)' = Quantity(x)
        BY <3>3 DEF UpsertCreate, Quantity, StockInv, TypeOK
      <4>2. ledger' = ledger /\ reset' = reset
        BY <3>3 DEF UpsertCreate
      <4>3. \A x : Received(x)' = Received(x)
        BY <4>2, ReceivedIs
      <4> QED BY <4>1, <4>2, <4>3, UnitsFinite, ConservedKept
    <3>4. CASE UpsertOverwrite(r)
      <4>1. \A x \in Rows \ reset' : Quantity(x)' = Quantity(x)
        BY <3>4 DEF UpsertOverwrite, Quantity
      <4>2. ledger' = ledger /\ reset \subseteq reset'
        BY <3>4 DEF UpsertOverwrite
      <4>3. \A x : Received(x)' = Received(x)
        BY <4>2, ReceivedIs
      <4> QED BY <4>1, <4>2, <4>3, UnitsFinite, ConservedKept
    <3>5. \/ UNCHANGED <<stock, ledger, reset>>
          \/ Commit(r) \/ UpsertCreate(r) \/ UpsertOverwrite(r)
      BY <1>2 DEF Step, StartMove, StartTransfer, StartSale, StartSet, StartUpsert,
             UpsertRead, EnsureFound, EnsureMissing, InsertRow, LockRow, ReadRows, Release,
           Rollback
    <3> QED BY <3>1, <3>2, <3>3, <3>4, <3>5
  <2> QED BY <2>1, <2>2
<1> QED BY <1>1, <1>2 DEF Next

(***************************************************************************)
(* A transfer neither makes nor loses units of a product, whatever else    *)
(* moves at the same time (stock-movement.repository.ts, transfer): every  *)
(* commit adds to the balances what it records, and a transfer adds        *)
(* nothing over all the units.                                             *)
(***************************************************************************)
THEOREM TransfersAreEven == Spec => []TransfersConserve
<1>1. Init => ConserveInv
  <2> SUFFICES ASSUME Init PROVE ConserveInv
    OBVIOUS
  <2>1. \A r \in Requests : Even(r)
    BY DEF Init, Even, NoJob
  <2>2. ASSUME NEW p \in Products PROVE Conserved(p)
    <3>1. IsFiniteSet(UnitsOf(p)) /\ UnitsOf(p) \subseteq Rows
      BY UnitsFinite
    <3>2. Total(<<>>) = 0
      <4>1. Total(<<>>) = SumOver([i \in DOMAIN <<>> |-> Added(<<>>[i])], DOMAIN <<>>)
        BY TotalIs
      <4>2. DOMAIN <<>> = {}
        OBVIOUS
      <4> QED BY <4>1, <4>2, SumNothing
    <3>3. \A x \in UnitsOf(p) : Balances[x] = 0 /\ Receipts[x] = 0
      BY <3>1, <3>2, ReceivedIs DEF Init, Balances, Receipts, Quantity
    <3>4. SumOver(Balances, UnitsOf(p)) = 0 /\ SumOver(Receipts, UnitsOf(p)) = 0
      BY <3>1, <3>3, SumZero
    <3> QED BY <3>4 DEF Conserved
  <2> QED BY <2>1, <2>2 DEF ConserveInv
<1>2. StockInv /\ StockInv' /\ ConserveInv /\ [Next]_vars => ConserveInv'
  BY ConserveStep DEF StockInv
<1>3. ConserveInv => TransfersConserve
  BY QuantitiesAre, ReceiptsAre DEF ConserveInv, Conserved, TransfersConserve, UnitsOf
<1> QED BY <1>1, <1>2, <1>3, StockInvariant, PTL DEF Spec
=============================================================================
