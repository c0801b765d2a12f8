--------------------------- MODULE PaymentsProofs ---------------------------
(***************************************************************************)
(* Proofs about CashRegister and Payments for any number of registers,     *)
(* requests and payments and any amounts: what the registers keep, that    *)
(* payments are movements like any other, what is left of a canceled       *)
(* payment, and that what is paid keeps to the price.                      *)
(***************************************************************************)
EXTENDS Payments, Sums, TLAPS

\* Without overlapping openings, an opening runs only while nothing is open
OpenInv ==
  \/ contested
  \/ /\ \A c, d \in Registers : register[c] = "OPEN" /\ register[d] = "OPEN" => c = d
     /\ \A a, b \in Requests : Opening(a) /\ Opening(b) => a = b
     /\ \A a \in Requests : Opening(a) => NoneOpen

\* Without overlap, c gets no movement between the sum and the end of time
CloseInv(c) ==
  /\ \A a, b \in Requests : ~(In(a, {"sum", "close"}, c) /\ In(b, {"move"}, c))
  /\ \A a \in Requests : In(a, {"close"}, c) => visit[a].amount = balance[c]
  /\ register[c] = "CLOSED" =>
       closing[c] = balance[c] /\ \A b \in Requests : ~In(b, {"move"}, c)

\* Movements are on their way to registers that exist
MoveInv ==
  \A a \in Requests, c \in Registers : In(a, {"move"}, c) => register[c] # "none"

CashInv ==
  /\ CashTypeOK
  /\ OpenInv
  /\ MoveInv
  /\ \A c \in Registers \ overlapped : CloseInv(c)

-----------------------------------------------------------------------------
\* The kinds of operations are told apart by `op`.
LEMMA VisitType ==
  /\ Away \in Visit /\ Away.op = "none"
  /\ [op |-> "open"] \in Visit
  /\ \A v \in Visit :
       /\ v.op \in Ops
       /\ v.op = "none" => v = Away
       /\ v.op = "sum" => v.register \in Registers
       /\ v.op \in {"close", "move"} => v.register \in Registers /\ v.amount \in Int
BY DEF Visit, Away, Ops

LEMMA CashInitInv == CashInit => CashInv
<1> SUFFICES ASSUME CashInit PROVE CashInv
  OBVIOUS
<1>1. CashTypeOK
  <2>1. visit \in [Requests -> Visit]
    <3>1. Away \in Visit
      BY VisitType
    <3> QED BY <3>1 DEF CashInit
  <2>2. register \in [Registers -> {"none", "OPEN", "CLOSED"}]
    BY DEF CashInit
  <2>3. balance \in [Registers -> Int] /\ closing \in [Registers -> Nat]
    BY DEF CashInit
  <2>4. contested \in BOOLEAN /\ overlapped \subseteq Registers
    BY DEF CashInit
  <2> QED BY <2>1, <2>2, <2>3, <2>4 DEF CashTypeOK
<1>2. \A a \in Requests : visit[a].op = "none"
  BY VisitType DEF CashInit
<1>3. OpenInv
  BY <1>2 DEF OpenInv, Opening, CashInit
<1>4. \A c \in Registers : CloseInv(c)
  BY <1>2 DEF CloseInv, In, CashInit
<1>5. MoveInv
  BY <1>2 DEF MoveInv, In
<1> QED BY <1>1, <1>3, <1>4, <1>5 DEF CashInv

\* What a request does to the registers keeps their types.
LEMMA CashTypeStep ==
  ASSUME CashTypeOK, [CashNext]_cashVars
  PROVE  CashTypeOK'
<1> USE DEF CashTypeOK
<1>1. CASE UNCHANGED cashVars
  BY <1>1 DEF cashVars
<1>2. ASSUME NEW a \in Requests, Desk(a) PROVE CashTypeOK'
  <2>0. visit[a] \in Visit
    OBVIOUS
  <2>1. CASE StartOpen(a)
    BY <2>1, VisitType DEF StartOpen, Enter
  <2>2. CASE Open(a)
    BY <2>2, VisitType DEF Open, Leave
  <2>3. CASE StartClose(a)
    <3> PICK c \in Registers : visit' = [visit EXCEPT ![a] = [op |-> "sum", register |-> c]]
      BY <2>3 DEF StartClose, Enter
    <3>1. [op |-> "sum", register |-> c] \in Visit
      BY DEF Visit
    <3> QED BY <2>3, <3>1 DEF StartClose
  <2>4. CASE SumUp(a)
    <3> PICK c \in Registers :
          visit' = [visit EXCEPT ![a] = [op |-> "close", register |-> c, amount |-> balance[c]]]
      BY <2>4 DEF SumUp
    <3>1. [op |-> "close", register |-> c, amount |-> balance[c]] \in Visit
      BY DEF Visit
    <3> QED BY <2>4, <3>1 DEF SumUp
  <2>5. CASE Close(a)
    BY <2>0, <2>5, VisitType DEF Close, Leave, In
  <2>6. ASSUME NEW c \in Registers, NEW n \in Amounts, Approach(a, c, n) PROVE CashTypeOK'
    <3>1. [op |-> "move", register |-> c, amount |-> n] \in Visit
      BY CashAssumption DEF Visit
    <3> QED BY <2>6, <3>1 DEF Approach, Enter
  <2>7. ASSUME NEW c \in Registers, Move(a, c) PROVE CashTypeOK'
    BY <2>0, <2>7, VisitType DEF Move, Leave, In
  <2>8. CASE GiveUp(a)
    BY <2>8, VisitType DEF GiveUp, Leave
  <2> QED BY <1>2, <2>1, <2>2, <2>3, <2>4, <2>5, <2>6, <2>7, <2>8 DEF Desk
<1> QED BY <1>1, <1>2 DEF CashNext

\* A request that leaves, or sums up, starts no opening and no movement.
LEMMA CashStep ==
  ASSUME CashInv, NEW a \in Requests, Desk(a)
  PROVE  OpenInv' /\ \A c \in Registers \ overlapped' : CloseInv(c)'
<1> USE DEF CashInv
<1>t. CashTypeOK /\ visit \in [Requests -> Visit] /\ visit[a] \in Visit
  BY DEF CashTypeOK
<1>1. CASE StartOpen(a)
  <2>1. /\ visit' = [visit EXCEPT ![a] = [op |-> "open"]]
        /\ UNCHANGED <<register, balance, closing, overlapped>>
        /\ NoneOpen
    BY <1>1 DEF StartOpen, Enter
  <2>2. OpenInv'
    BY <1>t, <1>1, <2>1 DEF OpenInv, StartOpen, Opening, NoneOpen
  <2>3. \A c \in Registers \ overlapped' : CloseInv(c)'
    BY <1>t, <2>1 DEF CloseInv, In
  <2> QED BY <2>2, <2>3
<1>2. CASE Open(a)
  <2>1. PICK d \in Registers :
          register[d] = "none" /\ register' = [register EXCEPT ![d] = "OPEN"]
    BY <1>2 DEF Open
  <2>2. /\ visit' = [visit EXCEPT ![a] = Away]
        /\ UNCHANGED <<balance, closing, contested, overlapped>>
        /\ Opening(a)
    BY <1>2 DEF Open, Leave
  <2>3. register \in [Registers -> {"none", "OPEN", "CLOSED"}]
    BY <1>t DEF CashTypeOK
  <2>4. OpenInv'
    BY <1>t, <2>1, <2>2, <2>3, VisitType DEF OpenInv, Opening, NoneOpen
  <2>5. \A c \in Registers \ overlapped' : CloseInv(c)'
    BY <1>t, <2>1, <2>2, <2>3, VisitType DEF CloseInv, In
  <2> QED BY <2>4, <2>5
<1>3. CASE StartClose(a)
  <2>1. PICK d \in Registers :
          /\ register[d] = "OPEN"
          /\ visit' = [visit EXCEPT ![a] = [op |-> "sum", register |-> d]]
          /\ overlapped' = overlapped \cup (IF Moving(d) THEN {d} ELSE {})
    BY <1>3 DEF StartClose, Enter
  <2>2. UNCHANGED <<register, balance, closing, contested>>
    BY <1>3 DEF StartClose
  <2>3. OpenInv'
    BY <1>t, <2>1, <2>2 DEF OpenInv, Opening, NoneOpen
  <2>4. ASSUME NEW c \in Registers \ overlapped' PROVE CloseInv(c)'
    <3>1. c \notin overlapped /\ (c = d => ~Moving(c))
      BY <2>1, <2>4
    <3> QED BY <1>t, <2>1, <2>2, <3>1 DEF CloseInv, In, Moving
  <2> QED BY <2>3, <2>4
<1>4. CASE SumUp(a)
  <2>1. PICK d \in Registers :
          /\ In(a, {"sum"}, d)
          /\ visit' = [visit EXCEPT ![a] =
                         [op |-> "close", register |-> d, amount |-> balance[d]]]
    BY <1>4 DEF SumUp
  <2>2. UNCHANGED <<register, balance, closing, contested, overlapped>>
    BY <1>4 DEF SumUp
  <2>3. OpenInv'
    BY <1>t, <2>1, <2>2 DEF OpenInv, Opening, NoneOpen
  <2>4. \A c \in Registers \ overlapped' : CloseInv(c)'
    BY <1>t, <2>1, <2>2 DEF CloseInv, In
  <2> QED BY <2>3, <2>4
<1>5. CASE Close(a)
  <2>1. PICK d \in Registers :
          /\ In(a, {"close"}, d)
          /\ register' = [register EXCEPT ![d] = "CLOSED"]
          /\ closing' = [closing EXCEPT ![d] = visit[a].amount]
    BY <1>5 DEF Close
  <2>2. /\ visit' = [visit EXCEPT ![a] = Away]
        /\ UNCHANGED <<balance, contested, overlapped>>
    BY <1>5 DEF Close, Leave
  <2>3. /\ register \in [Registers -> {"none", "OPEN", "CLOSED"}]
        /\ closing \in [Registers -> Nat]
    BY <1>t DEF CashTypeOK
  <2>4. OpenInv'
    BY <1>t, <2>1, <2>2, <2>3, VisitType DEF OpenInv, Opening, NoneOpen
  <2>5. \A c \in Registers \ overlapped' : CloseInv(c)'
    BY <1>t, <2>1, <2>2, <2>3, VisitType DEF CloseInv, In
  <2> QED BY <2>4, <2>5
<1>6. ASSUME NEW d \in Registers, NEW n \in Amounts, Approach(a, d, n)
      PROVE  OpenInv' /\ \A c \in Registers \ overlapped' : CloseInv(c)'
  <2>1. /\ register[d] = "OPEN"
        /\ visit' = [visit EXCEPT ![a] = [op |-> "move", register |-> d, amount |-> n]]
        /\ overlapped' = overlapped \cup (IF Closing(d) THEN {d} ELSE {})
        /\ UNCHANGED <<register, balance, closing, contested>>
    BY <1>6 DEF Approach, Enter, TakesMovements
  <2>2. OpenInv'
    BY <1>t, <2>1 DEF OpenInv, Opening, NoneOpen
  <2>3. ASSUME NEW c \in Registers \ overlapped' PROVE CloseInv(c)'
    <3>1. c \notin overlapped /\ (c = d => ~Closing(c))
      BY <2>1, <2>3
    <3> QED BY <1>t, <2>1, <3>1 DEF CloseInv, In, Closing
  <2> QED BY <2>2, <2>3
<1>7. ASSUME NEW d \in Registers, Move(a, d)
      PROVE  OpenInv' /\ \A c \in Registers \ overlapped' : CloseInv(c)'
  <2>1. /\ In(a, {"move"}, d)
        /\ balance' = [balance EXCEPT ![d] = @ + visit[a].amount]
        /\ visit' = [visit EXCEPT ![a] = Away]
        /\ UNCHANGED <<register, closing, contested, overlapped>>
    BY <1>7 DEF Move, Leave
  <2>2. balance \in [Registers -> Int]
    BY <1>t DEF CashTypeOK
  <2>3. OpenInv'
    BY <1>t, <2>1, VisitType DEF OpenInv, Opening, NoneOpen
  <2>4. ASSUME NEW c \in Registers \ overlapped' PROVE CloseInv(c)'
    <3>1. CloseInv(c) /\ (c # d => balance'[c] = balance[c])
      BY <2>1, <2>2, <2>4
    <3>2. c = d => register[c] # "CLOSED" /\ \A b \in Requests : ~In(b, {"sum", "close"}, c)
      BY <2>1, <3>1 DEF CloseInv
    <3> QED BY <1>t, <2>1, <3>1, <3>2, VisitType DEF CloseInv, In
  <2> QED BY <2>3, <2>4
<1>8. CASE GiveUp(a)
  <2>1. /\ visit' = [visit EXCEPT ![a] = Away]
        /\ UNCHANGED <<register, balance, closing, contested, overlapped>>
    BY <1>8 DEF GiveUp, Leave
  <2>2. OpenInv'
    BY <1>t, <2>1, VisitType DEF OpenInv, Opening, NoneOpen
  <2>3. \A c \in Registers \ overlapped' : CloseInv(c)'
    BY <1>t, <2>1, VisitType DEF CloseInv, In
  <2> QED BY <2>2, <2>3
<1> QED BY <1>1, <1>2, <1>3, <1>4, <1>5, <1>6, <1>7, <1>8 DEF Desk

\* A register that exists keeps existing, and a closed one stays closed.
LEMMA RegisterStep ==
  ASSUME CashTypeOK, [CashNext]_cashVars, NEW c \in Registers
  PROVE  /\ register[c] # "none" => register'[c] # "none"
         /\ register[c] = "CLOSED" => register'[c] = "CLOSED"
<1>1. CASE UNCHANGED cashVars
  BY <1>1 DEF cashVars
<1>2. ASSUME NEW a \in Requests, Desk(a)
      PROVE  /\ register[c] # "none" => register'[c] # "none"
             /\ register[c] = "CLOSED" => register'[c] = "CLOSED"
  <2>1. CASE Open(a)
    BY <2>1 DEF Open, CashTypeOK
  <2>2. CASE Close(a)
    BY <2>2 DEF Close, CashTypeOK
  <2>3. CASE UNCHANGED register
    BY <2>3
  <2> QED BY <1>2, <2>1, <2>2, <2>3
          DEF Desk, StartOpen, StartClose, SumUp, Approach, Move, GiveUp
<1> QED BY <1>1, <1>2 DEF CashNext

LEMMA MoveStep ==
  ASSUME CashTypeOK, MoveInv, CashTypeOK', [CashNext]_cashVars
  PROVE  MoveInv'
<1> SUFFICES ASSUME NEW b \in Requests, NEW c \in Registers, In(b, {"move"}, c)'
             PROVE  register'[c] # "none"
  BY DEF MoveInv
<1>t. CashTypeOK /\ visit \in [Requests -> Visit]
  BY DEF CashTypeOK
<1>1. register[c] # "none" => register'[c] # "none"
  BY <1>t, RegisterStep
<1>2. CASE In(b, {"move"}, c)
  BY <1>1, <1>2 DEF MoveInv
<1>3. CASE ~In(b, {"move"}, c)
  <2>1. ~UNCHANGED cashVars
    BY <1>3 DEF cashVars, In
  <2>2. PICK a \in Requests : Desk(a)
    BY <2>1 DEF CashNext
  <2>3. ASSUME NEW d \in Registers, NEW n \in Amounts, Approach(a, d, n)
        PROVE  register'[c] # "none"
    <3>1. visit' = [visit EXCEPT ![a] = [op |-> "move", register |-> d, amount |-> n]]
      BY <2>3 DEF Approach, Enter
    <3>2. c = d
      BY <1>t, <1>3, <3>1 DEF In
    <3> QED BY <2>3, <3>2 DEF Approach, TakesMovements
  <2>4. ASSUME visit'[a].op # "move", \A q \in Requests \ {a} : visit'[q] = visit[q]
        PROVE  FALSE
    BY <1>3, <2>4 DEF In
  <2>5. \A q \in Requests \ {a} : visit'[q] = visit[q]
    BY <1>t, <2>2 DEF Desk, StartOpen, Open, StartClose, SumUp, Close, Approach, Move, GiveUp,
                      Enter, Leave
  <2>6. CASE StartOpen(a) \/ Open(a) \/ StartClose(a) \/ SumUp(a) \/ Close(a)
             \/ GiveUp(a) \/ \E d \in Registers : Move(a, d)
    <3>1. visit'[a].op # "move"
      BY <1>t, <2>6, VisitType DEF StartOpen, Open, StartClose, SumUp, Close, Move, GiveUp,
                                   Enter, Leave
    <3> QED BY <2>4, <2>5, <3>1
  <2> QED BY <2>2, <2>3, <2>6 DEF Desk
<1> QED BY <1>2, <1>3

\* The inductive invariant of the registers.
THEOREM CashInvariant == CashSpec => []CashInv
<1>1. CashInv /\ [CashNext]_cashVars => CashInv'
  <2> SUFFICES ASSUME CashInv, [CashNext]_cashVars PROVE CashInv'
    OBVIOUS
  <2>0. CashTypeOK'
    BY CashTypeStep DEF CashInv
  <2>1. CASE UNCHANGED cashVars
    BY <2>0, <2>1 DEF cashVars, CashInv, OpenInv, MoveInv, CloseInv, Opening, NoneOpen, In
  <2>2. CASE CashNext
    BY <2>0, <2>2, CashStep, MoveStep DEF CashNext, CashInv
  <2> QED BY <2>1, <2>2
<1> QED BY <1>1, CashInitInv, PTL DEF CashSpec

\* cash-register.service.ts open: one open register a unit, unless openings
\* overlapped.
THEOREM OneRegisterIsOpen == CashSpec => []OneOpenRegister
<1>1. CashInv => OneOpenRegister
  BY DEF CashInv, OpenInv, OneOpenRegister
<1> QED BY <1>1, CashInvariant, PTL

\* cash-register.service.ts close: the closing balance is, and stays, the sum of
\* the movements, unless one of them overlapped the closing.
THEOREM ClosingStaysTheSum == CashSpec => []ClosingIsTheSum
<1>1. CashInv => ClosingIsTheSum
  BY DEF CashInv, CloseInv, ClosingIsTheSum
<1> QED BY <1>1, CashInvariant, PTL

-----------------------------------------------------------------------------
(***************************************************************************)
(* Payments                                                                *)
(***************************************************************************)
\* The steps behind the status change of a cancellation
Undoing == Canceling \ {"cancel"}

\* How far the request r is says how far its payment is
StageInv(r) ==
  LET p == subject[r]
  IN  /\ pc[r] = "insert" => status[p] = "none" /\ amount[p] # 0
      /\ pc[r] \in Registering \ {"insert"} => status[p] # "none"
      /\ pc[r] = "cancel" => status[p] # "none"
      /\ pc[r] \in Undoing => status[p] = "CANCELED"
      /\ pc[r] = "credit" /\ status[p] = "PAID" => commission[p] = "ACTIVE"

AloneInv ==
  \A r, q \in Requests :
    pc[r] \in Registering /\ pc[q] \in Registering /\ subject[r] = subject[q] => r = q

\* Movements of payments are in registers that exist
EntryInv == \A p \in Ids : entry[p] # None => register[entry[p]] # "none"

\* Whoever cancels p, unless it crossed the registration, cancels it alone
CrossInv(p) ==
  status[p] = "CANCELED" \/ Busy(Canceling, p) => ~Busy(Registering, p)

\* What a cancellation has still to undo, it is on its way to
UndoInv(p) ==
  status[p] = "CANCELED" =>
    /\ Reversible(p) /\ reversals[p] = 0 => Busy({"findEntry", "cashOut"}, p)
    /\ commission[p] = "ACTIVE" => Busy({"findEntry", "cashOut", "cancelCommission"}, p)
    /\ credit[p] = "OPEN" => Busy(Undoing, p)

\* A payment that was not found PAID twice has one cancellation, which reverses once
DoubleInv(p) ==
  /\ \A r, q \in Requests : At(r, Canceling, p) /\ At(q, Canceling, p) => r = q
  /\ Busy({"cancel", "findEntry", "cashOut"}, p) => reversals[p] = 0
  /\ reversals[p] <= 1

RestInv ==
  /\ \A r \in Requests : StageInv(r)
  /\ AloneInv
  /\ EntryInv
  /\ PaidIsComplete
  /\ \A p \in Ids \ crossed : CrossInv(p)
  /\ \A p \in Ids \ (broken \cup crossed) : UndoInv(p)
  /\ \A p \in Ids : reversals[p] > 0 => status[p] = "CANCELED"
  /\ \A p \in Ids \ doubled : DoubleInv(p)

PaymentsInv == TypeOK /\ MoveInv /\ RestInv

-----------------------------------------------------------------------------
\* What a request does to the registers, the desk could do as well.
LEMMA StepIsCash ==
  ASSUME TypeOK, \A r \in Requests : StageInv(r), [Next]_vars
  PROVE  [CashNext]_cashVars
<1>1. CASE UNCHANGED vars
  BY <1>1 DEF vars
<1>2. ASSUME NEW r \in Requests, CreateStep(r) \/ CancelStep(r) \/ Fail(r) \/ DeskStep(r)
      PROVE  [CashNext]_cashVars
  <2>1. CASE FindRegister(r)
    <3>1. pc[r] = "findRegister" /\ subject[r] \in Ids /\ StageInv(r)
      BY <2>1 DEF FindRegister, TypeOK
    <3>2. amount[subject[r]] \in Cents
      BY <3>1 DEF StageInv, Registering, TypeOK
    <3>3. amount[subject[r]] \in Amounts
      BY <3>2, PaymentsAssumption
    <3> QED BY <2>1, <3>3 DEF FindRegister, CashNext, Desk
  <2>2. CASE FindEntry(r)
    <3>0. pc[r] = "findEntry" /\ subject[r] \in Ids /\ StageInv(r)
      BY <2>2 DEF FindEntry, TypeOK
    <3>1. amount[subject[r]] \in Cents
      BY <3>0 DEF StageInv, Undoing, Canceling, TypeOK
    <3>2. -amount[subject[r]] \in Amounts
      BY <3>1, PaymentsAssumption
    <3>3. Reversible(subject[r]) => entry[subject[r]] \in Registers
      BY <2>2 DEF Reversible, FindEntry, TypeOK
    <3> QED BY <2>2, <3>2, <3>3 DEF FindEntry, CashNext, Desk
  <2>3. CASE CashIn(r) \/ CashOut(r)
    BY <2>3 DEF CashIn, CashOut, CashNext, Desk
  <2>4. CASE Fail(r)
    BY <2>4 DEF Fail, CashNext, Desk
  <2>5. CASE DeskStep(r)
    BY <2>5 DEF DeskStep, CashNext
  <2>6. CASE UNCHANGED cashVars
    BY <2>6
  <2> QED BY <1>2, <2>1, <2>2, <2>3, <2>4, <2>5, <2>6
          DEF CreateStep, CancelStep, StartCreate, Insert, RecordCommission, RecordCredit,
              StartCancel, Cancel, CancelCommission, ReverseCredit
<1> QED BY <1>1, <1>2 DEF Next

LEMMA PhaseType ==
  /\ Registering \subseteq Phases /\ Canceling \subseteq Phases /\ "idle" \in Phases
  /\ "idle" \notin Registering /\ "idle" \notin Canceling
  /\ \A f \in Registering : f \notin Canceling
BY DEF Registering, Canceling, Phases

LEMMA TypeStep ==
  ASSUME TypeOK, \A r \in Requests : StageInv(r), [Next]_vars
  PROVE  TypeOK'
<1>c. CashTypeOK'
  BY StepIsCash, CashTypeStep DEF TypeOK
<1>1. CASE UNCHANGED vars
  BY <1>c, <1>1 DEF vars, paymentVars, historyVars, TypeOK
<1>2. ASSUME NEW r \in Requests, CreateStep(r) \/ CancelStep(r) \/ Fail(r) \/ DeskStep(r)
      PROVE  TypeOK'
  <2> USE DEF TypeOK
  <2>s. pc[r] # "idle" => subject[r] \in Ids
    OBVIOUS
  <2>1. CASE StartCreate(r)
    <3> PICK p \in Ids, n \in Cents :
          /\ status[p] = "none"
          /\ Begin(r, p, "insert")
          /\ amount' = [amount EXCEPT ![p] = n]
      BY <2>1 DEF StartCreate, ValidAmount
    <3>1. p # None /\ n # 0
      BY PaymentsAssumption
    <3> QED BY <1>c, <2>1, <3>1, PhaseType DEF StartCreate, Begin, Registering
  <2>2. CASE Insert(r)
    <3>1. pc[r] = "insert" /\ amount[subject[r]] # 0
      BY <2>2 DEF Insert, StageInv
    <3>2. status' = [status EXCEPT ![subject[r]] = "PAID"] /\ UNCHANGED amount
      BY <2>2 DEF Insert
    <3>3. /\ status' \in [Ids -> {"none", "PAID", "CANCELED"}]
          /\ \A p \in Ids : status'[p] # "none" => amount'[p] # 0
      BY <3>1, <3>2
    <3>4. /\ pc' \in [Requests -> Phases]
          /\ \A q \in Requests : pc'[q] # "idle" => subject'[q] # None
      BY <2>2, PhaseType DEF Insert, Goto, Registering
    <3> QED BY <1>c, <2>2, <3>3, <3>4 DEF Insert, Goto, historyVars
  <2>3. CASE FindRegister(r)
    BY <1>c, <2>3, PhaseType DEF FindRegister, Goto, Registering, paymentVars, historyVars
  <2>4. CASE CashIn(r)
    BY <1>c, <2>4, PhaseType DEF CashIn, Goto, Registering, historyVars
  <2>5. CASE RecordCommission(r)
    BY <1>c, <2>5, PhaseType DEF RecordCommission, Goto, Registering, historyVars
  <2>6. CASE RecordCredit(r)
    BY <1>c, <2>6, PhaseType DEF RecordCredit, End, historyVars
  <2>7. CASE StartCancel(r)
    <3> PICK p \in Ids :
          /\ Begin(r, p, "cancel")
          /\ crossed' = crossed \cup (IF Busy(Registering, p) THEN {p} ELSE {})
          /\ doubled' = doubled \cup (IF Busy({"cancel"}, p) THEN {p} ELSE {})
      BY <2>7 DEF StartCancel
    <3>1. p # None
      BY PaymentsAssumption
    <3>2. crossed' \subseteq Ids /\ doubled' \subseteq Ids
      OBVIOUS
    <3> QED BY <1>c, <2>7, <3>1, <3>2, PhaseType DEF StartCancel, Begin, Canceling, paymentVars
  <2>8. CASE Cancel(r)
    <3>1. StageInv(r) /\ pc[r] = "cancel" /\ status[subject[r]] # "none"
      BY <2>8 DEF Cancel, StageInv
    <3> QED BY <1>c, <2>8, <2>s, <3>1, PhaseType DEF Cancel, Goto, Canceling, historyVars
  <2>9. CASE FindEntry(r)
    BY <1>c, <2>9, PhaseType DEF FindEntry, Goto, Canceling, paymentVars, historyVars
  <2>10. CASE CashOut(r)
    BY <1>c, <2>10, PhaseType DEF CashOut, Goto, Canceling, historyVars
  <2>11. CASE CancelCommission(r)
    BY <1>c, <2>11, PhaseType DEF CancelCommission, Goto, Canceling, historyVars
  <2>12. CASE ReverseCredit(r)
    BY <1>c, <2>12, PhaseType DEF ReverseCredit, End, historyVars
  <2>13. CASE Fail(r)
    BY <1>c, <2>13, <2>s, PhaseType DEF Fail, End, paymentVars
  <2>14. CASE DeskStep(r)
    BY <1>c, <2>14 DEF DeskStep, paymentVars, historyVars
  <2> QED BY <1>2, <2>1, <2>2, <2>3, <2>4, <2>5, <2>6, <2>7, <2>8, <2>9, <2>10, <2>11,
             <2>12, <2>13, <2>14 DEF CreateStep, CancelStep
<1> QED BY <1>1, <1>2 DEF Next

\* What each request does to its own payment keeps what is known of all of them.
LEMMA RequestStep ==
  ASSUME PaymentsInv, TypeOK', NEW r \in Requests, [Next]_vars,
         CreateStep(r) \/ CancelStep(r) \/ Fail(r)
  PROVE  RestInv'
<1> USE DEF PaymentsInv, RestInv
<1>t. /\ pc \in [Requests -> Phases] /\ subject \in [Requests -> Ids \cup {None}]
      /\ status \in [Ids -> {"none", "PAID", "CANCELED"}]
      /\ entry \in [Ids -> Registers \cup {None}] /\ reversals \in [Ids -> Nat]
      /\ commission \in [Ids -> {"none", "ACTIVE", "CANCELED"}]
      /\ credit \in [Ids -> {"none", "OPEN", "SPENT", "CLOSED"}]
      /\ None \notin Registers \cup Ids
  BY PaymentsAssumption DEF TypeOK
<1>s. pc[r] # "idle" => subject[r] \in Ids
  BY DEF TypeOK
<1>r. \A c \in Registers :
        /\ register[c] # "none" => register'[c] # "none"
        /\ register[c] = "CLOSED" => register'[c] = "CLOSED"
  BY StepIsCash, RegisterStep DEF TypeOK
<1>o. \A p \in Ids : entry'[p] = entry[p] /\ Reversible(p)' => Reversible(p)
  BY <1>t, <1>r DEF Reversible, EntryInv, TypeOK, CashTypeOK
<1>1. CASE Insert(r)
  <2>e. /\ pc[r] = "insert"
        /\ pc' = [pc EXCEPT ![r] = "findRegister"]
        /\ UNCHANGED subject
        /\ status' = [status EXCEPT ![subject[r]] = "PAID"]
        /\ UNCHANGED <<amount, entry, reversals, commission, credit, crowded, broken, crossed, doubled>>
    BY <1>t, <1>s, <1>1 DEF Insert, Goto, historyVars
  <2>a. \A q \in Requests : StageInv(q)'
    BY <1>t, <1>s, <2>e DEF StageInv, Registering, Undoing, Canceling, AloneInv
  <2>b. AloneInv'
    BY <1>t, <1>s, <2>e DEF AloneInv, Registering
  <2>c. EntryInv'
    BY <1>t, <1>s, <2>e, <1>r, <1>o DEF EntryInv
  <2>d. PaidIsComplete'
    BY <1>t, <1>s, <2>e DEF PaidIsComplete, Busy, At, Registering, StageInv
  <2>x. \A p \in Ids \ crossed' : CrossInv(p)'
    BY <1>t, <1>s, <2>e DEF CrossInv, Busy, At, Registering, Canceling
  <2>u. \A p \in Ids \ (broken' \cup crossed') : UndoInv(p)'
    BY <1>t, <1>s, <2>e, <1>r, <1>o DEF UndoInv, Busy, At, Undoing, Canceling
  <2>v. \A p \in Ids : reversals'[p] > 0 => status'[p] = "CANCELED"
    BY <1>t, <1>s, <2>e DEF StageInv, Undoing, Canceling
  <2>w. \A p \in Ids \ doubled' : DoubleInv(p)'
    BY <1>t, <1>s, <2>e DEF DoubleInv, Busy, At, Canceling
  <2> QED BY <2>a, <2>b, <2>c, <2>d, <2>x, <2>u, <2>v, <2>w
<1>2. CASE FindRegister(r)
  <2>e. /\ pc[r] = "findRegister"
        /\ pc' = [pc EXCEPT ![r] = "cashIn"] \/ pc' = [pc EXCEPT ![r] = "commission"]
        /\ UNCHANGED subject
        /\ UNCHANGED <<status, amount, entry, reversals, commission, credit, crowded, broken, crossed, doubled>>
    BY <1>t, <1>s, <1>2 DEF FindRegister, Goto, paymentVars, historyVars
  <2>a. \A q \in Requests : StageInv(q)'
    BY <1>t, <1>s, <2>e DEF StageInv, Registering, Undoing, Canceling
  <2>b. AloneInv'
    BY <1>t, <1>s, <2>e DEF AloneInv, Registering
  <2>c. EntryInv'
    BY <1>t, <1>s, <2>e, <1>r, <1>o DEF EntryInv
  <2>d. PaidIsComplete'
    BY <1>t, <1>s, <2>e DEF PaidIsComplete, Busy, At, Registering, StageInv
  <2>x. \A p \in Ids \ crossed' : CrossInv(p)'
    BY <1>t, <1>s, <2>e DEF CrossInv, Busy, At, Registering, Canceling
  <2>u. \A p \in Ids \ (broken' \cup crossed') : UndoInv(p)'
    BY <1>t, <1>s, <2>e, <1>r, <1>o DEF UndoInv, Busy, At, Undoing, Canceling
  <2>v. \A p \in Ids : reversals'[p] > 0 => status'[p] = "CANCELED"
    BY <1>t, <1>s, <2>e DEF StageInv, Undoing, Canceling
  <2>w. \A p \in Ids \ doubled' : DoubleInv(p)'
    BY <1>t, <1>s, <2>e DEF DoubleInv, Busy, At, Canceling
  <2> QED BY <2>a, <2>b, <2>c, <2>d, <2>x, <2>u, <2>v, <2>w
<1>3. CASE CashIn(r)
  <2>e. /\ pc[r] = "cashIn"
        /\ pc' = [pc EXCEPT ![r] = "commission"]
        /\ UNCHANGED subject
        /\ UNCHANGED <<status, amount, reversals, commission, credit, crowded, broken, crossed, doubled>>
    BY <1>t, <1>s, <1>3 DEF CashIn, Goto, historyVars
  <2>f. PICK c \in Registers : In(r, {"move"}, c) /\ entry' = [entry EXCEPT ![subject[r]] = c]
    BY <1>3 DEF CashIn, Move
  <2>g. subject[r] \notin crossed => status[subject[r]] # "CANCELED"
    BY <1>s, <2>e DEF CrossInv, Busy, At, Registering
  <2>a. \A q \in Requests : StageInv(q)'
    BY <1>t, <1>s, <2>e, <2>f DEF StageInv, Registering, Undoing, Canceling
  <2>b. AloneInv'
    BY <1>t, <1>s, <2>e, <2>f DEF AloneInv, Registering
  <2>c. EntryInv'
    BY <1>t, <1>s, <2>e, <2>f, <1>r, <1>o DEF EntryInv, MoveInv
  <2>d. PaidIsComplete'
    BY <1>t, <1>s, <2>e, <2>f DEF PaidIsComplete, Busy, At, Registering, StageInv
  <2>x. \A p \in Ids \ crossed' : CrossInv(p)'
    BY <1>t, <1>s, <2>e, <2>f DEF CrossInv, Busy, At, Registering, Canceling
  <2>u. \A p \in Ids \ (broken' \cup crossed') : UndoInv(p)'
    BY <1>t, <1>s, <2>e, <2>f, <1>r, <1>o, <2>g DEF UndoInv, Busy, At, Undoing, Canceling
  <2>v. \A p \in Ids : reversals'[p] > 0 => status'[p] = "CANCELED"
    BY <1>t, <1>s, <2>e, <2>f DEF StageInv, Undoing, Canceling
  <2>w. \A p \in Ids \ doubled' : DoubleInv(p)'
    BY <1>t, <1>s, <2>e, <2>f DEF DoubleInv, Busy, At, Canceling
  <2> QED BY <2>a, <2>b, <2>c, <2>d, <2>x, <2>u, <2>v, <2>w
<1>4. CASE RecordCommission(r)
  <2>e. /\ pc[r] = "commission"
        /\ pc' = [pc EXCEPT ![r] = "credit"]
        /\ UNCHANGED subject
        /\ commission' = [commission EXCEPT ![subject[r]] = "ACTIVE"]
        /\ UNCHANGED <<status, amount, entry, reversals, credit, crowded, broken, crossed, doubled>>
    BY <1>t, <1>s, <1>4 DEF RecordCommission, Goto, historyVars
  <2>g. subject[r] \notin crossed => status[subject[r]] # "CANCELED"
    BY <1>s, <2>e DEF CrossInv, Busy, At, Registering
  <2>a. \A q \in Requests : StageInv(q)'
    BY <1>t, <1>s, <2>e DEF StageInv, Registering, Undoing, Canceling
  <2>b. AloneInv'
    BY <1>t, <1>s, <2>e DEF AloneInv, Registering
  <2>c. EntryInv'
    BY <1>t, <1>s, <2>e, <1>r, <1>o DEF EntryInv
  <2>d. PaidIsComplete'
    BY <1>t, <1>s, <2>e DEF PaidIsComplete, Busy, At, Registering, StageInv
  <2>x. \A p \in Ids \ crossed' : CrossInv(p)'
    BY <1>t, <1>s, <2>e DEF CrossInv, Busy, At, Registering, Canceling
  <2>u. \A p \in Ids \ (broken' \cup crossed') : UndoInv(p)'
    BY <1>t, <1>s, <2>e, <1>r, <1>o, <2>g DEF UndoInv, Busy, At, Undoing, Canceling
  <2>v. \A p \in Ids : reversals'[p] > 0 => status'[p] = "CANCELED"
    BY <1>t, <1>s, <2>e DEF StageInv, Undoing, Canceling
  <2>w. \A p \in Ids \ doubled' : DoubleInv(p)'
    BY <1>t, <1>s, <2>e DEF DoubleInv, Busy, At, Canceling
  <2> QED BY <2>a, <2>b, <2>c, <2>d, <2>x, <2>u, <2>v, <2>w
<1>5. CASE RecordCredit(r)
  <2>e. /\ pc[r] = "credit"
        /\ pc' = [pc EXCEPT ![r] = "idle"]
        /\ subject' = [subject EXCEPT ![r] = None]
        /\ credit' = [credit EXCEPT ![subject[r]] = credit'[subject[r]]]
        /\ UNCHANGED <<status, amount, entry, reversals, commission, crowded, broken, crossed, doubled>>
    BY <1>t, <1>s, <1>5 DEF RecordCredit, End, historyVars
  <2>g. subject[r] \notin crossed => status[subject[r]] # "CANCELED"
    BY <1>s, <2>e DEF CrossInv, Busy, At, Registering
  <2>a. \A q \in Requests : StageInv(q)'
    BY <1>t, <1>s, <2>e DEF StageInv, Registering, Undoing, Canceling
  <2>b. AloneInv'
    BY <1>t, <1>s, <2>e DEF AloneInv, Registering
  <2>c. EntryInv'
    BY <1>t, <1>s, <2>e, <1>r, <1>o DEF EntryInv
  <2>d. PaidIsComplete'
    BY <1>t, <1>s, <2>e DEF PaidIsComplete, Busy, At, Registering, StageInv
  <2>x. \A p \in Ids \ crossed' : CrossInv(p)'
    BY <1>t, <1>s, <2>e DEF CrossInv, Busy, At, Registering, Canceling
  <2>u. \A p \in Ids \ (broken' \cup crossed') : UndoInv(p)'
    BY <1>t, <1>s, <2>e, <1>r, <1>o, <2>g DEF UndoInv, Busy, At, Undoing, Canceling
  <2>v. \A p \in Ids : reversals'[p] > 0 => status'[p] = "CANCELED"
    BY <1>t, <1>s, <2>e DEF StageInv, Undoing, Canceling
  <2>w. \A p \in Ids \ doubled' : DoubleInv(p)'
    BY <1>t, <1>s, <2>e DEF DoubleInv, Busy, At, Canceling
  <2> QED BY <2>a, <2>b, <2>c, <2>d, <2>x, <2>u, <2>v, <2>w
<1>6. CASE Cancel(r)
  <2>e. /\ pc[r] = "cancel"
        /\ pc' = [pc EXCEPT ![r] = "findEntry"]
        /\ UNCHANGED subject
        /\ status' = [status EXCEPT ![subject[r]] = "CANCELED"]
        /\ UNCHANGED <<amount, entry, reversals, commission, credit, crowded, broken, crossed, doubled>>
    BY <1>t, <1>s, <1>6 DEF Cancel, Goto, historyVars
  <2>a. \A q \in Requests : StageInv(q)'
    BY <1>t, <1>s, <2>e DEF StageInv, Registering, Undoing, Canceling
  <2>b. AloneInv'
    BY <1>t, <1>s, <2>e DEF AloneInv, Registering
  <2>c. EntryInv'
    BY <1>t, <1>s, <2>e, <1>r, <1>o DEF EntryInv
  <2>d. PaidIsComplete'
    BY <1>t, <1>s, <2>e DEF PaidIsComplete, Busy, At, Registering, StageInv
  <2>x. \A p \in Ids \ crossed' : CrossInv(p)'
    BY <1>t, <1>s, <2>e DEF CrossInv, Busy, At, Registering, Canceling
  <2>u. \A p \in Ids \ (broken' \cup crossed') : UndoInv(p)'
    BY <1>t, <1>s, <2>e, <1>r, <1>o DEF UndoInv, Busy, At, Undoing, Canceling
  <2>v. \A p \in Ids : reversals'[p] > 0 => status'[p] = "CANCELED"
    BY <1>t, <1>s, <2>e DEF StageInv, Undoing, Canceling
  <2>w. \A p \in Ids \ doubled' : DoubleInv(p)'
    BY <1>t, <1>s, <2>e DEF DoubleInv, Busy, At, Canceling
  <2> QED BY <2>a, <2>b, <2>c, <2>d, <2>x, <2>u, <2>v, <2>w
<1>7. CASE FindEntry(r)
  <2>e. /\ pc[r] = "findEntry"
        /\ \/ pc' = [pc EXCEPT ![r] = "cashOut"]
           \/ pc' = [pc EXCEPT ![r] = "cancelCommission"] /\ ~Reversible(subject[r])
        /\ UNCHANGED subject
        /\ UNCHANGED <<status, amount, entry, reversals, commission, credit, crowded, broken, crossed, doubled>>
    BY <1>t, <1>s, <1>7 DEF FindEntry, Goto, paymentVars, historyVars
  <2>a. \A q \in Requests : StageInv(q)'
    BY <1>t, <1>s, <2>e DEF StageInv, Registering, Undoing, Canceling
  <2>b. AloneInv'
    BY <1>t, <1>s, <2>e DEF AloneInv, Registering
  <2>c. EntryInv'
    BY <1>t, <1>s, <2>e, <1>r, <1>o DEF EntryInv
  <2>d. PaidIsComplete'
    BY <1>t, <1>s, <2>e DEF PaidIsComplete, Busy, At, Registering, StageInv
  <2>x. \A p \in Ids \ crossed' : CrossInv(p)'
    BY <1>t, <1>s, <2>e DEF CrossInv, Busy, At, Registering, Canceling
  <2>u. \A p \in Ids \ (broken' \cup crossed') : UndoInv(p)'
    BY <1>t, <1>s, <2>e, <1>r, <1>o DEF UndoInv, Busy, At, Undoing, Canceling
  <2>v. \A p \in Ids : reversals'[p] > 0 => status'[p] = "CANCELED"
    BY <1>t, <1>s, <2>e DEF StageInv, Undoing, Canceling
  <2>w. \A p \in Ids \ doubled' : DoubleInv(p)'
    BY <1>t, <1>s, <2>e DEF DoubleInv, Busy, At, Canceling
  <2> QED BY <2>a, <2>b, <2>c, <2>d, <2>x, <2>u, <2>v, <2>w
<1>8. CASE CashOut(r)
  <2>e. /\ pc[r] = "cashOut"
        /\ pc' = [pc EXCEPT ![r] = "cancelCommission"]
        /\ UNCHANGED subject
        /\ reversals' = [reversals EXCEPT ![subject[r]] = @ + 1]
        /\ UNCHANGED <<status, amount, entry, commission, credit, crowded, broken, crossed, doubled>>
    BY <1>t, <1>s, <1>8 DEF CashOut, Goto, historyVars
  <2>a. \A q \in Requests : StageInv(q)'
    BY <1>t, <1>s, <2>e DEF StageInv, Registering, Undoing, Canceling
  <2>b. AloneInv'
    BY <1>t, <1>s, <2>e DEF AloneInv, Registering
  <2>c. EntryInv'
    BY <1>t, <1>s, <2>e, <1>r, <1>o DEF EntryInv
  <2>d. PaidIsComplete'
    BY <1>t, <1>s, <2>e DEF PaidIsComplete, Busy, At, Registering, StageInv
  <2>x. \A p \in Ids \ crossed' : CrossInv(p)'
    BY <1>t, <1>s, <2>e DEF CrossInv, Busy, At, Registering, Canceling
  <2>u. \A p \in Ids \ (broken' \cup crossed') : UndoInv(p)'
    BY <1>t, <1>s, <2>e, <1>r, <1>o DEF UndoInv, Busy, At, Undoing, Canceling
  <2>v. \A p \in Ids : reversals'[p] > 0 => status'[p] = "CANCELED"
    BY <1>t, <1>s, <2>e DEF StageInv, Undoing, Canceling
  <2>w. \A p \in Ids \ doubled' : DoubleInv(p)'
    BY <1>t, <1>s, <2>e DEF DoubleInv, Busy, At, Canceling
  <2> QED BY <2>a, <2>b, <2>c, <2>d, <2>x, <2>u, <2>v, <2>w
<1>9. CASE CancelCommission(r)
  <2>e. /\ pc[r] = "cancelCommission"
        /\ pc' = [pc EXCEPT ![r] = "reverseCredit"]
        /\ UNCHANGED subject
        /\ commission' = [commission EXCEPT ![subject[r]] =
                            IF @ = "ACTIVE" THEN "CANCELED" ELSE @]
        /\ UNCHANGED <<status, amount, entry, reversals, credit, crowded, broken, crossed, doubled>>
    BY <1>t, <1>s, <1>9 DEF CancelCommission, Goto, historyVars
  <2>g. status[subject[r]] = "CANCELED"
    BY <2>e DEF StageInv, Undoing, Canceling
  <2>a. \A q \in Requests : StageInv(q)'
    BY <1>t, <1>s, <2>e DEF StageInv, Registering, Undoing, Canceling
  <2>b. AloneInv'
    BY <1>t, <1>s, <2>e DEF AloneInv, Registering
  <2>c. EntryInv'
    BY <1>t, <1>s, <2>e, <1>r, <1>o DEF EntryInv
  <2>d. PaidIsComplete'
    BY <1>t, <1>s, <2>e, <2>g DEF PaidIsComplete, Busy, At, Registering, StageInv
  <2>x. \A p \in Ids \ crossed' : CrossInv(p)'
    BY <1>t, <1>s, <2>e DEF CrossInv, Busy, At, Registering, Canceling
  <2>u. \A p \in Ids \ (broken' \cup crossed') : UndoInv(p)'
    BY <1>t, <1>s, <2>e, <1>r, <1>o DEF UndoInv, Busy, At, Undoing, Canceling
  <2>v. \A p \in Ids : reversals'[p] > 0 => status'[p] = "CANCELED"
    BY <1>t, <1>s, <2>e DEF StageInv, Undoing, Canceling
  <2>w. \A p \in Ids \ doubled' : DoubleInv(p)'
    BY <1>t, <1>s, <2>e DEF DoubleInv, Busy, At, Canceling
  <2> QED BY <2>a, <2>b, <2>c, <2>d, <2>x, <2>u, <2>v, <2>w
<1>10. CASE ReverseCredit(r)
  <2>e. /\ pc[r] = "reverseCredit"
        /\ pc' = [pc EXCEPT ![r] = "idle"]
        /\ subject' = [subject EXCEPT ![r] = None]
        /\ credit' = [credit EXCEPT ![subject[r]] = credit'[subject[r]]]
        /\ credit'[subject[r]] # "OPEN"
        /\ UNCHANGED <<status, amount, entry, reversals, commission, crowded, broken, crossed, doubled>>
    BY <1>t, <1>s, <1>10 DEF ReverseCredit, End, historyVars
  <2>a. \A q \in Requests : StageInv(q)'
    BY <1>t, <1>s, <2>e DEF StageInv, Registering, Undoing, Canceling
  <2>b. AloneInv'
    BY <1>t, <1>s, <2>e DEF AloneInv, Registering
  <2>c. EntryInv'
    BY <1>t, <1>s, <2>e, <1>r, <1>o DEF EntryInv
  <2>d. PaidIsComplete'
    BY <1>t, <1>s, <2>e DEF PaidIsComplete, Busy, At, Registering, StageInv
  <2>x. \A p \in Ids \ crossed' : CrossInv(p)'
    BY <1>t, <1>s, <2>e DEF CrossInv, Busy, At, Registering, Canceling
  <2>u. \A p \in Ids \ (broken' \cup crossed') : UndoInv(p)'
    BY <1>t, <1>s, <2>e, <1>r, <1>o DEF UndoInv, Busy, At, Undoing, Canceling
  <2>v. \A p \in Ids : reversals'[p] > 0 => status'[p] = "CANCELED"
    BY <1>t, <1>s, <2>e DEF StageInv, Undoing, Canceling
  <2>w. \A p \in Ids \ doubled' : DoubleInv(p)'
    BY <1>t, <1>s, <2>e DEF DoubleInv, Busy, At, Canceling
  <2> QED BY <2>a, <2>b, <2>c, <2>d, <2>x, <2>u, <2>v, <2>w
<1>11. CASE StartCreate(r)
  <2>e. PICK own \in Ids, n \in Cents :
          /\ pc[r] = "idle" /\ status[own] = "none" /\ ~Busy(Registering, own)
          /\ pc' = [pc EXCEPT ![r] = "insert"]
          /\ subject' = [subject EXCEPT ![r] = own]
          /\ amount' = [amount EXCEPT ![own] = n]
    BY <1>11 DEF StartCreate, Begin, ValidAmount
  <2>h. /\ UNCHANGED <<status, entry, reversals, commission, credit, broken, crossed, doubled>>
        /\ amount \in [Ids -> Cents \cup {0}] /\ n # 0
    BY <1>11, PaymentsAssumption DEF StartCreate, TypeOK
  <2>a. \A q \in Requests : StageInv(q)'
    BY <1>t, <1>s, <2>e, <2>h DEF StageInv, Registering, Undoing, Canceling, Busy, At
  <2>b. AloneInv'
    BY <1>t, <1>s, <2>e, <2>h DEF AloneInv, Registering, Busy, At
  <2>c. EntryInv'
    BY <1>t, <1>s, <2>e, <2>h, <1>r, <1>o DEF EntryInv
  <2>d. PaidIsComplete'
    BY <1>t, <1>s, <2>e, <2>h DEF PaidIsComplete, Busy, At, Registering, StageInv
  <2>x. \A p \in Ids \ crossed' : CrossInv(p)'
    BY <1>t, <1>s, <2>e, <2>h DEF CrossInv, Busy, At, Registering, Canceling, StageInv, Undoing
  <2>u. \A p \in Ids \ (broken' \cup crossed') : UndoInv(p)'
    BY <1>t, <1>s, <2>e, <2>h, <1>r, <1>o DEF UndoInv, Busy, At, Undoing, Canceling
  <2>v. \A p \in Ids : reversals'[p] > 0 => status'[p] = "CANCELED"
    BY <1>t, <1>s, <2>e, <2>h DEF StageInv, Undoing, Canceling
  <2>w. \A p \in Ids \ doubled' : DoubleInv(p)'
    BY <1>t, <1>s, <2>e, <2>h DEF DoubleInv, Busy, At, Canceling
  <2> QED BY <2>a, <2>b, <2>c, <2>d, <2>x, <2>u, <2>v, <2>w
<1>12. CASE StartCancel(r)
  <2>e. PICK own \in Ids :
          /\ pc[r] = "idle" /\ status[own] = "PAID"
          /\ pc' = [pc EXCEPT ![r] = "cancel"]
          /\ subject' = [subject EXCEPT ![r] = own]
          /\ crossed' = crossed \cup (IF Busy(Registering, own) THEN {own} ELSE {})
          /\ doubled' = doubled \cup (IF Busy({"cancel"}, own) THEN {own} ELSE {})
    BY <1>12 DEF StartCancel, Begin
  <2>h. UNCHANGED <<status, amount, entry, reversals, commission, credit, broken>>
    BY <1>12 DEF StartCancel, paymentVars
  <2>a. \A q \in Requests : StageInv(q)'
    BY <1>t, <1>s, <2>e, <2>h DEF StageInv, Registering, Undoing, Canceling
  <2>b. AloneInv'
    BY <1>t, <1>s, <2>e, <2>h DEF AloneInv, Registering
  <2>c. EntryInv'
    BY <1>t, <1>s, <2>e, <2>h, <1>r, <1>o DEF EntryInv
  <2>d. PaidIsComplete'
    BY <1>t, <1>s, <2>e, <2>h DEF PaidIsComplete, Busy, At, Registering, StageInv
  <2>x. \A p \in Ids \ crossed' : CrossInv(p)'
    BY <1>t, <1>s, <2>e, <2>h DEF CrossInv, Busy, At, Registering, Canceling
  <2>u. \A p \in Ids \ (broken' \cup crossed') : UndoInv(p)'
    BY <1>t, <1>s, <2>e, <2>h, <1>r, <1>o DEF UndoInv, Busy, At, Undoing, Canceling
  <2>v. \A p \in Ids : reversals'[p] > 0 => status'[p] = "CANCELED"
    BY <1>t, <1>s, <2>e, <2>h DEF StageInv, Undoing, Canceling
  <2>w. \A p \in Ids \ doubled' : DoubleInv(p)'
    BY <1>t, <1>s, <2>e, <2>h DEF DoubleInv, Busy, At, Canceling, StageInv, Undoing
  <2> QED BY <2>a, <2>b, <2>c, <2>d, <2>x, <2>u, <2>v, <2>w
<1>13. CASE Fail(r)
  <2>e. /\ pc[r] # "idle"
        /\ pc' = [pc EXCEPT ![r] = "idle"]
        /\ subject' = [subject EXCEPT ![r] = None]
        /\ broken' = broken \cup (IF pc[r] \in {"insert", "cancel"} THEN {} ELSE {subject[r]})
        /\ UNCHANGED <<status, amount, entry, reversals, commission, credit, crossed, doubled>>
    BY <1>13 DEF Fail, End, paymentVars
  <2>a. \A q \in Requests : StageInv(q)'
    BY <1>t, <1>s, <2>e DEF StageInv, Registering, Undoing, Canceling
  <2>b. AloneInv'
    BY <1>t, <1>s, <2>e DEF AloneInv, Registering
  <2>c. EntryInv'
    BY <1>t, <1>s, <2>e, <1>r, <1>o DEF EntryInv
  <2>d. PaidIsComplete'
    BY <1>t, <1>s, <2>e DEF PaidIsComplete, Busy, At, Registering, StageInv
  <2>x. \A p \in Ids \ crossed' : CrossInv(p)'
    BY <1>t, <1>s, <2>e DEF CrossInv, Busy, At, Registering, Canceling
  <2>u. \A p \in Ids \ (broken' \cup crossed') : UndoInv(p)'
    BY <1>t, <1>s, <2>e, <1>r, <1>o DEF UndoInv, Busy, At, Undoing, Canceling
  <2>v. \A p \in Ids : reversals'[p] > 0 => status'[p] = "CANCELED"
    BY <1>t, <1>s, <2>e DEF StageInv, Undoing, Canceling
  <2>w. \A p \in Ids \ doubled' : DoubleInv(p)'
    BY <1>t, <1>s, <2>e DEF DoubleInv, Busy, At, Canceling
  <2> QED BY <2>a, <2>b, <2>c, <2>d, <2>x, <2>u, <2>v, <2>w
<1> QED BY <1>1, <1>2, <1>3, <1>4, <1>5, <1>6, <1>7, <1>8, <1>9, <1>10, <1>11, <1>12, <1>13 DEF CreateStep, CancelStep

\* The desk and a stutter change no payment.
LEMMA DeskKeepsPayments ==
  ASSUME PaymentsInv, [Next]_vars, UNCHANGED <<paymentVars, pc, subject, historyVars>>
  PROVE  RestInv'
<1> USE DEF PaymentsInv, RestInv
<1>e. UNCHANGED <<status, amount, entry, reversals, commission, credit, pc, subject,
                  broken, crossed, doubled>>
  BY DEF paymentVars, historyVars
<1>r. \A c \in Registers :
        /\ register[c] # "none" => register'[c] # "none"
        /\ register[c] = "CLOSED" => register'[c] = "CLOSED"
  BY StepIsCash, RegisterStep DEF TypeOK
<1>o. \A p \in Ids : Reversible(p)' => Reversible(p)
  BY <1>e, <1>r DEF Reversible, EntryInv, TypeOK, CashTypeOK
<1>1. (\A q \in Requests : StageInv(q))' /\ AloneInv'
  BY <1>e DEF StageInv, AloneInv
<1>2. EntryInv'
  BY <1>e, <1>r DEF EntryInv, TypeOK
<1>3. PaidIsComplete'
  BY <1>e DEF PaidIsComplete, Busy, At
<1>4. /\ (\A p \in Ids \ crossed : CrossInv(p))'
      /\ (\A p \in Ids \ doubled : DoubleInv(p))'
      /\ (\A p \in Ids : reversals[p] > 0 => status[p] = "CANCELED")'
  BY <1>e DEF CrossInv, DoubleInv, Busy, At
<1>5. (\A p \in Ids \ (broken \cup crossed) : UndoInv(p))'
  BY <1>e, <1>o DEF UndoInv, Busy, At
<1> QED BY <1>1, <1>2, <1>3, <1>4, <1>5

LEMMA InitInv == Init => PaymentsInv
<1> SUFFICES ASSUME Init PROVE PaymentsInv
  OBVIOUS
<1>1. CashTypeOK /\ MoveInv
  BY CashInitInv DEF Init, CashInv
<1>2. TypeOK
  BY <1>1, PhaseType DEF Init, TypeOK
<1>3. RestInv
  BY DEF Init, RestInv, StageInv, Registering, Canceling, Undoing, AloneInv, EntryInv,
         PaidIsComplete, CrossInv, Busy, At, UndoInv, DoubleInv
<1> QED BY <1>1, <1>2, <1>3 DEF PaymentsInv

LEMMA NextInv == PaymentsInv /\ [Next]_vars => PaymentsInv'
<1> SUFFICES ASSUME PaymentsInv, [Next]_vars PROVE PaymentsInv'
  OBVIOUS
<1>0. TypeOK /\ MoveInv /\ \A r \in Requests : StageInv(r)
  BY DEF PaymentsInv, RestInv
<1>1. TypeOK' /\ [CashNext]_cashVars
  BY <1>0, TypeStep, StepIsCash
<1>2. MoveInv'
  BY <1>0, <1>1, MoveStep DEF TypeOK
<1>3. RestInv'
  <2>1. CASE UNCHANGED vars
    BY <2>1, DeskKeepsPayments DEF vars
  <2>2. ASSUME NEW r \in Requests, DeskStep(r) PROVE RestInv'
    BY <2>2, DeskKeepsPayments DEF DeskStep
  <2>3. ASSUME NEW r \in Requests, CreateStep(r) \/ CancelStep(r) \/ Fail(r) PROVE RestInv'
    BY <1>1, <2>3, RequestStep
  <2> QED BY <2>1, <2>2, <2>3 DEF Next
<1> QED BY <1>1, <1>2, <1>3 DEF PaymentsInv

-----------------------------------------------------------------------------
\* The inductive invariant of the payments.
THEOREM PaymentsInvariant == Spec => []PaymentsInv
BY InitInv, NextInv, PTL DEF Spec

\* Type correctness.
THEOREM PaymentsTypeOK == Spec => []TypeOK
<1>1. PaymentsInv => TypeOK
  BY DEF PaymentsInv
<1> QED BY <1>1, PaymentsInvariant, PTL

\* payment.service.ts create: a paid payment has its commission once its
\* registration is over, unless it was cut short.
THEOREM PaidStaysComplete == Spec => []PaidIsComplete
<1>1. PaymentsInv => PaidIsComplete
  BY DEF PaymentsInv, RestInv
<1> QED BY <1>1, PaymentsInvariant, PTL

\* payment.service.ts cancel: what a payment brought about is undone, unless the
\* cancellation was cut short or overtook the registration.
THEOREM CancelUndoesAll == Spec => []CancelUndoes
<1>1. PaymentsInv => CancelUndoes
  <2> SUFFICES ASSUME PaymentsInv, NEW p \in Ids \ (broken \cup crossed),
                      status[p] = "CANCELED", ~Busy(Canceling, p)
               PROVE  /\ commission[p] # "ACTIVE"
                      /\ credit[p] # "OPEN"
                      /\ Reversible(p) => reversals[p] > 0
    BY DEF CancelUndoes
  <2>1. UndoInv(p) /\ reversals[p] \in Nat
    BY DEF PaymentsInv, RestInv, TypeOK
  <2> QED BY <2>1 DEF UndoInv, Busy, At, Undoing, Canceling
<1> QED BY <1>1, PaymentsInvariant, PTL

\* payment.service.ts cancel, cash-register.service.ts reversePayment: the cash
\* leaves once, unless two cancellations found the payment PAID.
THEOREM CashLeavesOnce == Spec => []ReversedOnce
<1>1. PaymentsInv => ReversedOnce
  BY DEF PaymentsInv, RestInv, DoubleInv, ReversedOnce, TypeOK
<1> QED BY <1>1, PaymentsInvariant, PTL

\* Payments implements CashRegister: its steps are steps of the desk, or none.
THEOREM PaymentsAreMovements == Spec => CashImplemented
<1>1. PaymentsInv /\ [Next]_vars => [CashNext]_cashVars
  BY StepIsCash DEF PaymentsInv, RestInv
<1>2. Init => CashInit
  BY DEF Init
<1> QED BY <1>1, <1>2, PaymentsInvariant, PTL DEF Spec, CashSpec, CashImplemented

\* So the registers keep, with payments, what they promise without.
THEOREM RegistersWithPayments == Spec => [](OneOpenRegister /\ ClosingIsTheSum)
BY PaymentsAreMovements, OneRegisterIsOpen, ClosingStaysTheSum, PTL DEF CashImplemented

-----------------------------------------------------------------------------
(* The price: a sum over the payments, which the request that is about to create one has
   compared with it *)

Paid == {p \in Ids : status[p] = "PAID"}

\* Without a crowd, one request at most is about to create a payment, and it fits.
PriceInv ==
  \/ crowded
  \/ /\ PaidTotal <= Price
     /\ \A r \in Requests : pc[r] = "insert" => PaidTotal + amount[subject[r]] <= Price
     /\ \A r, q \in Requests : pc[r] = "insert" /\ pc[q] = "insert" => r = q

LEMMA PaidTotalIsSum ==
  /\ PaidTotal = SumOver(amount, Paid)
  /\ PaidTotal' = SumOver(amount', Paid')
BY DEF PaidTotal, Paid, SumOver, MapThenSumSet, MapThenFoldSet

LEMMA PaidType ==
  ASSUME TypeOK
  PROVE  /\ IsFiniteSet(Paid) /\ \A p \in Ids : amount[p] \in Nat
         /\ PaidTotal \in Nat
<1>1. IsFiniteSet(Paid) /\ Paid \subseteq Ids
  BY PaymentsAssumption, FS_Subset DEF Paid
<1>2. \A p \in Ids : amount[p] \in Nat
  <2>1. (Cents \cup {0}) \subseteq Nat
    BY PaymentsAssumption
  <2>2. \A p \in Ids : amount[p] \in Cents \cup {0}
    BY DEF TypeOK
  <2> QED BY <2>1, <2>2
<1>3. SumOver(amount, Paid) \in Nat
  BY <1>1, <1>2, SumIsNatural
<1> QED BY <1>1, <1>2, <1>3, PaidTotalIsSum

\* A payment that is created adds its amount, one that is canceled adds nothing.
LEMMA PaidChange ==
  ASSUME TypeOK, NEW p \in Ids, NEW s, amount' = amount,
         \A q \in Ids : status'[q] = IF q = p THEN s ELSE status[q]
  PROVE  /\ PaidTotal' \in Nat
         /\ s = "PAID" => PaidTotal' <= PaidTotal + amount[p]
         /\ s # "PAID" => PaidTotal' <= PaidTotal
<1> DEFINE rest == Paid \ {p}
<1>1. Paid' = IF s = "PAID" THEN rest \cup {p} ELSE rest
  BY DEF Paid, TypeOK
<1>2. /\ IsFiniteSet(Paid) /\ IsFiniteSet(rest) /\ rest \subseteq Ids /\ Paid \subseteq Ids
      /\ \A q \in Ids : amount[q] \in Nat
  BY PaidType, FS_RemoveElement DEF Paid
<1>3. SumOver(amount, rest) \in Nat /\ SumOver(amount, Paid) \in Nat
  BY <1>2, SumIsNatural
<1>4. SumOver(amount, rest) <= SumOver(amount, Paid)
  <2>1. CASE p \in Paid
    <3>1. SumOver(amount, Paid) = amount[p] + SumOver(amount, rest)
      BY <1>2, <2>1, SumWithout
    <3> QED BY <1>2, <1>3, <3>1
  <2>2. CASE p \notin Paid
    <3>1. rest = Paid
      BY <2>2
    <3> QED BY <1>3, <3>1
  <2> QED BY <2>1, <2>2
<1>5. p \notin rest
  OBVIOUS
<1> HIDE DEF rest
<1>6. SumOver(amount, rest \cup {p}) = amount[p] + SumOver(amount, rest)
  BY <1>2, <1>5, SumWith
<1> QED BY <1>1, <1>2, <1>3, <1>4, <1>6, PaidTotalIsSum

\* Nobody looks at the amount of a payment that is not created yet.
LEMMA PaidSame ==
  ASSUME TypeOK, NEW p \in Ids, NEW n, status[p] = "none", status' = status,
         amount' = [amount EXCEPT ![p] = n]
  PROVE  PaidTotal' = PaidTotal
<1>1. Paid' = Paid /\ \A q \in Paid : amount[q] = amount'[q]
  BY DEF Paid, TypeOK
<1>2. SumOver(amount, Paid) = SumOver(amount', Paid)
  BY <1>1, PaidType, SumSame
<1> QED BY <1>1, <1>2, PaidTotalIsSum

LEMMA PriceFrame ==
  ASSUME TypeOK, PriceInv, crowded' = crowded, status' = status, amount' = amount,
         \A q \in Requests : pc'[q] = "insert" => pc[q] = "insert" /\ subject'[q] = subject[q]
  PROVE  PriceInv'
<1>1. PaidTotal' = PaidTotal
  BY PaidTotalIsSum DEF Paid
<1> QED BY <1>1 DEF PriceInv

LEMMA PriceStep ==
  ASSUME TypeOK, PriceInv, \A r \in Requests : StageInv(r), [Next]_vars
  PROVE  PriceInv'
<1>1. ASSUME NEW r \in Requests, StartCreate(r) PROVE PriceInv'
  <2>1. PICK p \in Ids, n \in ValidAmount :
          /\ status[p] = "none" /\ Fits(n)
          /\ Begin(r, p, "insert")
          /\ amount' = [amount EXCEPT ![p] = n]
          /\ crowded' = (crowded \/ \E q \in Requests : pc[q] = "insert")
          /\ status' = status
    BY <1>1 DEF StartCreate
  <2>2. PaidTotal' = PaidTotal /\ PaidTotal \in Nat
    BY <2>1, PaidSame, PaidType
  <2>3. /\ pc' = [pc EXCEPT ![r] = "insert"] /\ subject'[r] = p /\ amount'[p] = n
    BY <2>1 DEF Begin, TypeOK
  <2>4. PaidTotal + n <= Price /\ n \in Nat /\ Price \in Nat
    BY <2>1, <2>2, PaymentsAssumption DEF Fits, ValidAmount
  <2>5. CASE crowded'
    BY <2>5 DEF PriceInv
  <2>6. CASE ~crowded'
    <3>1. \A q \in Requests : pc'[q] = "insert" => q = r
      BY <2>1, <2>3, <2>6 DEF TypeOK
    <3> QED BY <2>2, <2>3, <2>4, <3>1 DEF PriceInv
  <2> QED BY <2>5, <2>6
<1>2. ASSUME NEW r \in Requests, Insert(r) PROVE PriceInv'
  <2>1. /\ pc[r] = "insert" /\ status' = [status EXCEPT ![subject[r]] = "PAID"]
        /\ amount' = amount /\ crowded' = crowded
        /\ pc' = [pc EXCEPT ![r] = "findRegister"] /\ subject' = subject
    BY <1>2 DEF Insert, Goto, historyVars
  <2>2. subject[r] \in Ids
    BY <2>1 DEF TypeOK
  <2>3. PaidTotal' <= PaidTotal + amount[subject[r]] /\ PaidTotal' \in Nat
    <3>1. \A q \in Ids : status'[q] = IF q = subject[r] THEN "PAID" ELSE status[q]
      BY <2>1 DEF TypeOK
    <3> QED BY <2>1, <2>2, <3>1, PaidChange
  <2>4. PaidTotal \in Nat /\ amount[subject[r]] \in Nat /\ Price \in Nat
    BY <2>2, PaidType, PaymentsAssumption
  <2>5. CASE crowded
    BY <2>1, <2>5 DEF PriceInv
  <2>6. CASE ~crowded
    <3>1. \A q \in Requests : pc'[q] # "insert"
      BY <2>1, <2>6 DEF PriceInv, TypeOK
    <3>2. PaidTotal + amount[subject[r]] <= Price
      BY <2>1, <2>6 DEF PriceInv
    <3>3. PaidTotal' <= Price
      BY <2>3, <2>4, <3>2
    <3> QED BY <3>1, <3>3 DEF PriceInv
  <2> QED BY <2>5, <2>6
<1>3. ASSUME NEW r \in Requests, Cancel(r) PROVE PriceInv'
  <2>1. /\ pc[r] = "cancel" /\ status' = [status EXCEPT ![subject[r]] = "CANCELED"]
        /\ amount' = amount /\ crowded' = crowded
        /\ pc' = [pc EXCEPT ![r] = "findEntry"] /\ subject' = subject
    BY <1>3 DEF Cancel, Goto, historyVars
  <2>2. subject[r] \in Ids
    BY <2>1 DEF TypeOK
  <2>3. PaidTotal' <= PaidTotal /\ PaidTotal' \in Nat
    <3>1. \A q \in Ids : status'[q] = IF q = subject[r] THEN "CANCELED" ELSE status[q]
      BY <2>1 DEF TypeOK
    <3> QED BY <2>1, <2>2, <3>1, PaidChange
  <2>4. PaidTotal \in Nat /\ Price \in Nat /\ \A q \in Ids : amount[q] \in Nat
    BY PaidType, PaymentsAssumption
  <2>5. \A q \in Requests : pc'[q] = "insert" =>
          pc[q] = "insert" /\ subject'[q] = subject[q] /\ subject[q] \in Ids
    BY <2>1 DEF TypeOK
  <2> QED BY <2>1, <2>3, <2>4, <2>5 DEF PriceInv
<1>4. ASSUME NEW r \in Requests,
             \/ FindRegister(r) \/ CashIn(r) \/ RecordCommission(r) \/ RecordCredit(r)
             \/ StartCancel(r) \/ FindEntry(r) \/ CashOut(r) \/ CancelCommission(r)
             \/ ReverseCredit(r) \/ Fail(r) \/ DeskStep(r)
      PROVE  PriceInv'
  <2>1. crowded' = crowded /\ status' = status /\ amount' = amount
    BY <1>4 DEF FindRegister, CashIn, RecordCommission, RecordCredit, StartCancel, FindEntry,
                CashOut, CancelCommission, ReverseCredit, Fail, DeskStep, paymentVars,
                historyVars
  <2>2. \/ pc' = pc /\ subject' = subject
        \/ \E phase \in Phases \ {"insert"} :
             /\ pc' = [pc EXCEPT ![r] = phase]
             /\ \A q \in Requests \ {r} : subject'[q] = subject[q]
    BY <1>4 DEF FindRegister, CashIn, RecordCommission, RecordCredit, StartCancel, FindEntry,
                CashOut, CancelCommission, ReverseCredit, Fail, DeskStep, Begin, End, Goto,
                Phases, Registering, Canceling, TypeOK
  <2>3. \A q \in Requests : pc'[q] = "insert" => pc[q] = "insert" /\ subject'[q] = subject[q]
    BY <2>2 DEF TypeOK
  <2> QED BY <2>1, <2>3, PriceFrame
<1>5. CASE UNCHANGED vars
  <2>1. /\ crowded' = crowded /\ status' = status /\ amount' = amount
        /\ pc' = pc /\ subject' = subject
    BY <1>5 DEF vars, paymentVars, historyVars
  <2> QED BY <2>1, PriceFrame
<1> QED BY <1>1, <1>2, <1>3, <1>4, <1>5 DEF Next, CreateStep, CancelStep

(***************************************************************************)
(* The paid payments of an appointment exceed its price only if two        *)
(* requests summed them up before either created its own                   *)
(* (payment.service.ts, create).                                           *)
(***************************************************************************)
THEOREM PriceIsKept == Spec => []PaidWithinPrice
<1>1. Init => PriceInv
  <2> SUFFICES ASSUME Init PROVE PriceInv
    OBVIOUS
  <2>1. Paid = {}
    BY DEF Init, Paid
  <2>2. PaidTotal = 0
    BY <2>1, PaidTotalIsSum, SumNothing
  <2> QED BY <2>2, PaymentsAssumption DEF Init, PriceInv
<1>2. PaymentsInv /\ PriceInv /\ [Next]_vars => PriceInv'
  BY PriceStep DEF PaymentsInv, RestInv
<1>3. PriceInv => PaidWithinPrice
  BY DEF PriceInv, PaidWithinPrice
<1> QED BY <1>1, <1>2, <1>3, PaymentsInvariant, PTL DEF Spec
=============================================================================
