---------------------------- MODULE CashRegister ----------------------------
(***************************************************************************)
(* The cash registers of one unit (modules/payments/cash-register): a      *)
(* register is opened, receives movements and is closed with the sum of    *)
(* them.  Every operation reads first and writes later, in statements of   *)
(* their own: there is no transaction, no lock and no unique key.          *)
(***************************************************************************)
EXTENDS Integers

CONSTANTS
  Registers,  \* the cash_registers rows of the unit, created or not
  Requests,   \* requests that run at the same time (a bound)
  Amounts,    \* signed cents of the movements, IN above and OUT below 0
  MaxBalance  \* balance a register may have (a bound)

ASSUME CashAssumption == Amounts \subseteq Int /\ MaxBalance \in Nat

VARIABLES
  register,   \* [Registers -> {"none", "OPEN", "CLOSED"}]
  balance,    \* [Registers -> Int]: opening balance plus the movements
  closing,    \* [Registers -> Nat]: closingBalanceCents, 0 before the closing
  visit,      \* [Requests -> Visit]: the operation each request is in
  contested,  \* two openings have overlapped (history)
  overlapped  \* registers a movement and a closing of which overlapped (history)

cashVars == <<register, balance, closing, visit, contested, overlapped>>

\* "open": saw no open register; "sum": is to close and has to sum up;
\* "close": has summed up; "move": saw the register open, is to add an amount
Ops == {"none", "open", "sum", "close", "move"}

Away == [op |-> "none"]

Visit ==
  {Away, [op |-> "open"]}
    \cup [op : {"sum"}, register : Registers]
    \cup [op : {"close", "move"}, register : Registers, amount : Int]

CashTypeOK ==
  /\ register \in [Registers -> {"none", "OPEN", "CLOSED"}]
  /\ balance \in [Registers -> Int]
  /\ closing \in [Registers -> Nat]
  /\ visit \in [Requests -> Visit]
  /\ contested \in BOOLEAN
  /\ overlapped \subseteq Registers

CashInit ==
  /\ register = [c \in Registers |-> "none"]
  /\ balance = [c \in Registers |-> 0]
  /\ closing = [c \in Registers |-> 0]
  /\ visit = [a \in Requests |-> Away]
  /\ contested = FALSE
  /\ overlapped = {}

-----------------------------------------------------------------------------
Enter(a, v) == visit[a] = Away /\ visit' = [visit EXCEPT ![a] = v]
Leave(a) == visit' = [visit EXCEPT ![a] = Away]

In(a, ops, c) == visit[a].op \in ops /\ visit[a].register = c

Opening(a) == visit[a].op = "open"
Closing(c) == \E a \in Requests : In(a, {"sum", "close"}, c)
Moving(c) == \E a \in Requests : In(a, {"move"}, c)

\* (fault) the check is left to the page, which hides the button
NoCheck == TRUE

NoneOpen == \A c \in Registers : register[c] # "OPEN"

\* open: no register of the unit is open
StartOpen(a) ==
  /\ NoneOpen
  /\ Enter(a, [op |-> "open"])
  /\ contested' = (contested \/ \E b \in Requests : Opening(b))
  /\ UNCHANGED <<register, balance, closing, overlapped>>

Open(a) ==
  /\ Opening(a)
  /\ \E c \in Registers : register[c] = "none" /\ register' = [register EXCEPT ![c] = "OPEN"]
  /\ Leave(a)
  /\ UNCHANGED <<balance, closing, contested, overlapped>>

StartClose(a) ==
  /\ \E c \in Registers :
       /\ register[c] = "OPEN"
       /\ Enter(a, [op |-> "sum", register |-> c])
       /\ overlapped' = overlapped \cup (IF Moving(c) THEN {c} ELSE {})
  /\ UNCHANGED <<register, balance, closing, contested>>

SumUp(a) ==
  /\ \E c \in Registers :
       /\ In(a, {"sum"}, c)
       /\ visit' = [visit EXCEPT ![a] = [op |-> "close", register |-> c, amount |-> balance[c]]]
  /\ UNCHANGED <<register, balance, closing, contested, overlapped>>

\* closingBalanceCents is unsigned: a register in the red cannot be closed
Close(a) ==
  /\ \E c \in Registers :
       /\ In(a, {"close"}, c) /\ visit[a].amount >= 0
       /\ register' = [register EXCEPT ![c] = "CLOSED"]
       /\ closing' = [closing EXCEPT ![c] = visit[a].amount]
  /\ Leave(a)
  /\ UNCHANGED <<balance, contested, overlapped>>

\* (fault) the register is found whatever its status
Exists(c) == register[c] # "none"

TakesMovements(c) == register[c] = "OPEN"

\* addMovement, recordPayment and reversePayment look for an open register first
Approach(a, c, n) ==
  /\ TakesMovements(c)
  /\ balance[c] + n \in (-MaxBalance)..MaxBalance
  /\ Enter(a, [op |-> "move", register |-> c, amount |-> n])
  /\ overlapped' = overlapped \cup (IF Closing(c) THEN {c} ELSE {})
  /\ UNCHANGED <<register, balance, closing, contested>>

Move(a, c) ==
  /\ In(a, {"move"}, c)
  /\ balance' = [balance EXCEPT ![c] = @ + visit[a].amount]
  /\ Leave(a)
  /\ UNCHANGED <<register, closing, contested, overlapped>>

\* A statement fails or the process ends
GiveUp(a) ==
  /\ visit[a] # Away
  /\ Leave(a)
  /\ UNCHANGED <<register, balance, closing, contested, overlapped>>

Desk(a) ==
  \/ StartOpen(a) \/ Open(a)
  \/ StartClose(a) \/ SumUp(a) \/ Close(a)
  \/ \E c \in Registers, n \in Amounts : Approach(a, c, n)
  \/ \E c \in Registers : Move(a, c)
  \/ GiveUp(a)

CashNext == \E a \in Requests : Desk(a)

CashSpec == CashInit /\ [][CashNext]_cashVars

-----------------------------------------------------------------------------
\* A unit has one open register, unless two openings overlapped: nothing but the
\* read of open keeps a second one from being created.
OneOpenRegister ==
  contested \/ \A c, d \in Registers : register[c] = "OPEN" /\ register[d] = "OPEN" => c = d

\* The balance a register was closed with is the sum of all its movements, and
\* stays so, unless a movement overlapped the closing: the movement has read
\* OPEN, the closing has summed up, and neither sees the other.
ClosingIsTheSum ==
  \A c \in Registers \ overlapped : register[c] = "CLOSED" => closing[c] = balance[c]
=============================================================================
