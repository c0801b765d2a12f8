------------------------------ MODULE Waitlist ------------------------------
(***************************************************************************)
(* The waiting list (modules/appointments, appointment-waitlist) over the  *)
(* calendar it sells vacancies of.  A canceled appointment becomes an      *)
(* opportunity, offered to the oldest entry it suits and converted, by     *)
(* that entry only, into a new appointment.  The requests that do so run   *)
(* concurrently with each other and with the front desk, read before they  *)
(* write, and hold a named lock of MySQL while they convert.               *)
(*                                                                         *)
(* Appointments are booked, moved and canceled by the actions of Calendar, *)
(* which the handlers of module Appointments implement.                    *)
(***************************************************************************)
EXTENDS Calendar

CONSTANTS
  Entries,    \* rows of appointment_waitlists, in the order of their creation (a bound)
  Suits,      \* the <<professional, slot>> pairs each entry asks for
  Workers,    \* concurrently running requests (a bound)
  Asked,      \* statuses but CANCELED the front desk asks for (a bound)
  Failures    \* may requests die, and transactions outlive Prisma's limit?

ASSUME WaitlistAssumption ==
  /\ Entries \subseteq Nat
  /\ \A S \in (SUBSET Entries) \ {{}} : \E e \in S : \A f \in S : e <= f
  /\ Suits \in [Entries -> SUBSET (Professionals \X Slots)]
  /\ None \notin Workers \cup Entries
  /\ Asked \subseteq Status \ {"CANCELED"}
  /\ Failures \in BOOLEAN

VARIABLES
  entry,      \* [Entries -> Entry]: the rows of the waiting list
  offer,      \* the opportunity of each canceled appointment, or None
  overdue,    \* entries whose expiresAt has passed
  pc,         \* where each request is
  job,        \* the entry, opportunity and appointment each request works on
  lock,       \* holder of waitlist-convert:<tenant>:<entry>
  kept,       \* entries whose lock a closed transaction left with its connection
  offered,    \* every entry each opportunity was offered to (history)
  sold,       \* the appointments made from each opportunity (history)
  broken      \* opportunities whose conversion lost its lock or its end (history)

listVars == <<entry, offer, overdue, offered>>
requestVars == <<pc, job, lock, kept, broken>>
vars == <<appt, seen, entry, offer, overdue, pc, job, lock, kept,
          offered, sold, broken>>

\* "NEW" is a row that does not exist yet
EntryStatus == {"NEW", "WAITING", "MATCHED", "CONVERTED", "CANCELED", "EXPIRED"}

Open == {"WAITING", "MATCHED"}

\* Columns status, opportunity_id and appointment_id
Entry == [status : EntryStatus, opp : Ids \cup {None}, made : Ids \cup {None}]

\* Columns professional_id, starts_at and claimed_at; one per released appointment
Opportunity == [prof : Professionals, slot : Slots, claimed : BOOLEAN]

ASSUME OpportunityAssumption == None \notin Opportunity

Phases == {"idle", "match", "expire", "cancel", "lock", "reread", "book", "save"}

Job == [entry : Entries \cup {None}, opp : Ids \cup {None}, made : Ids \cup {None}]

NoJob == [entry |-> None, opp |-> None, made |-> None]

ListInit ==
  /\ Init
  /\ entry = [e \in Entries |-> [status |-> "NEW", opp |-> None, made |-> None]]
  /\ offer = [id \in Ids |-> None]
  /\ overdue = {}
  /\ pc = [w \in Workers |-> "idle"]
  /\ job = [w \in Workers |-> NoJob]
  /\ lock = [e \in Entries |-> None]
  /\ kept = {}
  /\ offered = [id \in Ids |-> {}]
  /\ sold = [id \in Ids |-> {}]
  /\ broken = {}

-----------------------------------------------------------------------------
Goto(w, phase) == pc' = [pc EXCEPT ![w] = phase]

Start(w, j, phase) ==
  /\ pc[w] = "idle"
  /\ Goto(w, phase)
  /\ job' = [job EXCEPT ![w] = j]

Finish(w) ==
  /\ Goto(w, "idle")
  /\ job' = [job EXCEPT ![w] = NoJob]

\* RELEASE_LOCK, when w still has it; a lock its connection already kept stays
Unlock(w) ==
  /\ lock' = [e \in Entries |-> IF lock[e] = w THEN None ELSE lock[e]]
  /\ UNCHANGED kept

\* The protocol createIfAvailable gives: appointments are only added here
NextProtocol == Cardinality(Booked) + 1

\* updateMany: every open entry that is overdue
Expired ==
  [e \in Entries |->
    IF e \in overdue /\ entry[e].status \in Open
    THEN [entry[e] EXCEPT !.status = "EXPIRED", !.opp = None] ELSE entry[e]]

-----------------------------------------------------------------------------
\* Entries come, wait and expire

\* A duplicate, or a vacancy that suits, can only refuse the entry
CreateEntry(e) ==
  /\ entry[e].status = "NEW"
  /\ \A f \in Entries : f < e => entry[f].status # "NEW"
  /\ entry' = [entry EXCEPT ![e].status = "WAITING"]
  /\ UNCHANGED <<appt, seen, offer, overdue, offered, sold, requestVars>>

PassDeadline(e) ==
  /\ entry[e].status # "NEW"
  /\ overdue' = overdue \cup {e}
  /\ UNCHANGED <<appt, seen, entry, offer, offered, sold, requestVars>>

\* list() and get()
ExpireOverdue ==
  /\ entry' = Expired
  /\ UNCHANGED <<appt, seen, offer, overdue, offered, sold, requestVars>>

-----------------------------------------------------------------------------
\* AppointmentService.status(.., 'CANCELED', ..), then the matching

CancelAppointment(w) ==
  /\ \E id \in Booked :
       /\ SetStatus(id, "CANCELED")
       /\ Start(w, [NoJob EXCEPT !.opp = id], "match")
  /\ UNCHANGED <<listVars, lock, kept, sold, broken>>

\* The row of the upsert: the first one is kept
Released(id) ==
  IF offer[id] # None THEN offer[id]
  ELSE [prof |-> appt[id].prof, slot |-> appt[id].slot, claimed |-> FALSE]

Candidates(id) ==
  {e \in Entries :
    /\ entry[e].status = "WAITING"
    /\ e \notin overdue
    /\ <<Released(id).prof, Released(id).slot>> \in Suits[e]}

\* (fault) claimed_at is written without looking at it
ClaimAny(id) == Candidates(id) # {}

\* updateMany where claimed_at is null changed one row
Claimable(id) == Candidates(id) # {} /\ ~Released(id).claimed

\* ORDER BY created_at, id
Oldest(S) == CHOOSE e \in S : \A f \in S : e <= f

\* Revived since: nothing is released any more
MatchRevived(w) ==
  /\ pc[w] = "match"
  /\ appt[job[w].opp].status # "CANCELED"
  /\ Finish(w)
  /\ UNCHANGED <<appt, seen, listVars, lock, kept, sold, broken>>

MatchNobody(w) ==
  LET o == job[w].opp IN
  /\ pc[w] = "match"
  /\ appt[o].status = "CANCELED"
  /\ ~Claimable(o)
  /\ offer' = [offer EXCEPT ![o] = Released(o)]
  /\ Finish(w)
  /\ UNCHANGED <<appt, seen, entry, overdue, offered, lock, kept, sold, broken>>

MatchOldest(w) ==
  LET o == job[w].opp
      e == Oldest(Candidates(o))
  IN
  /\ pc[w] = "match"
  /\ appt[o].status = "CANCELED"
  /\ Claimable(o)
  /\ offer' = [offer EXCEPT ![o] = [Released(o) EXCEPT !.claimed = TRUE]]
  /\ entry' = [entry EXCEPT ![e].status = "MATCHED", ![e].opp = o]
  /\ offered' = [offered EXCEPT ![o] = @ \cup {e}]
  /\ Goto(w, "expire")
  /\ UNCHANGED <<appt, seen, overdue, job, lock, kept, sold, broken>>

\* matchCancellation answers with get(), which expires entries first
AnswerMatch(w) ==
  /\ pc[w] = "expire"
  /\ entry' = Expired
  /\ Finish(w)
  /\ UNCHANGED <<appt, seen, offer, overdue, offered, lock, kept, sold, broken>>

-----------------------------------------------------------------------------
\* cancel(): decides on the row it reads, writes by id

StartCancel(w) ==
  /\ \E e \in Entries :
       /\ entry[e].status \in Open
       /\ Start(w, [NoJob EXCEPT !.entry = e], "cancel")
  /\ UNCHANGED <<appt, seen, listVars, lock, kept, sold, broken>>

WriteCancel(w) ==
  LET e == job[w].entry IN
  /\ pc[w] = "cancel"
  /\ entry' = [entry EXCEPT ![e].status = "CANCELED", ![e].opp = None]
  /\ Finish(w)
  /\ UNCHANGED <<appt, seen, offer, overdue, offered, lock, kept, sold, broken>>

-----------------------------------------------------------------------------
\* convert()

StartConvert(w) ==
  /\ \E e \in Entries, o \in Ids :
       /\ entry[e].status # "NEW"
       /\ offer[o] # None
       /\ Start(w, [NoJob EXCEPT !.entry = e, !.opp = o], "lock")
  /\ UNCHANGED <<appt, seen, listVars, lock, kept, sold, broken>>

\* (fault) the conversion goes on whatever GET_LOCK answered
TakeAnyway(w, e) == lock' = [lock EXCEPT ![e] = w]

\* GET_LOCK; a lock kept by a pooled connection is granted on that connection
TakeLock(w, e) ==
  /\ lock[e] = None
  /\ lock' = [lock EXCEPT ![e] = w]

BeginConvert(w) ==
  /\ pc[w] = "lock"
  /\ TakeLock(w, job[w].entry)
  /\ Goto(w, "reread")
  /\ UNCHANGED <<appt, seen, listVars, job, kept, sold, broken>>

ConvertBusy(w) ==
  /\ pc[w] = "lock"
  /\ lock[job[w].entry] # None \/ job[w].entry \in kept
  /\ Finish(w)
  /\ UNCHANGED <<appt, seen, listVars, lock, kept, sold, broken>>

\* MATCHED, with the opportunity the request names, and not expired
Convertible(w) ==
  LET e == job[w].entry IN
  /\ entry[e].status = "MATCHED"
  /\ entry[e].opp = job[w].opp
  /\ e \notin overdue

Reread(w) ==
  /\ pc[w] = "reread"
  /\ Convertible(w)
  /\ Goto(w, "book")
  /\ UNCHANGED <<appt, seen, listVars, job, lock, kept, sold, broken>>

NotMatched(w) ==
  /\ pc[w] = "reread"
  /\ ~Convertible(w)
  /\ Unlock(w)
  /\ Finish(w)
  /\ UNCHANGED <<appt, seen, listVars, sold, broken>>

BookVacancy(w) ==
  LET o == job[w].opp IN
  /\ pc[w] = "book"
  /\ \E id \in Ids :
       /\ Book(id, offer[o].prof, offer[o].slot, NextProtocol)
       /\ job' = [job EXCEPT ![w].made = id]
       /\ sold' = [sold EXCEPT ![o] = @ \cup {id}]
  /\ Goto(w, "save")
  /\ UNCHANGED <<listVars, lock, kept, broken>>

\* create() throws: a conflict, an unavailable slot, a blocked establishment
BookRefused(w) ==
  /\ pc[w] = "book"
  /\ Unlock(w)
  /\ Finish(w)
  /\ UNCHANGED <<appt, seen, listVars, sold, broken>>

\* The update by id, whatever became of the entry, and the `finally`
SaveConverted(w) ==
  LET e == job[w].entry IN
  /\ pc[w] = "save"
  /\ entry' = [entry EXCEPT ![e].status = "CONVERTED", ![e].made = job[w].made]
  /\ Unlock(w)
  /\ Finish(w)
  /\ UNCHANGED <<appt, seen, offer, overdue, offered, sold, broken>>

-----------------------------------------------------------------------------
\* The 15 s of withConversionLock are over: the lock stays with the connection,
\* which returns to the pool; the operation, on other connections, goes on.
LockTimeout(w) ==
  /\ Failures
  /\ pc[w] \in {"reread", "book", "save"}
  /\ lock[job[w].entry] = w
  /\ lock' = [lock EXCEPT ![job[w].entry] = None]
  /\ kept' = kept \cup {job[w].entry}
  /\ broken' = broken \cup {job[w].opp}
  /\ UNCHANGED <<appt, seen, listVars, pc, job, sold>>

\* A pooled connection that kept a lock is closed
CloseConnection(e) ==
  /\ e \in kept
  /\ lock[e] = None
  /\ kept' = kept \ {e}
  /\ UNCHANGED <<appt, seen, listVars, pc, job, lock, sold, broken>>

\* The update after the booking fails; the `finally` is run
SaveFails(w) ==
  /\ Failures
  /\ pc[w] = "save"
  /\ Unlock(w)
  /\ Finish(w)
  /\ broken' = broken \cup {job[w].opp}
  /\ UNCHANGED <<appt, seen, listVars, sold>>

\* The process dies, and its connections with it
Crash(w) ==
  /\ Failures
  /\ pc[w] # "idle"
  /\ lock' = [e \in Entries |-> IF lock[e] = w THEN None ELSE lock[e]]
  /\ kept' = {e \in kept : lock[e] # w}
  /\ broken' = IF pc[w] = "save" THEN broken \cup {job[w].opp} ELSE broken
  /\ Finish(w)
  /\ UNCHANGED <<appt, seen, listVars, sold>>

\* Everyone else's use of the calendar, cancellations left out
Desk ==
  /\ \E id \in Ids :
       \/ \E p \in Professionals, s \in Slots :
            Book(id, p, s, NextProtocol) \/ Move(id, p, s)
       \/ \E s \in Asked : SetStatus(id, s)
  /\ UNCHANGED <<listVars, requestVars, sold>>

Match(w) == MatchRevived(w) \/ MatchNobody(w) \/ MatchOldest(w) \/ AnswerMatch(w)

Convert(w) ==
  \/ StartConvert(w) \/ BeginConvert(w) \/ ConvertBusy(w)
  \/ Reread(w) \/ NotMatched(w)
  \/ BookVacancy(w) \/ BookRefused(w) \/ SaveConverted(w)

ListNext ==
  \/ Desk
  \/ ExpireOverdue
  \/ \E e \in Entries : CreateEntry(e) \/ PassDeadline(e) \/ CloseConnection(e)
  \/ \E w \in Workers :
       \/ CancelAppointment(w) \/ Match(w)
       \/ StartCancel(w) \/ WriteCancel(w)
       \/ Convert(w)
       \/ LockTimeout(w) \/ SaveFails(w) \/ Crash(w)

ListSpec == ListInit /\ [][ListNext]_vars

-----------------------------------------------------------------------------
ListTypeOK ==
  /\ TypeOK
  /\ entry \in [Entries -> Entry]
  /\ offer \in [Ids -> Opportunity \cup {None}]
  /\ overdue \in SUBSET Entries
  /\ pc \in [Workers -> Phases]
  /\ job \in [Workers -> Job]
  /\ lock \in [Entries -> Workers \cup {None}]
  /\ kept \in SUBSET Entries
  /\ offered \in [Ids -> SUBSET Entries]
  /\ sold \in [Ids -> SUBSET Ids]
  /\ broken \in SUBSET Ids

(***************************************************************************)
(* docs/STATUS.md:218: only one customer receives each opportunity, also   *)
(* when the appointment is revived and canceled again, when the customer   *)
(* gives the offer up or lets it expire, and when requests die half-way.   *)
(***************************************************************************)
OfferedOnce ==
  \A o \in Ids : \A e, f \in offered[o] : e = f

(***************************************************************************)
(* An entry that holds an opportunity holds one that was claimed for it,   *)
(* and is still matched, or was converted from it: no stale cancel, expiry *)
(* or conversion leaves an ended entry with a vacancy in its hands.        *)
(***************************************************************************)
HeldIsClaimed ==
  \A e \in Entries :
    entry[e].opp # None =>
      /\ entry[e].status \in {"MATCHED", "CONVERTED"}
      /\ offer[entry[e].opp] # None
      /\ offer[entry[e].opp].claimed
      /\ e \in offered[entry[e].opp]

(***************************************************************************)
(* An opportunity is sold twice only after a conversion of it booked the   *)
(* appointment and failed to say so, or lost its lock to the 15 s limit.   *)
(* Otherwise a second conversion of the entry waits for the lock, reads    *)
(* the entry again and finds it converted, or canceled or expired.         *)
(***************************************************************************)
SoldOnce ==
  \A o \in Ids \ broken : \A a, b \in sold[o] : a = b

(***************************************************************************)
(* docs/STATUS.md:218, for any run: "sem duas conversoes da mesma vaga",   *)
(* no two active appointments come from one opportunity.                   *)
(***************************************************************************)
NoDoubleConversion ==
  \A o \in Ids : \A a, b \in sold[o] :
    appt[a].status \in Active /\ appt[b].status \in Active => a = b
=============================================================================
