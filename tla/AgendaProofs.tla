---------------------------- MODULE AgendaProofs ----------------------------
(***************************************************************************)
(* Proofs about the two parts around the appointments.  Waitlist, for any  *)
(* number of entries, appointments and requests, with and without          *)
(* failures: what a vacancy is offered and sold for, and that Calendar,    *)
(* with what it promises, is implemented.  Availability, for any number of *)
(* rows, units, appointments and edits, and any length of the day, the     *)
(* week and the interval: what is offered is free, what is free is         *)
(* offered, and rows overlap only where an edit had not seen the other.    *)
(***************************************************************************)
EXTENDS Waitlist, Availability, FiniteSetTheorems, TLAPS

\* What a request has read or chosen before it stands where it stands.
JobOK(w) ==
  /\ pc[w] = "match" => job[w].opp \in Booked
  /\ pc[w] = "cancel" => job[w].entry \in Entries
  /\ pc[w] \in {"lock", "reread", "book", "save"} =>
       job[w].entry \in Entries /\ job[w].opp \in Ids
  /\ pc[w] \in {"book", "save"} => job[w].entry \in offered[job[w].opp]
  /\ pc[w] = "save" => job[w].made \in Ids

JobInv == \A w \in Workers : JobOK(w)

\* What was offered is claimed for good, what was sold was offered.
ClaimInv ==
  \A o \in Ids :
    /\ offered[o] # {} => offer[o] # None /\ offer[o].claimed
    /\ sold[o] # {} => offered[o] # {}

\* A conversion holds the lock of its entry, unless it is known to have lost it.
LockInv ==
  \A w \in Workers :
    pc[w] \in {"reread", "book", "save"} /\ job[w].opp \notin broken =>
      lock[job[w].entry] = w

\* A conversion about to book is the first one of its opportunity.
FirstInv ==
  \A w \in Workers :
    pc[w] = "book" /\ job[w].opp \notin broken => sold[job[w].opp] = {}

\* An entry whose opportunity is sold is converted, or about to be.
SavedInv ==
  \A o \in Ids \ broken, e \in Entries :
    sold[o] # {} /\ entry[e].opp = o =>
      \/ entry[e].status = "CONVERTED"
      \/ \E w \in Workers : pc[w] = "save" /\ job[w].entry = e /\ job[w].opp = o

OfferInv ==
  /\ ListTypeOK /\ JobInv /\ ClaimInv
  /\ OfferedOnce /\ HeldIsClaimed

SaleInv == LockInv /\ FirstInv /\ SavedInv /\ SoldOnce

-----------------------------------------------------------------------------
(* The rows of the calendar *)

\* NULL is no row, so a booked identifier is one that holds a row.
LEMMA RowIsNotNone == None \notin Row
BY NoneAssumption

LEMMA CalendarInitType == Init => TypeOK
BY DEF Init, TypeOK

LEMMA TypeStep == TypeOK /\ [Next]_calendarVars => TypeOK'
<1> SUFFICES ASSUME TypeOK, [Next]_calendarVars
             PROVE  TypeOK'
  OBVIOUS
<1> USE DEF TypeOK, Booked
<1>1. ASSUME NEW id \in Ids, NEW p \in Professionals, NEW s \in Slots,
             NEW n \in Protocols, Book(id, p, s, n)
      PROVE  TypeOK'
  <2>1. NewRow(p, s, n) \in Row
    BY DEF NewRow, Row, Status
  <2>2. QED
    BY <1>1, <2>1 DEF Book, Status
<1>2. ASSUME NEW id \in Ids, NEW p \in Professionals, NEW s \in Slots,
             Move(id, p, s)
      PROVE  TypeOK'
  <2>1. appt[id] \in Row
    BY <1>2 DEF Move
  <2>2. [appt[id] EXCEPT !.prof = p, !.slot = s] \in Row
    BY <2>1 DEF Row
  <2>3. QED
    BY <1>2, <2>2 DEF Move
<1>3. ASSUME NEW id \in Ids, NEW s \in Status, SetStatus(id, s)
      PROVE  TypeOK'
  <2>1. appt[id] \in Row
    BY <1>3 DEF SetStatus
  <2>2. [appt[id] EXCEPT !.status = s] \in Row
    BY <2>1 DEF Row
  <2>3. QED
    BY <1>3, <2>2 DEF SetStatus
<1>4. ASSUME NEW id \in Ids, MarkPresent(id)
      PROVE  TypeOK'
  <2>1. appt[id] \in Row
    BY <1>4 DEF MarkPresent
  <2>2. [appt[id] EXCEPT !.checkedIn = TRUE] \in Row
    BY <2>1 DEF Row
  <2>3. QED
    BY <1>4, <2>2 DEF MarkPresent
<1>5. CASE UNCHANGED calendarVars
  BY <1>5 DEF calendarVars
<1>6. QED
  BY <1>1, <1>2, <1>3, <1>4, <1>5 DEF Next

-----------------------------------------------------------------------------
(* The entries *)

LEMMA OldestIsOne ==
  ASSUME NEW S \in SUBSET Entries, S # {}
  PROVE  Oldest(S) \in S
<1>1. \E e \in S : \A f \in S : e <= f
  BY WaitlistAssumption
<1>2. QED
  BY <1>1 DEF Oldest

\* A record is not NULL.
LEMMA NoOpportunity == None \notin Opportunity
BY OpportunityAssumption

LEMMA BookedIsRow ==
  ASSUME ListTypeOK, NEW id \in Booked
  PROVE  id \in Ids /\ appt[id] \in Row
BY DEF ListTypeOK, TypeOK, Booked

\* The count of the rows, plus one, is a protocol while a row is left to book.
LEMMA ProtocolLeft ==
  ASSUME NEW id \in Ids \ Booked
  PROVE  NextProtocol \in Protocols
<1>1. Booked \cup {id} \subseteq Ids
  BY DEF Booked
<1>2. IsFiniteSet(Ids) /\ IsFiniteSet(Booked) /\ IsFiniteSet(Booked \cup {id})
  BY <1>1, RulesAssumption, FS_Subset
<1>3. Cardinality(Booked \cup {id}) = Cardinality(Booked) + 1
  BY <1>2, FS_AddElement
<1>4. Cardinality(Booked \cup {id}) <= Cardinality(Ids)
  BY <1>1, <1>2, FS_Subset
<1>5. /\ Cardinality(Booked) \in Nat /\ Cardinality(Ids) \in Nat
  BY <1>2, FS_CardinalityType
<1>6. QED
  BY <1>3, <1>4, <1>5 DEF NextProtocol, Protocols

\* A conversion that books does so for a vacancy of the calendar.
LEMMA VacancyKnown ==
  ASSUME OfferInv, NEW w \in Workers, pc[w] \in {"book", "save"}
  PROVE  /\ job[w].opp \in Ids
         /\ offer[job[w].opp] \in Opportunity
BY DEF OfferInv, JobInv, JobOK, ClaimInv, ListTypeOK

\* Every step on the waiting list is one step of the calendar, or none.
LEMMA CalendarStep == OfferInv /\ [ListNext]_vars => [Next]_calendarVars
<1> SUFFICES ASSUME OfferInv, [ListNext]_vars
             PROVE  Next \/ UNCHANGED <<appt, seen>>
  BY DEF calendarVars
<1>1. ASSUME NEW id \in Ids, NEW p \in Professionals, NEW s \in Slots,
             Book(id, p, s, NextProtocol)
      PROVE  Next
  <2>1. NextProtocol \in Protocols
    BY <1>1, ProtocolLeft DEF Book
  <2>2. QED
    BY <1>1, <2>1 DEF Next
<1>2. CASE Desk
  <2>1. ASSUME NEW id \in Ids, NEW p \in Professionals, NEW s \in Slots, Move(id, p, s)
        PROVE  Next
    BY <2>1 DEF Next
  <2>2. ASSUME NEW id \in Ids, NEW s \in Asked, SetStatus(id, s)
        PROVE  Next
    BY <2>2, WaitlistAssumption DEF Next
  <2>3. QED
    BY <1>2, <1>1, <2>1, <2>2 DEF Desk
<1>3. ASSUME NEW w \in Workers, CancelAppointment(w)
      PROVE  Next
  BY <1>3 DEF CancelAppointment, Next, Booked, Status
<1>4. ASSUME NEW w \in Workers, BookVacancy(w)
      PROVE  Next
  <2>1. offer[job[w].opp].prof \in Professionals /\ offer[job[w].opp].slot \in Slots
    BY <1>4, VacancyKnown DEF BookVacancy, Opportunity
  <2>2. QED
    BY <1>1, <1>4, <2>1 DEF BookVacancy
<1>5. CASE ListNext
  BY <1>2, <1>3, <1>4, <1>5
     DEF ListNext, ExpireOverdue, CreateEntry, PassDeadline, CloseConnection,
         Match, MatchRevived, MatchNobody, MatchOldest, AnswerMatch,
         StartCancel, WriteCancel, Convert, StartConvert, BeginConvert, ConvertBusy,
         Reread, NotMatched, BookRefused, SaveConverted,
         LockTimeout, SaveFails, Crash
<1>6. CASE UNCHANGED vars
  BY <1>6 DEF vars
<1>7. QED
  BY <1>5, <1>6

\* Rows are never deleted.
LEMMA BookedGrows ==
  ASSUME TypeOK, [Next]_calendarVars
  PROVE  Booked \subseteq Booked'
<1> USE DEF TypeOK, Booked
<1>1. ASSUME NEW id \in Ids, NEW p \in Professionals, NEW s \in Slots,
             NEW n \in Protocols, Book(id, p, s, n)
      PROVE  Booked \subseteq Booked'
  BY <1>1 DEF Book
<1>2. ASSUME NEW id \in Booked, appt'[id] \in Row,
             \A b \in Booked \ {id} : appt'[b] = appt[b]
      PROVE  Booked \subseteq Booked'
  BY <1>2, RowIsNotNone
<1>3. ASSUME NEW id \in Booked
      PROVE  /\ \A p \in Professionals, s \in Slots :
                  [appt[id] EXCEPT !.prof = p, !.slot = s] \in Row
             /\ \A s \in Status : [appt[id] EXCEPT !.status = s] \in Row
             /\ [appt[id] EXCEPT !.checkedIn = TRUE] \in Row
  BY DEF Row
<1>4. ASSUME NEW id \in Ids, NEW p \in Professionals, NEW s \in Slots, Move(id, p, s)
      PROVE  Booked \subseteq Booked'
  <2>1. id \in Booked /\ appt'[id] \in Row
    BY <1>3, <1>4 DEF Move
  <2>2. \A b \in Booked \ {id} : appt'[b] = appt[b]
    BY <1>4 DEF Move
  <2>3. QED
    BY <1>2, <2>1, <2>2
<1>5. ASSUME NEW id \in Ids, NEW s \in Status, SetStatus(id, s)
      PROVE  Booked \subseteq Booked'
  <2>1. id \in Booked /\ appt'[id] \in Row
    BY <1>3, <1>5 DEF SetStatus
  <2>2. \A b \in Booked \ {id} : appt'[b] = appt[b]
    BY <1>5 DEF SetStatus
  <2>3. QED
    BY <1>2, <2>1, <2>2
<1>6. ASSUME NEW id \in Ids, MarkPresent(id)
      PROVE  Booked \subseteq Booked'
  <2>1. id \in Booked /\ appt'[id] \in Row
    BY <1>3, <1>6 DEF MarkPresent
  <2>2. \A b \in Booked \ {id} : appt'[b] = appt[b]
    BY <1>6 DEF MarkPresent
  <2>3. QED
    BY <1>2, <2>1, <2>2
<1>7. CASE UNCHANGED calendarVars
  BY <1>7 DEF calendarVars
<1>8. QED
  BY <1>1, <1>4, <1>5, <1>6, <1>7 DEF Next

-----------------------------------------------------------------------------
\* Types
LEMMA JobTypes ==
  /\ NoJob \in Job
  /\ \A e \in Entries : [NoJob EXCEPT !.entry = e] \in Job
  /\ \A o \in Ids : [NoJob EXCEPT !.opp = o] \in Job
  /\ \A e \in Entries, o \in Ids : [NoJob EXCEPT !.entry = e, !.opp = o] \in Job
BY DEF NoJob, Job

LEMMA EntryTypes ==
  ASSUME ListTypeOK
  PROVE  /\ Expired \in [Entries -> Entry]
         /\ \A e \in Entries : [entry[e] EXCEPT !.status = "WAITING"] \in Entry
         /\ \A e \in Entries, o \in Ids :
              [entry[e] EXCEPT !.status = "MATCHED", !.opp = o] \in Entry
         /\ \A e \in Entries :
              [entry[e] EXCEPT !.status = "CANCELED", !.opp = None] \in Entry
         /\ \A e \in Entries, id \in Ids :
              [entry[e] EXCEPT !.status = "CONVERTED", !.made = id] \in Entry
BY DEF ListTypeOK, Expired, Entry, EntryStatus

LEMMA ReleasedType ==
  ASSUME ListTypeOK, NEW id \in Booked
  PROVE  /\ Released(id) \in Opportunity
         /\ [Released(id) EXCEPT !.claimed = TRUE] \in Opportunity
<1>1. appt[id].prof \in Professionals /\ appt[id].slot \in Slots
  BY BookedIsRow DEF Row
<1>2. Released(id) \in Opportunity
  BY <1>1 DEF ListTypeOK, Booked, Released, Opportunity
<1>3. QED
  BY <1>2 DEF Opportunity

\* The entry a request writes to, in the state it writes it in.
LEMMA MatchedEntry ==
  ASSUME OfferInv, NEW w \in Workers, MatchOldest(w)
  PROVE  /\ job[w].opp \in Booked
         /\ job[w].opp \in Ids
         /\ Oldest(Candidates(job[w].opp)) \in Entries
         /\ entry[Oldest(Candidates(job[w].opp))].status = "WAITING"
         /\ ~Released(job[w].opp).claimed
<1>1. Candidates(job[w].opp) \in SUBSET Entries /\ Candidates(job[w].opp) # {}
  BY DEF MatchOldest, Claimable, Candidates
<1>2. Oldest(Candidates(job[w].opp)) \in Candidates(job[w].opp)
  BY <1>1, OldestIsOne
<1>3. QED
  BY <1>2 DEF MatchOldest, Claimable, Candidates, OfferInv, JobInv, JobOK, Booked

LEMMA ListTypeStep == OfferInv /\ [ListNext]_vars => ListTypeOK'
<1> SUFFICES ASSUME OfferInv, [ListNext]_vars
             PROVE  ListTypeOK'
  OBVIOUS
<1>0. TypeOK' /\ ListTypeOK /\ JobInv
  BY CalendarStep, TypeStep DEF OfferInv, ListTypeOK
<1> USE <1>0 DEF Phases, Booked
<1>1. ASSUME NEW w \in Workers, CancelAppointment(w)
      PROVE  ListTypeOK'
  BY <1>1, JobTypes DEF ListTypeOK, CancelAppointment, Start, Goto, listVars
<1>2. ASSUME NEW w \in Workers, MatchRevived(w) \/ MatchNobody(w) \/ AnswerMatch(w)
      PROVE  ListTypeOK'
  <2>1. CASE MatchRevived(w)
    BY <2>1, JobTypes DEF ListTypeOK, MatchRevived, Finish, Goto, listVars
  <2>2. CASE MatchNobody(w)
    <3>1. job[w].opp \in Booked /\ Released(job[w].opp) \in Opportunity
      BY <2>2, ReleasedType DEF MatchNobody, JobInv, JobOK
    <3>2. offer' \in [Ids -> Opportunity \cup {None}]
      BY <2>2, <3>1 DEF ListTypeOK, MatchNobody
    <3>3. QED
      BY <2>2, <3>2, JobTypes DEF ListTypeOK, MatchNobody, Finish, Goto
  <2>3. CASE AnswerMatch(w)
    BY <2>3, JobTypes, EntryTypes DEF ListTypeOK, AnswerMatch, Finish, Goto
  <2>4. QED
    BY <1>2, <2>1, <2>2, <2>3
<1>3. ASSUME NEW w \in Workers, MatchOldest(w)
      PROVE  ListTypeOK'
  BY <1>3, EntryTypes, ReleasedType, MatchedEntry DEF ListTypeOK, MatchOldest, Goto
<1>4. ASSUME NEW w \in Workers, StartCancel(w) \/ StartConvert(w)
      PROVE  ListTypeOK'
  BY <1>4, JobTypes DEF ListTypeOK, StartCancel, StartConvert, Start, Goto, listVars
<1>5. ASSUME NEW w \in Workers, WriteCancel(w)
      PROVE  ListTypeOK'
  BY <1>5, JobTypes, EntryTypes DEF ListTypeOK, WriteCancel, Finish, Goto, JobInv, JobOK
<1>6. ASSUME NEW w \in Workers, BeginConvert(w) \/ ConvertBusy(w) \/ Reread(w)
      PROVE  ListTypeOK'
  <2>1. CASE BeginConvert(w)
    BY <2>1 DEF ListTypeOK, BeginConvert, TakeLock, Goto, listVars
  <2>2. CASE ConvertBusy(w)
    BY <2>2, JobTypes DEF ListTypeOK, ConvertBusy, Finish, Goto, listVars
  <2>3. CASE Reread(w)
    BY <2>3 DEF ListTypeOK, Reread, Goto, listVars
  <2>4. QED
    BY <1>6, <2>1, <2>2, <2>3
<1>7. ASSUME NEW w \in Workers, NotMatched(w) \/ BookRefused(w)
      PROVE  ListTypeOK'
  BY <1>7, JobTypes DEF ListTypeOK, NotMatched, BookRefused, Unlock, Finish, Goto, listVars
<1>8. ASSUME NEW w \in Workers, BookVacancy(w)
      PROVE  ListTypeOK'
  <2>1. PICK id \in Ids : /\ job' = [job EXCEPT ![w].made = id]
                          /\ sold' = [sold EXCEPT ![job[w].opp] = @ \cup {id}]
    BY <1>8 DEF BookVacancy
  <2>2. [job[w] EXCEPT !.made = id] \in Job
    BY DEF ListTypeOK, Job
  <2>3. job' \in [Workers -> Job] /\ sold' \in [Ids -> SUBSET Ids]
    BY <2>1, <2>2 DEF ListTypeOK
  <2>4. QED
    BY <1>8, <2>3 DEF ListTypeOK, BookVacancy, Goto, listVars
<1>9. ASSUME NEW w \in Workers, SaveConverted(w)
      PROVE  ListTypeOK'
  BY <1>9, JobTypes, EntryTypes
     DEF ListTypeOK, SaveConverted, Unlock, Finish, Goto, JobInv, JobOK
<1>10. ASSUME NEW w \in Workers, LockTimeout(w) \/ SaveFails(w) \/ Crash(w)
       PROVE  ListTypeOK'
  BY <1>10, JobTypes
     DEF ListTypeOK, LockTimeout, SaveFails, Crash, Unlock, Finish, Goto, listVars,
         JobInv, JobOK
<1>11. ASSUME NEW e \in Entries, CreateEntry(e) \/ PassDeadline(e) \/ CloseConnection(e)
       PROVE  ListTypeOK'
  BY <1>11, EntryTypes
     DEF ListTypeOK, CreateEntry, PassDeadline, CloseConnection, requestVars, listVars
<1>12. CASE ExpireOverdue \/ Desk \/ UNCHANGED vars
  BY <1>12, EntryTypes DEF ListTypeOK, ExpireOverdue, Desk, requestVars, listVars, vars
<1>13. QED
  BY <1>1, <1>2, <1>3, <1>4, <1>5, <1>6, <1>7, <1>8, <1>9, <1>10, <1>11, <1>12
     DEF ListNext, Match, Convert

-----------------------------------------------------------------------------
\* Offers

\* What changes in the requests when w moves on, ends or begins.
LEMMA GotoEffect ==
  ASSUME ListTypeOK, NEW w \in Workers, NEW ph, Goto(w, ph)
  PROVE  pc'[w] = ph /\ \A q \in Workers \ {w} : pc'[q] = pc[q]
BY DEF ListTypeOK, Goto

LEMMA FinishEffect ==
  ASSUME ListTypeOK, NEW w \in Workers, Finish(w)
  PROVE  pc'[w] = "idle" /\ \A q \in Workers \ {w} : pc'[q] = pc[q] /\ job'[q] = job[q]
BY DEF ListTypeOK, Finish, Goto

LEMMA StartEffect ==
  ASSUME ListTypeOK, NEW w \in Workers, NEW j, NEW ph, Start(w, j, ph)
  PROVE  /\ pc[w] = "idle" /\ pc'[w] = ph /\ job'[w] = j
         /\ \A q \in Workers \ {w} : pc'[q] = pc[q] /\ job'[q] = job[q]
BY DEF ListTypeOK, Start, Goto

\* Other requests keep what they know: rows and offers are only added.
LEMMA JobStep ==
  ASSUME JobInv, NEW w \in Workers, JobOK(w)',
         \A q \in Workers \ {w} : pc'[q] = pc[q] /\ job'[q] = job[q],
         Booked \subseteq Booked',
         \A o \in Ids : offered[o] \subseteq offered'[o]
  PROVE  JobInv'
<1>1. ASSUME NEW q \in Workers \ {w}
      PROVE  JobOK(q)'
  <2>1. JobOK(q)
    BY DEF JobInv
  <2>2. QED
    BY <2>1 DEF JobOK
<1>2. QED
  BY <1>1 DEF JobInv

\* An entry that is written or expires lets go of what it held.
LEMMA EntryStep ==
  ASSUME HeldIsClaimed,
         \A e \in Entries :
           \/ entry'[e] = entry[e]
           \/ entry'[e].opp = None
           \/ entry'[e].opp = entry[e].opp /\ entry'[e].status = "CONVERTED",
         UNCHANGED <<offer, offered>>
  PROVE  HeldIsClaimed'
BY DEF HeldIsClaimed

LEMMA ExpireEffect ==
  ASSUME ListTypeOK, entry' = Expired
  PROVE  \A e \in Entries : entry'[e] = entry[e] \/ entry'[e].opp = None
BY DEF ListTypeOK, Entry, Expired

\* A matched entry is the first and only one its opportunity is offered to.
LEMMA MatchStep ==
  ASSUME OfferInv, NEW w \in Workers, MatchOldest(w), Booked \subseteq Booked'
  PROVE  JobInv' /\ ClaimInv' /\ OfferedOnce' /\ HeldIsClaimed'
<1> DEFINE o == job[w].opp
           e == Oldest(Candidates(o))
<1>1. /\ o \in Booked /\ o \in Ids /\ e \in Entries
      /\ entry[e].status = "WAITING" /\ ~Released(o).claimed
  BY MatchedEntry
<1>2. ListTypeOK /\ JobInv /\ ClaimInv /\ OfferedOnce /\ HeldIsClaimed
  BY DEF OfferInv
<1>3. offered[o] = {}
  BY <1>1, <1>2 DEF ClaimInv, Released
<1>4. /\ offered'[o] = {e}
      /\ \A x \in Ids \ {o} : offered'[x] = offered[x]
  BY <1>1, <1>2, <1>3 DEF MatchOldest, ListTypeOK
<1>5. /\ offer'[o] \in Opportunity /\ offer'[o].claimed
      /\ \A x \in Ids \ {o} : offer'[x] = offer[x]
  <2>1. [Released(o) EXCEPT !.claimed = TRUE] \in Opportunity
    BY <1>1, <1>2, ReleasedType
  <2>2. QED
    BY <1>1, <1>2, <2>1 DEF MatchOldest, ListTypeOK, Opportunity
<1>6. /\ entry'[e].status = "MATCHED" /\ entry'[e].opp = o
      /\ \A f \in Entries \ {e} : entry'[f] = entry[f]
  BY <1>1, <1>2 DEF MatchOldest, ListTypeOK, Entry
<1>7. JobInv'
  <2>1. pc'[w] = "expire" /\ \A q \in Workers \ {w} : pc'[q] = pc[q] /\ job'[q] = job[q]
    BY <1>2, GotoEffect DEF MatchOldest
  <2>2. QED
    BY <1>2, <1>3, <1>4, <2>1, JobStep DEF JobOK
<1>8. ClaimInv'
  <2>1. UNCHANGED sold
    BY DEF MatchOldest
  <2>2. None \notin Opportunity => offer'[o] # None
    BY <1>5
  <2>3. QED
    BY <1>2, <1>4, <1>5, <2>1, <2>2, NoOpportunity DEF ClaimInv
<1>9. OfferedOnce'
  BY <1>2, <1>4 DEF OfferedOnce
<1>10. HeldIsClaimed'
  <2>1. ASSUME NEW f \in Entries \ {e}, entry'[f].opp # None
        PROVE  /\ entry'[f].status \in {"MATCHED", "CONVERTED"}
               /\ offer'[entry'[f].opp] # None
               /\ offer'[entry'[f].opp].claimed
               /\ f \in offered'[entry'[f].opp]
    <3>1. entry'[f].opp # o /\ entry'[f].opp \in Ids
      BY <1>2, <1>3, <1>6, <2>1 DEF HeldIsClaimed, ListTypeOK, Entry
    <3>2. QED
      BY <1>2, <1>4, <1>5, <1>6, <2>1, <3>1 DEF HeldIsClaimed
  <2>2. QED
    BY <1>1, <1>4, <1>5, <1>6, <2>1, NoOpportunity DEF HeldIsClaimed
<1>11. QED
  BY <1>7, <1>8, <1>9, <1>10

LEMMA OfferStep == OfferInv /\ [ListNext]_vars => OfferInv'
<1> SUFFICES ASSUME OfferInv, [ListNext]_vars
             PROVE  JobInv' /\ ClaimInv' /\ OfferedOnce' /\ HeldIsClaimed'
  BY ListTypeStep DEF OfferInv
<1>0. /\ ListTypeOK /\ JobInv /\ ClaimInv /\ OfferedOnce /\ HeldIsClaimed
      /\ Booked \subseteq Booked'
  BY CalendarStep, BookedGrows DEF OfferInv, ListTypeOK
<1> USE <1>0
\* Steps that touch neither offers nor sales
<1>1. ASSUME UNCHANGED <<offer, offered, sold>>, JobInv',
             \A e \in Entries :
               \/ entry'[e] = entry[e]
               \/ entry'[e].opp = None
               \/ entry'[e].opp = entry[e].opp /\ entry'[e].status = "CONVERTED"
      PROVE  JobInv' /\ ClaimInv' /\ OfferedOnce' /\ HeldIsClaimed'
  BY <1>1, EntryStep DEF ClaimInv, OfferedOnce
<1>2. ASSUME NEW w \in Workers, UNCHANGED offered, JobOK(w)',
             \A q \in Workers \ {w} : pc'[q] = pc[q] /\ job'[q] = job[q]
      PROVE  JobInv'
  BY <1>2, JobStep
<1>3. ASSUME NEW w \in Workers, UNCHANGED offered, Finish(w)
      PROVE  JobInv'
  BY <1>2, <1>3, FinishEffect DEF JobOK
<1>4. ASSUME NEW w \in Workers, CancelAppointment(w)
      PROVE  UNCHANGED listVars /\ UNCHANGED sold /\ JobInv'
  <2>1. PICK id \in Booked : Start(w, [NoJob EXCEPT !.opp = id], "match")
    BY <1>4 DEF CancelAppointment
  <2>2. JobOK(w)'
    BY <2>1, StartEffect DEF JobOK, NoJob
  <2>3. QED
    BY <1>2, <1>4, <2>1, <2>2, StartEffect DEF CancelAppointment, listVars
<1>5. ASSUME NEW w \in Workers, StartCancel(w)
      PROVE  UNCHANGED listVars /\ UNCHANGED sold /\ JobInv'
  <2>1. PICK e \in Entries : Start(w, [NoJob EXCEPT !.entry = e], "cancel")
    BY <1>5 DEF StartCancel
  <2>2. JobOK(w)'
    BY <2>1, StartEffect DEF JobOK, NoJob
  <2>3. QED
    BY <1>2, <1>5, <2>1, <2>2, StartEffect DEF StartCancel, listVars
<1>6. ASSUME NEW w \in Workers, StartConvert(w)
      PROVE  UNCHANGED listVars /\ UNCHANGED sold /\ JobInv'
  <2>1. PICK e \in Entries, o \in Ids :
          Start(w, [NoJob EXCEPT !.entry = e, !.opp = o], "lock")
    BY <1>6 DEF StartConvert
  <2>2. pc'[w] = "lock" /\ job'[w].entry = e /\ job'[w].opp = o
    BY <2>1, StartEffect DEF NoJob
  <2>3. JobOK(w)'
    BY <2>2 DEF JobOK
  <2>4. QED
    BY <1>2, <1>6, <2>1, <2>3, StartEffect DEF StartConvert, listVars
<1>7. ASSUME NEW w \in Workers, BeginConvert(w)
      PROVE  UNCHANGED listVars /\ UNCHANGED sold /\ JobInv'
  <2>1. JobOK(w)'
    BY <1>7, GotoEffect DEF BeginConvert, JobInv, JobOK
  <2>2. QED
    BY <1>2, <1>7, <2>1, GotoEffect DEF BeginConvert, listVars
<1>8. ASSUME NEW w \in Workers, Reread(w)
      PROVE  UNCHANGED listVars /\ UNCHANGED sold /\ JobInv'
  <2>1. job[w].entry \in Entries /\ job[w].opp \in Ids
    BY <1>8 DEF Reread, JobInv, JobOK
  <2>2. job[w].entry \in offered[job[w].opp]
    BY <1>8, <2>1, RulesAssumption DEF Reread, Convertible, HeldIsClaimed
  <2>3. pc'[w] = "book" /\ UNCHANGED <<job, offered>>
    BY <1>8, GotoEffect DEF Reread, listVars
  <2>4. JobOK(w)'
    BY <2>1, <2>2, <2>3 DEF JobOK
  <2>5. QED
    BY <1>2, <1>8, <2>4, GotoEffect DEF Reread, listVars
<1>9. ASSUME NEW w \in Workers, BookVacancy(w)
      PROVE  JobInv' /\ ClaimInv' /\ OfferedOnce' /\ HeldIsClaimed'
  <2>1. job[w].entry \in Entries /\ job[w].opp \in Ids /\ job[w].entry \in offered[job[w].opp]
    BY <1>9 DEF BookVacancy, JobInv, JobOK
  <2>2. PICK id \in Ids : /\ job' = [job EXCEPT ![w].made = id]
                          /\ sold' = [sold EXCEPT ![job[w].opp] = @ \cup {id}]
    BY <1>9 DEF BookVacancy
  <2>3. /\ pc'[w] = "save" /\ job'[w].entry = job[w].entry /\ job'[w].opp = job[w].opp
        /\ job'[w].made = id
        /\ \A q \in Workers \ {w} : pc'[q] = pc[q] /\ job'[q] = job[q]
    BY <1>9, <2>2, GotoEffect DEF BookVacancy, ListTypeOK, Job
  <2>4. UNCHANGED listVars
    BY <1>9 DEF BookVacancy
  <2>5. JobInv'
    BY <1>2, <2>1, <2>3, <2>4 DEF JobOK, listVars
  <2>6. ClaimInv'
    BY <2>1, <2>2, <2>4 DEF ClaimInv, ListTypeOK, listVars
  <2>7. QED
    BY <2>4, <2>5, <2>6 DEF OfferedOnce, HeldIsClaimed, listVars
<1>10. ASSUME NEW w \in Workers,
              \/ MatchRevived(w) \/ ConvertBusy(w) \/ NotMatched(w) \/ BookRefused(w)
              \/ SaveFails(w) \/ Crash(w)
       PROVE  UNCHANGED listVars /\ UNCHANGED sold /\ JobInv'
  BY <1>3, <1>10
     DEF MatchRevived, ConvertBusy, NotMatched, BookRefused, SaveFails, Crash, listVars
<1>11. ASSUME NEW w \in Workers, LockTimeout(w)
       PROVE  UNCHANGED listVars /\ UNCHANGED sold /\ JobInv'
  BY <1>11 DEF LockTimeout, listVars, JobInv, JobOK, Booked
<1>12. ASSUME UNCHANGED <<pc, job, offered>>
       PROVE  JobInv'
  BY <1>12 DEF JobInv, JobOK
<1>13. ASSUME NEW w \in Workers, MatchNobody(w)
       PROVE  JobInv' /\ ClaimInv' /\ OfferedOnce' /\ HeldIsClaimed'
  <2>1. job[w].opp \in Booked /\ job[w].opp \in Ids
    BY <1>13 DEF MatchNobody, JobInv, JobOK, Booked
  <2>2. /\ offer'[job[w].opp] \in Opportunity
        /\ offer[job[w].opp] # None => offer'[job[w].opp] = offer[job[w].opp]
        /\ \A x \in Ids \ {job[w].opp} : offer'[x] = offer[x]
    BY <1>13, <2>1, ReleasedType DEF MatchNobody, ListTypeOK, Released
  <2>3. UNCHANGED <<entry, offered, sold>>
    BY <1>13 DEF MatchNobody
  <2>4. ClaimInv'
    BY <2>1, <2>2, <2>3 DEF ClaimInv
  <2>5. HeldIsClaimed'
    BY <2>1, <2>2, <2>3 DEF HeldIsClaimed, ListTypeOK, Entry
  <2>6. QED
    BY <1>3, <1>13, <2>3, <2>4, <2>5 DEF MatchNobody, OfferedOnce
<1>14. ASSUME NEW w \in Workers, AnswerMatch(w)
       PROVE  JobInv' /\ ClaimInv' /\ OfferedOnce' /\ HeldIsClaimed'
  BY <1>1, <1>3, <1>14, ExpireEffect DEF AnswerMatch
<1>15. ASSUME NEW w \in Workers, WriteCancel(w)
       PROVE  JobInv' /\ ClaimInv' /\ OfferedOnce' /\ HeldIsClaimed'
  <2>1. \A e \in Entries : entry'[e] = entry[e] \/ entry'[e].opp = None
    BY <1>15 DEF WriteCancel, JobInv, JobOK, ListTypeOK, Entry
  <2>2. QED
    BY <1>1, <1>3, <1>15, <2>1 DEF WriteCancel
<1>16. ASSUME NEW w \in Workers, SaveConverted(w)
       PROVE  JobInv' /\ ClaimInv' /\ OfferedOnce' /\ HeldIsClaimed'
  <2>1. \A e \in Entries :
          \/ entry'[e] = entry[e]
          \/ entry'[e].opp = entry[e].opp /\ entry'[e].status = "CONVERTED"
    BY <1>16 DEF SaveConverted, JobInv, JobOK, ListTypeOK, Entry
  <2>2. QED
    BY <1>1, <1>3, <1>16, <2>1 DEF SaveConverted
<1>17. ASSUME NEW e \in Entries, CreateEntry(e)
       PROVE  JobInv' /\ ClaimInv' /\ OfferedOnce' /\ HeldIsClaimed'
  <2>1. entry[e].opp = None
    BY <1>17 DEF CreateEntry, HeldIsClaimed
  <2>2. \A f \in Entries : entry'[f] = entry[f] \/ entry'[f].opp = None
    BY <1>17, <2>1 DEF CreateEntry, ListTypeOK, Entry
  <2>3. QED
    BY <1>1, <1>12, <1>17, <2>2 DEF CreateEntry, requestVars
<1>18. ASSUME NEW e \in Entries, PassDeadline(e) \/ CloseConnection(e)
       PROVE  JobInv' /\ ClaimInv' /\ OfferedOnce' /\ HeldIsClaimed'
  BY <1>1, <1>12, <1>18 DEF PassDeadline, CloseConnection, requestVars, listVars
<1>19. CASE ExpireOverdue
  BY <1>1, <1>12, <1>19, ExpireEffect DEF ExpireOverdue, requestVars
<1>20. CASE Desk \/ UNCHANGED vars
  BY <1>1, <1>12, <1>20 DEF Desk, vars, listVars, requestVars
<1>21. ASSUME NEW w \in Workers, MatchOldest(w)
       PROVE  JobInv' /\ ClaimInv' /\ OfferedOnce' /\ HeldIsClaimed'
  BY <1>21, MatchStep
<1>22. ASSUME UNCHANGED listVars, UNCHANGED sold, JobInv'
       PROVE  JobInv' /\ ClaimInv' /\ OfferedOnce' /\ HeldIsClaimed'
  BY <1>1, <1>22 DEF listVars
<1>23. QED
  BY <1>4, <1>5, <1>6, <1>7, <1>8, <1>9, <1>10, <1>11, <1>13, <1>14, <1>15,
     <1>16, <1>17, <1>18, <1>19, <1>20, <1>21, <1>22
     DEF ListNext, Match, Convert

-----------------------------------------------------------------------------
\* Sales

\* A request that is not converting any more, or never was, changes nothing.
LEMMA IdleSale ==
  ASSUME SaleInv, NEW w \in Workers,
         UNCHANGED <<sold, broken>>,
         \A q \in Workers \ {w} : pc'[q] = pc[q] /\ job'[q] = job[q],
         pc'[w] \notin {"reread", "book", "save"},
         pc[w] # "save",
         \A q \in Workers \ {w}, e \in Entries : lock[e] = q => lock'[e] = q,
         \A q \in Workers : pc[q] \in {"reread", "book", "save"} => job[q].entry \in Entries,
         \A e \in Entries : entry'[e] = entry[e] \/ entry'[e].opp \notin Ids
  PROVE  SaleInv'
<1>1. LockInv'
  BY DEF SaleInv, LockInv
<1>2. FirstInv'
  BY DEF SaleInv, FirstInv
<1>3. SavedInv'
  BY DEF SaleInv, SavedInv
<1>4. QED
  BY <1>1, <1>2, <1>3 DEF SaleInv, SoldOnce

LEMMA SaleStep == OfferInv /\ SaleInv /\ [ListNext]_vars => SaleInv'
<1> SUFFICES ASSUME OfferInv, SaleInv, [ListNext]_vars
             PROVE  SaleInv'
  OBVIOUS
<1>0. /\ ListTypeOK /\ JobInv /\ ClaimInv /\ OfferedOnce /\ HeldIsClaimed
      /\ LockInv /\ FirstInv /\ SavedInv /\ SoldOnce
  BY DEF OfferInv, SaleInv
<1>n. None \notin Ids /\ None \notin Workers
  BY RulesAssumption, WaitlistAssumption
<1>j. \A q \in Workers : pc[q] \in {"reread", "book", "save"} => job[q].entry \in Entries /\ job[q].opp \in Ids
  BY <1>0 DEF JobInv, JobOK
<1> USE <1>0, <1>n, <1>j
\* Steps without a request, or whose request only reads
<1>1. ASSUME UNCHANGED <<pc, job, lock, sold, broken>>,
             \A e \in Entries : entry'[e] = entry[e] \/ entry'[e].opp = None
      PROVE  SaleInv'
  BY <1>1 DEF SaleInv, LockInv, FirstInv, SavedInv, SoldOnce
<1>2. ASSUME NEW e \in Entries, CreateEntry(e)
      PROVE  SaleInv'
  <2>1. entry[e].opp = None
    BY <1>2 DEF CreateEntry, HeldIsClaimed
  <2>2. \A f \in Entries : entry'[f] = entry[f] \/ entry'[f].opp = None
    BY <1>2, <2>1 DEF CreateEntry, ListTypeOK, Entry
  <2>3. QED
    BY <1>1, <1>2, <2>2 DEF CreateEntry, requestVars
<1>3. ASSUME NEW e \in Entries, PassDeadline(e) \/ CloseConnection(e)
      PROVE  SaleInv'
  BY <1>1, <1>3 DEF PassDeadline, CloseConnection, requestVars, listVars
<1>4. CASE ExpireOverdue
  BY <1>1, <1>4, ExpireEffect DEF ExpireOverdue, requestVars
<1>5. CASE Desk \/ UNCHANGED vars
  BY <1>1, <1>5 DEF Desk, vars, listVars, requestVars
<1>6. ASSUME NEW w \in Workers, NEW j, NEW ph \in {"match", "cancel", "lock"},
             Start(w, j, ph), UNCHANGED <<entry, lock, sold, broken>>
      PROVE  SaleInv'
  BY <1>6, IdleSale, StartEffect
<1>7. ASSUME NEW w \in Workers, CancelAppointment(w) \/ StartCancel(w) \/ StartConvert(w)
      PROVE  SaleInv'
  BY <1>6, <1>7 DEF CancelAppointment, StartCancel, StartConvert, listVars
\* Requests that end without having booked
<1>8. ASSUME NEW w \in Workers, Finish(w), UNCHANGED <<sold, broken>>, pc[w] # "save",
             \A e \in Entries : lock'[e] = lock[e] \/ lock[e] = w,
             \A e \in Entries : entry'[e] = entry[e] \/ entry'[e].opp = None
      PROVE  SaleInv'
  <2>1. \A q \in Workers \ {w}, e \in Entries : lock[e] = q => lock'[e] = q
    BY <1>8
  <2>2. QED
    BY <1>8, <2>1, IdleSale, FinishEffect
<1>9. ASSUME NEW w \in Workers, MatchRevived(w) \/ MatchNobody(w) \/ ConvertBusy(w)
      PROVE  SaleInv'
  BY <1>8, <1>9 DEF MatchRevived, MatchNobody, ConvertBusy, listVars
<1>10. ASSUME NEW w \in Workers, AnswerMatch(w)
       PROVE  SaleInv'
  BY <1>8, <1>10, ExpireEffect DEF AnswerMatch
<1>11. ASSUME NEW w \in Workers, WriteCancel(w)
       PROVE  SaleInv'
  <2>1. \A e \in Entries : entry'[e] = entry[e] \/ entry'[e].opp = None
    BY <1>11 DEF WriteCancel, JobInv, JobOK, ListTypeOK, Entry
  <2>2. QED
    BY <1>8, <1>11, <2>1 DEF WriteCancel
<1>12. ASSUME NEW w \in Workers, NotMatched(w) \/ BookRefused(w)
       PROVE  SaleInv'
  BY <1>8, <1>12 DEF NotMatched, BookRefused, Unlock, listVars
<1>13. ASSUME NEW w \in Workers, Crash(w), pc[w] # "save"
       PROVE  SaleInv'
  BY <1>8, <1>13 DEF Crash, listVars
\* The entry that is matched holds nothing, and its opportunity is unsold
<1>14. ASSUME NEW w \in Workers, MatchOldest(w)
       PROVE  SaleInv'
  <2> DEFINE o == job[w].opp
             e == Oldest(Candidates(o))
  <2>1. /\ o \in Booked /\ o \in Ids /\ e \in Entries /\ ~Released(o).claimed
    BY <1>14, MatchedEntry
  <2>2. sold[o] = {}
    BY <2>1 DEF ClaimInv, Released
  <2>3. /\ entry'[e].opp = o
        /\ \A f \in Entries \ {e} : entry'[f] = entry[f]
    BY <1>14, <2>1 DEF MatchOldest, ListTypeOK, Entry
  <2>4. /\ pc[w] = "match" /\ pc'[w] = "expire"
        /\ \A q \in Workers \ {w} : pc'[q] = pc[q]
        /\ UNCHANGED <<job, lock, sold, broken>>
    BY <1>14, GotoEffect DEF MatchOldest
  <2>5. LockInv' /\ FirstInv' /\ SoldOnce'
    BY <2>4 DEF LockInv, FirstInv, SoldOnce
  <2>6. SavedInv'
    BY <2>2, <2>3, <2>4 DEF SavedInv
  <2>7. QED
    BY <2>5, <2>6 DEF SaleInv
\* The conversion
<1>15. ASSUME NEW w \in Workers, BeginConvert(w)
       PROVE  SaleInv'
  <2>1. /\ pc[w] = "lock" /\ pc'[w] = "reread"
        /\ \A q \in Workers \ {w} : pc'[q] = pc[q]
        /\ UNCHANGED <<entry, job, sold, broken>>
    BY <1>15, GotoEffect DEF BeginConvert, listVars
  <2>2. /\ job[w].entry \in Entries /\ lock[job[w].entry] = None
        /\ lock'[job[w].entry] = w
        /\ \A e \in Entries \ {job[w].entry} : lock'[e] = lock[e]
    BY <1>15 DEF BeginConvert, TakeLock, ListTypeOK, JobInv, JobOK
  <2>3. LockInv'
    BY <2>1, <2>2 DEF LockInv
  <2>4. FirstInv' /\ SoldOnce' /\ SavedInv'
    BY <2>1 DEF FirstInv, SoldOnce, SavedInv
  <2>5. QED
    BY <2>3, <2>4 DEF SaleInv
\* What is read again is matched, so nobody has sold it or is about to
<1>16. ASSUME NEW w \in Workers, Reread(w)
       PROVE  SaleInv'
  <2>1. /\ pc[w] = "reread" /\ pc'[w] = "book"
        /\ \A q \in Workers \ {w} : pc'[q] = pc[q]
        /\ UNCHANGED <<entry, job, lock, sold, broken>>
    BY <1>16, GotoEffect DEF Reread, listVars
  <2>2. ASSUME job[w].opp \notin broken
        PROVE  sold[job[w].opp] = {}
    <3>1. /\ entry[job[w].entry].opp = job[w].opp
          /\ entry[job[w].entry].status = "MATCHED"
          /\ lock[job[w].entry] = w
      BY <1>16, <2>2 DEF Reread, Convertible, LockInv
    <3>2. ASSUME NEW q \in Workers, pc[q] = "save", job[q].entry = job[w].entry,
                 job[q].opp = job[w].opp
          PROVE  FALSE
      BY <2>1, <2>2, <3>1, <3>2 DEF LockInv
    <3>3. QED
      BY <2>1, <2>2, <3>1, <3>2 DEF SavedInv
  <2>3. LockInv' /\ SoldOnce'
    BY <2>1 DEF LockInv, SoldOnce
  <2>4. FirstInv'
    BY <2>1, <2>2 DEF FirstInv
  <2>5. SavedInv'
    BY <2>1 DEF SavedInv
  <2>6. QED
    BY <2>3, <2>4, <2>5 DEF SaleInv
<1>17. ASSUME NEW w \in Workers, BookVacancy(w)
       PROVE  SaleInv'
  <2> DEFINE o == job[w].opp
             e == job[w].entry
  <2>1. e \in Entries /\ o \in Ids /\ e \in offered[o] /\ pc[w] = "book"
    BY <1>17 DEF BookVacancy, JobInv, JobOK
  <2>2. PICK id \in Ids : /\ job' = [job EXCEPT ![w].made = id]
                          /\ sold' = [sold EXCEPT ![o] = @ \cup {id}]
    BY <1>17 DEF BookVacancy
  <2>3. /\ pc'[w] = "save"
        /\ \A q \in Workers \ {w} : pc'[q] = pc[q]
        /\ \A q \in Workers : job'[q].entry = job[q].entry /\ job'[q].opp = job[q].opp
        /\ UNCHANGED <<entry, lock, broken>>
    BY <1>17, <2>2, GotoEffect DEF BookVacancy, ListTypeOK, Job, listVars
  <2>4. /\ sold'[o] = sold[o] \cup {id}
        /\ \A x \in Ids \ {o} : sold'[x] = sold[x]
    BY <2>1, <2>2 DEF ListTypeOK
  <2>5. LockInv'
    BY <2>1, <2>3 DEF LockInv
  <2>6. FirstInv'
    <3>1. ASSUME NEW q \in Workers \ {w}, pc[q] = "book", job[q].opp = o, o \notin broken
          PROVE  FALSE
      <4>1. job[q].entry \in offered[o]
        BY <3>1 DEF JobInv, JobOK
      <4>2. job[q].entry = e
        BY <2>1, <4>1 DEF OfferedOnce
      <4>3. lock[e] = q /\ lock[e] = w
        BY <2>1, <3>1, <4>2 DEF LockInv
      <4>4. QED
        BY <4>3
    <3>2. QED
      BY <2>1, <2>3, <2>4, <3>1 DEF FirstInv
  <2>7. SavedInv'
    <3>1. ASSUME NEW f \in Entries, entry[f].opp = o
          PROVE  f = e
      BY <2>1, <3>1 DEF HeldIsClaimed, OfferedOnce
    <3>2. pc'[w] = "save" /\ job'[w].entry = e /\ job'[w].opp = o
      BY <2>3
    <3>3. ASSUME NEW x \in Ids \ broken, NEW f \in Entries, x # o, sold[x] # {},
                 entry[f].opp = x
          PROVE  \/ entry[f].status = "CONVERTED"
                 \/ \E q \in Workers : pc'[q] = "save" /\ job'[q].entry = f /\ job'[q].opp = x
      BY <2>1, <2>3, <3>3 DEF SavedInv
    <3>4. QED
      BY <2>3, <2>4, <3>1, <3>2, <3>3 DEF SavedInv
  <2>8. SoldOnce'
    BY <2>1, <2>3, <2>4 DEF SoldOnce, FirstInv
  <2>9. QED
    BY <2>5, <2>6, <2>7, <2>8 DEF SaleInv
<1>18. ASSUME NEW w \in Workers, SaveConverted(w)
       PROVE  SaleInv'
  <2>1. job[w].entry \in Entries /\ pc[w] = "save"
    BY <1>18 DEF SaveConverted
  <2>2. /\ entry'[job[w].entry].status = "CONVERTED"
        /\ \A f \in Entries \ {job[w].entry} : entry'[f] = entry[f]
    BY <1>18, <2>1 DEF SaveConverted, ListTypeOK, Entry
  <2>3. /\ pc'[w] = "idle"
        /\ \A q \in Workers \ {w} : pc'[q] = pc[q] /\ job'[q] = job[q]
        /\ UNCHANGED <<sold, broken>>
    BY <1>18, FinishEffect DEF SaveConverted
  <2>4. \A q \in Workers \ {w}, f \in Entries : lock[f] = q => lock'[f] = q
    BY <1>18 DEF SaveConverted, Unlock
  <2>5. LockInv' /\ FirstInv' /\ SoldOnce'
    BY <2>3, <2>4 DEF LockInv, FirstInv, SoldOnce
  <2>6. SavedInv'
    <3>1. ASSUME NEW x \in Ids \ broken, NEW f \in Entries \ {job[w].entry},
                 sold[x] # {}, entry[f].opp = x
          PROVE  \/ entry[f].status = "CONVERTED"
                 \/ \E q \in Workers : pc'[q] = "save" /\ job'[q].entry = f /\ job'[q].opp = x
      BY <2>3, <3>1 DEF SavedInv
    <3>2. QED
      BY <2>2, <2>3, <3>1 DEF SavedInv
  <2>7. QED
    BY <2>5, <2>6 DEF SaleInv
\* Failures: the opportunity is broken from now on
<1>19. ASSUME NEW w \in Workers, LockTimeout(w)
       PROVE  SaleInv'
  <2>1. /\ lock[job[w].entry] = w
        /\ \A e \in Entries : lock'[e] = lock[e] \/ lock[e] = w
        /\ broken' = broken \cup {job[w].opp}
        /\ UNCHANGED <<entry, pc, job, sold>>
    BY <1>19 DEF LockTimeout, ListTypeOK, listVars
  <2>2. pc[w] \in {"reread", "book", "save"}
    BY <1>19 DEF LockTimeout
  <2>3. LockInv'
    BY <2>1, <2>2 DEF LockInv
  <2>4. FirstInv' /\ SoldOnce'
    BY <2>1 DEF FirstInv, SoldOnce
  <2>5. SavedInv'
    BY <2>1 DEF SavedInv
  <2>6. QED
    BY <2>3, <2>4, <2>5 DEF SaleInv
<1>20. ASSUME NEW w \in Workers, SaveFails(w) \/ Crash(w), pc[w] = "save"
       PROVE  SaleInv'
  <2>1. /\ broken' = broken \cup {job[w].opp}
        /\ pc'[w] = "idle"
        /\ \A q \in Workers \ {w} : pc'[q] = pc[q] /\ job'[q] = job[q]
        /\ UNCHANGED <<entry, sold>>
    BY <1>20, FinishEffect DEF SaveFails, Crash, listVars
  <2>2. \A q \in Workers \ {w}, e \in Entries : lock[e] = q => lock'[e] = q
    BY <1>20 DEF SaveFails, Crash, Unlock
  <2>3. LockInv'
    BY <2>1, <2>2 DEF LockInv
  <2>4. FirstInv' /\ SoldOnce'
    BY <2>1 DEF FirstInv, SoldOnce
  <2>5. SavedInv'
    BY <1>20, <2>1 DEF SavedInv
  <2>6. QED
    BY <2>3, <2>4, <2>5 DEF SaleInv
<1>21. ASSUME NEW w \in Workers, SaveFails(w)
       PROVE  SaleInv'
  BY <1>20, <1>21 DEF SaveFails
<1>22. QED
  BY <1>2, <1>3, <1>4, <1>5, <1>7, <1>9, <1>10, <1>11, <1>12, <1>13, <1>14,
     <1>15, <1>16, <1>17, <1>18, <1>19, <1>20, <1>21
     DEF ListNext, Match, Convert

-----------------------------------------------------------------------------
LEMMA ListInitInv == ListInit => OfferInv /\ SaleInv
<1> SUFFICES ASSUME ListInit
             PROVE  OfferInv /\ SaleInv
  OBVIOUS
<1>1. ListTypeOK
  BY CalendarInitType
     DEF ListInit, ListTypeOK, Entry, EntryStatus, Phases, NoJob, Job
<1>2. QED
  BY <1>1
     DEF ListInit, OfferInv, SaleInv, JobInv, JobOK, ClaimInv, OfferedOnce, HeldIsClaimed,
         LockInv, FirstInv, SavedInv, SoldOnce

\* The inductive invariant: requests, claims, locks and sales agree.
THEOREM WaitlistInvariant == ListSpec => [](OfferInv /\ SaleInv)
BY ListInitInv, OfferStep, SaleStep, PTL DEF ListSpec

(***************************************************************************)
(* Entries, opportunities and requests stay well formed: in particular the *)
(* protocol of a converted appointment is one the calendar can give.       *)
(***************************************************************************)
THEOREM WaitlistTypeOK == ListSpec => []ListTypeOK
<1>1. OfferInv => ListTypeOK
  BY DEF OfferInv
<1>2. QED
  BY <1>1, WaitlistInvariant, PTL

(***************************************************************************)
(* An opportunity goes to one entry at most, for good: claimed_at is never *)
(* cleared, not even when the entry gives it up (createAndClaimOpportunity)*)
(***************************************************************************)
THEOREM OneEntryPerOpportunity == ListSpec => []OfferedOnce
<1>1. OfferInv => OfferedOnce
  BY DEF OfferInv
<1>2. QED
  BY <1>1, WaitlistInvariant, PTL

(***************************************************************************)
(* No stale cancel, expiry or conversion leaves an ended entry holding an  *)
(* opportunity, nor an entry holding one that was not claimed for it.      *)
(***************************************************************************)
THEOREM HeldOpportunities == ListSpec => []HeldIsClaimed
<1>1. OfferInv => HeldIsClaimed
  BY DEF OfferInv
<1>2. QED
  BY <1>1, WaitlistInvariant, PTL

(***************************************************************************)
(* withConversionLock and the second read make a conversion exclusive: the *)
(* only opportunities sold twice are those whose conversion was cut short  *)
(* after it booked, or lost its lock to the limit of the transaction.      *)
(***************************************************************************)
THEOREM OneSalePerOpportunity == ListSpec => []SoldOnce
<1>1. SaleInv => SoldOnce
  BY DEF SaleInv
<1>2. QED
  BY <1>1, WaitlistInvariant, PTL

-----------------------------------------------------------------------------
(* What Calendar promises, and the waiting list with it *)

\* The conflict test does not depend on which of two active rows asks it.
LEMMA ConflictSymmetric ==
  ASSUME NEW a \in Row, NEW b \in Row, a.status \in Active, b.status \in Active,
         Conflicts(a, b.prof, b.slot)
  PROVE  Conflicts(b, a.prof, a.slot)
BY RulesAssumption DEF Conflicts, Overlaps, Row

\* The invariant behind OverlapOnlyByRevival: a row that is not active now
\* has an ended status in its past, because its own status is in its past.
RevivalInv == TypeOK /\ StatusSeen /\ OverlapOnlyByRevival

LEMMA RevivalStep == RevivalInv /\ [Next]_calendarVars => RevivalInv'
<1> SUFFICES ASSUME RevivalInv, [Next]_calendarVars
             PROVE  RevivalInv'
  OBVIOUS
<1>t. TypeOK'
  BY TypeStep DEF RevivalInv
<1> USE DEF RevivalInv, TypeOK, StatusSeen, Booked
<1>1. ASSUME NEW id \in Ids, NEW p \in Professionals, NEW s \in Slots,
             NEW n \in Protocols, Book(id, p, s, n)
      PROVE  StatusSeen' /\ OverlapOnlyByRevival'
  <2>1. /\ appt'[id] = NewRow(p, s, n)
        /\ seen'[id] = {"PENDING"}
        /\ \A b \in Ids \ {id} : appt'[b] = appt[b] /\ seen'[b] = seen[b]
    BY <1>1 DEF Book
  <2>2. StatusSeen'
    BY <2>1, <1>1 DEF NewRow
  <2>3. ASSUME NEW b \in Booked, b # id, appt[b].status \in Active
        PROVE  /\ ~Conflicts(appt'[b], p, s)
               /\ ~Conflicts(appt'[id], appt'[b].prof, appt'[b].slot)
    <3>1. ~Conflicts(appt'[b], p, s)
      BY <1>1, <2>1, <2>3, RulesAssumption DEF Book, Free
    <3>2. appt'[id] \in Row /\ appt'[b] \in Row
      BY <1>t, <2>1, <2>3, <1>1 DEF NewRow, Row, Status
    <3>3. appt'[id].status \in Active /\ appt'[id].prof = p /\ appt'[id].slot = s
      BY <2>1 DEF NewRow, Active
    <3>4. QED
      BY <3>1, <3>2, <3>3, <2>1, <2>3, ConflictSymmetric
  <2>4. OverlapOnlyByRevival'
    <3> SUFFICES ASSUME NEW a \in Booked', NEW b \in Booked', a # b,
                        appt'[b].status \in Active,
                        Conflicts(appt'[a], appt'[b].prof, appt'[b].slot)
                 PROVE  (seen'[a] \cup seen'[b]) \cap Ended # {}
      BY DEF OverlapOnlyByRevival
    <3>1. CASE a = id
      BY <3>1, <2>1, <2>3 DEF Conflicts
    <3>2. CASE b = id
      BY <3>2, <2>1, <2>3 DEF Conflicts, NewRow
    <3>3. CASE a # id /\ b # id
      BY <3>3, <2>1 DEF OverlapOnlyByRevival
    <3>4. QED
      BY <3>1, <3>2, <3>3
  <2>5. QED
    BY <2>2, <2>4
<1>2. ASSUME NEW id \in Ids, NEW p \in Professionals, NEW s \in Slots,
             Move(id, p, s)
      PROVE  StatusSeen' /\ OverlapOnlyByRevival'
  <2>0. appt[id] \in Row
    BY <1>2 DEF Move
  <2>1. /\ appt'[id] = [appt[id] EXCEPT !.prof = p, !.slot = s]
        /\ appt'[id] \in Row
        /\ appt'[id].status = appt[id].status
        /\ appt'[id].prof = p
        /\ appt'[id].slot = s
        /\ seen' = seen
        /\ \A b \in Ids \ {id} : appt'[b] = appt[b]
    BY <1>2, <2>0 DEF Move, Row
  <2>2. StatusSeen' /\ Booked' = Booked
    BY <2>1, <1>2, RowIsNotNone DEF Move
  <2>3. ASSUME NEW b \in Booked, b # id, appt[b].status \in Active,
               appt[id].status \in Active
        PROVE  /\ ~Conflicts(appt'[b], p, s)
               /\ ~Conflicts(appt'[id], appt'[b].prof, appt'[b].slot)
    <3>1. ~Conflicts(appt'[b], p, s)
      BY <1>2, <2>1, <2>3 DEF Move, Free
    <3>2. QED
      BY <3>1, <2>1, <2>3, ConflictSymmetric
  <2>4. OverlapOnlyByRevival'
    <3> SUFFICES ASSUME NEW a \in Booked', NEW b \in Booked', a # b,
                        appt'[b].status \in Active,
                        Conflicts(appt'[a], appt'[b].prof, appt'[b].slot)
                 PROVE  (seen'[a] \cup seen'[b]) \cap Ended # {}
      BY DEF OverlapOnlyByRevival
    <3>1. CASE a = id
      BY <3>1, <2>1, <2>2, <2>3 DEF Conflicts
    <3>2. CASE b = id
      BY <3>2, <2>1, <2>2, <2>3 DEF Conflicts
    <3>3. CASE a # id /\ b # id
      BY <3>3, <2>1, <2>2 DEF OverlapOnlyByRevival
    <3>4. QED
      BY <3>1, <3>2, <3>3
  <2>5. QED
    BY <2>2, <2>4
<1>3. ASSUME NEW id \in Ids, NEW s \in Status, SetStatus(id, s)
      PROVE  StatusSeen' /\ OverlapOnlyByRevival'
  <2>0. appt[id] \in Row
    BY <1>3 DEF SetStatus
  <2>1. /\ appt'[id] = [appt[id] EXCEPT !.status = s]
        /\ appt'[id].status = s
        /\ appt'[id].prof = appt[id].prof
        /\ appt'[id].slot = appt[id].slot
        /\ appt'[id] \in Row
        /\ seen'[id] = seen[id] \cup {s}
        /\ \A b \in Ids \ {id} : appt'[b] = appt[b] /\ seen'[b] = seen[b]
    BY <1>3, <2>0 DEF SetStatus, Row
  <2>2. StatusSeen' /\ Booked' = Booked
    BY <2>1, <1>3, RowIsNotNone DEF SetStatus
  <2>3. ASSUME NEW b \in Booked, appt[b].status \notin Active
        PROVE  seen'[b] \cap Ended # {}
    BY <2>1, <2>3 DEF Ended, Row
  <2>4. OverlapOnlyByRevival'
    <3> SUFFICES ASSUME NEW a \in Booked', NEW b \in Booked', a # b,
                        appt'[b].status \in Active,
                        Conflicts(appt'[a], appt'[b].prof, appt'[b].slot)
                 PROVE  (seen'[a] \cup seen'[b]) \cap Ended # {}
      BY DEF OverlapOnlyByRevival
    <3>1. CASE appt[a].status \notin Active \/ appt[b].status \notin Active
      BY <3>1, <2>2, <2>3
    <3>2. CASE appt[a].status \in Active /\ appt[b].status \in Active
      <4>1. Conflicts(appt[a], appt[b].prof, appt[b].slot)
        BY <3>2, <2>1, <2>2 DEF Conflicts
      <4>2. (seen[a] \cup seen[b]) \cap Ended # {}
        BY <4>1, <3>2, <2>2 DEF OverlapOnlyByRevival
      <4>3. QED
        BY <4>2, <2>1, <2>2
    <3>3. QED
      BY <3>1, <3>2
  <2>5. QED
    BY <2>2, <2>4
<1>4. ASSUME NEW id \in Ids, MarkPresent(id)
      PROVE  StatusSeen' /\ OverlapOnlyByRevival'
  <2>0. appt[id] \in Row
    BY <1>4 DEF MarkPresent
  <2>1. /\ appt'[id] \in Row
        /\ appt'[id].status = appt[id].status
        /\ appt'[id].prof = appt[id].prof
        /\ appt'[id].slot = appt[id].slot
        /\ \A b \in Ids \ {id} : appt'[b] = appt[b]
        /\ seen' = seen
    BY <1>4, <2>0 DEF MarkPresent, Row
  <2>2. Booked' = Booked
    BY <2>1, <1>4, RowIsNotNone DEF MarkPresent
  <2>3. \A b \in Booked : /\ appt'[b].status = appt[b].status
                           /\ appt'[b].prof = appt[b].prof
                           /\ appt'[b].slot = appt[b].slot
    BY <2>1
  <2>4. StatusSeen'
    BY <2>1, <2>2, <2>3
  <2>5. OverlapOnlyByRevival'
    BY <2>1, <2>2, <2>3 DEF OverlapOnlyByRevival, Conflicts
  <2>6. QED
    BY <2>4, <2>5
<1>5. CASE UNCHANGED calendarVars
  BY <1>5 DEF calendarVars, OverlapOnlyByRevival
<1>6. QED
  BY <1>t, <1>1, <1>2, <1>3, <1>4, <1>5 DEF Next

(***************************************************************************)
(* Double booking needs a status write that ignores what happened since    *)
(* its handler read the row; bookings and reschedules never cause it.      *)
(***************************************************************************)
THEOREM CalendarOverlap == Spec => []OverlapOnlyByRevival
<1>1. Init => RevivalInv
  BY CalendarInitType DEF Init, RevivalInv, StatusSeen, OverlapOnlyByRevival, Booked
<1>2. RevivalInv => OverlapOnlyByRevival
  BY DEF RevivalInv
<1>3. QED
  BY <1>1, <1>2, RevivalStep, PTL DEF Spec

\* Stale reads cannot complete an appointment that was never in progress.
THEOREM CalendarLifecycle == Spec => []LifecycleOrder
<1> DEFINE Inv == TypeOK /\ LifecycleOrder
<1>1. Init => Inv
  BY CalendarInitType DEF Init, LifecycleOrder, Booked
<1>2. Inv /\ [Next]_calendarVars => Inv'
  <2> SUFFICES ASSUME Inv, [Next]_calendarVars
               PROVE  Inv'
    OBVIOUS
  <2>t. TypeOK'
    BY TypeStep
  <2> USE DEF TypeOK, LifecycleOrder, Booked
  <2>1. ASSUME NEW id \in Ids, NEW p \in Professionals, NEW s \in Slots,
               NEW n \in Protocols, Book(id, p, s, n)
        PROVE  LifecycleOrder'
    BY <2>1 DEF Book
  <2>2. ASSUME NEW id \in Ids, NEW p \in Professionals, NEW s \in Slots,
               Move(id, p, s)
        PROVE  LifecycleOrder'
    BY <2>2 DEF Move
  <2>3. ASSUME NEW id \in Ids, NEW s \in Status, SetStatus(id, s)
        PROVE  LifecycleOrder'
    <3>1. /\ s = "COMPLETED" => "IN_PROGRESS" \in seen[id]
          /\ s = "IN_PROGRESS" => "CONFIRMED" \in seen[id]
      BY <2>3 DEF SetStatus, Transitions, Status
    <3>2. QED
      BY <2>3, <3>1 DEF SetStatus
  <2>4. ASSUME NEW id \in Ids, MarkPresent(id)
        PROVE  LifecycleOrder'
    BY <2>4 DEF MarkPresent
  <2>5. CASE UNCHANGED calendarVars
    BY <2>5 DEF calendarVars
  <2>6. QED
    BY <2>t, <2>1, <2>2, <2>3, <2>4, <2>5 DEF Next
<1>3. QED
  BY <1>1, <1>2, PTL DEF Spec

\* A protocol is never given twice.
THEOREM CalendarProtocol == Spec => []UniqueProtocol
<1> DEFINE Inv == TypeOK /\ UniqueProtocol
<1>1. Init => Inv
  BY CalendarInitType DEF Init, UniqueProtocol, Booked
<1>2. Inv /\ [Next]_calendarVars => Inv'
  <2> SUFFICES ASSUME Inv, [Next]_calendarVars
               PROVE  Inv'
    OBVIOUS
  <2>t. TypeOK'
    BY TypeStep
  <2> USE DEF TypeOK, UniqueProtocol, Booked
  <2>1. ASSUME NEW id \in Ids, NEW p \in Professionals, NEW s \in Slots,
               NEW n \in Protocols, Book(id, p, s, n)
        PROVE  UniqueProtocol'
    BY <2>1 DEF Book, NewRow
  <2>2. ASSUME NEW id \in Ids, NEW p \in Professionals, NEW s \in Slots,
               Move(id, p, s)
        PROVE  UniqueProtocol'
    <3>1. appt[id] \in Row /\ appt'[id].protocol = appt[id].protocol
      BY <2>2 DEF Move, Row
    <3>2. QED
      BY <2>2, <3>1 DEF Move
  <2>3. ASSUME NEW id \in Ids, NEW s \in Status, SetStatus(id, s)
        PROVE  UniqueProtocol'
    <3>1. appt[id] \in Row /\ appt'[id].protocol = appt[id].protocol
      BY <2>3 DEF SetStatus, Row
    <3>2. QED
      BY <2>3, <3>1 DEF SetStatus
  <2>4. ASSUME NEW id \in Ids, MarkPresent(id)
        PROVE  UniqueProtocol'
    <3>1. appt[id] \in Row /\ appt'[id].protocol = appt[id].protocol
      BY <2>4 DEF MarkPresent, Row
    <3>2. QED
      BY <2>4, <3>1 DEF MarkPresent
  <2>5. CASE UNCHANGED calendarVars
    BY <2>5 DEF calendarVars
  <2>6. QED
    BY <2>t, <2>1, <2>2, <2>3, <2>4, <2>5 DEF Next
<1>3. QED
  BY <1>1, <1>2, PTL DEF Spec

(***************************************************************************)
(* The waiting list uses the calendar only through its own steps, so all   *)
(* the calendar promises holds of the appointments it makes.               *)
(***************************************************************************)
THEOREM WaitlistUsesCalendar == ListSpec => Spec
<1>1. ListInit => Init
  BY DEF ListInit
<1>2. QED
  BY <1>1, CalendarStep, WaitlistInvariant, PTL DEF ListSpec, Spec

(***************************************************************************)
(* So conversions double-book nobody, give no protocol twice, and leave    *)
(* the life of an appointment in its order (waitlist.service.ts, convert). *)
(***************************************************************************)
THEOREM WaitlistKeepsTheCalendar ==
  ListSpec => [](OverlapOnlyByRevival /\ UniqueProtocol /\ LifecycleOrder)
BY WaitlistUsesCalendar, CalendarOverlap, CalendarProtocol, CalendarLifecycle, PTL

-----------------------------------------------------------------------------
(* Availability *)

-----------------------------------------------------------------------------
(* Days and minutes *)

LEMMA Division ==
  ASSUME NEW t \in Nat, NEW d \in Nat \ {0}
  PROVE  /\ t = (t \div d) * d + (t % d)
         /\ t \div d \in Nat /\ t % d \in 0 .. d - 1
OBVIOUS

LEMMA Multiple ==
  ASSUME NEW k \in Nat, NEW d \in Nat \ {0}
  PROVE  k * d \in Nat /\ (k * d) % d = 0 /\ (k + 1) * d = k * d + d
OBVIOUS

LEMMA MultipleOrder ==
  ASSUME NEW j \in Nat, NEW k \in Nat, NEW d \in Nat \ {0}
  PROVE  /\ j < k => j * d + d <= k * d
         /\ j * d < k * d => j < k
<1>1. ASSUME NEW a \in Nat, NEW b \in Nat, a < b
      PROVE  a * d + d <= b * d
  <2>1. (a + 1) * d <= b * d
    BY <1>1
  <2>2. QED
    BY <2>1
<1>2. ASSUME k <= j
      PROVE  k * d <= j * d
  BY <1>1, <1>2
<1>3. j * d \in Nat /\ k * d \in Nat
  OBVIOUS
<1>4. QED
  BY <1>1, <1>2, <1>3

LEMMA Positive ==
  /\ Day \in Nat \ {0} /\ Week \in Nat \ {0} /\ Interval \in Nat \ {0}
  /\ Lengths \subseteq Nat \ {0} /\ LastDay \in Nat /\ Advance \in Nat /\ Horizon \in Nat
BY AvailabilityAssumption

\* A day begins at a multiple of its length and ends where the next begins.
LEMMA DayBegins ==
  ASSUME NEW d \in Nat
  PROVE  /\ At(d, 0) = d * Day /\ d * Day \in Nat
         /\ At(d + 1, 0) = d * Day + Day
         /\ \A m \in Nat : At(d, m) = d * Day + m
BY Positive, Multiple DEF At

LEMMA LaterWeek ==
  ASSUME NEW k \in Nat \ {0}
  PROVE  k * Week * Day # 0
<1>1. k * Week \in Nat \ {0}
  BY Positive
<1>2. QED
  BY <1>1, Positive

LEMMA MinuteOfDay ==
  ASSUME NEW t \in Nat
  PROVE  t % Day \in Nat /\ t % Day \in 0 .. Day - 1
<1>1. Day \in Nat \ {0}
  BY Positive
<1>2. t % Day \in 0 .. Day - 1
  BY <1>1, Division
<1>3. QED
  BY <1>1, <1>2

\* An occurrence that stays within its day and touches day d begins on day d, at its
\* own time of the day.
LEMMA OnItsDay ==
  ASSUME NEW s \in Nat, NEW e \in Nat, s < e, DayOf(s) = DayOf(e - 1),
         NEW k \in Nat, NEW d \in Nat,
         s + k * Week * Day < d * Day + Day, e + k * Week * Day > d * Day
  PROVE  s + k * Week * Day = d * Day + (s % Day)
<1> DEFINE a == s \div Day
           w == k * Week
<1>1. /\ s = a * Day + (s % Day) /\ a \in Nat /\ s % Day \in 0 .. Day - 1
  BY Positive, Division
<1>2. /\ e - 1 = a * Day + ((e - 1) % Day) /\ (e - 1) % Day \in 0 .. Day - 1
  <2>1. e - 1 \in Nat /\ (e - 1) \div Day = a
    BY DEF DayOf
  <2>2. QED
    BY <2>1, Positive, Division
<1>3. w \in Nat
  BY Positive, Multiple
<1>4. (a + w) * Day = a * Day + w * Day /\ a * Day \in Nat /\ w * Day \in Nat
  BY <1>1, <1>3, Positive
<1>5. k * Week * Day = w * Day
  OBVIOUS
<1> HIDE DEF a, w
<1>6. (a + w) * Day < (d + 1) * Day
  <2>1. (d + 1) * Day = d * Day + Day /\ d * Day \in Nat
    BY Positive, Multiple
  <2>2. QED
    BY <1>1, <1>4, <1>5, <2>1, Positive
<1>7. d * Day < (a + w + 1) * Day
  <2>1. (a + w + 1) * Day = a * Day + w * Day + Day
    BY <1>1, <1>3, <1>4, Positive, Multiple
  <2>2. d * Day \in Nat
    BY Positive, Multiple
  <2>3. QED
    BY <1>2, <1>4, <1>5, <2>1, <2>2, Positive
<1>8. a + w < d + 1 /\ d < a + w + 1
  BY <1>1, <1>3, <1>6, <1>7, Positive, MultipleOrder
<1>9. a + w = d
  BY <1>1, <1>3, <1>8
<1>10. QED
  BY <1>1, <1>4, <1>5, <1>9, Positive

\* Wherever the grid begins, it has a point in each interval.
LEMMA GridPoint ==
  ASSUME NEW begin \in Nat, NEW minute \in Nat, begin <= minute
  PROVE  \E m \in minute .. minute + Interval - 1 : m >= begin /\ (m - begin) % Interval = 0
<1> DEFINE far == minute - begin + Interval - 1
           steps == far \div Interval
           m == begin + steps * Interval
<1>1. far \in Nat
  BY Positive
<1>2. /\ far = steps * Interval + (far % Interval) /\ steps \in Nat
      /\ far % Interval \in 0 .. Interval - 1
  BY <1>1, Positive, Division
<1>3. steps * Interval \in Nat /\ (steps * Interval) % Interval = 0
  BY <1>2, Positive, Multiple
<1> HIDE DEF steps
<1>4. m \in minute .. minute + Interval - 1 /\ m >= begin
  BY <1>1, <1>2, <1>3, Positive
<1>5. m - begin = steps * Interval
  BY <1>3
<1>6. QED
  BY <1>3, <1>4, <1>5

-----------------------------------------------------------------------------
(* The rows and the grid *)

LEMMA HoursType ==
  ASSUME NEW h \in Hours
  PROVE  h.start \in Nat /\ h.end \in Nat /\ h.start < h.end /\ h.end < Day
BY AvailabilityAssumption

LEMMA SpanType ==
  ASSUME NEW a \in Spans
  PROVE  /\ a.start \in Nat /\ a.end \in Nat /\ a.weekly \in BOOLEAN
         /\ a.until \in Nat \cup {None} /\ a.start < a.end
BY AvailabilityAssumption

\* A window is a part of the day.
LEMMA WindowType ==
  ASSUME AgendaTypeOK, NEW d \in Days, NEW u \in Units \cup {None}, NEW w \in Windows(d, u)
  PROVE  w.start \in Nat /\ w.end \in Nat /\ w.end <= Day
<1>1. CASE w = [start |-> 0, end |-> Day]
  BY <1>1, Positive
<1>2. CASE u # None /\ special[u][d] # None
  <2>1. special[u][d] \in SUBSET Hours
    BY <1>2 DEF AgendaTypeOK
  <2>2. w \in Hours
    BY <1>2, <2>1 DEF Windows
  <2>3. QED
    BY <2>2, HoursType, Positive
<1>3. CASE u # None /\ special[u][d] = None /\ opening[u] # {}
  <2>1. PICK o \in opening[u] : w = o.hours
    BY <1>3 DEF Windows
  <2>2. o \in Opening
    BY <1>3, <2>1 DEF AgendaTypeOK
  <2>3. w \in Hours
    BY <2>1, <2>2 DEF Opening
  <2>4. QED
    BY <2>3, HoursType, Positive
<1>4. QED
  BY <1>1, <1>2, <1>3 DEF Windows

LEMMA PeriodType ==
  ASSUME AgendaTypeOK, NEW p \in Periods, IsActive(p)
  PROVE  row[p] \in Working /\ row[p].hours \in Hours
BY DEF AgendaTypeOK, IsActive, Working

LEMMA AbsenceType ==
  ASSUME AgendaTypeOK, NEW a \in Absences, IsActive(a)
  PROVE  row[a] \in Absent /\ row[a].span \in Spans
BY DEF AgendaTypeOK, IsActive, Absent

\* A slot of the grid is within a period and a window of its day.
LEMMA SlotParts ==
  ASSUME AgendaTypeOK, NEW d \in Days, NEW u \in Units \cup {None}, NEW n \in Lengths,
         NEW slot \in GridSlots(d, u, n)
  PROVE  \E p \in Schedule(d, u), w \in Windows(d, u), m \in Nat :
           /\ slot = [start |-> d * Day + m, end |-> d * Day + m + n]
           /\ row[p].hours.start <= m /\ m + n <= row[p].hours.end
           /\ w.start <= m /\ m + n <= w.end
<1>1. PICK h \in Stretches(d, u) :
        slot \in {[start |-> At(d, m), end |-> At(d, m) + n] :
                    m \in {k \in h.start .. h.end - n : (k - h.start) % Interval = 0}}
  BY DEF GridSlots
<1>2. PICK m \in h.start .. h.end - n : slot = [start |-> At(d, m), end |-> At(d, m) + n]
  BY <1>1
<1>3. PICK p \in Schedule(d, u), w \in Windows(d, u) : h = Clip(row[p].hours, w)
  BY DEF Stretches
<1>4. row[p].hours.start \in Nat /\ row[p].hours.end \in Nat
  BY PeriodType, HoursType DEF Schedule
<1>5. w.start \in Nat /\ w.end \in Nat
  BY WindowType
<1>6. n \in Nat /\ d \in Nat
  BY Positive DEF Days
<1>7. /\ h.start \in Nat /\ h.end \in Nat
      /\ row[p].hours.start <= h.start /\ w.start <= h.start
      /\ h.end <= row[p].hours.end /\ h.end <= w.end
  BY <1>3, <1>4, <1>5 DEF Clip, Later, Earlier
<1>8. m \in Nat /\ h.start <= m /\ m + n <= h.end
  BY <1>2, <1>6, <1>7
<1>9. slot = [start |-> d * Day + m, end |-> d * Day + m + n]
  BY <1>2, <1>6, <1>8, DayBegins
<1>10. /\ row[p].hours.start <= m /\ m + n <= row[p].hours.end
       /\ w.start <= m /\ m + n <= w.end
  BY <1>4, <1>5, <1>6, <1>7, <1>8
<1>11. QED
  BY <1>3, <1>8, <1>9, <1>10

LEMMA SlotType ==
  ASSUME AgendaTypeOK, NEW d \in Days, NEW u \in Units \cup {None}, NEW n \in Lengths,
         NEW slot \in GridSlots(d, u, n)
  PROVE  slot \in Moment
<1>1. PICK m \in Nat : slot = [start |-> d * Day + m, end |-> d * Day + m + n]
  BY SlotParts
<1>2. d * Day \in Nat /\ n \in Nat
  BY Positive, DayBegins DEF Days
<1>3. QED
  BY <1>1, <1>2 DEF Moment

-----------------------------------------------------------------------------
(* The types are kept *)

LEMMA SubsetsUpTo ==
  ASSUME NEW n, NEW S, NEW s \in UpTo(n, S)
  PROVE  s \subseteq S
BY DEF UpTo, kSubset

LEMMA InitTypes == AgendaInit => AgendaTypeOK
BY Positive DEF AgendaInit, AgendaTypeOK, Rows

\* What clients, managers and the clock change
LEMMA GridTypes ==
  ASSUME AgendaTypeOK, Client \/ Manager \/ Tick
  PROVE  AgendaTypeOK'
<1> USE DEF AgendaTypeOK
<1>1. CASE Client
  <2>1. PICK i \in Appointments, n \in Lengths :
          \/ \E d \in Days, u \in Units \cup {None} : BookOffered(i, d, u, n)
          \/ \E time \in Times : FitIn(i, time, n)
          \/ End(i)
    BY <1>1 DEF Client
  <2>2. ASSUME NEW d \in Days, NEW u \in Units \cup {None}, BookOffered(i, d, u, n)
        PROVE  AgendaTypeOK'
    <3>1. PICK slot \in Available(d, u, n, i) : booked' = [booked EXCEPT ![i] = slot]
      BY <2>2 DEF BookOffered
    <3>2. slot \in GridSlots(d, u, n)
      BY <3>1 DEF Available
    <3>3. slot \in Moment
      BY <3>2, SlotType
    <3>4. QED
      BY <2>2, <3>1, <3>3 DEF BookOffered
  <2>3. ASSUME NEW time \in Times, FitIn(i, time, n)
        PROVE  AgendaTypeOK'
    <3>1. n \in Nat /\ time \in Nat
      BY Positive DEF Times
    <3>2. Taking(time, n) \in Moment
      BY <3>1 DEF Taking, Moment
    <3>3. QED
      BY <2>3, <3>2 DEF FitIn
  <2>4. CASE End(i)
    BY <2>4 DEF End
  <2>5. QED
    BY <2>1, <2>2, <2>3, <2>4
<1>2. CASE Manager
  <2>1. PICK u \in Units :
          \/ \E openings \in UpTo(MaxWindows, Opening) : ReplaceHours(u, openings)
          \/ \E d \in Days, windows \in UpTo(MaxWindows, Hours) : ReplaceDay(u, d, windows)
          \/ \E d \in Days : RemoveDay(u, d)
    BY <1>2 DEF Manager
  <2>2. ASSUME NEW openings \in UpTo(MaxWindows, Opening), ReplaceHours(u, openings)
        PROVE  AgendaTypeOK'
    <3>1. openings \in SUBSET Opening
      BY SubsetsUpTo
    <3>2. QED
      BY <2>2, <3>1 DEF ReplaceHours
  <2>3. ASSUME NEW d \in Days, NEW windows \in UpTo(MaxWindows, Hours), ReplaceDay(u, d, windows)
        PROVE  AgendaTypeOK'
    <3>1. windows \in SUBSET Hours
      BY SubsetsUpTo
    <3>2. special' \in [Units -> [Days -> {None} \cup SUBSET Hours]]
      BY <2>3, <3>1 DEF ReplaceDay
    <3>3. QED
      BY <2>3, <3>2 DEF ReplaceDay
  <2>4. ASSUME NEW d \in Days, RemoveDay(u, d)
        PROVE  AgendaTypeOK'
    <3>1. special' \in [Units -> [Days -> {None} \cup SUBSET Hours]]
      BY <2>4 DEF RemoveDay
    <3>2. QED
      BY <2>4, <3>1 DEF RemoveDay
  <2>5. QED
    BY <2>1, <2>2, <2>3, <2>4
<1>3. CASE Tick
  BY <1>3 DEF Tick
<1>4. QED
  BY <1>1, <1>2, <1>3

\* What a row may become
Contents(id) == IF id \in Periods THEN Working ELSE Absent

\* What is yet to be written of an edit
Proposed(r) ==
  IF edit[r].left = {} THEN {[row[edit[r].id] EXCEPT !.active = TRUE]} ELSE edit[r].left

LEMMA RowType ==
  ASSUME AgendaTypeOK, NEW id \in Rows, row[id] # None
  PROVE  /\ row[id] \in Contents(id)
         /\ row[id].active \in BOOLEAN
         /\ [row[id] EXCEPT !.active = TRUE] \in Contents(id)
         /\ [row[id] EXCEPT !.active = FALSE] \in Contents(id)
<1>1. row[id] \in Contents(id)
  BY DEF AgendaTypeOK, Rows, Contents
<1>2. CASE id \in Periods
  BY <1>1, <1>2 DEF Working, Contents
<1>3. CASE id \notin Periods
  BY <1>1, <1>3 DEF Absent, Contents
<1>4. QED
  BY <1>1, <1>2, <1>3

LEMMA EditType ==
  ASSUME AgendaTypeOK, NEW r \in Requests, edit[r] # None
  PROVE  /\ edit[r] \in Edit
         /\ edit[r].unseen \in BOOLEAN
         /\ \/ /\ edit[r].table = Periods /\ edit[r].id \in Periods \cup {None}
               /\ edit[r].left \subseteq Working
            \/ /\ edit[r].table = Absences /\ edit[r].id \in Absences \cup {None}
               /\ edit[r].left \subseteq Absent
BY DEF AgendaTypeOK, Edit

\* Beginning an edit, with proposals of its table
LEMMA BeginTypes ==
  ASSUME AgendaTypeOK, NEW r \in Requests, NEW table, NEW id, NEW left, NEW unseen \in BOOLEAN,
         Begin(r, table, id, left, unseen),
         \/ table = Periods /\ id \in Periods \cup {None} /\ left \subseteq Working
         \/ table = Absences /\ id \in Absences \cup {None} /\ left \subseteq Absent
  PROVE  AgendaTypeOK'
<1>1. [table |-> table, id |-> id, left |-> left, unseen |-> unseen] \in Edit
  BY DEF Edit
<1>2. QED
  BY <1>1 DEF Begin, AgendaTypeOK

\* Writing a row with an entry of its table
LEMMA WriteTypes ==
  ASSUME AgendaTypeOK, NEW r \in Requests, edit[r] # None, NEW id \in Rows, NEW x, NEW rest,
         x \in Contents(id),
         rest \in Edit \cup {None}, Write(r, id, x, rest)
  PROVE  AgendaTypeOK'
<1> USE DEF AgendaTypeOK
<1>1. /\ row' \in [Rows -> Working \cup Absent \cup {None}]
      /\ \A p \in Periods : row'[p] \in Working \cup {None}
      /\ \A a \in Absences : row'[a] \in Absent \cup {None}
  BY AvailabilityAssumption DEF Write, Rows, Contents
<1>2. edit' \in [Requests -> Edit \cup {None}]
  <2>1. ASSUME NEW q \in Requests, edit[q] # None
        PROVE  [edit[q] EXCEPT !.unseen = TRUE] \in Edit
    BY <2>1 DEF Edit
  <2>2. QED
    BY <2>1 DEF Write
<1>3. unchecked' \subseteq Rows
  BY DEF Write
<1>4. QED
  BY <1>1, <1>2, <1>3 DEF Write

\* An entry that is written by r, and what is left of r
LEMMA InsertParts ==
  ASSUME AgendaTypeOK, NEW r \in Requests, Insert(r)
  PROVE  /\ edit[r] # None /\ edit[r].id = None
         /\ \E x \in edit[r].left, id \in edit[r].table, rest \in Edit \cup {None} :
              /\ row[id] = None /\ id \in Rows
              /\ x \in Contents(id)
              /\ rest = IF edit[r].left = {x} THEN None
                       ELSE [edit[r] EXCEPT !.left = edit[r].left \ {x}]
              /\ Write(r, id, x, rest)
<1>1. edit[r] # None /\ edit[r].id = None
  BY DEF Insert
<1>2. PICK x \in edit[r].left, id \in edit[r].table :
        /\ row[id] = None
        /\ Write(r, id, x, IF edit[r].left = {x} THEN None
                           ELSE [edit[r] EXCEPT !.left = edit[r].left \ {x}])
  BY DEF Insert
<1>3. id \in Rows /\ x \in Contents(id)
  BY <1>1, EditType, AvailabilityAssumption DEF Rows, Contents
<1>4. [edit[r] EXCEPT !.left = edit[r].left \ {x}] \in Edit
  BY <1>1, EditType DEF Edit
<1>5. QED
  BY <1>1, <1>2, <1>3, <1>4

LEMMA SaveParts ==
  ASSUME AgendaTypeOK, NEW r \in Requests, Save(r)
  PROVE  /\ edit[r] # None /\ edit[r].id # None /\ edit[r].id \in Rows
         /\ \E x \in Proposed(r) : Write(r, edit[r].id, x, None)
BY EditType DEF Save, Proposed, Rows

LEMMA SaveEntry ==
  ASSUME AgendaTypeOK, NEW r \in Requests, edit[r] # None, edit[r].id # None,
         edit[r].left = {} => row[edit[r].id] # None, NEW x \in Proposed(r)
  PROVE  x \in Contents(edit[r].id)
<1>1. edit[r].id \in Rows
  BY EditType DEF Rows
<1>2. CASE edit[r].left = {}
  BY <1>1, <1>2, RowType DEF Proposed
<1>3. CASE edit[r].left # {}
  BY <1>3, EditType, AvailabilityAssumption DEF Proposed, Contents
<1>4. QED
  BY <1>2, <1>3

\* An edit of a row is over when the row is gone, and one of nothing but the status is
\* of a row.
EditsAreOfRows ==
  \A r \in Requests : edit[r] # None =>
    /\ edit[r].id # None => row[edit[r].id] # None
    /\ edit[r].left = {} => edit[r].id # None

\* What writing a row does to the rows and to the other edits
LEMMA WriteEffect ==
  ASSUME AgendaTypeOK, NEW r \in Requests, edit[r] # None, NEW id \in Rows, NEW x \in Contents(id),
         NEW rest, Write(r, id, x, rest)
  PROVE  /\ row'[id] = x /\ x # None /\ edit'[r] = rest
         /\ \A y \in Rows \ {id} : row'[y] = row[y]
         /\ \A q \in Requests \ {r} :
              /\ edit'[q] = None <=> edit[q] = None
              /\ edit[q] # None =>
                   /\ edit'[q].table = edit[q].table
                   /\ edit'[q].id = edit[q].id
                   /\ edit'[q].left = edit[q].left
                   /\ ~edit'[q].unseen =>
                        /\ ~edit[q].unseen
                        /\ edit[q].table = edit[r].table => ~x.active /\ edit[q].id # id
<1>1. row'[id] = x /\ edit'[r] = rest /\ \A y \in Rows \ {id} : row'[y] = row[y]
  BY DEF Write, AgendaTypeOK
<1>2. x # None
  BY NoneIsNothing DEF Contents
<1>3. ASSUME NEW q \in Requests \ {r}
      PROVE  /\ edit'[q] = None <=> edit[q] = None
             /\ edit[q] # None =>
                  /\ edit'[q].table = edit[q].table
                  /\ edit'[q].id = edit[q].id
                  /\ edit'[q].left = edit[q].left
                  /\ ~edit'[q].unseen =>
                       /\ ~edit[q].unseen
                       /\ edit[q].table = edit[r].table => ~x.active /\ edit[q].id # id
  <2>1. CASE edit[q] # None /\ edit[q].table = edit[r].table /\ (x.active \/ edit[q].id = id)
    <3>1. edit'[q] = [edit[q] EXCEPT !.unseen = TRUE] /\ edit[q] \in Edit
      BY <2>1 DEF Write, AgendaTypeOK
    <3>2. edit'[q] \in Edit
      BY <3>1 DEF Edit
    <3>3. /\ edit'[q].table = edit[q].table /\ edit'[q].id = edit[q].id
          /\ edit'[q].left = edit[q].left /\ edit'[q].unseen
      BY <3>1 DEF Edit
    <3>4. QED
      BY <2>1, <3>2, <3>3, NoneIsNothing
  <2>2. CASE ~(edit[q] # None /\ edit[q].table = edit[r].table /\ (x.active \/ edit[q].id = id))
    <3>1. edit'[q] = edit[q]
      BY <2>2 DEF Write
    <3>2. QED
      BY <2>2, <3>1
  <2>3. QED
    BY <2>1, <2>2
<1>4. QED
  BY <1>1, <1>2, <1>3

LEMMA WriteKeepsEdits ==
  ASSUME AgendaTypeOK, EditsAreOfRows, NEW r \in Requests, edit[r] # None, NEW id \in Rows,
         NEW x \in Contents(id), NEW rest, Write(r, id, x, rest),
         rest # None => rest.id = None /\ rest.left # {}
  PROVE  EditsAreOfRows'
<1> SUFFICES ASSUME NEW q \in Requests, edit'[q] # None
             PROVE  /\ edit'[q].id # None => row'[edit'[q].id] # None
                    /\ edit'[q].left = {} => edit'[q].id # None
  BY DEF EditsAreOfRows
<1>1. CASE q = r
  BY <1>1, WriteEffect
<1>2. CASE q # r
  <2>1. /\ edit[q] # None /\ edit'[q].id = edit[q].id /\ edit'[q].left = edit[q].left
    BY <1>2, WriteEffect
  <2>2. edit[q].id # None => edit[q].id \in Rows /\ row[edit[q].id] # None
    BY <2>1, EditType DEF EditsAreOfRows, Rows
  <2>3. QED
    BY <2>1, <2>2, WriteEffect DEF EditsAreOfRows
<1>3. QED
  BY <1>1, <1>2

LEMMA BeginKeepsEdits ==
  ASSUME AgendaTypeOK, EditsAreOfRows, NEW r \in Requests, NEW table, NEW id, NEW left, NEW unseen,
         Begin(r, table, id, left, unseen),
         id # None => row[id] # None, left = {} => id # None
  PROVE  EditsAreOfRows'
BY DEF EditsAreOfRows, Begin, AgendaTypeOK

\* What a request writes or begins to write
LEMMA RequestTypes ==
  ASSUME AgendaTypeOK, EditsAreOfRows, NEW r \in Requests,
         \/ StartCreate(r) \/ Insert(r) \/ Save(r) \/ Fail(r)
         \/ \E id \in Rows : StartUpdate(r, id) \/ StartActivate(r, id)
  PROVE  AgendaTypeOK' /\ EditsAreOfRows'
<1>1. CASE StartCreate(r)
  <2>1. ASSUME NEW periods \in Expanded, Begin(r, Periods, None, periods, FALSE)
        PROVE  AgendaTypeOK' /\ EditsAreOfRows'
    <3>1. periods \subseteq Working /\ periods # {}
      BY SubsetsUpTo DEF Expanded
    <3>2. QED
      BY <2>1, <3>1, BeginTypes, BeginKeepsEdits
  <2>2. ASSUME NEW x \in Absent, Begin(r, Absences, None, {x}, FALSE)
        PROVE  AgendaTypeOK' /\ EditsAreOfRows'
    <3>1. {x} \subseteq Absent /\ {x} # {}
      OBVIOUS
    <3>2. QED
      BY <2>2, <3>1, BeginTypes, BeginKeepsEdits
  <2>3. QED
    BY <1>1, <2>1, <2>2 DEF StartCreate
<1>2. CASE Insert(r)
  <2>1. edit[r] # None /\ edit[r].id = None
    BY <1>2, InsertParts
  <2>2. PICK x \in edit[r].left, id \in edit[r].table, rest \in Edit \cup {None} :
          /\ id \in Rows /\ x \in Contents(id)
          /\ rest = IF edit[r].left = {x} THEN None
                   ELSE [edit[r] EXCEPT !.left = edit[r].left \ {x}]
          /\ Write(r, id, x, rest)
    BY <1>2, InsertParts
  <2>3. rest # None => rest.id = None /\ rest.left # {}
    BY <2>1, <2>2, EditType DEF Edit
  <2>4. QED
    BY <2>1, <2>2, <2>3, WriteTypes, WriteKeepsEdits
<1>3. CASE Save(r)
  <2>1. edit[r] # None /\ edit[r].id # None /\ edit[r].id \in Rows
    BY <1>3, SaveParts
  <2>2. PICK x \in Proposed(r) : Write(r, edit[r].id, x, None)
    BY <1>3, SaveParts
  <2>3. x \in Contents(edit[r].id)
    BY <2>1, SaveEntry DEF EditsAreOfRows
  <2>4. QED
    BY <2>1, <2>2, <2>3, WriteTypes, WriteKeepsEdits
<1>4. CASE Fail(r)
  BY <1>4 DEF Fail, AgendaTypeOK, EditsAreOfRows
<1>5. ASSUME NEW id \in Rows, StartUpdate(r, id)
      PROVE  AgendaTypeOK' /\ EditsAreOfRows'
  <2>1. PICK x \in Contents(id) : row[id] # None /\ Begin(r, Table(id), id, {x}, FALSE)
    BY <1>5 DEF StartUpdate, Contents
  <2>2. \/ Table(id) = Periods /\ id \in Periods \cup {None} /\ {x} \subseteq Working
        \/ Table(id) = Absences /\ id \in Absences \cup {None} /\ {x} \subseteq Absent
    BY DEF Table, Rows, Contents
  <2>3. QED
    BY <2>1, <2>2, BeginTypes, BeginKeepsEdits
<1>6. ASSUME NEW id \in Rows, StartActivate(r, id)
      PROVE  AgendaTypeOK' /\ EditsAreOfRows'
  <2>1. row[id] # None /\ Begin(r, Table(id), id, {}, ~row[id].active)
    BY <1>6 DEF StartActivate
  <2>2. \/ Table(id) = Periods /\ id \in Periods \cup {None} /\ {} \subseteq Working
        \/ Table(id) = Absences /\ id \in Absences \cup {None} /\ {} \subseteq Absent
    BY DEF Table, Rows
  <2>3. (~row[id].active) \in BOOLEAN /\ id # None
    BY NoneIsNothing
  <2>4. QED
    BY <2>1, <2>2, <2>3, BeginTypes, BeginKeepsEdits
<1>7. QED
  BY <1>1, <1>2, <1>3, <1>4, <1>5, <1>6

LEMMA DeactivateTypes ==
  ASSUME AgendaTypeOK, EditsAreOfRows, NEW id \in Rows, Deactivate(id)
  PROVE  AgendaTypeOK' /\ EditsAreOfRows'
<1>1. /\ row[id] # None /\ row' = [row EXCEPT ![id] = [row[id] EXCEPT !.active = FALSE]]
  BY DEF Deactivate
<1>2. [row[id] EXCEPT !.active = FALSE] \in Contents(id)
  BY <1>1, RowType
<1>3. [row[id] EXCEPT !.active = FALSE] # None
  BY <1>2, NoneIsNothing DEF Contents
<1>4. /\ row' \in [Rows -> Working \cup Absent \cup {None}]
      /\ \A p \in Periods : row'[p] \in Working \cup {None}
      /\ \A a \in Absences : row'[a] \in Absent \cup {None}
  BY <1>1, <1>2, AvailabilityAssumption DEF AgendaTypeOK, Rows, Contents
<1>5. AgendaTypeOK'
  BY <1>4 DEF AgendaTypeOK, Deactivate
<1>6. EditsAreOfRows'
  <2>1. \A y \in Rows : row[y] # None => row'[y] # None
    BY <1>1, <1>3 DEF AgendaTypeOK
  <2>2. \A r \in Requests : edit[r] # None /\ edit[r].id # None => edit[r].id \in Rows
    BY EditType DEF Rows
  <2>3. QED
    BY <2>1, <2>2 DEF EditsAreOfRows, Deactivate
<1>7. QED
  BY <1>5, <1>6

LEMMA RemoveTypes ==
  ASSUME AgendaTypeOK, EditsAreOfRows, NEW id \in Rows, Remove(id)
  PROVE  AgendaTypeOK' /\ EditsAreOfRows'
<1>1. AgendaTypeOK'
  BY DEF AgendaTypeOK, Remove, Rows
<1>2. EditsAreOfRows'
  <2>1. \A y \in Rows \ {id} : row'[y] = row[y]
    BY DEF AgendaTypeOK, Remove
  <2>2. \A r \in Requests : edit[r] # None /\ edit[r].id # None => edit[r].id \in Rows
    BY EditType DEF Rows
  <2>3. \A r \in Requests : edit'[r] # None => edit[r] # None /\ edit'[r] = edit[r] /\ edit[r].id # id
    BY DEF Remove
  <2>4. QED
    BY <2>1, <2>2, <2>3 DEF EditsAreOfRows
<1>3. QED
  BY <1>1, <1>2

LEMMA GridFrame ==
  ASSUME Client \/ Manager \/ Tick
  PROVE  UNCHANGED <<row, edit, unchecked>>
BY DEF Client, Manager, Tick, BookOffered, FitIn, End, ReplaceHours, ReplaceDay, RemoveDay

LEMMA TypesStep ==
  ASSUME AgendaTypeOK, EditsAreOfRows, [AgendaNext]_agendaVars
  PROVE  AgendaTypeOK' /\ EditsAreOfRows'
<1>1. CASE Client \/ Manager \/ Tick
  BY <1>1, GridTypes, GridFrame DEF EditsAreOfRows
<1>2. CASE Editor
  BY <1>2, RequestTypes, DeactivateTypes, RemoveTypes DEF Editor
<1>3. CASE UNCHANGED agendaVars
  BY <1>3 DEF agendaVars, AgendaTypeOK, EditsAreOfRows
<1>4. QED
  BY <1>1, <1>2, <1>3 DEF AgendaNext

\* Rows, hours, appointments, the clock and the edits under way have their types.
THEOREM AvailabilityTyped == AgendaSpec => []AgendaTypeOK
<1>1. AgendaInit => AgendaTypeOK /\ EditsAreOfRows
  BY InitTypes DEF AgendaInit, EditsAreOfRows
<1>2. AgendaTypeOK /\ EditsAreOfRows /\ [AgendaNext]_agendaVars => AgendaTypeOK' /\ EditsAreOfRows'
  BY TypesStep
<1>3. QED
  BY <1>1, <1>2, PTL DEF AgendaSpec

-----------------------------------------------------------------------------
(* Rows overlap only where an edit had not seen the other *)

Tables == {Periods, Absences}

\* What r would write does not clash with the rows it has compared it with, which are all
\* the rows that are active unless another has written since.
SeenIsCompared ==
  \A r \in Requests : (edit[r] # None /\ ~edit[r].unseen) =>
    \A y \in edit[r].table \ {edit[r].id}, x \in Proposed(r) :
      IsActive(y) /\ x.active => ~Clash(edit[r].table, row[y], x)

\* The active periods of one edit, copies included, do not clash with one another.
NewAreApart ==
  \A r \in Requests : edit[r] # None =>
    \A x, z \in edit[r].left : x # z /\ x.active /\ z.active => ~Clash(edit[r].table, x, z)

\* Rows that were written against all others do not clash.
CheckedAreApart ==
  \A table \in Tables : \A x, y \in table \ unchecked :
    x # y /\ IsActive(x) /\ IsActive(y) => ~Clash(table, row[x], row[y])

Compared == SeenIsCompared /\ NewAreApart /\ CheckedAreApart

LEMMA ClashIsSymmetric ==
  ASSUME NEW table,
         NEW v \in IF table = Periods THEN Working ELSE Absent,
         NEW w \in IF table = Periods THEN Working ELSE Absent,
         Clash(table, v, w)
  PROVE  Clash(table, w, v)
<1>1. CASE table = Periods
  <2>1. v.hours \in Hours /\ w.hours \in Hours
    BY <1>1 DEF Working
  <2>2. /\ v.hours.start \in Nat /\ v.hours.end \in Nat
        /\ w.hours.start \in Nat /\ w.hours.end \in Nat
    BY <2>1, HoursType
  <2>3. QED
    BY <1>1, <2>2 DEF Clash, Meet, Overlap
<1>2. CASE table # Periods
  <2>1. v.span \in Spans /\ w.span \in Spans
    BY <1>2 DEF Absent
  <2>2. /\ v.span.start \in Nat /\ v.span.end \in Nat
        /\ w.span.start \in Nat /\ w.span.end \in Nat
    BY <2>1, SpanType
  <2>3. QED
    BY <1>2, <2>2 DEF Clash, Overlap
<1>3. QED
  BY <1>1, <1>2

\* What is not refused does not clash with the other rows that are active.
LEMMA NotRefused ==
  ASSUME NEW table, NEW own, NEW proposed, ~Refused(table, own, proposed),
         NEW y \in table \ own, IsActive(y), NEW x \in proposed, x.active
  PROVE  ~Clash(table, row[y], x)
BY DEF Refused, Clash

\* Nor do two new periods that are active.
LEMMA NotRefusedNew ==
  ASSUME NEW own, NEW proposed, ~Refused(Periods, own, proposed),
         NEW x \in proposed, NEW z \in proposed, x # z, x.active, z.active
  PROVE  ~Clash(Periods, x, z)
BY DEF Refused, Clash

LEMMA ComparedFrame ==
  ASSUME Compared, UNCHANGED <<row, edit, unchecked>>
  PROVE  Compared'
BY DEF Compared, SeenIsCompared, NewAreApart, CheckedAreApart, Proposed, IsActive

\* An edit begins with what it was compared with.
LEMMA BeginCompared ==
  ASSUME AgendaTypeOK, Compared, NEW r \in Requests, NEW table, NEW id, NEW left, NEW unseen,
         Begin(r, table, id, left, unseen),
         NEW proposed,
         proposed = IF left = {} THEN {[row[id] EXCEPT !.active = TRUE]} ELSE left,
         \A y \in table \ {id}, x \in proposed :
           ~unseen /\ IsActive(y) /\ x.active => ~Clash(table, row[y], x),
         \A x, z \in left : x # z /\ x.active /\ z.active => ~Clash(table, x, z)
  PROVE  Compared'
<1> DEFINE new == [table |-> table, id |-> id, left |-> left, unseen |-> unseen]
<1>1. edit'[r] = new /\ (\A q \in Requests \ {r} : edit'[q] = edit[q]) /\ row' = row
      /\ unchecked' = unchecked
  BY DEF Begin, AgendaTypeOK
<1>2. SeenIsCompared'
  <2> SUFFICES ASSUME NEW q \in Requests, edit'[q] # None, ~edit'[q].unseen,
                      NEW y \in edit'[q].table \ {edit'[q].id}, NEW x \in Proposed(q)',
                      IsActive(y)', x.active
               PROVE  ~Clash(edit'[q].table, row'[y], x)
    BY DEF SeenIsCompared, Clash, Meet, Overlap
  <2>1. CASE q = r
    BY <1>1, <2>1 DEF Proposed, IsActive
  <2>2. CASE q # r
    BY <1>1, <2>2 DEF Compared, SeenIsCompared, Proposed, IsActive
  <2>3. QED
    BY <2>1, <2>2
<1>3. NewAreApart'
  <2> SUFFICES ASSUME NEW q \in Requests, edit'[q] # None,
                      NEW x \in edit'[q].left, NEW z \in edit'[q].left, x # z,
                      x.active, z.active
               PROVE  ~Clash(edit'[q].table, x, z)
    BY DEF NewAreApart, Clash, Meet, Overlap
  <2>1. CASE q = r
    BY <1>1, <2>1
  <2>2. CASE q # r
    BY <1>1, <2>2 DEF Compared, NewAreApart
  <2>3. QED
    BY <2>1, <2>2
<1>4. CheckedAreApart'
  BY <1>1 DEF Compared, CheckedAreApart, IsActive, Clash
<1>5. QED
  BY <1>2, <1>3, <1>4 DEF Compared

LEMMA StartCompared ==
  ASSUME AgendaTypeOK, Compared, NEW r \in Requests,
         StartCreate(r) \/ \E id \in Rows : StartUpdate(r, id) \/ StartActivate(r, id)
  PROVE  Compared'
<1>0. \A table \in Tables : table \ {None} = table \ {}
  BY NoneIsNothing DEF Rows, Tables
<1>1. ASSUME NEW periods \in Expanded, ~Refused(Periods, {}, periods),
             Begin(r, Periods, None, periods, FALSE)
      PROVE  Compared'
  <2>1. periods # {}
    BY DEF Expanded
  <2>2. \A y, z \in periods : y # z /\ y.active /\ z.active => ~Clash(Periods, y, z)
    BY <1>1, NotRefusedNew
  <2>3. \A y \in Periods \ {None}, z \in periods :
          IsActive(y) /\ z.active => ~Clash(Periods, row[y], z)
    BY <1>0, <1>1, NotRefused DEF Tables
  <2>4. QED
    BY <1>1, <2>1, <2>2, <2>3, BeginCompared
<1>2. ASSUME NEW x \in Absent, ~Refused(Absences, {}, {x}), Begin(r, Absences, None, {x}, FALSE)
      PROVE  Compared'
  <2> DEFINE new == {x}
  <2>1. ~Refused(Absences, {}, new) /\ Begin(r, Absences, None, new, FALSE)
    BY <1>2
  <2>2. new # {} /\ \A y, z \in new : y # z => ~Clash(Absences, y, z)
    OBVIOUS
  <2> HIDE DEF new
  <2>3. \A y \in Absences \ {None}, z \in new :
          IsActive(y) /\ z.active => ~Clash(Absences, row[y], z)
    BY <1>0, <2>1, NotRefused DEF Tables
  <2>4. QED
    BY <2>1, <2>2, <2>3, BeginCompared
<1>3. ASSUME NEW id \in Rows, StartUpdate(r, id)
      PROVE  Compared'
  <2>1. PICK x : ~Refused(Table(id), {id}, {x}) /\ Begin(r, Table(id), id, {x}, FALSE)
    BY <1>3 DEF StartUpdate
  <2> DEFINE new == {x}
  <2>2. ~Refused(Table(id), {id}, new) /\ Begin(r, Table(id), id, new, FALSE)
    BY <2>1
  <2>3. new # {} /\ \A y, z \in new : y # z => ~Clash(Table(id), y, z)
    OBVIOUS
  <2> HIDE DEF new
  <2>4. \A y \in Table(id) \ {id}, z \in new :
          IsActive(y) /\ z.active => ~Clash(Table(id), row[y], z)
    BY <2>2, NotRefused
  <2>5. QED
    BY <2>2, <2>3, <2>4, BeginCompared
<1>4. ASSUME NEW id \in Rows, StartActivate(r, id)
      PROVE  Compared'
  <2> DEFINE x == [row[id] EXCEPT !.active = TRUE]
             new == {x}
             unseen == ~row[id].active
             nothing == {}
  <2>1. /\ row[id] # None /\ ~Refused(Table(id), {id}, {row[id]})
        /\ Begin(r, Table(id), id, nothing, unseen)
    BY <1>4 DEF StartActivate
  <2>2. \A y \in Table(id) \ {id} :
          row[id].active /\ IsActive(y) => ~Clash(Table(id), row[y], row[id])
    BY <2>1, NotRefused
  <2>3. row[id] \in Contents(id) /\ (Table(id) = Periods <=> id \in Periods)
    BY <2>1, RowType, AvailabilityAssumption DEF Table, Rows
  <2>4. \A y \in Table(id) \ {id} : Clash(Table(id), row[y], x) => Clash(Table(id), row[y], row[id])
    <3>1. CASE Table(id) = Periods
      <4>1. row[id] \in Working
        BY <2>3, <3>1 DEF Contents
      <4>2. x.weekday = row[id].weekday /\ x.hours = row[id].hours
        BY <4>1 DEF Working
      <4>3. QED
        BY <3>1, <4>2 DEF Clash, Meet
    <3>2. CASE Table(id) # Periods
      <4>1. row[id] \in Absent
        BY <2>3, <3>2 DEF Contents
      <4>2. x.span = row[id].span
        BY <4>1 DEF Absent
      <4>3. QED
        BY <3>2, <4>2 DEF Clash
    <3>3. QED
      BY <3>1, <3>2
  <2>5. \A y \in Table(id) \ {id}, z \in new :
          ~unseen /\ IsActive(y) /\ z.active => ~Clash(Table(id), row[y], z)
    BY <2>2, <2>4
  <2>6. /\ new = IF nothing = {} THEN {[row[id] EXCEPT !.active = TRUE]} ELSE nothing
        /\ \A y, z \in nothing : y # z => ~Clash(Table(id), y, z)
    OBVIOUS
  <2> HIDE DEF x, new, unseen, nothing
  <2>7. QED
    BY <2>1, <2>5, <2>6, BeginCompared
<1>5. QED
  BY <1>1, <1>2, <1>3, <1>4 DEF StartCreate

\* The rows of an edit are of its table.
LEMMA EditRow ==
  ASSUME AgendaTypeOK, NEW r \in Requests, edit[r] # None
  PROVE  /\ edit[r].table \in Tables /\ edit[r].table \subseteq Rows
         /\ edit[r].id # None => edit[r].id \in edit[r].table
         /\ \A table \in Tables : (\E id \in edit[r].table : id \in table) => table = edit[r].table
BY EditType, AvailabilityAssumption DEF Tables, Rows

LEMMA EntryOfTable ==
  ASSUME NEW table \in Tables, NEW id \in table
  PROVE  Contents(id) = IF table = Periods THEN Working ELSE Absent
BY AvailabilityAssumption DEF Tables, Contents

LEMMA WriteCompared ==
  ASSUME AgendaTypeOK, EditsAreOfRows, Compared, NEW r \in Requests, edit[r] # None,
         NEW id \in edit[r].table, NEW x \in Proposed(r), x \in Contents(id),
         id = edit[r].id \/ edit[r].id = None,
         NEW rest, Write(r, id, x, rest),
         rest # None =>
           /\ edit[r].id = None
           /\ rest = [edit[r] EXCEPT !.left = edit[r].left \ {x}] /\ rest.left # {}
  PROVE  Compared'
<1> DEFINE table == edit[r].table
<1>0. id \in Rows /\ table \in Tables
  BY EditRow
<1>1. /\ row'[id] = x /\ x # None /\ edit'[r] = rest
      /\ \A y \in Rows \ {id} : row'[y] = row[y]
  BY <1>0, WriteEffect
<1>2. ASSUME NEW q \in Requests \ {r}, edit'[q] # None
      PROVE  /\ edit[q] # None
             /\ edit'[q].table = edit[q].table
             /\ edit'[q].id = edit[q].id
             /\ edit'[q].left = edit[q].left
             /\ ~edit'[q].unseen =>
                  /\ ~edit[q].unseen
                  /\ edit[q].table = table => ~x.active /\ edit[q].id # id
  BY <1>0, <1>2, WriteEffect
<1>3. SeenIsCompared'
  <2> SUFFICES ASSUME NEW q \in Requests, edit'[q] # None, ~edit'[q].unseen,
                      NEW y \in edit'[q].table \ {edit'[q].id}, NEW z \in Proposed(q)',
                      IsActive(y)', z.active
               PROVE  ~Clash(edit'[q].table, row'[y], z)
    BY DEF SeenIsCompared, Clash, Meet, Overlap
  <2>1. CASE q = r
    <3>1. /\ edit[r].id = None /\ rest # None
          /\ rest = [edit[r] EXCEPT !.left = edit[r].left \ {x}] /\ rest.left # {}
      BY <1>1, <2>1
    <3>2. edit[r] \in Edit
      BY EditType
    <3>3. /\ rest.table = table /\ rest.id = None /\ rest.unseen = edit[r].unseen
          /\ rest.left = edit[r].left \ {x}
      BY <3>1, <3>2 DEF Edit
    <3>4. edit[r].left # {}
      BY <3>1 DEF EditsAreOfRows
    <3>5. x \in edit[r].left /\ z \in edit[r].left /\ x # z /\ z \in Proposed(r)
      BY <1>1, <2>1, <3>1, <3>3, <3>4 DEF Proposed
    <3>6. CASE y = id
      <4>1. x.active
        BY <1>1, <3>6 DEF IsActive
      <4>2. ~Clash(table, x, z)
        BY <3>5, <4>1 DEF Compared, NewAreApart
      <4>3. QED
        BY <1>1, <2>1, <3>3, <3>6, <4>2
    <3>7. CASE y # id
      <4>1. y \in table \ {edit[r].id} /\ y \in Rows /\ row'[y] = row[y]
        BY <1>1, <2>1, <3>1, <3>3, <3>7, EditRow
      <4>2. IsActive(y) /\ ~edit[r].unseen
        BY <1>1, <2>1, <3>3, <4>1 DEF IsActive
      <4>3. ~Clash(table, row[y], z)
        BY <3>5, <4>1, <4>2 DEF Compared, SeenIsCompared
      <4>4. QED
        BY <1>1, <2>1, <3>3, <4>1, <4>3
    <3>8. QED
      BY <3>6, <3>7
  <2>2. CASE q # r
    <3>1. /\ edit[q] # None /\ edit'[q].table = edit[q].table /\ edit'[q].id = edit[q].id
          /\ edit'[q].left = edit[q].left /\ ~edit[q].unseen
          /\ edit[q].table = table => ~x.active /\ edit[q].id # id
      BY <1>2, <2>2
    <3>2. y \in edit[q].table \ {edit[q].id} /\ y \in Rows
      BY <3>1, EditRow
    <3>3. y # id /\ edit[q].id # id
      <4>1. CASE edit[q].table = table
        BY <1>1, <3>1, <4>1 DEF IsActive
      <4>2. CASE edit[q].table # table
        <5>1. id \notin edit[q].table
          BY <1>0, <3>1, <4>2, EditRow
        <5>2. QED
          BY <1>0, <3>1, <3>2, <5>1, EditRow, NoneIsNothing
      <4>3. QED
        BY <4>1, <4>2
    <3>4. row'[y] = row[y] /\ IsActive(y)
      BY <1>1, <3>2, <3>3 DEF IsActive
    <3>5. edit[q].left = {} => edit[q].id \in Rows \ {id}
      BY <3>1, <3>3, EditRow DEF EditsAreOfRows
    <3>6. z \in Proposed(q)
      BY <1>1, <3>1, <3>5 DEF Proposed
    <3>7. ~Clash(edit[q].table, row[y], z)
      BY <3>1, <3>2, <3>4, <3>6 DEF Compared, SeenIsCompared
    <3>8. QED
      BY <3>1, <3>4, <3>7
  <2>3. QED
    BY <2>1, <2>2
<1>4. NewAreApart'
  <2> SUFFICES ASSUME NEW q \in Requests, edit'[q] # None,
                      NEW y \in edit'[q].left, NEW z \in edit'[q].left, y # z,
                      y.active, z.active
               PROVE  ~Clash(edit'[q].table, y, z)
    BY DEF NewAreApart, Clash, Meet, Overlap
  <2>1. CASE q = r
    <3>1. rest = [edit[r] EXCEPT !.left = edit[r].left \ {x}] /\ edit[r] \in Edit
      BY <1>1, <2>1, EditType
    <3>2. rest.table = table /\ rest.left = edit[r].left \ {x}
      BY <3>1 DEF Edit
    <3>3. QED
      BY <1>1, <2>1, <3>2 DEF Compared, NewAreApart
  <2>2. CASE q # r
    BY <1>2, <2>2 DEF Compared, NewAreApart
  <2>3. QED
    BY <2>1, <2>2
<1>5. CheckedAreApart'
  <2>1. unchecked' = IF edit[r].unseen THEN unchecked \cup {id} ELSE unchecked \ {id}
    BY DEF Write
  <2>2. ASSUME NEW z \in table \ {id}, IsActive(z), x.active, id \notin unchecked'
        PROVE  ~Clash(table, row[z], x) /\ ~Clash(table, x, row[z])
    <3>1. z \in table \ {edit[r].id} /\ ~edit[r].unseen
      BY <1>0, <2>1, <2>2, EditRow, NoneIsNothing
    <3>2. ~Clash(table, row[z], x)
      BY <2>2, <3>1 DEF Compared, SeenIsCompared
    <3>3. row[z] \in Contents(z)
      BY <2>2, RowType, EditRow DEF IsActive
    <3>4. /\ x \in IF table = Periods THEN Working ELSE Absent
          /\ row[z] \in IF table = Periods THEN Working ELSE Absent
      BY <1>0, <3>3, EntryOfTable
    <3>5. QED
      BY <3>2, <3>4, ClashIsSymmetric
  <2> SUFFICES ASSUME NEW t \in Tables, NEW y \in t \ unchecked', NEW z \in t \ unchecked',
                      y # z, IsActive(y)', IsActive(z)'
               PROVE  ~Clash(t, row'[y], row'[z])
    BY DEF CheckedAreApart, Clash, Meet, Overlap
  <2>3. y \in Rows /\ z \in Rows
    BY DEF Tables, Rows
  <2>4. CASE y # id /\ z # id
    <3>1. row'[y] = row[y] /\ row'[z] = row[z] /\ IsActive(y) /\ IsActive(z)
      BY <1>1, <2>3, <2>4 DEF IsActive
    <3>2. y \notin unchecked /\ z \notin unchecked
      BY <2>1, <2>4
    <3>3. QED
      BY <3>1, <3>2 DEF Compared, CheckedAreApart
  <2>5. CASE y = id \/ z = id
    <3>1. t = table
      BY <1>0, <2>5, EditRow
    <3>2. id \notin unchecked' /\ x.active
      BY <1>1, <2>5 DEF IsActive
    <3>3. CASE y = id
      <4>1. z \in table \ {id} /\ row'[z] = row[z] /\ IsActive(z)
        BY <1>1, <2>3, <3>1, <3>3 DEF IsActive
      <4>2. QED
        BY <1>1, <2>2, <3>1, <3>2, <3>3, <4>1
    <3>4. CASE z = id
      <4>1. y \in table \ {id} /\ row'[y] = row[y] /\ IsActive(y)
        BY <1>1, <2>3, <3>1, <3>4 DEF IsActive
      <4>2. QED
        BY <1>1, <2>2, <3>1, <3>2, <3>4, <4>1
    <3>5. QED
      BY <2>5, <3>3, <3>4
  <2>6. QED
    BY <2>4, <2>5
<1>6. QED
  BY <1>3, <1>4, <1>5 DEF Compared

LEMMA DeactivateCompared ==
  ASSUME AgendaTypeOK, EditsAreOfRows, Compared, NEW id \in Rows, Deactivate(id)
  PROVE  Compared'
<1>1. /\ row[id] # None /\ row' = [row EXCEPT ![id] = [row[id] EXCEPT !.active = FALSE]]
      /\ edit' = edit /\ unchecked' = unchecked \ {id}
  BY DEF Deactivate
<1>2. ~row'[id].active /\ \A y \in Rows \ {id} : row'[y] = row[y]
  <2>1. row[id] \in Working \cup Absent
    BY <1>1 DEF AgendaTypeOK
  <2>2. [row[id] EXCEPT !.active = FALSE].active = FALSE
    BY <2>1 DEF Working, Absent
  <2>3. QED
    BY <1>1, <2>2 DEF AgendaTypeOK
<1>3. [row'[id] EXCEPT !.active = TRUE] = [row[id] EXCEPT !.active = TRUE]
  <2>1. row'[id] = [row[id] EXCEPT !.active = FALSE]
    BY <1>1 DEF AgendaTypeOK
  <2>2. row[id] \in Working \cup Absent
    BY <1>1 DEF AgendaTypeOK
  <2>3. QED
    BY <2>1, <2>2 DEF Working, Absent
<1>4. \A y \in Rows : IsActive(y)' => y # id /\ row'[y] = row[y] /\ IsActive(y)
  BY <1>2 DEF IsActive
<1>5. SeenIsCompared'
  <2>1. ASSUME NEW r \in Requests, edit[r] # None
        PROVE  Proposed(r)' = Proposed(r) /\ edit[r].table \subseteq Rows
    <3>1. edit[r].left = {} =>
            [row'[edit[r].id] EXCEPT !.active = TRUE] = [row[edit[r].id] EXCEPT !.active = TRUE]
      <4>1. edit[r].left = {} => edit[r].id \in Rows
        BY <2>1, EditRow DEF EditsAreOfRows
      <4>2. QED
        BY <1>2, <1>3, <4>1
    <3>2. Proposed(r)' = Proposed(r)
      BY <1>1, <3>1 DEF Proposed
    <3>3. QED
      BY <2>1, <3>2, EditRow
  <2>2. QED
    BY <1>1, <1>4, <2>1 DEF Compared, SeenIsCompared, Clash
<1>6. NewAreApart'
  BY <1>1 DEF Compared, NewAreApart, Clash
<1>7. CheckedAreApart'
  BY <1>1, <1>4 DEF Compared, CheckedAreApart, Clash, Tables, Rows
<1>8. QED
  BY <1>5, <1>6, <1>7 DEF Compared

LEMMA RemoveCompared ==
  ASSUME AgendaTypeOK, EditsAreOfRows, Compared, NEW id \in Rows, Remove(id)
  PROVE  Compared'
<1>1. /\ unchecked' = unchecked \ {id} /\ row'[id] = None
      /\ \A y \in Rows \ {id} : row'[y] = row[y]
      /\ \A r \in Requests : edit'[r] # None =>
           edit[r] # None /\ edit'[r] = edit[r] /\ edit[r].id # id
  BY DEF Remove, AgendaTypeOK
<1>2. \A y \in Rows : IsActive(y)' => y # id /\ row'[y] = row[y] /\ IsActive(y)
  BY <1>1 DEF IsActive
<1>3. SeenIsCompared'
  <2>1. ASSUME NEW r \in Requests, edit'[r] # None
        PROVE  Proposed(r)' = Proposed(r) /\ edit[r].table \subseteq Rows
    <3>1. edit[r].left = {} => edit[r].id \in Rows \ {id}
      BY <1>1, <2>1, EditRow DEF EditsAreOfRows
    <3>2. QED
      BY <1>1, <2>1, <3>1, EditRow DEF Proposed
  <2>2. QED
    BY <1>1, <1>2, <2>1 DEF Compared, SeenIsCompared, Clash
<1>4. NewAreApart'
  BY <1>1 DEF Compared, NewAreApart, Clash
<1>5. CheckedAreApart'
  BY <1>1, <1>2 DEF Compared, CheckedAreApart, Clash, Tables, Rows
<1>6. QED
  BY <1>3, <1>4, <1>5 DEF Compared

LEMMA FailCompared ==
  ASSUME AgendaTypeOK, Compared, NEW r \in Requests, Fail(r)
  PROVE  Compared'
<1>1. /\ row' = row /\ unchecked' = unchecked
      /\ \A q \in Requests : edit'[q] # None => edit[q] # None /\ edit'[q] = edit[q]
  BY DEF Fail, AgendaTypeOK
<1>2. SeenIsCompared' /\ NewAreApart' /\ CheckedAreApart'
  BY <1>1 DEF Compared, SeenIsCompared, NewAreApart, CheckedAreApart, Proposed, IsActive, Clash
<1>3. QED
  BY <1>2 DEF Compared

LEMMA ComparedStep ==
  ASSUME AgendaTypeOK, EditsAreOfRows, Compared, [AgendaNext]_agendaVars
  PROVE  Compared'
<1>1. CASE Client \/ Manager \/ Tick
  BY <1>1, GridFrame, ComparedFrame
<1>2. ASSUME NEW r \in Requests, Insert(r)
      PROVE  Compared'
  <2>1. edit[r] # None /\ edit[r].id = None /\ edit[r].left # {}
    BY <1>2, InsertParts DEF EditsAreOfRows
  <2>2. PICK x \in edit[r].left, id \in edit[r].table, rest \in Edit \cup {None} :
          /\ x \in Contents(id)
          /\ rest = IF edit[r].left = {x} THEN None
                   ELSE [edit[r] EXCEPT !.left = edit[r].left \ {x}]
          /\ Write(r, id, x, rest)
    BY <1>2, InsertParts
  <2>3. x \in Proposed(r)
    BY <2>1 DEF Proposed
  <2>4. rest # None =>
          rest = [edit[r] EXCEPT !.left = edit[r].left \ {x}] /\ rest.left # {}
    BY <2>1, <2>2, EditType DEF Edit
  <2>5. QED
    BY <2>1, <2>2, <2>3, <2>4, WriteCompared
<1>3. ASSUME NEW r \in Requests, Save(r)
      PROVE  Compared'
  <2>1. edit[r] # None /\ edit[r].id # None /\ edit[r].id \in edit[r].table
    BY <1>3, SaveParts, EditRow
  <2>2. PICK x \in Proposed(r) : Write(r, edit[r].id, x, None)
    BY <1>3, SaveParts
  <2>3. x \in Contents(edit[r].id)
    BY <2>1, SaveEntry DEF EditsAreOfRows
  <2>4. QED
    BY <2>1, <2>2, <2>3, WriteCompared
<1>4. CASE Editor
  BY <1>2, <1>3, <1>4, StartCompared, FailCompared, DeactivateCompared, RemoveCompared DEF Editor
<1>5. CASE UNCHANGED agendaVars
  BY <1>5, ComparedFrame DEF agendaVars
<1>6. QED
  BY <1>1, <1>4, <1>5 DEF AgendaNext

\* Active periods of one day, and active absences, overlap only where a row was activated
\* unseen, or written by an edit that had read the table before another wrote it.
THEOREM RowsAreApart == AgendaSpec => []ApartUnlessUnseen
<1> DEFINE Inv == AgendaTypeOK /\ EditsAreOfRows /\ Compared
<1>1. AgendaInit => Inv
  BY InitTypes DEF AgendaInit, EditsAreOfRows, Compared, SeenIsCompared, NewAreApart,
                   CheckedAreApart, IsActive, Tables, Rows
<1>2. Inv /\ [AgendaNext]_agendaVars => Inv'
  BY TypesStep, ComparedStep
<1>3. Inv => ApartUnlessUnseen
  <2> SUFFICES ASSUME Inv, NEW x \in Rows, NEW y \in Rows, x # y, IsActive(x), IsActive(y),
                      {x, y} \cap unchecked = {}, NEW t \in Tables, {x, y} \subseteq t
               PROVE  \/ {x, y} \subseteq Periods /\ ~Meet(row[x], row[y])
                      \/ {x, y} \subseteq Absences /\ ~Overlap(row[x].span, row[y].span)
    BY DEF ApartUnlessUnseen, Tables
  <2>1. ~Clash(t, row[x], row[y])
    BY DEF Compared, CheckedAreApart
  <2>2. QED
    BY <2>1 DEF Clash, Tables
<1>4. QED
  BY <1>1, <1>2, <1>3, PTL DEF AgendaSpec

-----------------------------------------------------------------------------
(* What is offered is free, and what is free is offered *)

LEMMA Question ==
  ASSUME NEW q \in Questions
  PROVE  /\ q.day \in Days /\ q.day \in Nat
         /\ q.unit \in Units \cup {None}
         /\ q.length \in Lengths /\ q.length \in Nat \ {0}
<1>1. q.day \in Days /\ q.unit \in Units \cup {None} /\ q.length \in Lengths
  BY DEF Questions
<1>2. q.day \in Nat
  BY <1>1, Positive DEF Days
<1>3. q.length \in Nat \ {0}
  BY <1>1, Positive
<1>4. QED
  BY <1>1, <1>2, <1>3

\* Through a window the unit is open, and where it is open there is a window.
LEMMA WindowIsOpen ==
  ASSUME NEW d, NEW u, NEW w \in Windows(d, u), NEW h, Covers(w, h)
  PROVE  IsOpenThrough(d, u, h)
<1>1. CASE u # None /\ special[u][d] # None
  BY <1>1 DEF Windows, IsOpenThrough
<1>2. CASE u # None /\ special[u][d] = None /\ opening[u] # {}
  BY <1>2 DEF Windows, IsOpenThrough
<1>3. QED
  BY <1>1, <1>2 DEF IsOpenThrough

LEMMA OpenHasWindow ==
  ASSUME NEW d, NEW u, NEW h, IsOpenThrough(d, u, h), h.start \in Nat, h.end \in Nat, h.end <= Day
  PROVE  \E w \in Windows(d, u) : Covers(w, h)
<1>1. CASE u # None /\ special[u][d] # None
  BY <1>1 DEF Windows, IsOpenThrough
<1>2. CASE u # None /\ special[u][d] = None /\ opening[u] # {}
  BY <1>2 DEF Windows, IsOpenThrough
<1>3. CASE u = None \/ (special[u][d] = None /\ opening[u] = {})
  <2>1. Windows(d, u) = {[start |-> 0, end |-> Day]}
    BY <1>3 DEF Windows
  <2>2. Covers([start |-> 0, end |-> Day], h)
    BY DEF Covers
  <2>3. QED
    BY <2>1, <2>2
<1>4. QED
  BY <1>1, <1>2, <1>3

\* An absence that does not repeat takes its own dates.
LEMMA FirstOccurrence ==
  ASSUME NEW a, row[a].span.start \in Nat, row[a].span.end \in Nat
  PROVE  [start |-> row[a].span.start, end |-> row[a].span.end] \in Occurrences(a)
<1>1. 0 * Week * Day = 0 /\ 0 \in 0 .. LastDay
  BY Positive
<1>2. QED
  BY <1>1 DEF Occurrences

\* An occurrence that stays within its day and falls into a slot is found, as it is, unless
\* it repeats one without an end and no unit is asked.
LEMMA OccurrenceIsFound ==
  ASSUME AgendaTypeOK, NEW d \in Days, NEW u \in Units \cup {None}, NEW a \in Absences, Away(a, u),
         ~(row[a].span.weekly /\ OverMidnight(a)), NEW o \in Occurrences(a),
         ~(Endless(a) /\ u = None /\ o.start # row[a].span.start),
         NEW slot \in Moment, slot.start >= d * Day, slot.end < d * Day + Day, Overlap(o, slot)
  PROVE  Found(a, d, u) /\ SpanOn(a, d) = o
<1> DEFINE s == row[a].span.start
           e == row[a].span.end
<1>1. IsActive(a) /\ s \in Nat /\ e \in Nat /\ s < e /\ row[a].span.until \in Nat \cup {None}
      /\ row[a].span.weekly \in BOOLEAN
  BY AbsenceType, SpanType DEF Away
<1>2. PICK k \in IF row[a].span.weekly THEN 0 .. LastDay ELSE {0} :
        /\ k = 0 \/ row[a].span.until = None \/ s + k * Week * Day <= row[a].span.until
        /\ o = [start |-> s + k * Week * Day, end |-> e + k * Week * Day]
  BY DEF Occurrences
<1> DEFINE later == k * Week * Day
<1>3. k \in Nat /\ d \in Nat /\ later \in Nat /\ (k = 0 => later = 0)
  BY <1>2, Positive DEF Days
<1>4. slot.start \in Nat /\ slot.end \in Nat /\ d * Day \in Nat
  BY <1>3, DayBegins DEF Moment
<1>5. s + later < d * Day + Day /\ e + later > d * Day
  BY <1>1, <1>2, <1>3, <1>4, Positive DEF Overlap
<1>6. row[a].span.weekly => s + later = d * Day + (s % Day) /\ s % Day \in Nat
  <2>1. row[a].span.weekly => DayOf(s) = DayOf(e - 1)
    BY DEF OverMidnight
  <2>2. s % Day \in Nat
    BY <1>1, MinuteOfDay
  <2>3. s + k * Week * Day < d * Day + Day /\ e + k * Week * Day > d * Day
    BY <1>5
  <2> HIDE DEF s, e
  <2>4. DayOf(s) = DayOf(e - 1) => s + k * Week * Day = d * Day + (s % Day)
    BY <1>1, <1>3, <2>3, OnItsDay
  <2>5. QED
    BY <2>1, <2>2, <2>4
<1> HIDE DEF later
<1>7. Found(a, d, u)
  <2>1. s <= At(d + 1, 0)
    <3>1. At(d + 1, 0) = d * Day + Day /\ s \in Nat
      BY <1>1, <1>3, DayBegins
    <3> HIDE DEF s
    <3>2. QED
      BY <1>3, <1>4, <1>5, <3>1, Positive
  <2>2. u # None => Serves(a, u)
    BY DEF Away, Serves
  <2>3. u = None => e > At(d, 0) \/ LastsUntil(row[a].span, At(d, 0))
    <3>1. At(d, 0) = d * Day
      BY <1>3, DayBegins
    <3>2. CASE k = 0
      <4>1. e + later = e
        BY <1>1, <1>3, <3>2
      <4>2. QED
        BY <1>5, <3>1, <4>1
    <3>3. CASE k # 0 /\ u = None
      <4>1. row[a].span.weekly
        BY <1>2, <3>3
      <4>2. later # 0
        BY <1>3, <3>3, Positive, LaterWeek DEF later
      <4>3. o.start # s
        BY <1>1, <1>2, <1>3, <4>2 DEF later
      <4>4. row[a].span.until # None
        BY <3>3, <4>1, <4>3 DEF Endless
      <4>5. row[a].span.until \in Nat /\ s + later <= row[a].span.until
        BY <1>1, <1>2, <3>3, <4>4 DEF later
      <4>6. row[a].span.until >= d * Day
        BY <1>1, <1>4, <1>6, <4>1, <4>5
      <4>7. QED
        BY <3>1, <4>1, <4>4, <4>6 DEF LastsUntil
    <3>4. QED
      BY <3>2, <3>3
  <2>4. QED
    BY <1>1, <2>1, <2>2, <2>3 DEF Found
<1>8. SpanOn(a, d) = o
  <2>1. CASE row[a].span.weekly
    <3>1. At(d, s % Day) = s + later
      BY <1>3, <1>6, <2>1, DayBegins, Positive
    <3>2. s + later + (e - s) = e + later
      BY <1>1, <1>3
    <3>3. SpanOn(a, d) = [start |-> s + later, end |-> e + later]
      BY <2>1, <3>1, <3>2 DEF SpanOn
    <3>4. QED
      BY <1>2, <3>3 DEF later
  <2>2. CASE ~row[a].span.weekly
    <3>1. s + later = s /\ e + later = e
      BY <1>1, <1>2, <1>3, <2>2
    <3>2. QED
      BY <1>2, <2>2, <3>1 DEF SpanOn, later
  <2>3. QED
    BY <2>1, <2>2
<1>9. QED
  BY <1>7, <1>8

LEMMA OfferIsFree == AgendaTypeOK => OfferedIsFree
<1> SUFFICES ASSUME AgendaTypeOK, NEW q \in Questions, NEW slot \in Answer(q)
    PROVE  /\ \A minute \in slot.start - At(q.day, 0) .. slot.end - At(q.day, 0) - 1 :
                /\ WorksThrough(q.day, q.unit, [start |-> minute, end |-> minute + 1])
                /\ IsOpenThrough(q.day, q.unit, [start |-> minute, end |-> minute + 1])
           /\ \A i \in Taken \ {q.moved} : ~Overlap(booked[i], slot)
           /\ \A a \in Absences : Away(a, q.unit) =>
                \/ row[a].span.weekly /\ OverMidnight(a)
                \/ \A o \in Occurrences(a) : Overlap(o, slot) =>
                     Endless(a) /\ q.unit = None /\ o.start # row[a].span.start
           /\ slot.start >= now + Advance \/ DayOf(now + Advance) = q.day
  BY DEF OfferedIsFree
<1> DEFINE d == q.day
           u == q.unit
           n == q.length
<1>1. d \in Days /\ d \in Nat /\ u \in Units \cup {None} /\ n \in Lengths /\ n \in Nat \ {0}
  BY Question
<1>2. /\ slot \in GridSlots(d, u, n)
      /\ ~OutOfRange(d) /\ ~Blocked(slot, d, u) /\ ~Reserved(slot, q.moved)
  BY DEF Answer, Available
<1>3. PICK p \in Schedule(d, u), w \in Windows(d, u), m \in Nat :
        /\ slot = [start |-> d * Day + m, end |-> d * Day + m + n]
        /\ row[p].hours.start <= m /\ m + n <= row[p].hours.end
        /\ w.start <= m /\ m + n <= w.end
  BY <1>1, <1>2, SlotParts
<1>4. /\ row[p].hours.start \in Nat /\ row[p].hours.end \in Nat /\ row[p].hours.end < Day
      /\ p \in Periods /\ IsActive(p)
  BY PeriodType, HoursType DEF Schedule
<1>5. w.start \in Nat /\ w.end \in Nat
  BY <1>1, WindowType
<1>6. At(d, 0) = d * Day /\ d * Day \in Nat
  BY <1>1, DayBegins
<1>7. ASSUME NEW minute \in slot.start - At(d, 0) .. slot.end - At(d, 0) - 1
      PROVE  /\ WorksThrough(d, u, [start |-> minute, end |-> minute + 1])
             /\ IsOpenThrough(d, u, [start |-> minute, end |-> minute + 1])
  <2> DEFINE h == [start |-> minute, end |-> minute + 1]
  <2>1. minute \in Int /\ m <= minute /\ minute + 1 <= m + n
    BY <1>1, <1>3, <1>6
  <2>2. Covers(row[p].hours, h) /\ Covers(w, h)
    BY <1>1, <1>3, <1>4, <1>5, <2>1 DEF Covers
  <2> HIDE DEF h
  <2>3. WorksThrough(d, u, h)
    BY <1>4, <2>2 DEF WorksThrough, Schedule, Serves
  <2>4. IsOpenThrough(d, u, h)
    BY <2>2, WindowIsOpen
  <2>5. QED
    BY <2>3, <2>4 DEF h
<1>8. \A i \in Taken \ {q.moved} : ~Overlap(booked[i], slot)
  BY <1>2 DEF Reserved
<1>9. ASSUME NEW a \in Absences, Away(a, u), ~(row[a].span.weekly /\ OverMidnight(a)),
             NEW o \in Occurrences(a), Overlap(o, slot),
             ~(Endless(a) /\ u = None /\ o.start # row[a].span.start)
      PROVE  FALSE
  <2>1. slot \in Moment
    BY <1>1, <1>2, SlotType
  <2>2. slot.start >= d * Day /\ slot.end < d * Day + Day
    BY <1>1, <1>3, <1>4, <1>6, Positive
  <2>3. Found(a, d, u) /\ SpanOn(a, d) = o
    BY <1>1, <1>9, <2>1, <2>2, OccurrenceIsFound
  <2>4. QED
    BY <1>2, <1>9, <2>3 DEF Blocked
<1>10. slot.start >= now + Advance \/ DayOf(now + Advance) = d
  <2> DEFINE t == now + Advance
             k == t \div Day
  <2>1. t \in Nat
    BY Positive DEF AgendaTypeOK
  <2>2. t = k * Day + (t % Day) /\ k \in Nat /\ t % Day \in 0 .. Day - 1
    BY <2>1, Positive, Division
  <2>3. d >= k
    BY <1>1, <1>2, <2>2 DEF OutOfRange, DayOf
  <2>4. CASE d = k
    BY <2>4 DEF DayOf
  <2>5. CASE k < d
    <3> HIDE DEF k, t
    <3>1. k * Day + Day <= d * Day /\ k * Day \in Nat
      <4>1. Day \in Nat \ {0} /\ k \in Nat /\ d \in Nat
        BY <1>1, <2>2, Positive
      <4>2. QED
        BY <2>5, <4>1, MultipleOrder, Multiple
    <3>2. t <= d * Day + m
      BY <1>3, <1>6, <2>1, <2>2, <3>1, Positive
    <3>3. QED
      BY <1>3, <1>6, <2>1, <3>2 DEF t
  <2>6. QED
    BY <1>1, <2>2, <2>3, <2>4, <2>5
<1>11. QED
  BY <1>7, <1>8, <1>9, <1>10

\* A slot within room that is free is free.
LEMMA SmallerIsFree ==
  ASSUME NEW v, v.start \in Int, v.end \in Int, NEW slot \in Moment, NEW room \in Moment,
         Covers(room, slot), Overlap(v, slot)
  PROVE  Overlap(v, room)
BY DEF Covers, Overlap, Moment

LEMMA RoomOffered == AgendaTypeOK => RoomIsOffered
<1> SUFFICES ASSUME AgendaTypeOK, NEW q \in Questions, ~OutOfRange(q.day),
                    NEW minute \in 0 .. Day - (q.length + Interval - 1),
                    NEW h, h = [start |-> minute, end |-> minute + (q.length + Interval - 1)],
                    NEW room,
                    room = [start |-> At(q.day, h.start), end |-> At(q.day, h.end)],
                    WorksThrough(q.day, q.unit, h), IsOpenThrough(q.day, q.unit, h),
                    \A i \in Taken \ {q.moved} : ~Overlap(booked[i], room),
                    \A a \in Absences : Away(a, q.unit) =>
                      /\ row[a].span.weekly => ~Overlap(SpanOn(a, q.day), room)
                      /\ \A o \in Occurrences(a) : ~Overlap(o, room)
             PROVE  \E slot \in Answer(q) : Covers(room, slot)
  BY DEF RoomIsOffered
<1> DEFINE d == q.day
           u == q.unit
           n == q.length
<1>1. d \in Days /\ d \in Nat /\ u \in Units \cup {None} /\ n \in Lengths /\ n \in Nat \ {0}
  BY Question
<1>2. /\ minute \in Nat /\ h.start = minute /\ h.end = minute + n + Interval - 1
      /\ h.end \in Nat /\ h.end <= Day /\ h.start < h.end
  BY <1>1, Positive
<1>3. PICK p \in Periods :
        /\ IsActive(p) /\ row[p].weekday = Weekday(d) /\ Covers(row[p].hours, h)
        /\ u = None \/ row[p].unit = None \/ row[p].unit = u
  BY DEF WorksThrough
<1>4. PICK w \in Windows(d, u) : Covers(w, h)
  BY <1>1, <1>2, OpenHasWindow
<1>5. /\ row[p].hours.start \in Nat /\ row[p].hours.end \in Nat
      /\ w.start \in Nat /\ w.end \in Nat
  BY <1>1, <1>3, PeriodType, HoursType, WindowType
<1> DEFINE c == Clip(row[p].hours, w)
<1>6. /\ c.start \in Nat /\ c.end \in Nat
      /\ c.start <= h.start /\ h.end <= c.end
  BY <1>2, <1>3, <1>4, <1>5 DEF Clip, Later, Earlier, Covers
<1>7. c \in Stretches(d, u)
  <2>1. p \in Schedule(d, u)
    BY <1>3 DEF Schedule, Serves
  <2>2. c.start < c.end
    BY <1>2, <1>6
  <2>3. QED
    BY <2>1, <2>2 DEF Stretches
<1> HIDE DEF c
<1>8. PICK m \in minute .. minute + Interval - 1 : m >= c.start /\ (m - c.start) % Interval = 0
  BY <1>2, <1>6, GridPoint
<1>9. m \in Nat /\ m \in c.start .. c.end - n
  BY <1>1, <1>2, <1>6, <1>8, Positive
<1> DEFINE slot == [start |-> At(d, m), end |-> At(d, m) + n]
<1>10. slot \in GridSlots(d, u, n)
  <2>1. slot \in {[start |-> At(d, k), end |-> At(d, k) + n] :
                    k \in {j \in c.start .. c.end - n : (j - c.start) % Interval = 0}}
    BY <1>8, <1>9
  <2>2. QED
    BY <1>7, <2>1 DEF GridSlots
<1>11. /\ At(d, m) = d * Day + m /\ At(d, h.start) = d * Day + minute
       /\ At(d, h.end) = d * Day + (minute + n + Interval - 1) /\ d * Day \in Nat
  BY <1>1, <1>2, <1>9, DayBegins
<1>12. slot \in Moment /\ room \in Moment /\ Covers(room, slot)
  BY <1>1, <1>2, <1>8, <1>9, <1>11, Positive DEF Moment, Covers
<1> HIDE DEF slot
<1>13. ~Reserved(slot, q.moved)
  <2> SUFFICES ASSUME NEW i \in Taken \ {q.moved}, Overlap(booked[i], slot)
               PROVE  FALSE
    BY DEF Reserved
  <2>1. booked[i].start \in Nat /\ booked[i].end \in Nat
    BY DEF AgendaTypeOK, Taken, Moment
  <2>2. Overlap(booked[i], room)
    BY <1>12, <2>1, SmallerIsFree
  <2>3. QED
    BY <2>2
<1>14. ~Blocked(slot, d, u)
  <2> SUFFICES ASSUME NEW a \in Absences, Found(a, d, u), Overlap(SpanOn(a, d), slot)
               PROVE  FALSE
    BY DEF Blocked
  <2>1. Away(a, u)
    BY DEF Found, Away, Serves
  <2>2. /\ row[a].span.start \in Nat /\ row[a].span.end \in Nat
        /\ row[a].span.weekly \in BOOLEAN
    BY <2>1, AbsenceType, SpanType DEF Away
  <2>3. SpanOn(a, d).start \in Int /\ SpanOn(a, d).end \in Int
    <3>1. row[a].span.start % Day \in Nat
      BY <2>2, MinuteOfDay
    <3>2. At(d, row[a].span.start % Day) \in Nat
      <4>1. At(d, row[a].span.start % Day) = d * Day + (row[a].span.start % Day)
        BY <1>1, <3>1, DayBegins
      <4>2. QED
        BY <1>11, <3>1, <4>1
    <3>3. CASE row[a].span.weekly
      BY <2>2, <3>2, <3>3 DEF SpanOn
    <3>4. CASE ~row[a].span.weekly
      BY <2>2, <3>4 DEF SpanOn
    <3>5. QED
      BY <3>3, <3>4
  <2>4. Overlap(SpanOn(a, d), room)
    BY <1>12, <2>3, SmallerIsFree
  <2>5. CASE row[a].span.weekly
    BY <2>1, <2>4, <2>5
  <2>6. CASE ~row[a].span.weekly
    <3>1. SpanOn(a, d) \in Occurrences(a)
      BY <2>2, <2>6, FirstOccurrence DEF SpanOn
    <3>2. QED
      BY <2>1, <2>4, <3>1
  <2>7. QED
    BY <2>5, <2>6
<1>15. slot \in Answer(q)
  BY <1>10, <1>13, <1>14 DEF Answer, Available
<1>16. QED
  BY <1>12, <1>15

\* Every slot that is offered is worked, open and free all through, save for absences that
\* repeat over midnight, the repetitions of those without an end where no unit is asked, and
\* the first day that keeps the notice.
THEOREM OffersAreFree == AgendaSpec => []OfferedIsFree
BY AvailabilityTyped, OfferIsFree, PTL

\* Where there is room for a service and a grid interval, a slot is offered.
THEOREM FreeIsOffered == AgendaSpec => []RoomIsOffered
BY AvailabilityTyped, RoomOffered, PTL
=============================================================================
