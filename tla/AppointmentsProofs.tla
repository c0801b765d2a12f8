------------------------- MODULE AppointmentsProofs -------------------------
(***************************************************************************)
(* The locking protocol of Appointments books and moves atomically, for    *)
(* any number of rows, professionals, slots and concurrent requests: it    *)
(* implements Calendar, and so keeps what Calendar promises.               *)
(*                                                                         *)
(* The argument is the one behind SERIALIZABLE predicate locks.  Between   *)
(* the conflict query of a request and its commit (Checked) no active row  *)
(* enters its slot: a write that would put one there is refused while the  *)
(* predicate is locked, and a row written but not committed when the query *)
(* ran made the query wait (Apart).                                        *)
(***************************************************************************)
EXTENDS Appointments, FiniteSetTheorems, TLAPS

Booking == {"precheck", "lock", "check", "number", "insert", "move", "release", "commit"}

\* A request is in a phase its kind of work goes through, and its arguments
\* are those of that work.
JobOK(r) ==
  /\ pc[r] \in Booking =>
       /\ job[r].kind \in {"create", "reschedule"}
       /\ job[r].prof \in Professionals
       /\ job[r].slot \in Slots
  /\ pc[r] \in Booking /\ job[r].kind = "reschedule" => job[r].id \in Booked
  /\ pc[r] \in Booking /\ job[r].kind = "create" /\ ~Written(r) => job[r].id = None
  /\ pc[r] \in {"number", "insert"} => job[r].kind = "create"
  /\ pc[r] = "move" => job[r].kind = "reschedule"
  /\ pc[r] = "write" =>
       /\ job[r].kind \in {"status", "checkin"}
       /\ job[r].id \in Booked
  /\ pc[r] = "write" /\ job[r].kind = "status" =>
       \E old \in seen[job[r].id] : job[r].to \in Transitions(old)

JobInv == \A r \in Requests : JobOK(r)

\* A booked row has some status behind it.
SeenInv == \A id \in Booked : appt[id].status \in seen[id]

\* The uncommitted insert, if there is one, has the next row and protocol.
InsertInv ==
  \A r \in Requests :
    Inserting(r) =>
      /\ job[r].id \in Ids \ Booked
      /\ job[r].protocol = Cardinality(Booked) + 1
      /\ \A q \in Requests : Inserting(q) => q = r

\* A row is moved by one transaction at a time.
MoveInv ==
  \A q, r \in Requests :
    Moving(q) /\ Moving(r) /\ job[q].id = job[r].id => q = r

\* An uncommitted row is out of every slot another transaction has checked.
Apart ==
  \A q, r \in Requests :
    q # r /\ Written(q) /\ Checked(r) /\ job[q].id # job[r].id
      => ~Matches(Outcome(q), r)

\* Protocols were numbered by counting rows.
CountInv == \A id \in Booked : appt[id].protocol <= Cardinality(Booked)

IInv ==
  /\ TypeOK
  /\ JobInv
  /\ SeenInv
  /\ InsertInv
  /\ MoveInv
  /\ Apart
  /\ CheckedSlotStaysFree
  /\ CountInv

-----------------------------------------------------------------------------
LEMMA BookedFinite ==
  /\ IsFiniteSet(Booked)
  /\ Cardinality(Booked) \in Nat
  /\ Cardinality(Ids) \in Nat
<1>1. Booked \subseteq Ids
  BY DEF Booked
<1>2. QED
  BY <1>1, RulesAssumption, FS_Subset, FS_CardinalityType

\* count + 1 is a protocol as long as a row is free, and inserting that row
\* makes the count one more.
LEMMA NextProtocol ==
  ASSUME NEW id \in Ids \ Booked
  PROVE  /\ Cardinality(Booked) + 1 \in Protocols
         /\ Cardinality(Booked \cup {id}) = Cardinality(Booked) + 1
<1>1. /\ IsFiniteSet(Booked \cup {id})
      /\ Cardinality(Booked \cup {id}) = Cardinality(Booked) + 1
  BY BookedFinite, FS_AddElement
<1>2. Booked \cup {id} \subseteq Ids
  BY DEF Booked
<1>3. Cardinality(Booked \cup {id}) <= Cardinality(Ids)
  BY <1>2, RulesAssumption, FS_Subset
<1>4. QED
  BY <1>1, <1>3, BookedFinite DEF Protocols

LEMMA RowIsNotNone == None \notin Row
BY NoneAssumption

LEMMA OutcomeIsRow ==
  ASSUME TypeOK, JobInv, InsertInv, NEW r \in Requests, pc[r] \in {"move", "release", "commit"}
  PROVE  /\ job[r].id \in Ids
         /\ Outcome(r) \in Row
         /\ Outcome(r).prof = job[r].prof
         /\ Outcome(r).slot = job[r].slot
         /\ job[r].kind = "create" =>
              /\ Outcome(r) = NewRow(job[r].prof, job[r].slot, job[r].protocol)
              /\ Outcome(r).status = "PENDING"
         /\ job[r].kind = "reschedule" =>
              /\ Outcome(r) = [appt[job[r].id] EXCEPT !.prof = job[r].prof, !.slot = job[r].slot]
              /\ Outcome(r).status = appt[job[r].id].status
<1>1. job[r].prof \in Professionals /\ job[r].slot \in Slots
  BY DEF JobInv, JobOK, Booking
<1>2. CASE job[r].kind = "create"
  <2>1. pc[r] \in {"release", "commit"}
    BY <1>2 DEF JobInv, JobOK
  <2>2. job[r].id \in Ids \ Booked /\ job[r].protocol = Cardinality(Booked) + 1
    BY <1>2, <2>1 DEF InsertInv, Inserting, Written
  <2>3. job[r].protocol \in Protocols
    BY <2>2, NextProtocol
  <2>4. QED
    BY <1>1, <1>2, <2>2, <2>3 DEF Outcome, NewRow, Row, Status
<1>3. CASE job[r].kind = "reschedule"
  <2>1. job[r].id \in Booked
    BY <1>3 DEF JobInv, JobOK, Booking
  <2>2. appt[job[r].id] \in Row
    BY <2>1 DEF TypeOK, Booked
  <2>3. QED
    BY <1>1, <1>3, <2>1, <2>2 DEF Outcome, Row, Booked
<1>4. QED
  BY <1>2, <1>3 DEF JobInv, JobOK, Booking

-----------------------------------------------------------------------------
\* Every record a handler puts in `job` is one.
LEMMA JobTypes ==
  /\ NoJob \in Job
  /\ \A p \in Professionals, s \in Slots :
       /\ [NoJob EXCEPT !.kind = "create", !.prof = p, !.slot = s] \in Job
       /\ \A id \in Ids :
            [NoJob EXCEPT !.kind = "reschedule", !.id = id, !.prof = p, !.slot = s] \in Job
  /\ \A id \in Ids, s \in Status :
       [NoJob EXCEPT !.kind = "status", !.id = id, !.to = s] \in Job
  /\ \A id \in Ids : [NoJob EXCEPT !.kind = "checkin", !.id = id] \in Job
BY DEF NoJob, Job, Kinds, Status

LEMMA TransitionsAreStatuses == \A s : Transitions(s) \subseteq Status
BY DEF Transitions, Status

\* The named locks keep their type whoever takes or gives them back.
LEMMA LockTypes ==
  ASSUME TypeOK, NEW r \in Requests, NEW n, ReleaseLocks(r) \/ TakeLock(r, n)
  PROVE  /\ holder' \in [Locks -> Requests \cup {None}]
         /\ orphans' \in SUBSET Locks
BY DEF TypeOK, ReleaseLocks, TakeLock

LEMMA InitInv == Init => IInv
<1> SUFFICES ASSUME Init
             PROVE  IInv
  OBVIOUS
<1> USE DEF Init
<1>1. Booked = {}
  BY DEF Booked
<1>2. TypeOK
  BY JobTypes DEF TypeOK, Phases
<1>3. \A r \in Requests : pc[r] = "idle"
  OBVIOUS
<1>4. JobInv
  BY <1>3 DEF JobInv, JobOK, Booking
<1>5. InsertInv /\ MoveInv /\ Apart /\ CheckedSlotStaysFree
  BY <1>3 DEF InsertInv, MoveInv, Apart, CheckedSlotStaysFree, Inserting, Moving,
              Written, Checked
<1>6. SeenInv /\ CountInv
  BY <1>1 DEF SeenInv, CountInv
<1>7. QED
  BY <1>2, <1>4, <1>5, <1>6 DEF IInv

-----------------------------------------------------------------------------
LEMMA TypeStep == IInv /\ [Next]_vars => TypeOK'
<1> SUFFICES ASSUME IInv, [Next]_vars
             PROVE  TypeOK'
  OBVIOUS
<1>0. TypeOK /\ JobInv /\ InsertInv
  BY DEF IInv
<1>f. ASSUME NEW r \in Requests, Finish(r)
      PROVE  /\ pc' \in [Requests -> Phases]
             /\ job' \in [Requests -> Job]
  BY <1>0, <1>f, JobTypes DEF TypeOK, Finish, Goto, Phases
<1>g. ASSUME NEW r \in Requests, NEW ph \in Phases, Goto(r, ph)
      PROVE  pc' \in [Requests -> Phases]
  BY <1>0, <1>g DEF TypeOK, Goto
<1>b. \A id \in Booked : id \in Ids /\ appt[id] \in Row
  BY <1>0 DEF TypeOK, Booked
<1>1. ASSUME NEW r \in Requests, Arrive(r)
      PROVE  TypeOK'
  <2>1. ASSUME NEW j \in Job, NEW ph \in Phases, Start(r, j, ph),
               UNCHANGED <<appt, seen, holder, orphans>>
        PROVE  TypeOK'
    BY <1>0, <1>g, <2>1 DEF TypeOK, Start
  <2>2. {"precheck", "write"} \subseteq Phases
    BY DEF Phases
  <2>3. CASE StartCreate(r)
    BY <2>1, <2>2, <2>3, JobTypes DEF StartCreate
  <2>4. CASE StartReschedule(r)
    <3>1. PICK id \in Booked, p \in Professionals, s \in Slots :
            Start(r, [NoJob EXCEPT !.kind = "reschedule", !.id = id,
                                   !.prof = p, !.slot = s], "precheck")
      BY <2>4 DEF StartReschedule
    <3>2. [NoJob EXCEPT !.kind = "reschedule", !.id = id, !.prof = p, !.slot = s] \in Job
      BY <1>b, JobTypes
    <3>3. QED
      BY <2>1, <2>2, <2>4, <3>1, <3>2 DEF StartReschedule
  <2>5. CASE StartStatus(r)
    <3>1. PICK id \in Booked, s \in Status :
            Start(r, [NoJob EXCEPT !.kind = "status", !.id = id, !.to = s], "write")
      BY <2>5, TransitionsAreStatuses DEF StartStatus
    <3>2. [NoJob EXCEPT !.kind = "status", !.id = id, !.to = s] \in Job
      BY <1>b, JobTypes
    <3>3. QED
      BY <2>1, <2>2, <2>5, <3>1, <3>2 DEF StartStatus
  <2>6. CASE StartCheckIn(r)
    <3>1. PICK id \in Booked :
            Start(r, [NoJob EXCEPT !.kind = "checkin", !.id = id], "write")
      BY <2>6 DEF StartCheckIn
    <3>2. [NoJob EXCEPT !.kind = "checkin", !.id = id] \in Job
      BY <1>b, JobTypes
    <3>3. QED
      BY <2>1, <2>2, <2>6, <3>1, <3>2 DEF StartCheckIn
  <2>7. QED
    BY <1>1, <2>3, <2>4, <2>5, <2>6 DEF Arrive
<1>2. ASSUME NEW r \in Requests, Advance(r)
      PROVE  TypeOK'
  <2>0. {"lock", "check", "number", "insert", "move", "release", "commit"} \subseteq Phases
    BY DEF Phases
  <2>1. CASE PreCheck(r)
    BY <1>0, <1>f, <1>g, <2>0, <2>1 DEF PreCheck, TypeOK
  <2>2. CASE TakeAgendaLock(r)
    BY <1>0, <1>g, <2>0, <2>2, LockTypes DEF TakeAgendaLock, TypeOK
  <2>3. CASE AgendaLockTimeout(r)
    BY <1>0, <1>f, <2>3 DEF AgendaLockTimeout, TypeOK
  <2>4. CASE CheckAgenda(r)
    BY <1>0, <1>g, <2>0, <2>4 DEF CheckAgenda, TypeOK
  <2>5. CASE RejectConflict(r)
    BY <1>0, <1>f, <2>5, LockTypes DEF RejectConflict, TypeOK
  <2>6. CASE TakeCounterLock(r)
    BY <1>0, <1>g, <2>0, <2>6, LockTypes DEF TakeCounterLock, TypeOK
  <2>7. CASE CounterLockTimeout(r)
    BY <1>0, <1>f, <2>7, LockTypes DEF CounterLockTimeout, TypeOK
  <2>8. CASE InsertRow(r)
    <3>1. PICK id \in Ids \ Booked :
            job' = [job EXCEPT ![r].id = id, ![r].protocol = Cardinality(Booked) + 1]
      BY <2>8 DEF InsertRow, InsertPending, ProtocolToGive
    <3>2. Cardinality(Booked) + 1 \in Protocols
      BY NextProtocol
    <3>3. [job[r] EXCEPT !.id = id, !.protocol = Cardinality(Booked) + 1] \in Job
      BY <1>0, <3>2 DEF TypeOK, Job
    <3>4. job' \in [Requests -> Job]
      BY <1>0, <3>1, <3>3 DEF TypeOK
    <3>5. QED
      BY <1>0, <1>g, <2>0, <2>8, <3>4 DEF InsertRow, InsertPending, ProtocolToGive, TypeOK
  <2>9. CASE MoveRow(r)
    BY <1>0, <1>g, <2>0, <2>9 DEF MoveRow, TypeOK
  <2>10. CASE ReleaseBeforeCommit(r)
    BY <1>0, <1>g, <2>0, <2>10, LockTypes DEF ReleaseBeforeCommit, TypeOK
  <2>11. CASE Commit(r)
    <3>1. job[r].id \in Ids /\ Outcome(r) \in Row
      BY <1>0, <2>11, OutcomeIsRow DEF Commit
    <3>2. appt' \in [Ids -> Row \cup {None}] /\ seen' \in [Ids -> SUBSET Status]
      BY <1>0, <2>11, <3>1 DEF Commit, TypeOK, Status
    <3>3. QED
      BY <1>0, <1>f, <2>11, <3>2 DEF Commit, TypeOK
  <2>12. CASE WriteStatus(r)
    <3>1. job[r].id \in Booked
      BY <1>0, <2>12 DEF JobInv, JobOK, WriteStatus
    <3>2. job[r].to \in Status
      BY <1>0 DEF TypeOK, Job
    <3>3. [appt[job[r].id] EXCEPT !.status = job[r].to] \in Row
      BY <1>b, <3>1, <3>2 DEF Row
    <3>4. appt' \in [Ids -> Row \cup {None}] /\ seen' \in [Ids -> SUBSET Status]
      BY <1>0, <1>b, <2>12, <3>1, <3>2, <3>3 DEF WriteStatus, TypeOK
    <3>5. QED
      BY <1>0, <1>f, <2>12, <3>4 DEF WriteStatus, TypeOK
  <2>13. CASE WriteCheckIn(r)
    <3>1. job[r].id \in Booked
      BY <1>0, <2>13 DEF JobInv, JobOK, WriteCheckIn
    <3>2. [appt[job[r].id] EXCEPT !.checkedIn = TRUE] \in Row
      BY <1>b, <3>1 DEF Row
    <3>3. appt' \in [Ids -> Row \cup {None}]
      BY <1>0, <1>b, <2>13, <3>1, <3>2 DEF WriteCheckIn, TypeOK
    <3>4. QED
      BY <1>0, <1>f, <2>13, <3>3 DEF WriteCheckIn, TypeOK
  <2>14. QED
    BY <1>2, <2>1, <2>2, <2>3, <2>4, <2>5, <2>6, <2>7, <2>8, <2>9, <2>10,
       <2>11, <2>12, <2>13 DEF Advance
<1>3. ASSUME NEW r \in Requests, Interrupt(r)
      PROVE  TypeOK'
  <2>1. CASE Fail(r)
    BY <1>0, <1>f, <2>1, LockTypes DEF Fail, TypeOK
  <2>2. CASE TransactionTimeout(r)
    BY <1>0, <1>f, <2>2 DEF TransactionTimeout, TypeOK
  <2>3. CASE Disconnect(r)
    BY <1>0, <1>f, <2>3 DEF Disconnect, TypeOK
  <2>4. QED
    BY <1>3, <2>1, <2>2, <2>3 DEF Interrupt
<1>4. CASE UNCHANGED vars
  BY <1>0, <1>4 DEF vars, TypeOK
<1>5. QED
  BY <1>1, <1>2, <1>3, <1>4 DEF Next

-----------------------------------------------------------------------------
\* A step moves one request and leaves the others where they are.
LEMMA GotoEffect ==
  ASSUME TypeOK, NEW r \in Requests, NEW ph, Goto(r, ph)
  PROVE  /\ pc'[r] = ph
         /\ \A q \in Requests \ {r} : pc'[q] = pc[q]
BY DEF TypeOK, Goto

LEMMA FinishEffect ==
  ASSUME TypeOK, NEW r \in Requests, Finish(r)
  PROVE  /\ pc'[r] = "idle"
         /\ \A q \in Requests \ {r} : pc'[q] = pc[q] /\ job'[q] = job[q]
BY DEF TypeOK, Finish, Goto

\* The requests that do not move keep their place: rows and the statuses in
\* their past only accumulate.
LEMMA JobStep ==
  ASSUME JobInv, NEW r \in Requests, JobOK(r)',
         \A q \in Requests \ {r} : pc'[q] = pc[q] /\ job'[q] = job[q],
         Booked \subseteq Booked',
         \A id \in Booked : seen[id] \subseteq seen'[id]
  PROVE  JobInv'
<1> SUFFICES ASSUME NEW q \in Requests
             PROVE  JobOK(q)'
  BY DEF JobInv
<1>1. CASE q = r
  BY <1>1
<1>2. CASE q # r
  <2>1. JobOK(q) /\ pc'[q] = pc[q] /\ job'[q] = job[q]
    BY <1>2 DEF JobInv
  <2>2. Written(q)' = Written(q)
    BY <2>1 DEF Written
  <2>3. job[q].id \in Booked => job'[q].id \in Booked'
    BY <2>1
  <2>4. pc[q] = "write" /\ job[q].kind = "status" =>
          \E old \in seen'[job'[q].id] : job'[q].to \in Transitions(old)
    BY <2>1 DEF JobOK
  <2>5. QED
    BY <2>1, <2>2, <2>3, <2>4 DEF JobOK
<1>3. QED
  BY <1>1, <1>2

\* A step that writes no row and enters no transaction keeps the invariant.
LEMMA QuietStep ==
  ASSUME IInv, TypeOK', JobInv', UNCHANGED <<appt, seen>>,
         \A r \in Requests : Checked(r)' => Checked(r) /\ job'[r] = job[r],
         \A r \in Requests : Written(r)' => Written(r)
  PROVE  IInv'
<1>1. Booked' = Booked
  BY DEF Booked
<1>2. \A r \in Requests : Written(r)' => Checked(r)'
  BY DEF Written, Checked
<1>4. \A r \in Requests : Checked(r)' =>
        (ConflictFound(r)' <=> ConflictFound(r))
  BY <1>1 DEF ConflictFound, Matches
<1>5. CheckedSlotStaysFree'
  BY <1>4 DEF IInv, CheckedSlotStaysFree
<1>6. InsertInv' /\ MoveInv'
  <2>1. Cardinality(Booked)' = Cardinality(Booked)
    BY <1>1
  <2>2. InsertInv'
    BY <1>1, <1>2, <2>1 DEF IInv, InsertInv, Inserting
  <2>3. MoveInv'
    BY <1>2 DEF IInv, MoveInv, Moving
  <2>4. QED
    BY <2>2, <2>3
<1>7. ASSUME NEW q \in Requests, NEW r \in Requests, q # r, Written(q)', Checked(r)',
             job'[q].id # job'[r].id
      PROVE  ~Matches(Outcome(q), r)'
  <2>1. job'[q] = job[q] /\ job'[r] = job[r] /\ Written(q) /\ Checked(r)
    BY <1>2, <1>7
  <2>2. ~Matches(Outcome(q), r)
    BY <1>7, <2>1 DEF IInv, Apart
  <2>3. QED
    BY <2>1, <2>2 DEF Matches, Outcome
<1>8. Apart'
  BY <1>7 DEF Apart
<1>9. SeenInv' /\ CountInv'
  BY <1>1 DEF IInv, SeenInv, CountInv
<1>10. QED
  BY <1>5, <1>6, <1>8, <1>9 DEF IInv

\* The same, for the steps that move one request.
LEMMA QuietMove ==
  ASSUME IInv, TypeOK', NEW r \in Requests, JobOK(r)', UNCHANGED <<appt, seen>>,
         \A q \in Requests \ {r} : pc'[q] = pc[q] /\ job'[q] = job[q],
         Checked(r)' => Checked(r) /\ job'[r] = job[r],
         Written(r)' => Written(r)
  PROVE  IInv'
<1>1. JobInv'
  BY JobStep DEF IInv, Booked
<1>2. \A q \in Requests : Checked(q)' => Checked(q) /\ job'[q] = job[q]
  BY DEF Checked
<1>3. \A q \in Requests : Written(q)' => Written(q)
  BY DEF Written
<1>4. QED
  BY <1>1, <1>2, <1>3, QuietStep

\* A request that answers without writing a row.
LEMMA QuietFinish ==
  ASSUME IInv, TypeOK', NEW r \in Requests, Finish(r), UNCHANGED <<appt, seen>>
  PROVE  IInv'
<1>1. /\ pc'[r] = "idle"
      /\ \A q \in Requests \ {r} : pc'[q] = pc[q] /\ job'[q] = job[q]
  BY FinishEffect DEF IInv
<1>2. JobOK(r)' /\ ~Checked(r)' /\ ~Written(r)'
  BY <1>1 DEF JobOK, Booking, Checked, Written
<1>3. QED
  BY <1>1, <1>2, QuietMove

-----------------------------------------------------------------------------
\* A request that starts has read a row and taken nothing.
LEMMA ArriveStep ==
  ASSUME IInv, TypeOK', NEW r \in Requests, Arrive(r)
  PROVE  IInv'
<1>1. ASSUME NEW j, NEW ph \in {"precheck", "write"}, Start(r, j, ph),
             UNCHANGED <<appt, seen>>, pc'[r] = ph /\ job'[r] = j => JobOK(r)'
      PROVE  IInv'
  <2>1. /\ pc'[r] = ph /\ job'[r] = j
        /\ \A q \in Requests \ {r} : pc'[q] = pc[q] /\ job'[q] = job[q]
    BY <1>1 DEF Start, Goto, IInv, TypeOK
  <2>2. ~Checked(r)' /\ ~Written(r)'
    BY <2>1 DEF Checked, Written
  <2>3. QED
    BY <1>1, <2>1, <2>2, QuietMove
<1>b. UNCHANGED <<appt, seen>> => Booked' = Booked
  BY DEF Booked
<1>2. CASE StartCreate(r)
  <2>1. PICK p \in Professionals, s \in Slots :
          Start(r, [NoJob EXCEPT !.kind = "create", !.prof = p, !.slot = s], "precheck")
    BY <1>2 DEF StartCreate
  <2> DEFINE j == [NoJob EXCEPT !.kind = "create", !.prof = p, !.slot = s]
  <2>2. j.kind = "create" /\ j.prof = p /\ j.slot = s /\ j.id = None
    BY DEF NoJob
  <2>3. pc'[r] = "precheck" /\ job'[r] = j => JobOK(r)'
    BY <2>2 DEF JobOK, Booking
  <2>4. QED
    BY <1>1, <1>2, <2>1, <2>3 DEF StartCreate
<1>3. CASE StartReschedule(r)
  <2>1. PICK id \in Booked, p \in Professionals, s \in Slots :
          Start(r, [NoJob EXCEPT !.kind = "reschedule", !.id = id,
                                 !.prof = p, !.slot = s], "precheck")
    BY <1>3 DEF StartReschedule
  <2> DEFINE j == [NoJob EXCEPT !.kind = "reschedule", !.id = id, !.prof = p, !.slot = s]
  <2>2. j.kind = "reschedule" /\ j.prof = p /\ j.slot = s /\ j.id = id
    BY DEF NoJob
  <2>3. pc'[r] = "precheck" /\ job'[r] = j => JobOK(r)'
    BY <1>3, <1>b, <2>2 DEF JobOK, Booking, StartReschedule
  <2>4. QED
    BY <1>1, <1>3, <2>1, <2>3 DEF StartReschedule
<1>4. CASE StartStatus(r)
  <2>1. PICK id \in Booked : \E s \in Transitions(appt[id].status) \cap Asked :
          Start(r, [NoJob EXCEPT !.kind = "status", !.id = id, !.to = s], "write")
    BY <1>4 DEF StartStatus
  <2>2. PICK s \in Transitions(appt[id].status) \cap Asked :
          Start(r, [NoJob EXCEPT !.kind = "status", !.id = id, !.to = s], "write")
    BY <2>1
  <2> DEFINE j == [NoJob EXCEPT !.kind = "status", !.id = id, !.to = s]
  <2>3. j.kind = "status" /\ j.id = id /\ j.to = s
    BY DEF NoJob
  <2>4. \E old \in seen[id] : s \in Transitions(old)
    BY <2>2 DEF IInv, SeenInv
  <2>5. pc'[r] = "write" /\ job'[r] = j => JobOK(r)'
    BY <1>4, <1>b, <2>3, <2>4 DEF JobOK, Booking, StartStatus
  <2>6. QED
    BY <1>1, <1>4, <2>2, <2>5 DEF StartStatus
<1>5. CASE StartCheckIn(r)
  <2>1. PICK id \in Booked :
          Start(r, [NoJob EXCEPT !.kind = "checkin", !.id = id], "write")
    BY <1>5 DEF StartCheckIn
  <2> DEFINE j == [NoJob EXCEPT !.kind = "checkin", !.id = id]
  <2>2. j.kind = "checkin" /\ j.id = id
    BY DEF NoJob
  <2>3. pc'[r] = "write" /\ job'[r] = j => JobOK(r)'
    BY <1>5, <1>b, <2>2 DEF JobOK, Booking, StartCheckIn
  <2>4. QED
    BY <1>1, <1>5, <2>1, <2>3 DEF StartCheckIn
<1>6. QED
  BY <1>2, <1>3, <1>4, <1>5 DEF Arrive

\* The steps that only take or give back a lock.
LEMMA LockStep ==
  ASSUME IInv, TypeOK', NEW r \in Requests,
         \/ PreCheck(r) \/ TakeAgendaLock(r) \/ AgendaLockTimeout(r)
         \/ RejectConflict(r) \/ TakeCounterLock(r) \/ CounterLockTimeout(r)
         \/ ReleaseBeforeCommit(r) \/ Interrupt(r)
  PROVE  IInv'
<1>t. TypeOK /\ JobOK(r)
  BY DEF IInv, JobInv
<1>1. CASE Finish(r) /\ UNCHANGED <<appt, seen>>
  BY <1>1, QuietFinish
<1>2. ASSUME NEW ph, Goto(r, ph), UNCHANGED <<appt, seen, job>>, JobOK(r)',
             Checked(r)' => Checked(r), Written(r)' => Written(r)
      PROVE  IInv'
  BY <1>t, <1>2, GotoEffect, QuietMove
<1>b. UNCHANGED appt => Booked' = Booked
  BY DEF Booked
<1>3. CASE PreCheck(r) /\ ~Finish(r)
  <2>1. pc[r] = "precheck" /\ pc'[r] = "lock"
    BY <1>t, <1>3, GotoEffect DEF PreCheck
  <2>2. QED
    BY <1>b, <1>t, <1>2, <1>3, <2>1 DEF PreCheck, JobOK, Booking, Checked, Written
<1>4. CASE TakeAgendaLock(r)
  <2>1. pc[r] = "lock" /\ pc'[r] = "check"
    BY <1>t, <1>4, GotoEffect DEF TakeAgendaLock
  <2>2. QED
    BY <1>b, <1>t, <1>2, <1>4, <2>1 DEF TakeAgendaLock, JobOK, Booking, Checked, Written
<1>5. CASE TakeCounterLock(r)
  <2>1. pc[r] = "number" /\ pc'[r] = "insert"
    BY <1>t, <1>5, GotoEffect DEF TakeCounterLock
  <2>2. QED
    BY <1>b, <1>t, <1>2, <1>5, <2>1 DEF TakeCounterLock, JobOK, Booking, Checked, Written
<1>6. CASE ReleaseBeforeCommit(r)
  <2>1. pc[r] = "release" /\ pc'[r] = "commit"
    BY <1>t, <1>6, GotoEffect DEF ReleaseBeforeCommit
  <2>2. QED
    BY <1>b, <1>t, <1>2, <1>6, <2>1 DEF ReleaseBeforeCommit, JobOK, Booking, Checked, Written
<1>7. QED
  BY <1>1, <1>3, <1>4, <1>5, <1>6
     DEF PreCheck, AgendaLockTimeout, RejectConflict, CounterLockTimeout, Interrupt,
         Fail, TransactionTimeout, Disconnect

-----------------------------------------------------------------------------
\* The conflict query of r: it met no active row in the slot, and no written
\* but uncommitted one, or it would have waited.
LEMMA CheckStep ==
  ASSUME IInv, TypeOK', NEW r \in Requests, CheckAgenda(r)
  PROVE  IInv'
<1>t. TypeOK /\ JobOK(r) /\ pc[r] = "check" /\ UNCHANGED <<appt, seen, job>>
  BY DEF IInv, JobInv, CheckAgenda
<1>1. /\ pc'[r] = IF job[r].kind = "create" THEN "number" ELSE "move"
      /\ \A q \in Requests \ {r} : pc'[q] = pc[q]
  BY <1>t, GotoEffect DEF CheckAgenda
<1>b. Booked' = Booked
  BY <1>t DEF Booked
<1>2. JobOK(r)'
  BY <1>t, <1>1, <1>b DEF JobOK, Booking, Written
<1>3. JobInv'
  BY <1>t, <1>1, <1>2, <1>b, JobStep DEF IInv
<1>4. ~Written(r)' /\ ~Written(r)
  BY <1>t, <1>1 DEF Written
<1>5. \A q \in Requests \ {r} : /\ Written(q)' = Written(q)
                                 /\ Checked(q)' = Checked(q)
  BY <1>1 DEF Written, Checked
<1>6. InsertInv'
  <2>1. Cardinality(Booked)' = Cardinality(Booked)
    BY <1>b
  <2>2. QED
    BY <1>t, <1>b, <1>4, <1>5, <2>1 DEF IInv, InsertInv, Inserting
<1>7. MoveInv'
  BY <1>t, <1>4, <1>5 DEF IInv, MoveInv, Moving
<1>8. Apart'
  <2> SUFFICES ASSUME NEW q \in Requests, NEW s \in Requests, q # s,
                      Written(q)', Checked(s)', job[q].id # job[s].id
               PROVE  ~Matches(Outcome(q), s)
    BY <1>t DEF Apart, Matches, Outcome
  <2>1. q # r /\ Written(q)
    BY <1>4, <1>5
  <2>2. CASE s = r
    BY <2>1, <2>2 DEF CheckAgenda, MustWait
  <2>3. CASE s # r
    BY <1>5, <2>1, <2>3 DEF IInv, Apart
  <2>4. QED
    BY <2>2, <2>3
<1>9. CheckedSlotStaysFree'
  <2> SUFFICES ASSUME NEW s \in Requests, Checked(s)'
               PROVE  ~ConflictFound(s)
    BY <1>t, <1>b DEF CheckedSlotStaysFree, ConflictFound, Matches
  <2>1. CASE s = r
    BY <2>1 DEF CheckAgenda
  <2>2. CASE s # r
    BY <1>5, <2>2 DEF IInv, CheckedSlotStaysFree
  <2>3. QED
    BY <2>1, <2>2
<1>10. SeenInv' /\ CountInv'
  BY <1>t, <1>b DEF IInv, SeenInv, CountInv
<1>11. QED
  BY <1>3, <1>6, <1>7, <1>8, <1>9, <1>10 DEF IInv

\* The insert: nobody else has one pending, and no predicate lock covers it.
LEMMA InsertStep ==
  ASSUME IInv, TypeOK', NEW r \in Requests, InsertRow(r)
  PROVE  IInv'
<1>t. TypeOK /\ JobOK(r) /\ pc[r] = "insert" /\ UNCHANGED <<appt, seen>>
  BY DEF IInv, JobInv, InsertRow
<1> DEFINE n == Cardinality(Booked) + 1
           row == NewRow(job[r].prof, job[r].slot, n)
<1>p. PICK id \in Ids \ Booked :
        /\ ~WriteBlocked(r, id, row)
        /\ job' = [job EXCEPT ![r].id = id, ![r].protocol = n]
  BY DEF InsertRow, InsertPending, ProtocolToGive
<1>1. /\ pc'[r] = "release"
      /\ \A q \in Requests \ {r} : pc'[q] = pc[q] /\ job'[q] = job[q]
  BY <1>t, <1>p, GotoEffect DEF InsertRow, InsertPending, ProtocolToGive, TypeOK
<1>k. /\ job[r].kind = "create" /\ job[r].id = None
      /\ job'[r].kind = "create" /\ job'[r].id = id /\ job'[r].protocol = n
      /\ job'[r].prof = job[r].prof /\ job'[r].slot = job[r].slot
  BY <1>t, <1>p DEF JobOK, Booking, Written, TypeOK, Job
<1>b. Booked' = Booked /\ Cardinality(Booked)' = Cardinality(Booked)
  BY <1>t DEF Booked
<1>2. JobOK(r)'
  BY <1>t, <1>1, <1>k DEF JobOK, Booking, Written
<1>3. JobInv'
  BY <1>t, <1>1, <1>2, <1>b, JobStep DEF IInv
<1>4. Written(r)' /\ Checked(r)' /\ ~Written(r) /\ Checked(r)
  BY <1>t, <1>1 DEF Written, Checked
<1>5. \A q \in Requests \ {r} : /\ Written(q)' = Written(q)
                                 /\ Checked(q)' = Checked(q)
  BY <1>1 DEF Written, Checked
<1>6. InsertInv'
  <2>1. \A q \in Requests \ {r} : ~(Written(q) /\ job[q].kind = "create")
    BY DEF InsertRow, InsertPending, ProtocolToGive, Inserting
  <2>2. \A q \in Requests : Written(q)' /\ job'[q].kind = "create" => q = r
    BY <1>1, <1>5, <2>1
  <2>3. QED
    BY <1>b, <1>k, <2>2 DEF InsertInv, Inserting
<1>7. MoveInv'
  <2>1. \A q \in Requests : Written(q)' /\ job'[q].kind = "reschedule" =>
           q # r /\ Written(q) /\ job'[q] = job[q]
    BY <1>1, <1>5, <1>k
  <2>2. QED
    BY <2>1 DEF IInv, MoveInv, Moving
<1>o. \A q \in Requests \ {r} : Outcome(q)' = Outcome(q)
  BY <1>t, <1>1 DEF Outcome
<1>8. Apart'
  <2> SUFFICES ASSUME NEW q \in Requests, NEW s \in Requests, q # s,
                      Written(q)', Checked(s)', job'[q].id # job'[s].id
               PROVE  ~Matches(Outcome(q), s)'
    BY DEF Apart
  <2>1. CASE q = r
    <3>1. Outcome(q)' = row
      BY <1>k, <2>1 DEF Outcome
    <3>2. ~Matches(row, s)
      BY <1>p, <1>1, <1>5, <1>k, <2>1 DEF WriteBlocked
    <3>3. QED
      BY <1>1, <2>1, <3>1, <3>2 DEF Matches
  <2>2. CASE s = r
    <3>1. Written(q)
      BY <1>5, <2>2
    <3>2. job[q].id # None
      <4>1. pc[q] \in {"release", "commit"}
        BY <3>1 DEF Written
      <4>2. job[q].id \in Ids
        BY <4>1, OutcomeIsRow DEF IInv
      <4>3. QED
        BY <4>2, RulesAssumption
    <3>3. ~Matches(Outcome(q), r)
      BY <1>4, <1>k, <2>2, <3>1, <3>2 DEF IInv, Apart
    <3>4. QED
      BY <1>k, <1>o, <2>2, <3>3 DEF Matches
  <2>3. CASE q # r /\ s # r
    <3>1. ~Matches(Outcome(q), s)
      BY <1>1, <1>5, <2>3 DEF IInv, Apart
    <3>2. QED
      BY <1>1, <1>o, <2>3, <3>1 DEF Matches
  <2>4. QED
    BY <2>1, <2>2, <2>3
<1>9. CheckedSlotStaysFree'
  <2> SUFFICES ASSUME NEW s \in Requests, Checked(s)', NEW b \in Booked,
                      b # job'[s].id
               PROVE  ~Conflicts(appt[b], job'[s].prof, job'[s].slot)
    BY <1>t, <1>b DEF CheckedSlotStaysFree, ConflictFound, Matches
  <2>1. CASE s = r
    <3>1. b # job[r].id
      BY <1>k, RulesAssumption DEF Booked
    <3>2. QED
      BY <1>4, <1>k, <2>1, <3>1 DEF IInv, CheckedSlotStaysFree, ConflictFound, Matches
  <2>2. CASE s # r
    BY <1>1, <1>5, <2>2 DEF IInv, CheckedSlotStaysFree, ConflictFound, Matches
  <2>3. QED
    BY <2>1, <2>2
<1>10. SeenInv' /\ CountInv'
  BY <1>t, <1>b DEF IInv, SeenInv, CountInv
<1>11. QED
  BY <1>3, <1>6, <1>7, <1>8, <1>9, <1>10 DEF IInv

\* The update of a reschedule: nobody else moves that row, and no predicate
\* lock covers where it goes.
LEMMA MoveStep ==
  ASSUME IInv, TypeOK', NEW r \in Requests, MoveRow(r)
  PROVE  IInv'
<1>t. TypeOK /\ JobOK(r) /\ pc[r] = "move" /\ UNCHANGED <<appt, seen, job>>
  BY DEF IInv, JobInv, MoveRow
<1>1. /\ pc'[r] = "release"
      /\ \A q \in Requests \ {r} : pc'[q] = pc[q]
  BY <1>t, GotoEffect DEF MoveRow
<1>k. job[r].kind = "reschedule"
  BY <1>t DEF JobOK
<1>b. Booked' = Booked /\ Cardinality(Booked)' = Cardinality(Booked)
  BY <1>t DEF Booked
<1>2. JobOK(r)'
  BY <1>t, <1>1, <1>k, <1>b DEF JobOK, Booking
<1>3. JobInv'
  BY <1>t, <1>1, <1>2, <1>b, JobStep DEF IInv
<1>4. Written(r)' /\ Checked(r)' /\ ~Written(r) /\ Checked(r)
  BY <1>t, <1>1 DEF Written, Checked
<1>5. \A q \in Requests \ {r} : /\ Written(q)' = Written(q)
                                 /\ Checked(q)' = Checked(q)
  BY <1>1 DEF Written, Checked
<1>6. InsertInv'
  BY <1>t, <1>b, <1>k, <1>5 DEF IInv, InsertInv, Inserting
<1>7. MoveInv'
  <2>1. \A q \in Requests \ {r} : Moving(q) => job[q].id # job[r].id
    BY DEF MoveRow, WriteBlocked
  <2>2. QED
    BY <1>t, <1>5, <2>1 DEF IInv, MoveInv, Moving
<1>8. Apart'
  <2> SUFFICES ASSUME NEW q \in Requests, NEW s \in Requests, q # s,
                      Written(q)', Checked(s)', job[q].id # job[s].id
               PROVE  ~Matches(Outcome(q), s)
    BY <1>t DEF Apart, Matches, Outcome
  <2>1. CASE q = r
    BY <1>5, <2>1 DEF MoveRow, WriteBlocked
  <2>2. CASE q # r
    BY <1>4, <1>5, <2>2 DEF IInv, Apart
  <2>3. QED
    BY <2>1, <2>2
<1>9. CheckedSlotStaysFree'
  <2> SUFFICES ASSUME NEW s \in Requests, Checked(s)'
               PROVE  ~ConflictFound(s)
    BY <1>t, <1>b DEF CheckedSlotStaysFree, ConflictFound, Matches
  <2>1. Checked(s)
    BY <1>4, <1>5
  <2>2. QED
    BY <2>1 DEF IInv, CheckedSlotStaysFree
<1>10. SeenInv' /\ CountInv'
  BY <1>t, <1>b DEF IInv, SeenInv, CountInv
<1>11. QED
  BY <1>3, <1>6, <1>7, <1>8, <1>9, <1>10 DEF IInv

-----------------------------------------------------------------------------
\* The commit of a booking or of a move makes visible a row that is Apart
\* from every slot checked meanwhile.
LEMMA CommitStep ==
  ASSUME IInv, TypeOK', NEW r \in Requests, Commit(r)
  PROVE  IInv'
<1> DEFINE id == job[r].id
           row == Outcome(r)
<1>t. TypeOK /\ JobInv /\ JobOK(r) /\ InsertInv /\ pc[r] = "commit"
  BY DEF IInv, JobInv, Commit
<1>k. Written(r) /\ Checked(r) /\ job[r].kind \in {"create", "reschedule"}
  BY <1>t DEF Written, Checked, JobOK, Booking
<1>o. /\ id \in Ids /\ row \in Row
      /\ job[r].kind = "create" => row = NewRow(job[r].prof, job[r].slot, job[r].protocol)
      /\ job[r].kind = "reschedule" =>
           row = [appt[id] EXCEPT !.prof = job[r].prof, !.slot = job[r].slot]
  BY <1>t, OutcomeIsRow
<1>c. job[r].kind = "create" =>
        /\ id \notin Booked
        /\ job[r].protocol = Cardinality(Booked) + 1
        /\ \A q \in Requests \ {r} : ~Inserting(q)
  BY <1>t, <1>k DEF InsertInv, Inserting
<1>m. job[r].kind = "reschedule" => id \in Booked /\ appt[id] \in Row
  BY <1>t DEF JobOK, Booking, Booked, TypeOK
<1>1. /\ appt'[id] = row
      /\ \A b \in Ids \ {id} : appt'[b] = appt[b] /\ seen'[b] = seen[b]
      /\ job[r].kind = "create" => seen'[id] = {"PENDING"}
      /\ job[r].kind = "reschedule" => seen'[id] = seen[id]
  BY <1>t, <1>o DEF Commit, TypeOK
<1>2. /\ pc'[r] = "idle"
      /\ \A q \in Requests \ {r} : pc'[q] = pc[q] /\ job'[q] = job[q]
  BY <1>t, FinishEffect DEF Commit
<1>b. Booked' = Booked \cup {id}
  BY <1>1, <1>o, RowIsNotNone DEF Booked
<1>3. JobInv'
  <2>1. JobOK(r)'
    BY <1>2 DEF JobOK, Booking
  <2>2. \A b \in Booked : seen[b] \subseteq seen'[b]
    BY <1>1, <1>c, <1>k DEF Booked
  <2>3. QED
    BY <1>t, <1>2, <1>b, <2>1, <2>2, JobStep
<1>5. SeenInv'
  <2>1. appt'[id].status \in seen'[id]
    <3>1. CASE job[r].kind = "create"
      BY <1>1, <1>o, <3>1 DEF NewRow
    <3>2. CASE job[r].kind = "reschedule"
      <4>1. appt'[id].status = appt[id].status
        BY <1>1, <1>o, <1>m, <3>2 DEF Row
      <4>2. QED
        BY <1>1, <1>m, <3>2, <4>1 DEF IInv, SeenInv
    <3>3. QED
      BY <1>k, <3>1, <3>2
  <2>2. QED
    BY <1>1, <1>b, <2>1 DEF IInv, SeenInv, Booked
<1>6. InsertInv'
  <2> SUFFICES ASSUME NEW q \in Requests, Written(q)', job'[q].kind = "create"
               PROVE  /\ job'[q].id \in Ids \ Booked'
                      /\ job'[q].protocol = Cardinality(Booked') + 1
                      /\ \A s \in Requests : Written(s)' /\ job'[s].kind = "create" => s = q
    BY DEF InsertInv, Inserting
  <2>1. Inserting(q) /\ q # r /\ job'[q] = job[q]
    BY <1>2 DEF Inserting, Written
  <2>2. job[r].kind = "reschedule"
    BY <1>c, <1>k, <2>1
  <2>3. Booked' = Booked /\ Cardinality(Booked') = Cardinality(Booked)
    BY <1>b, <1>m, <2>2
  <2>4. \A s \in Requests : Written(s)' /\ job'[s].kind = "create" => Inserting(s)
    BY <1>2 DEF Inserting, Written
  <2>5. QED
    BY <1>t, <2>1, <2>3, <2>4 DEF InsertInv
<1>7. MoveInv'
  BY <1>2 DEF IInv, MoveInv, Moving, Written
<1>s. ASSUME NEW q \in Requests, Written(q)'
      PROVE  Outcome(q)' = Outcome(q)
  <2>1. CASE job[q].kind = "create"
    BY <1>2, <1>s, <2>1 DEF Outcome, Written
  <2>2. CASE job[q].kind = "reschedule"
    <3>1. Written(q) /\ q # r /\ job'[q] = job[q]
      BY <1>2, <1>s DEF Written
    <3>2. job[q].id \in Booked
      BY <1>t, <2>2, <3>1 DEF JobInv, JobOK, Booking, Written
    <3>3. job[q].id # id
      BY <1>c, <1>k, <2>2, <3>1, <3>2 DEF IInv, MoveInv, Moving
    <3>4. appt'[job[q].id] = appt[job[q].id]
      BY <1>1, <3>2, <3>3 DEF Booked
    <3>5. QED
      BY <3>1, <3>4 DEF Outcome
  <2>3. QED
    BY <1>2, <1>s, <1>t, <2>1, <2>2 DEF JobInv, JobOK, Booking, Written
<1>8. Apart'
  <2> SUFFICES ASSUME NEW q \in Requests, NEW s \in Requests, q # s,
                      Written(q)', Checked(s)', job'[q].id # job'[s].id
               PROVE  ~Matches(Outcome(q), s)'
    BY DEF Apart
  <2>1. /\ Written(q) /\ Checked(s)
        /\ job'[q] = job[q] /\ job'[s] = job[s]
    BY <1>2 DEF Written, Checked
  <2>2. ~Matches(Outcome(q), s)
    BY <2>1 DEF IInv, Apart
  <2>3. QED
    BY <1>s, <2>1, <2>2 DEF Matches
<1>9. CheckedSlotStaysFree'
  <2> SUFFICES ASSUME NEW s \in Requests, Checked(s)', NEW b \in Booked',
                      b # job'[s].id
               PROVE  ~Conflicts(appt'[b], job'[s].prof, job'[s].slot)
    BY DEF CheckedSlotStaysFree, ConflictFound, Matches
  <2>0. Checked(s) /\ s # r /\ job'[s] = job[s]
    BY <1>2 DEF Checked
  <2>1. CASE b = id
    BY <1>1, <1>k, <2>0, <2>1 DEF IInv, Apart, Matches
  <2>2. CASE b # id
    <3>1. b \in Booked /\ appt'[b] = appt[b]
      BY <1>1, <1>b, <2>2 DEF Booked
    <3>2. QED
      BY <2>0, <3>1 DEF IInv, CheckedSlotStaysFree, ConflictFound, Matches
  <2>3. QED
    BY <2>1, <2>2
<1>10. CountInv'
  <2>1. CASE job[r].kind = "create"
    <3>1. Cardinality(Booked') = Cardinality(Booked) + 1
      BY <1>b, <1>c, <1>o, <2>1, NextProtocol
    <3>2. \A b \in Booked : appt[b].protocol \in Nat
      BY <1>t DEF TypeOK, Booked, Row, Protocols
    <3>3. \A b \in Booked : appt[b].protocol <= Cardinality(Booked) + 1
      BY <3>2, BookedFinite DEF IInv, CountInv
    <3>4. appt'[id].protocol = Cardinality(Booked) + 1
      BY <1>1, <1>c, <1>o, <2>1 DEF NewRow
    <3>5. \A b \in Booked' : b = id \/ (b \in Booked /\ appt'[b] = appt[b])
      BY <1>1, <1>b DEF Booked
    <3>6. QED
      BY <3>1, <3>3, <3>4, <3>5, BookedFinite DEF CountInv
  <2>2. CASE job[r].kind = "reschedule"
    <3>1. Booked' = Booked
      BY <1>b, <1>m, <2>2
    <3>2. appt'[id].protocol = appt[id].protocol
      BY <1>1, <1>o, <1>m, <2>2 DEF Row
    <3>3. \A b \in Booked : appt'[b].protocol = appt[b].protocol
      BY <1>1, <3>2 DEF Booked
    <3>4. QED
      BY <3>1, <3>3 DEF IInv, CountInv
  <2>3. QED
    BY <1>k, <2>1, <2>2
<1>11. QED
  BY <1>3, <1>5, <1>6, <1>7, <1>8, <1>9, <1>10 DEF IInv

-----------------------------------------------------------------------------
\* An UPDATE by id outside any transaction: no lock covers what it writes.
LEMMA UpdateStep ==
  ASSUME IInv, TypeOK', NEW r \in Requests, pc[r] = "write", Finish(r),
         NEW id \in Booked, NEW row \in Row,
         ~WriteBlocked(r, id, row),
         row.protocol = appt[id].protocol,
         appt' = [appt EXCEPT ![id] = row],
         row.status \in seen'[id],
         \A b \in Booked : seen[b] \subseteq seen'[b]
  PROVE  IInv'
<1>t. TypeOK /\ JobInv /\ id \in Ids
  BY DEF IInv, Booked
<1>1. /\ appt'[id] = row
      /\ \A b \in Ids \ {id} : appt'[b] = appt[b]
  BY <1>t DEF TypeOK
<1>2. /\ pc'[r] = "idle"
      /\ \A q \in Requests \ {r} : pc'[q] = pc[q] /\ job'[q] = job[q]
  BY <1>t, FinishEffect
<1>b. Booked' = Booked /\ Cardinality(Booked') = Cardinality(Booked)
  BY <1>1, RowIsNotNone DEF Booked
<1>3. JobInv'
  <2>1. JobOK(r)'
    BY <1>2 DEF JobOK, Booking
  <2>2. QED
    BY <1>t, <1>2, <1>b, <2>1, JobStep
<1>4. SeenInv'
  BY <1>1, <1>b DEF IInv, SeenInv, Booked
<1>5. InsertInv'
  <2>1. \A q \in Requests : Written(q)' /\ job'[q].kind = "create" =>
          Inserting(q) /\ job'[q] = job[q]
    BY <1>2 DEF Written, Inserting
  <2>2. QED
    BY <1>b, <2>1 DEF IInv, InsertInv, Inserting
<1>6. MoveInv'
  BY <1>2 DEF IInv, MoveInv, Moving, Written
<1>s. ASSUME NEW q \in Requests, Written(q)'
      PROVE  Outcome(q)' = Outcome(q)
  <2>1. Written(q) /\ q # r /\ job'[q] = job[q]
    BY <1>2, <1>s DEF Written
  <2>2. CASE job[q].kind = "create"
    BY <2>1, <2>2 DEF Outcome
  <2>3. CASE job[q].kind = "reschedule"
    <3>1. job[q].id # id /\ job[q].id \in Ids
      BY <1>t, <2>1, <2>3 DEF WriteBlocked, Moving, JobInv, JobOK, Booking, Booked, Written
    <3>2. appt'[job[q].id] = appt[job[q].id]
      BY <1>1, <3>1
    <3>3. /\ Outcome(q)' = [appt'[job[q].id] EXCEPT !.prof = job[q].prof, !.slot = job[q].slot]
          /\ Outcome(q) = [appt[job[q].id] EXCEPT !.prof = job[q].prof, !.slot = job[q].slot]
      BY <2>1, <2>3 DEF Outcome
    <3>4. QED
      BY <3>2, <3>3
  <2>4. QED
    BY <1>t, <2>1, <2>2, <2>3 DEF JobInv, JobOK, Booking, Written
<1>7. Apart'
  <2> SUFFICES ASSUME NEW q \in Requests, NEW s \in Requests, q # s,
                      Written(q)', Checked(s)', job'[q].id # job'[s].id
               PROVE  ~Matches(Outcome(q), s)'
    BY DEF Apart
  <2>1. /\ Written(q) /\ Checked(s)
        /\ job'[q] = job[q] /\ job'[s] = job[s]
    BY <1>2 DEF Written, Checked
  <2>2. ~Matches(Outcome(q), s)
    BY <2>1 DEF IInv, Apart
  <2>3. QED
    BY <1>s, <2>1, <2>2 DEF Matches
<1>8. CheckedSlotStaysFree'
  <2> SUFFICES ASSUME NEW s \in Requests, Checked(s)', NEW b \in Booked',
                      b # job'[s].id
               PROVE  ~Conflicts(appt'[b], job'[s].prof, job'[s].slot)
    BY DEF CheckedSlotStaysFree, ConflictFound, Matches
  <2>1. Checked(s) /\ s # r /\ job'[s] = job[s]
    BY <1>2 DEF Checked
  <2>2. CASE b = id
    BY <1>1, <2>1, <2>2 DEF WriteBlocked, Matches
  <2>3. CASE b # id
    <3>1. b \in Booked /\ appt'[b] = appt[b]
      BY <1>1, <1>b, <2>3 DEF Booked
    <3>2. QED
      BY <2>1, <3>1 DEF IInv, CheckedSlotStaysFree, ConflictFound, Matches
  <2>4. QED
    BY <2>2, <2>3
<1>9. CountInv'
  BY <1>1, <1>b DEF IInv, CountInv, Booked
<1>10. QED
  BY <1>3, <1>4, <1>5, <1>6, <1>7, <1>8, <1>9 DEF IInv

\* What a status change leaves in the row, and where its decision came from
LEMMA StatusEffect ==
  ASSUME IInv, NEW r \in Requests, WriteStatus(r)
  PROVE  LET id == job[r].id
             row == [appt[id] EXCEPT !.status = job[r].to]
         IN  /\ id \in Booked /\ row \in Row /\ job[r].to \in Status
             /\ row.status = job[r].to /\ row.protocol = appt[id].protocol
             /\ \E old \in seen[id] : job[r].to \in Transitions(old)
             /\ seen'[id] = seen[id] \cup {job[r].to}
             /\ \A b \in Ids \ {id} : seen'[b] = seen[b]
<1> DEFINE id == job[r].id
           row == [appt[id] EXCEPT !.status = job[r].to]
<1>1. /\ id \in Booked
      /\ \E old \in seen[id] : job[r].to \in Transitions(old)
  BY DEF IInv, JobInv, JobOK, WriteStatus
<1>2. appt[id] \in Row /\ job[r].to \in Status /\ id \in Ids
  BY <1>1 DEF IInv, TypeOK, Booked, Job
<1>3. row \in Row /\ row.status = job[r].to /\ row.protocol = appt[id].protocol
  BY <1>2 DEF Row
<1>4. /\ seen'[id] = seen[id] \cup {job[r].to}
      /\ \A b \in Ids \ {id} : seen'[b] = seen[b]
  BY <1>2 DEF WriteStatus, IInv, TypeOK
<1>5. QED
  BY <1>1, <1>2, <1>3, <1>4

LEMMA CheckInEffect ==
  ASSUME IInv, NEW r \in Requests, WriteCheckIn(r)
  PROVE  LET id == job[r].id
             row == [appt[id] EXCEPT !.checkedIn = TRUE]
         IN  /\ id \in Booked /\ row \in Row
             /\ row.status = appt[id].status /\ row.protocol = appt[id].protocol
<1> DEFINE id == job[r].id
           row == [appt[id] EXCEPT !.checkedIn = TRUE]
<1>1. id \in Booked /\ appt[id] \in Row
  BY DEF IInv, JobInv, JobOK, WriteCheckIn, TypeOK, Booked
<1>2. QED
  BY <1>1 DEF Row

LEMMA InvStep == IInv /\ [Next]_vars => IInv'
<1> SUFFICES ASSUME IInv, [Next]_vars
             PROVE  IInv'
  OBVIOUS
<1>t. TypeOK'
  BY TypeStep
<1>1. ASSUME NEW r \in Requests, Arrive(r)
      PROVE  IInv'
  BY <1>t, <1>1, ArriveStep
<1>2. ASSUME NEW r \in Requests, Advance(r)
      PROVE  IInv'
  <2>1. CASE \/ PreCheck(r) \/ TakeAgendaLock(r) \/ AgendaLockTimeout(r)
             \/ RejectConflict(r) \/ TakeCounterLock(r) \/ CounterLockTimeout(r)
             \/ ReleaseBeforeCommit(r)
    BY <1>t, <2>1, LockStep
  <2>2. CASE CheckAgenda(r)
    BY <1>t, <2>2, CheckStep
  <2>3. CASE InsertRow(r)
    BY <1>t, <2>3, InsertStep
  <2>4. CASE MoveRow(r)
    BY <1>t, <2>4, MoveStep
  <2>5. CASE Commit(r)
    BY <1>t, <2>5, CommitStep
  <2>6. CASE WriteStatus(r)
    <3> DEFINE id == job[r].id
               row == [appt[id] EXCEPT !.status = job[r].to]
    <3>1. /\ id \in Booked /\ row \in Row
          /\ row.protocol = appt[id].protocol
          /\ row.status \in seen'[id]
          /\ \A b \in Booked : seen[b] \subseteq seen'[b]
      BY <2>6, StatusEffect DEF Booked
    <3>2. /\ pc[r] = "write" /\ Finish(r) /\ ~WriteBlocked(r, id, row)
          /\ appt' = [appt EXCEPT ![id] = row]
      BY <2>6 DEF WriteStatus
    <3> HIDE DEF id, row
    <3>3. QED
      BY <1>t, <3>1, <3>2, UpdateStep
  <2>7. CASE WriteCheckIn(r)
    <3> DEFINE id == job[r].id
               row == [appt[id] EXCEPT !.checkedIn = TRUE]
    <3>1. /\ id \in Booked /\ row \in Row
          /\ row.status = appt[id].status /\ row.protocol = appt[id].protocol
      BY <2>7, CheckInEffect
    <3>2. /\ pc[r] = "write" /\ Finish(r) /\ ~WriteBlocked(r, id, row)
          /\ appt' = [appt EXCEPT ![id] = row] /\ seen' = seen
      BY <2>7 DEF WriteCheckIn
    <3>3. row.status \in seen'[id] /\ \A b \in Booked : seen[b] \subseteq seen'[b]
      BY <3>1, <3>2 DEF IInv, SeenInv
    <3> HIDE DEF id, row
    <3>4. QED
      BY <1>t, <3>1, <3>2, <3>3, UpdateStep
  <2>8. QED
    BY <1>2, <2>1, <2>2, <2>3, <2>4, <2>5, <2>6, <2>7 DEF Advance
<1>3. ASSUME NEW r \in Requests, Interrupt(r)
      PROVE  IInv'
  BY <1>t, <1>3, LockStep
<1>4. CASE UNCHANGED vars
  <2>1. Booked' = Booked /\ Cardinality(Booked') = Cardinality(Booked)
    BY <1>4 DEF vars, Booked
  <2>2. QED
    BY <1>t, <1>4, <2>1
       DEF vars, IInv, JobInv, JobOK, SeenInv, InsertInv, MoveInv, Apart,
           CheckedSlotStaysFree, CountInv, Inserting, Moving, Written, Checked,
           ConflictFound, Matches, Outcome
<1>5. QED
  BY <1>1, <1>2, <1>3, <1>4 DEF Next

THEOREM AppointmentsInvariant == Spec => []IInv
BY InitInv, InvStep, PTL DEF Spec

(***************************************************************************)
(* The handlers keep the tables and their own bookkeeping well formed: in  *)
(* particular every protocol is one of 1 .. the number of rows.            *)
(***************************************************************************)
THEOREM AppointmentsTypeOK == Spec => []TypeOK
<1>1. IInv => TypeOK
  BY DEF IInv
<1>2. QED
  BY <1>1, AppointmentsInvariant, PTL

(***************************************************************************)
(* createIfAvailable and updateIfAvailable: what the conflict query found  *)
(* is still true when the transaction commits, with the named lock given   *)
(* back before and whatever the other handlers write meanwhile.            *)
(***************************************************************************)
THEOREM CheckedSlot == Spec => []CheckedSlotStaysFree
<1>1. IInv => CheckedSlotStaysFree
  BY DEF IInv
<1>2. QED
  BY <1>1, AppointmentsInvariant, PTL

-----------------------------------------------------------------------------
\* Calendar and the handlers go by the same rules.
LEMMA SameRules ==
  /\ Calendar!Status = Status
  /\ Calendar!Protocols = Protocols
  /\ Calendar!Booked = Booked
  /\ \A x : Calendar!Transitions(x) = Transitions(x)
  /\ \A p, s, n : Calendar!NewRow(p, s, n) = NewRow(p, s, n)
  /\ \A row, p, s : Calendar!Conflicts(row, p, s) = Conflicts(row, p, s)
<1>1. Calendar!Status = Status /\ Calendar!Protocols = Protocols /\ Calendar!Booked = Booked
  BY DEF Calendar!Status, Status, Calendar!Protocols, Protocols, Calendar!Booked, Booked,
         Calendar!Cardinality, Cardinality
<1>2. \A x : Calendar!Transitions(x) = Transitions(x)
  BY DEF Calendar!Transitions, Transitions
<1>3. \A p, s, n : Calendar!NewRow(p, s, n) = NewRow(p, s, n)
  BY DEF Calendar!NewRow, NewRow
<1>4. \A row, p, s : Calendar!Conflicts(row, p, s) = Conflicts(row, p, s)
  BY DEF Calendar!Conflicts, Conflicts, Calendar!Overlaps, Overlaps, Calendar!Active, Active
<1>5. QED
  BY <1>1, <1>2, <1>3, <1>4

LEMMA InitRefines == Init => Calendar!Init
BY DEF Init, Calendar!Init

\* The commit of a booking or of a move is where it happens.
LEMMA CommitRefines ==
  ASSUME IInv, NEW r \in Requests, Commit(r)
  PROVE  Calendar!Next
<1> DEFINE id == job[r].id
           p == job[r].prof
           s == job[r].slot
           n == job[r].protocol
<1>t. TypeOK /\ JobInv /\ InsertInv /\ JobOK(r) /\ pc[r] = "commit"
  BY DEF IInv, JobInv, Commit
<1>k. Checked(r) /\ Written(r) /\ job[r].kind \in {"create", "reschedule"}
  BY <1>t DEF Checked, Written, JobOK, Booking
<1>o. /\ id \in Ids /\ p \in Professionals /\ s \in Slots
      /\ job[r].kind = "create" => Outcome(r) = NewRow(p, s, n)
      /\ job[r].kind = "reschedule" => Outcome(r) = [appt[id] EXCEPT !.prof = p, !.slot = s]
  BY <1>t, OutcomeIsRow DEF JobOK, Booking
<1>f. \A b \in Booked \ {id} : ~Conflicts(appt[b], p, s)
  BY <1>k DEF IInv, CheckedSlotStaysFree, ConflictFound, Matches
<1>1. CASE job[r].kind = "create"
  <2>1. id \notin Booked /\ n = Cardinality(Booked) + 1
    BY <1>1, <1>k, <1>t DEF InsertInv, Inserting
  <2>2. n \in Protocols
    BY <1>o, <2>1, NextProtocol
  <2>3. \A b \in Booked : appt[b].protocol # n
    <3>1. \A b \in Booked : appt[b].protocol \in Nat
      BY <1>t DEF TypeOK, Booked, Row, Protocols
    <3>2. QED
      BY <2>1, <3>1, BookedFinite DEF IInv, CountInv
  <2>4. Calendar!Free(p, s, None)
    BY <1>f, <2>1, SameRules DEF Calendar!Free
  <2>5. /\ appt' = [appt EXCEPT ![id] = NewRow(p, s, n)]
        /\ seen' = [seen EXCEPT ![id] = {"PENDING"}]
    BY <1>1, <1>o DEF Commit
  <2>6. Calendar!Book(id, p, s, n)
    BY <2>1, <2>3, <2>4, <2>5, SameRules DEF Calendar!Book
  <2>7. QED
    BY <1>o, <2>2, <2>6, SameRules DEF Calendar!Next
<1>2. CASE job[r].kind = "reschedule"
  <2>1. id \in Booked
    BY <1>2, <1>t DEF JobOK, Booking
  <2>2. Calendar!Free(p, s, id)
    BY <1>f, SameRules DEF Calendar!Free
  <2>3. /\ appt' = [appt EXCEPT ![id] = [appt[id] EXCEPT !.prof = p, !.slot = s]]
        /\ seen' = seen
    BY <1>2, <1>o DEF Commit
  <2>4. appt' = [appt EXCEPT ![id].prof = p, ![id].slot = s]
    BY <1>o, <2>1, <2>3, <1>t DEF TypeOK
  <2>5. Calendar!Move(id, p, s)
    BY <2>1, <2>2, <2>3, <2>4, SameRules DEF Calendar!Move
  <2>6. QED
    BY <1>o, <2>5 DEF Calendar!Next
<1>3. QED
  BY <1>1, <1>2, <1>k

LEMMA StepRefines == IInv /\ [Next]_vars => [Calendar!Next]_Calendar!calendarVars
<1> SUFFICES ASSUME IInv, [Next]_vars
             PROVE  Calendar!Next \/ UNCHANGED <<appt, seen>>
  BY DEF Calendar!calendarVars
<1>1. ASSUME NEW r \in Requests, Arrive(r) \/ Interrupt(r)
      PROVE  UNCHANGED <<appt, seen>>
  BY <1>1 DEF Arrive, Interrupt, Fail, TransactionTimeout, Disconnect,
              StartCreate, StartReschedule, StartStatus, StartCheckIn
<1>2. ASSUME NEW r \in Requests, Advance(r)
      PROVE  Calendar!Next \/ UNCHANGED <<appt, seen>>
  <2>1. CASE \/ PreCheck(r) \/ TakeAgendaLock(r) \/ AgendaLockTimeout(r)
             \/ CheckAgenda(r) \/ RejectConflict(r)
             \/ TakeCounterLock(r) \/ CounterLockTimeout(r)
             \/ InsertRow(r) \/ MoveRow(r) \/ ReleaseBeforeCommit(r)
    BY <2>1 DEF PreCheck, TakeAgendaLock, AgendaLockTimeout, CheckAgenda,
                RejectConflict, TakeCounterLock, CounterLockTimeout, InsertRow,
                MoveRow, ReleaseBeforeCommit
  <2>2. CASE Commit(r)
    BY <2>2, CommitRefines
  <2>3. CASE WriteStatus(r)
    <3> DEFINE id == job[r].id
               s == job[r].to
    <3>1. /\ id \in Booked /\ s \in Status
          /\ \E old \in seen[id] : s \in Transitions(old)
      BY <2>3, StatusEffect
    <3>2. /\ appt' = [appt EXCEPT ![id].status = s]
          /\ seen' = [seen EXCEPT ![id] = @ \cup {s}]
      BY <2>3 DEF WriteStatus
    <3>3. Calendar!SetStatus(id, s)
      BY <3>1, <3>2, SameRules DEF Calendar!SetStatus
    <3>4. QED
      BY <3>1, <3>3, SameRules DEF Calendar!Next, Booked
  <2>4. CASE WriteCheckIn(r)
    <3> DEFINE id == job[r].id
    <3>1. id \in Booked
      BY <2>4, CheckInEffect
    <3>2. appt' = [appt EXCEPT ![id].checkedIn = TRUE] /\ seen' = seen
      BY <2>4 DEF WriteCheckIn
    <3>3. Calendar!MarkPresent(id)
      BY <3>1, <3>2 DEF Calendar!MarkPresent, Calendar!Booked, Booked
    <3>4. QED
      BY <3>1, <3>3 DEF Calendar!Next, Booked
  <2>5. QED
    BY <1>2, <2>1, <2>2, <2>3, <2>4 DEF Advance
<1>3. CASE UNCHANGED vars
  BY <1>3 DEF vars
<1>4. QED
  BY <1>1, <1>2, <1>3 DEF Next

(***************************************************************************)
(* The handlers implement Calendar: every booking and every reschedule is  *)
(* one atomic step that takes a slot free at that moment.                  *)
(***************************************************************************)
THEOREM Refinement == Spec => ImplementsCalendar
<1>1. Spec => Calendar!Spec
  BY InitRefines, StepRefines, AppointmentsInvariant, PTL DEF Spec, Calendar!Spec
<1>2. QED
  BY <1>1 DEF ImplementsCalendar

-----------------------------------------------------------------------------
(***************************************************************************)
(* What Calendar promises holds of every step that is one of its steps.    *)
(***************************************************************************)

\* The conflict test does not depend on which of two active rows asks it.
LEMMA ConflictSymmetric ==
  ASSUME NEW a \in Row, NEW b \in Row, a.status \in Active, b.status \in Active,
         Conflicts(a, b.prof, b.slot)
  PROVE  Conflicts(b, a.prof, a.slot)
BY RulesAssumption DEF Conflicts, Overlaps, Row

\* Two active appointments that overlap, of which none ended yet
Doubled(a, b) ==
  /\ a # b
  /\ appt[b].status \in Active
  /\ Conflicts(appt[a], appt[b].prof, appt[b].slot)
  /\ (seen[a] \cup seen[b]) \cap Ended = {}

NoneDoubled == \A a, b \in Booked : ~Doubled(a, b)

LEMMA SameOverlap == NoneDoubled => OverlapOnlyByRevival
BY SameRules
   DEF NoneDoubled, Doubled, OverlapOnlyByRevival, Calendar!OverlapOnlyByRevival,
       Calendar!Active, Active, Calendar!Ended, Ended, Calendar!Status, Status

\* The steps of Calendar in the rules of the handlers: a booking or a move that takes a
\* free slot, a status that follows one the row had, a check-in, or nothing.
BookIn(id, p, s, n) ==
  /\ id \notin Booked
  /\ \A b \in Booked : ~Conflicts(appt[b], p, s) /\ appt[b].protocol # n
  /\ appt' = [appt EXCEPT ![id] = NewRow(p, s, n)]
  /\ seen' = [seen EXCEPT ![id] = {"PENDING"}]

MoveTo(id, p, s) ==
  /\ id \in Booked
  /\ \A b \in Booked \ {id} : ~Conflicts(appt[b], p, s)
  /\ appt' = [appt EXCEPT ![id] = [appt[id] EXCEPT !.prof = p, !.slot = s]]
  /\ seen' = seen

GoTo(id, s) ==
  /\ id \in Booked
  /\ \E old \in seen[id] : s \in Transitions(old)
  /\ appt' = [appt EXCEPT ![id] = [appt[id] EXCEPT !.status = s]]
  /\ seen' = [seen EXCEPT ![id] = seen[id] \cup {s}]

CheckIn(id) ==
  /\ id \in Booked
  /\ appt' = [appt EXCEPT ![id] = [appt[id] EXCEPT !.checkedIn = TRUE]]
  /\ seen' = seen

LEMMA CalendarSteps ==
  ASSUME TypeOK, [Calendar!Next]_Calendar!calendarVars
  PROVE  \/ \E id \in Ids, p \in Professionals, s \in Slots, n \in Protocols : BookIn(id, p, s, n)
         \/ \E id \in Ids, p \in Professionals, s \in Slots : MoveTo(id, p, s)
         \/ \E id \in Ids, s \in Status : GoTo(id, s)
         \/ \E id \in Ids : CheckIn(id)
         \/ UNCHANGED <<appt, seen>>
<1> USE SameRules
<1>1. ASSUME NEW id \in Ids, NEW p \in Professionals, NEW s \in Slots, NEW n \in Protocols,
             Calendar!Book(id, p, s, n)
      PROVE  BookIn(id, p, s, n)
  <2>1. \A b \in Booked : ~Conflicts(appt[b], p, s)
    BY <1>1, RulesAssumption DEF Calendar!Book, Calendar!Free, Booked
  <2>2. QED
    BY <1>1, <2>1 DEF Calendar!Book, BookIn
<1>2. ASSUME NEW id \in Ids, NEW p \in Professionals, NEW s \in Slots, Calendar!Move(id, p, s)
      PROVE  MoveTo(id, p, s)
  <2>1. appt[id] \in Row /\ appt \in [Ids -> Row \cup {None}]
    BY <1>2 DEF Calendar!Move, Booked, TypeOK
  <2>2. appt' = [appt EXCEPT ![id] = [appt[id] EXCEPT !.prof = p, !.slot = s]]
    BY <1>2, <2>1 DEF Calendar!Move, Row
  <2>3. QED
    BY <1>2, <2>2 DEF Calendar!Move, Calendar!Free, MoveTo
<1>3. ASSUME NEW id \in Ids, NEW s \in Status, Calendar!SetStatus(id, s)
      PROVE  GoTo(id, s)
  BY <1>3 DEF Calendar!SetStatus, GoTo
<1>4. ASSUME NEW id \in Ids, Calendar!MarkPresent(id)
      PROVE  CheckIn(id)
  BY <1>4 DEF Calendar!MarkPresent, CheckIn
<1>5. UNCHANGED Calendar!calendarVars => UNCHANGED <<appt, seen>>
  BY DEF Calendar!calendarVars
<1>6. CASE Calendar!Next
  <2>1. PICK id \in Ids :
          \/ \E p \in Professionals, s \in Slots, n \in Protocols : Calendar!Book(id, p, s, n)
          \/ \E p \in Professionals, s \in Slots : Calendar!Move(id, p, s)
          \/ \E s \in Status : Calendar!SetStatus(id, s)
          \/ Calendar!MarkPresent(id)
    BY <1>6 DEF Calendar!Next
  <2>2. QED
    BY <2>1, <1>1, <1>2, <1>3, <1>4
<1>7. QED
  BY <1>5, <1>6

\* What a step of Calendar leaves of the rows it does not book
LEMMA RowsKept ==
  ASSUME TypeOK, NEW id \in Ids,
         \/ \E p \in Professionals, s \in Slots : MoveTo(id, p, s)
         \/ \E s \in Status : GoTo(id, s)
         \/ CheckIn(id)
  PROVE  /\ Booked' = Booked
         /\ \A b \in Booked : /\ appt'[b].protocol = appt[b].protocol
                              /\ seen[b] \subseteq seen'[b]
         /\ \A b \in Booked \ {id} : appt'[b] = appt[b] /\ seen'[b] = seen[b]
<1>1. appt \in [Ids -> Row \cup {None}] /\ seen \in [Ids -> SUBSET Status]
  BY DEF TypeOK
<1>2. appt[id] \in Row /\ id \in Booked
  BY <1>1 DEF MoveTo, GoTo, CheckIn, Booked
<1>3. PICK row \in Row : /\ appt' = [appt EXCEPT ![id] = row]
                         /\ row.protocol = appt[id].protocol
  <2>1. CASE \E p \in Professionals, s \in Slots : MoveTo(id, p, s)
    <3>1. PICK p \in Professionals, s \in Slots : MoveTo(id, p, s)
      BY <2>1
    <3>2. [appt[id] EXCEPT !.prof = p, !.slot = s] \in Row
      BY <1>2 DEF Row
    <3>3. [appt[id] EXCEPT !.prof = p, !.slot = s].protocol = appt[id].protocol
      BY <1>2 DEF Row
    <3>4. QED
      BY <3>1, <3>2, <3>3 DEF MoveTo
  <2>2. CASE \E s \in Status : GoTo(id, s)
    <3>1. PICK s \in Status : GoTo(id, s)
      BY <2>2
    <3>2. [appt[id] EXCEPT !.status = s] \in Row
      BY <1>2 DEF Row
    <3>3. [appt[id] EXCEPT !.status = s].protocol = appt[id].protocol
      BY <1>2 DEF Row
    <3>4. QED
      BY <3>1, <3>2, <3>3 DEF GoTo
  <2>3. CASE CheckIn(id)
    <3>2. [appt[id] EXCEPT !.checkedIn = TRUE] \in Row
      BY <1>2 DEF Row
    <3>3. [appt[id] EXCEPT !.checkedIn = TRUE].protocol = appt[id].protocol
      BY <1>2 DEF Row
    <3>4. QED
      BY <2>3, <3>2, <3>3 DEF CheckIn
  <2>4. QED
    BY <2>1, <2>2, <2>3
<1>4. Booked' = Booked
  BY <1>1, <1>2, <1>3, RowIsNotNone DEF Booked
<1>5. \A b \in Ids : seen[b] \subseteq seen'[b] /\ (b # id => seen'[b] = seen[b])
  BY <1>1 DEF MoveTo, GoTo, CheckIn
<1>6. QED
  BY <1>1, <1>2, <1>3, <1>4, <1>5 DEF Booked

\* Only a status write to a row that had ended makes two active rows overlap.
LEMMA RevivalStep ==
  ASSUME TypeOK, TypeOK', SeenInv, NoneDoubled, [Calendar!Next]_Calendar!calendarVars
  PROVE  NoneDoubled'
<1>t. /\ appt \in [Ids -> Row \cup {None}] /\ seen \in [Ids -> SUBSET Status]
      /\ appt' \in [Ids -> Row \cup {None}] /\ seen' \in [Ids -> SUBSET Status]
  BY DEF TypeOK
<1>b. /\ \A b \in Booked : b \in Ids /\ appt[b] \in Row
      /\ \A b \in Booked' : b \in Ids /\ appt'[b] \in Row
  BY <1>t DEF Booked
<1>1. ASSUME NEW id \in Ids, NEW p \in Professionals, NEW s \in Slots, NEW n \in Protocols,
             BookIn(id, p, s, n)
      PROVE  NoneDoubled'
  <2>1. /\ appt'[id] = NewRow(p, s, n)
        /\ id \in Booked' => appt'[id] \in Row
        /\ \A b \in Ids \ {id} : appt'[b] = appt[b] /\ seen'[b] = seen[b]
        /\ \A b \in Booked' : b # id => b \in Booked
    BY <1>1, <1>t DEF BookIn, Booked
  <2>2. appt'[id].prof = p /\ appt'[id].slot = s /\ appt'[id].status \in Active
    BY <2>1 DEF NewRow, Active
  <2>3. ASSUME NEW b \in Booked', b # id
        PROVE  ~Conflicts(appt'[b], p, s)
    BY <1>1, <2>1, <2>3, <1>b DEF BookIn
  <2>4. ASSUME NEW b \in Booked', id \in Booked', b # id, appt'[b].status \in Active
        PROVE  ~Conflicts(appt'[id], appt'[b].prof, appt'[b].slot)
    BY <1>b, <2>1, <2>2, <2>3, <2>4, ConflictSymmetric
  <2>5. ASSUME NEW a \in Booked', NEW b \in Booked', Doubled(a, b)'
        PROVE  FALSE
    <3>1. CASE a # id /\ b # id
      <4>1. Doubled(a, b) /\ a \in Booked /\ b \in Booked
        BY <1>b, <2>1, <2>5, <3>1 DEF Doubled
      <4>2. QED
        BY <4>1 DEF NoneDoubled
    <3>2. CASE a = id
      BY <2>4, <2>5, <3>2 DEF Doubled
    <3>3. CASE b = id
      BY <2>2, <2>3, <2>5, <3>3 DEF Doubled
    <3>4. QED
      BY <3>1, <3>2, <3>3
  <2>6. QED
    BY <2>5 DEF NoneDoubled
<1>2. ASSUME NEW id \in Ids, NEW p \in Professionals, NEW s \in Slots, MoveTo(id, p, s)
      PROVE  NoneDoubled'
  <2>1. /\ id \in Booked /\ Booked' = Booked
        /\ \A b \in Booked \ {id} : appt'[b] = appt[b]
        /\ seen' = seen
    BY <1>2, RowsKept DEF MoveTo
  <2>2. appt'[id] = [appt[id] EXCEPT !.prof = p, !.slot = s]
    BY <1>2, <1>t DEF MoveTo
  <2>3. /\ appt'[id].prof = p /\ appt'[id].slot = s /\ appt'[id].status = appt[id].status
    BY <1>b, <2>1, <2>2 DEF Row
  <2>4. ASSUME NEW b \in Booked \ {id}
        PROVE  ~Conflicts(appt'[b], p, s)
    BY <1>2, <2>1 DEF MoveTo
  <2>5. ASSUME NEW b \in Booked \ {id}, appt'[b].status \in Active, appt'[id].status \in Active
        PROVE  ~Conflicts(appt'[id], appt'[b].prof, appt'[b].slot)
    BY <1>b, <2>1, <2>3, <2>4, <2>5, ConflictSymmetric
  <2>6. ASSUME NEW a \in Booked', NEW b \in Booked', Doubled(a, b)'
        PROVE  FALSE
    <3>1. CASE a # id /\ b # id
      <4>1. Doubled(a, b) /\ a \in Booked /\ b \in Booked
        BY <2>1, <2>6, <3>1 DEF Doubled
      <4>2. QED
        BY <4>1 DEF NoneDoubled
    <3>2. CASE a = id
      <4>1. appt'[id].status \in Active /\ b \in Booked \ {id}
        BY <2>1, <2>6, <3>2 DEF Doubled, Conflicts
      <4>2. QED
        BY <2>5, <2>6, <3>2, <4>1 DEF Doubled
    <3>3. CASE b = id
      <4>1. a \in Booked \ {id}
        BY <2>1, <2>6, <3>3 DEF Doubled
      <4>2. QED
        BY <2>3, <2>4, <2>6, <3>3, <4>1 DEF Doubled
    <3>4. QED
      BY <3>1, <3>2, <3>3
  <2>7. QED
    BY <2>6 DEF NoneDoubled
<1>3. ASSUME NEW id \in Ids, NEW s \in Status, GoTo(id, s)
      PROVE  NoneDoubled'
  <2>1. /\ id \in Booked /\ Booked' = Booked
        /\ \A b \in Booked \ {id} : appt'[b] = appt[b] /\ seen'[b] = seen[b]
        /\ seen[id] \subseteq seen'[id]
    BY <1>3, RowsKept DEF GoTo
  <2>2. appt'[id] = [appt[id] EXCEPT !.status = s]
    BY <1>3, <1>t DEF GoTo
  <2>3. /\ appt'[id].prof = appt[id].prof /\ appt'[id].slot = appt[id].slot
    BY <1>b, <2>1, <2>2 DEF Row
  <2>4. ASSUME NEW a \in Booked', NEW b \in Booked', Doubled(a, b)'
        PROVE  FALSE
    <3>1. appt[a].status \in Active /\ appt[b].status \in Active
      <4>1. seen[a] \cap Ended = {} /\ seen[b] \cap Ended = {}
        BY <2>1, <2>4 DEF Doubled
      <4>2. appt[a].status \in seen[a] /\ appt[b].status \in seen[b]
        BY <2>1 DEF SeenInv
      <4>3. appt[a].status \in Status /\ appt[b].status \in Status
        BY <1>b, <2>1 DEF Row
      <4>4. QED
        BY <4>1, <4>2, <4>3 DEF Ended
    <3>2. Conflicts(appt[a], appt[b].prof, appt[b].slot)
      BY <2>1, <2>3, <2>4, <3>1 DEF Doubled, Conflicts
    <3>3. (seen[a] \cup seen[b]) \cap Ended = {}
      BY <2>1, <2>4 DEF Doubled
    <3>4. QED
      BY <2>1, <2>4, <3>1, <3>2, <3>3 DEF NoneDoubled, Doubled
  <2>5. QED
    BY <2>4 DEF NoneDoubled
<1>4. ASSUME NEW id \in Ids, CheckIn(id)
      PROVE  NoneDoubled'
  <2>1. id \in Booked /\ Booked' = Booked /\ seen' = seen
        /\ \A b \in Booked \ {id} : appt'[b] = appt[b]
    BY <1>4, RowsKept DEF CheckIn
  <2>2. appt'[id] = [appt[id] EXCEPT !.checkedIn = TRUE]
    BY <1>4, <1>t DEF CheckIn
  <2>3. \A b \in Booked : /\ appt'[b].status = appt[b].status
                          /\ appt'[b].prof = appt[b].prof
                          /\ appt'[b].slot = appt[b].slot
    BY <1>b, <2>1, <2>2 DEF Row
  <2>4. QED
    BY <2>1, <2>3 DEF NoneDoubled, Doubled, Conflicts
<1>5. CASE UNCHANGED <<appt, seen>>
  BY <1>5 DEF NoneDoubled, Doubled, Booked
<1>6. QED
  BY <1>1, <1>2, <1>3, <1>4, <1>5, CalendarSteps

\* Every booking has a protocol nobody has.
LEMMA ProtocolStep ==
  ASSUME TypeOK, UniqueProtocol, [Calendar!Next]_Calendar!calendarVars
  PROVE  UniqueProtocol'
<1> USE DEF UniqueProtocol, Calendar!UniqueProtocol, Calendar!Booked
<1>1. ASSUME NEW id \in Ids, NEW p \in Professionals, NEW s \in Slots, NEW n \in Protocols,
             BookIn(id, p, s, n)
      PROVE  UniqueProtocol'
  BY <1>1 DEF BookIn, NewRow, TypeOK, Booked
<1>2. ASSUME NEW id \in Ids,
             \/ \E p \in Professionals, s \in Slots : MoveTo(id, p, s)
             \/ \E s \in Status : GoTo(id, s)
             \/ CheckIn(id)
      PROVE  UniqueProtocol'
  <2>1. Booked' = Booked /\ \A b \in Booked : appt'[b].protocol = appt[b].protocol
    BY <1>2, RowsKept
  <2>2. QED
    BY <2>1 DEF Booked
<1>3. CASE UNCHANGED <<appt, seen>>
  BY <1>3
<1>4. QED
  BY <1>1, <1>2, <1>3, CalendarSteps

\* A status follows one the row had, so COMPLETED and IN_PROGRESS have their predecessors.
LEMMA LifecycleStep ==
  ASSUME TypeOK, LifecycleOrder, [Calendar!Next]_Calendar!calendarVars
  PROVE  LifecycleOrder'
<1> USE DEF LifecycleOrder, Calendar!LifecycleOrder, Calendar!Booked
<1>1. ASSUME NEW id \in Ids, NEW p \in Professionals, NEW s \in Slots, NEW n \in Protocols,
             BookIn(id, p, s, n)
      PROVE  LifecycleOrder'
  BY <1>1 DEF BookIn, TypeOK, Booked
<1>2. ASSUME NEW id \in Ids, NEW s \in Status, GoTo(id, s)
      PROVE  LifecycleOrder'
  <2>1. /\ s = "COMPLETED" => "IN_PROGRESS" \in seen[id]
        /\ s = "IN_PROGRESS" => "CONFIRMED" \in seen[id]
    BY <1>2 DEF GoTo, Transitions
  <2>2. Booked' = Booked /\ \A b \in Booked \ {id} : seen'[b] = seen[b]
    BY <1>2, RowsKept
  <2>3. seen'[id] = seen[id] \cup {s}
    BY <1>2 DEF GoTo, TypeOK
  <2>4. QED
    BY <2>1, <2>2, <2>3 DEF Booked
<1>3. ASSUME NEW id \in Ids,
             (\E p \in Professionals, s \in Slots : MoveTo(id, p, s)) \/ CheckIn(id)
      PROVE  LifecycleOrder'
  <2>1. Booked' = Booked /\ seen' = seen
    BY <1>3, RowsKept DEF MoveTo, CheckIn
  <2>2. QED
    BY <2>1 DEF Booked
<1>4. CASE UNCHANGED <<appt, seen>>
  BY <1>4
<1>5. QED
  BY <1>1, <1>2, <1>3, <1>4, CalendarSteps

(***************************************************************************)
(* Two active appointments of a professional overlap only after one of     *)
(* them ended: no interleaving of bookings and reschedules double-books.   *)
(***************************************************************************)
THEOREM NoDoubleBooking == Spec => []OverlapOnlyByRevival
<1>1. Init => NoneDoubled
  BY DEF Init, NoneDoubled, Booked
<1>2. IInv /\ IInv' /\ NoneDoubled /\ [Next]_vars => NoneDoubled'
  BY StepRefines, RevivalStep DEF IInv
<1>3. Spec => []NoneDoubled
  BY <1>1, <1>2, AppointmentsInvariant, PTL DEF Spec
<1>4. QED
  BY <1>3, SameOverlap, PTL

\* A protocol number, a count of rows, is never given twice (createIfAvailable).
THEOREM ProtocolIsUnique == Spec => []UniqueProtocol
<1>1. Init => UniqueProtocol
  BY DEF Init, UniqueProtocol, Calendar!UniqueProtocol, Calendar!Booked
<1>2. IInv /\ UniqueProtocol /\ [Next]_vars => UniqueProtocol'
  BY StepRefines, ProtocolStep DEF IInv
<1>3. QED
  BY <1>1, <1>2, AppointmentsInvariant, PTL DEF Spec

(***************************************************************************)
(* Status handlers that decide on a row they read earlier still cannot     *)
(* complete an appointment that was never confirmed and in progress.       *)
(***************************************************************************)
THEOREM LifecycleIsOrdered == Spec => []LifecycleOrder
<1>1. Init => LifecycleOrder
  BY DEF Init, LifecycleOrder, Calendar!LifecycleOrder, Calendar!Booked
<1>2. IInv /\ LifecycleOrder /\ [Next]_vars => LifecycleOrder'
  BY StepRefines, LifecycleStep DEF IInv
<1>3. QED
  BY <1>1, <1>2, AppointmentsInvariant, PTL DEF Spec
=============================================================================
