---------------------------- MODULE Appointments ----------------------------
(***************************************************************************)
(* The request handlers of modules/appointments as they run against MySQL: *)
(* every handler reads rows without a lock, decides, and writes later.     *)
(* Creates and reschedules write inside a SERIALIZABLE transaction guarded *)
(* by the named lock appointment:<tenant>:<professional> (and, to number a *)
(* protocol, appointment-protocol:<tenant>); both locks are released       *)
(* BEFORE the transaction commits.  Status changes and check-ins are one   *)
(* unconditional UPDATE by id.                                             *)
(*                                                                         *)
(* A named lock belongs to the connection, not to the transaction.  Prisma *)
(* closes a transaction that lasts more than 5 s (as long as one GET_LOCK  *)
(* may wait) and refuses the RELEASE_LOCK of the `finally` blocks: the     *)
(* lock then stays with the pooled connection until it is closed.          *)
(*                                                                         *)
(* InnoDB under SERIALIZABLE is modelled by the least it guarantees: the   *)
(* conflict query locks the rows that match its predicate until the        *)
(* transaction ends, so it waits for an uncommitted row that matches, and  *)
(* nobody else can make a row match it meanwhile.                          *)
(***************************************************************************)
EXTENDS AppointmentRules

CONSTANTS
  Requests,   \* pooled connections, each serving one request at a time (a bound)
  Asked,      \* the statuses requests ask for (a bound)
  Timeouts    \* may a transaction outlive Prisma's limit?

ASSUME RequestsAssumption ==
  /\ None \notin Requests
  /\ Asked \subseteq Status
  /\ Timeouts \in BOOLEAN

VARIABLES
  appt,     \* the committed rows
  seen,     \* every status each row has had (history, never read)
  pc,       \* where each request is
  job,      \* what each request is doing: its arguments and what it has read
  holder,   \* which connection holds each named lock
  orphans   \* named locks whose transaction was closed under them

vars == <<appt, seen, pc, job, holder, orphans>>

\* appointment-protocol:<tenant>
Counter == "counter"

\* appointment:<tenant>:<professional>, and the counter's
Locks == Professionals \cup {Counter}

Booked == {id \in Ids : appt[id] # None}

Kinds == {"create", "reschedule", "status", "checkin"}

Phases == {"idle", "precheck", "lock", "check", "number", "insert", "move",
           "release", "commit", "write"}

\* id: the row; prof and slot: where it goes; to: the status asked for
Job == [kind : Kinds, id : Ids \cup {None}, prof : Professionals \cup {None},
        slot : Slots \cup {None}, to : Status, protocol : Protocols \cup {None}]

NoJob == [kind |-> "checkin", id |-> None, prof |-> None, slot |-> None,
          to |-> "PENDING", protocol |-> None]

Init ==
  /\ appt = [id \in Ids |-> None]
  /\ seen = [id \in Ids |-> {}]
  /\ pc = [r \in Requests |-> "idle"]
  /\ job = [r \in Requests |-> NoJob]
  /\ holder = [n \in Locks |-> None]
  /\ orphans = {}

-----------------------------------------------------------------------------
\* What the transactions in progress keep from each other

\* r has run its conflict query and its transaction is still open
Checked(r) == pc[r] \in {"number", "insert", "move", "release", "commit"}

\* r has written, nobody else sees it yet
Written(r) == pc[r] \in {"release", "commit"}

Inserting(r) == Written(r) /\ job[r].kind = "create"

Moving(r) == Written(r) /\ job[r].kind = "reschedule"

\* The row r's transaction leaves behind when it commits
Outcome(r) ==
  LET j == job[r] IN
  IF j.kind = "create" THEN NewRow(j.prof, j.slot, j.protocol)
  ELSE [appt[j.id] EXCEPT !.prof = j.prof, !.slot = j.slot]

\* row matches the predicate r's conflict query has locked, or would lock
Matches(row, r) == Conflicts(row, job[r].prof, job[r].slot)

\* (fault) the conflict query reads a snapshot, as under REPEATABLE READ
NeverWaits(r) == FALSE

\* r's conflict query meets a row another transaction has not committed
MustWait(r) ==
  \E q \in Requests \ {r} :
    /\ Written(q)
    /\ job[q].id # job[r].id
    /\ Matches(Outcome(q), r) \/ (Moving(q) /\ Matches(appt[job[q].id], r))

\* (fault) only rows are locked, as under READ COMMITTED
RowLocked(r, id, row) == \E q \in Requests \ {r} : Moving(q) /\ job[q].id = id

\* Turning row id into `row` would break a lock that a request but r holds
WriteBlocked(r, id, row) ==
  \E q \in Requests \ {r} :
    \/ Moving(q) /\ job[q].id = id
    \/ Checked(q) /\ job[q].id # id /\ Matches(row, q)

\* (fault) the query asks for confirmed rows only
ConfirmedConflict(r) ==
  \E id \in Booked :
    id # job[r].id /\ Matches(appt[id], r) /\ appt[id].status = "CONFIRMED"

\* The rows the conflict query of r returns; a reschedule leaves its own out
ConflictFound(r) ==
  \E id \in Booked : id # job[r].id /\ Matches(appt[id], r)

\* count() reads, and locks, every row of the tenant: it waits for an insert
\* that is not committed
InsertPending(r) == \E q \in Requests \ {r} : Inserting(q)

\* AGD-<count + 1>
ProtocolToGive == Cardinality(Booked) + 1

\* The same test without a lock, made by assertSlot and by repo.conflict
SlotTaken(id, p, s) ==
  \E b \in Booked \ {id} : Conflicts(appt[b], p, s)

-----------------------------------------------------------------------------
\* Steps shared by the handlers

Goto(r, phase) == pc' = [pc EXCEPT ![r] = phase]

Start(r, j, phase) ==
  /\ pc[r] = "idle"
  /\ Goto(r, phase)
  /\ job' = [job EXCEPT ![r] = j]

\* The request answers; nothing of it is left but what it committed
Finish(r) ==
  /\ Goto(r, "idle")
  /\ job' = [job EXCEPT ![r] = NoJob]

\* (fault) the outer `finally` is missing
ReleaseCounterOnly(r) ==
  /\ holder' = IF holder[Counter] = r THEN [holder EXCEPT ![Counter] = None] ELSE holder
  /\ UNCHANGED orphans

\* Both `finally` blocks.  GET_LOCK counts: a lock the connection already had
\* before this transaction took it stays held.
ReleaseLocks(r) ==
  /\ holder' = [n \in Locks |->
                  IF holder[n] = r /\ n \notin orphans THEN None ELSE holder[n]]
  /\ UNCHANGED orphans

\* GET_LOCK(n, 5): granted at once to the connection that already has n
TakeLock(r, n) ==
  /\ holder[n] \in {None, r}
  /\ holder' = [holder EXCEPT ![n] = r]
  /\ UNCHANGED orphans

-----------------------------------------------------------------------------
\* save(): POST /appointments, public booking, PATCH, customer reschedule

\* Bound of the model: requests never ask for more rows than there are Ids
RoomLeft ==
  Cardinality(Booked)
    + Cardinality({r \in Requests : pc[r] # "idle" /\ job[r].kind = "create"})
    < Cardinality(Ids)

StartCreate(r) ==
  /\ RoomLeft
  /\ \E p \in Professionals, s \in Slots :
       Start(r, [NoJob EXCEPT !.kind = "create", !.prof = p, !.slot = s], "precheck")
  /\ UNCHANGED <<appt, seen, holder, orphans>>

StartReschedule(r) ==
  /\ \E id \in Booked, p \in Professionals, s \in Slots :
       /\ appt[id].status \notin Locked
       /\ Start(r, [NoJob EXCEPT !.kind = "reschedule", !.id = id,
                                 !.prof = p, !.slot = s], "precheck")
  /\ UNCHANGED <<appt, seen, holder, orphans>>

PreCheck(r) ==
  /\ pc[r] = "precheck"
  /\ \/ /\ SlotTaken(job[r].id, job[r].prof, job[r].slot)
        /\ Finish(r)
     \/ /\ ~SlotTaken(job[r].id, job[r].prof, job[r].slot)
        /\ Goto(r, "lock")
        /\ UNCHANGED job
  /\ UNCHANGED <<appt, seen, holder, orphans>>

TakeAgendaLock(r) ==
  /\ pc[r] = "lock"
  /\ TakeLock(r, job[r].prof)
  /\ Goto(r, "check")
  /\ UNCHANGED <<appt, seen, job>>

\* GET_LOCK(name, 5) gives up: APPOINTMENT_CONFLICT
AgendaLockTimeout(r) ==
  /\ pc[r] = "lock"
  /\ holder[job[r].prof] \notin {None, r}
  /\ Finish(r)
  /\ UNCHANGED <<appt, seen, holder, orphans>>

CheckAgenda(r) ==
  /\ pc[r] = "check"
  /\ ~MustWait(r)
  /\ ~ConflictFound(r)
  /\ Goto(r, IF job[r].kind = "create" THEN "number" ELSE "move")
  /\ UNCHANGED <<appt, seen, job, holder, orphans>>

RejectConflict(r) ==
  /\ pc[r] = "check"
  /\ ~MustWait(r)
  /\ ConflictFound(r)
  /\ ReleaseLocks(r)
  /\ Finish(r)
  /\ UNCHANGED <<appt, seen>>

TakeCounterLock(r) ==
  /\ pc[r] = "number"
  /\ TakeLock(r, Counter)
  /\ Goto(r, "insert")
  /\ UNCHANGED <<appt, seen, job>>

CounterLockTimeout(r) ==
  /\ pc[r] = "number"
  /\ holder[Counter] \notin {None, r}
  /\ ReleaseLocks(r)
  /\ Finish(r)
  /\ UNCHANGED <<appt, seen>>

\* After count(), the row is inserted with protocol count + 1
InsertRow(r) ==
  /\ pc[r] = "insert"
  /\ ~InsertPending(r)
  /\ \E id \in Ids \ Booked :
       /\ ~WriteBlocked(r, id, NewRow(job[r].prof, job[r].slot, ProtocolToGive))
       /\ job' = [job EXCEPT ![r].id = id, ![r].protocol = ProtocolToGive]
  /\ Goto(r, "release")
  /\ UNCHANGED <<appt, seen, holder, orphans>>

MoveRow(r) ==
  /\ pc[r] = "move"
  /\ ~WriteBlocked(r, job[r].id, Outcome(r))
  /\ Goto(r, "release")
  /\ UNCHANGED <<appt, seen, job, holder, orphans>>

ReleaseBeforeCommit(r) ==
  /\ pc[r] = "release"
  /\ ReleaseLocks(r)
  /\ Goto(r, "commit")
  /\ UNCHANGED <<appt, seen, job>>

Commit(r) ==
  /\ pc[r] = "commit"
  /\ appt' = [appt EXCEPT ![job[r].id] = Outcome(r)]
  /\ seen' = IF job[r].kind = "create"
              THEN [seen EXCEPT ![job[r].id] = {"PENDING"}] ELSE seen
  /\ Finish(r)
  /\ UNCHANGED <<holder, orphans>>

-----------------------------------------------------------------------------
\* status(), statusForProfessional(), cancelForCustomer(), checkIn()

\* Reads the row and decides on that copy
StartStatus(r) ==
  /\ \E id \in Booked : \E s \in Transitions(appt[id].status) \cap Asked :
       Start(r, [NoJob EXCEPT !.kind = "status", !.id = id, !.to = s], "write")
  /\ UNCHANGED <<appt, seen, holder, orphans>>

\* UPDATE appointments SET status = .. WHERE id = ..: no look at the row
WriteStatus(r) ==
  LET id == job[r].id
      row == [appt[id] EXCEPT !.status = job[r].to]
  IN
  /\ pc[r] = "write"
  /\ job[r].kind = "status"
  /\ ~WriteBlocked(r, id, row)
  /\ appt' = [appt EXCEPT ![id] = row]
  /\ seen' = [seen EXCEPT ![id] = @ \cup {job[r].to}]
  /\ Finish(r)
  /\ UNCHANGED <<holder, orphans>>

StartCheckIn(r) ==
  /\ \E id \in Booked :
       /\ appt[id].status \in Active
       /\ ~appt[id].checkedIn
       /\ Start(r, [NoJob EXCEPT !.kind = "checkin", !.id = id], "write")
  /\ UNCHANGED <<appt, seen, holder, orphans>>

WriteCheckIn(r) ==
  LET id == job[r].id
      row == [appt[id] EXCEPT !.checkedIn = TRUE]
  IN
  /\ pc[r] = "write"
  /\ job[r].kind = "checkin"
  /\ ~WriteBlocked(r, id, row)
  /\ appt' = [appt EXCEPT ![id] = row]
  /\ Finish(r)
  /\ UNCHANGED <<seen, holder, orphans>>

-----------------------------------------------------------------------------
\* A statement fails (InnoDB picks a deadlock victim): the uncommitted work is
\* gone and the `finally` blocks run.
Fail(r) ==
  /\ pc[r] # "idle"
  /\ ReleaseLocks(r)
  /\ Finish(r)
  /\ UNCHANGED <<appt, seen>>

\* Prisma closes the transaction: the `finally` blocks cannot reach it any more
\* and its locks stay with the connection, which serves the next request.
TransactionTimeout(r) ==
  /\ Timeouts
  /\ Checked(r) \/ pc[r] = "check"
  /\ orphans' = orphans \cup {n \in Locks : holder[n] = r}
  /\ Finish(r)
  /\ UNCHANGED <<appt, seen, holder>>

\* The connection closes, by itself or with the process
Disconnect(r) ==
  /\ holder' = [n \in Locks |-> IF holder[n] = r THEN None ELSE holder[n]]
  /\ orphans' = orphans \ {n \in Locks : holder[n] = r}
  /\ Finish(r)
  /\ UNCHANGED <<appt, seen>>

Arrive(r) == StartCreate(r) \/ StartReschedule(r) \/ StartStatus(r) \/ StartCheckIn(r)

Advance(r) ==
  \/ PreCheck(r)
  \/ TakeAgendaLock(r) \/ AgendaLockTimeout(r)
  \/ CheckAgenda(r) \/ RejectConflict(r)
  \/ TakeCounterLock(r) \/ CounterLockTimeout(r)
  \/ InsertRow(r) \/ MoveRow(r)
  \/ ReleaseBeforeCommit(r) \/ Commit(r)
  \/ WriteStatus(r) \/ WriteCheckIn(r)

Interrupt(r) == Fail(r) \/ TransactionTimeout(r) \/ Disconnect(r)

Next == \E r \in Requests : Arrive(r) \/ Advance(r) \/ Interrupt(r)

Spec == Init /\ [][Next]_vars

\* Node runs every handler it started; nothing makes a client send a request
FairSpec == Spec /\ \A r \in Requests : WF_vars(Advance(r))

-----------------------------------------------------------------------------
(***************************************************************************)
(* Correctness                                                             *)
(***************************************************************************)

Calendar == INSTANCE Calendar

TypeOK ==
  /\ appt \in [Ids -> Row \cup {None}]
  /\ seen \in [Ids -> SUBSET Status]
  /\ pc \in [Requests -> Phases]
  /\ job \in [Requests -> Job]
  /\ holder \in [Locks -> Requests \cup {None}]
  /\ orphans \in SUBSET Locks

(***************************************************************************)
(* From its conflict query to its commit, a transaction's slot stays free  *)
(* of other active appointments, although it gives the named lock back     *)
(* before it commits and although status handlers take no lock at all      *)
(* (createIfAvailable and updateIfAvailable).                              *)
(***************************************************************************)
CheckedSlotStaysFree == \A r \in Requests : Checked(r) => ~ConflictFound(r)

(***************************************************************************)
(* Every step of the handlers is a step of Calendar or changes no row: the *)
(* pre-checks, the two named locks, the SERIALIZABLE transaction and the   *)
(* early release together book and move atomically.                        *)
(***************************************************************************)
ImplementsCalendar == Calendar!Spec

\* Two active appointments of a professional overlap only if one had ended
\* and was written back to life by a status handler that had read it before.
OverlapOnlyByRevival == Calendar!OverlapOnlyByRevival

\* No two appointments get the same protocol, although it is a row count.
UniqueProtocol == Calendar!UniqueProtocol

\* COMPLETED follows IN_PROGRESS follows CONFIRMED, however stale the reads.
LifecycleOrder == Calendar!LifecycleOrder

(***************************************************************************)
(* A named lock never stays with one connection, on any early return       *)
(* between GET_LOCK and the end of the `finally` blocks, except when the   *)
(* transaction was closed before its `finally` ran.                        *)
(***************************************************************************)
NamedLockReleased ==
  \A n \in Locks, r \in Requests :
    holder[n] = r ~> (holder[n] # r \/ n \in orphans)

=============================================================================
