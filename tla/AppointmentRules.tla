-------------------------- MODULE AppointmentRules --------------------------
(***************************************************************************)
(* The rules an appointment obeys, without any state: its statuses, which  *)
(* of them occupy the professional's agenda, the status transitions, and   *)
(* the overlap test every conflict query uses                              *)
(* (modules/appointments/appointment.service.ts, appointment.repository.ts)*)
(***************************************************************************)
EXTENDS Integers, FiniteSets, Database

CONSTANTS
  Ids,            \* identifiers of the rows of table `appointments` (a bound)
  Professionals,  \* professionals of the tenant
  Slots           \* [start, end) intervals a service may occupy

ASSUME RulesAssumption ==
  /\ IsFiniteSet(Ids)
  /\ Slots \subseteq [start : Int, end : Int]
  /\ None \notin Ids

Status == {"PENDING", "CONFIRMED", "IN_PROGRESS",
           "COMPLETED", "CANCELED", "NO_SHOW"}

\* `status: { in: ['PENDING', 'CONFIRMED', 'IN_PROGRESS'] }` of every query
Active == {"PENDING", "CONFIRMED", "IN_PROGRESS"}

\* What status() and update() refuse with APPOINTMENT_LOCKED
Locked == {"COMPLETED", "CANCELED"}

Ended == Status \ Active

\* The table `allowed` of AppointmentService.status
Transitions(s) ==
  CASE s = "PENDING"     -> {"CONFIRMED", "CANCELED", "NO_SHOW"}
    [] s = "CONFIRMED"   -> {"IN_PROGRESS", "CANCELED", "NO_SHOW"}
    [] s = "IN_PROGRESS" -> {"COMPLETED", "CANCELED"}
    [] OTHER             -> {}

\* Rows are never deleted, so `count + 1` never exceeds the number of rows.
Protocols == 1 .. Cardinality(Ids)

Row == [prof : Professionals, slot : Slots, status : Status,
        protocol : Protocols, checkedIn : BOOLEAN]

ASSUME NoneAssumption == None \notin Row

NewRow(p, s, n) == [prof |-> p, slot |-> s, status |-> "PENDING",
                    protocol |-> n, checkedIn |-> FALSE]

\* startsAt < end AND endsAt > start
Overlaps(s, t) == s.start < t.end /\ s.end > t.start

\* The predicate of the conflict query for professional p and slot s
Conflicts(row, p, s) ==
  /\ row.prof = p
  /\ row.status \in Active
  /\ Overlaps(row.slot, s)
=============================================================================
