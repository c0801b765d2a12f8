------------------------------ MODULE Calendar ------------------------------
(***************************************************************************)
(* What the appointments component promises, as a specification whose      *)
(* steps are atomic: a booking or a move takes a slot that is free of      *)
(* active appointments at that very moment and, for a booking, a protocol  *)
(* nobody else has; a status change is one the transition table allows     *)
(* from SOME status the appointment once had.  The code does not promise   *)
(* more: its status handlers decide on a row they read earlier.            *)
(***************************************************************************)
EXTENDS AppointmentRules

VARIABLES
  appt,   \* [Ids -> Row \cup {None}]: the committed rows
  seen    \* [Ids -> SUBSET Status]: every status the row has had (history)

calendarVars == <<appt, seen>>

Booked == {id \in Ids : appt[id] # None}

\* No active appointment but `except` conflicts with slot s of professional p
Free(p, s, except) ==
  \A id \in Booked \ {except} : ~Conflicts(appt[id], p, s)

Init ==
  /\ appt = [id \in Ids |-> None]
  /\ seen = [id \in Ids |-> {}]

Book(id, p, s, n) ==
  /\ id \notin Booked
  /\ Free(p, s, None)
  /\ \A b \in Booked : appt[b].protocol # n
  /\ appt' = [appt EXCEPT ![id] = NewRow(p, s, n)]
  /\ seen' = [seen EXCEPT ![id] = {"PENDING"}]

Move(id, p, s) ==
  /\ id \in Booked
  /\ Free(p, s, id)
  /\ appt' = [appt EXCEPT ![id].prof = p, ![id].slot = s]
  /\ UNCHANGED seen

SetStatus(id, s) ==
  /\ id \in Booked
  /\ \E old \in seen[id] : s \in Transitions(old)
  /\ appt' = [appt EXCEPT ![id].status = s]
  /\ seen' = [seen EXCEPT ![id] = @ \cup {s}]

MarkPresent(id) ==
  /\ id \in Booked
  /\ appt' = [appt EXCEPT ![id].checkedIn = TRUE]
  /\ UNCHANGED seen

Next ==
  \E id \in Ids :
    \/ \E p \in Professionals, s \in Slots, n \in Protocols : Book(id, p, s, n)
    \/ \E p \in Professionals, s \in Slots : Move(id, p, s)
    \/ \E s \in Status : SetStatus(id, s)
    \/ MarkPresent(id)

Spec == Init /\ [][Next]_calendarVars

-----------------------------------------------------------------------------
TypeOK ==
  /\ appt \in [Ids -> Row \cup {None}]
  /\ seen \in [Ids -> SUBSET Status]

\* The column `status` is always the last status the row was given.
StatusSeen == \A id \in Booked : appt[id].status \in seen[id]

(***************************************************************************)
(* Two active appointments of one professional overlap only if one of them *)
(* had already ended (canceled, completed or no-show) and came back: no    *)
(* booking and no reschedule ever creates an overlap by itself.            *)
(***************************************************************************)
OverlapOnlyByRevival ==
  \A a, b \in Booked :
    /\ a # b
    /\ appt[b].status \in Active
    /\ Conflicts(appt[a], appt[b].prof, appt[b].slot)
    => (seen[a] \cup seen[b]) \cap Ended # {}

\* Protocol AGD-n identifies one appointment of the tenant.
UniqueProtocol ==
  \A a, b \in Booked : appt[a].protocol = appt[b].protocol => a = b

(***************************************************************************)
(* Whatever stale decisions are mixed, an appointment is COMPLETED only if *)
(* it was once IN_PROGRESS, and IN_PROGRESS only if it was once CONFIRMED. *)
(***************************************************************************)
LifecycleOrder ==
  \A id \in Booked :
    /\ "COMPLETED" \in seen[id] => "IN_PROGRESS" \in seen[id]
    /\ "IN_PROGRESS" \in seen[id] => "CONFIRMED" \in seen[id]
=============================================================================
