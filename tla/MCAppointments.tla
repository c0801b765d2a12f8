--------------------------- MODULE MCAppointments ---------------------------
(***************************************************************************)
(* Small instances of Appointments.                                        *)
(***************************************************************************)
EXTENDS Appointments, TLC

\* Two slots that overlap: every booking is a potential double booking.
OverlappingSlots == {[start |-> 0, end |-> 2], [start |-> 1, end |-> 3]}

OneSlot == {[start |-> 0, end |-> 1]}

\* Rows, requests and professionals are interchangeable
Symmetry == Permutations(Ids) \cup Permutations(Requests) \cup Permutations(Professionals)
=============================================================================
