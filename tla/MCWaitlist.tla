----------------------------- MODULE MCWaitlist -----------------------------
(***************************************************************************)
(* Small instances of Waitlist.                                            *)
(***************************************************************************)
EXTENDS Waitlist, TLC

TwoSlots == {[start |-> 0, end |-> 1], [start |-> 1, end |-> 2]}

OneSlot == {[start |-> 0, end |-> 1]}

\* Every entry takes any vacancy: the second always competes with the first.
AnyVacancy == [e \in Entries |-> Professionals \X Slots]

\* Rows of `appointments` and requests are interchangeable
Symmetry == Permutations(Ids) \cup Permutations(Workers)

\* (bound) a third row is booked only for a single entry and where nothing is
\* revived; a lock is left with its connection only in that case too
TwoRowsOrOneEntry ==
  \/ Cardinality(Booked) <= 2 /\ kept = {}
  \/ /\ \A e \in Entries : e > 1 => entry[e].status = "NEW"
     /\ \A id \in Ids : "CONFIRMED" \notin seen[id]
=============================================================================
