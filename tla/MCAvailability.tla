--------------------------- MODULE MCAvailability ---------------------------
(***************************************************************************)
(* Small instances of Availability.                                        *)
(***************************************************************************)
EXTENDS Availability, TLC

\* Days of four minutes, of which three or two are worked
TwoHours == {[start |-> 0, end |-> 3], [start |-> 1, end |-> 3]}

\* An hour of the first day: once, the same every week (for a week, to the last day, for
\* good); a night, once and every week
ManySpans ==
  {[start |-> 1, end |-> 2, weekly |-> FALSE, until |-> None],
   [start |-> 1, end |-> 2, weekly |-> TRUE, until |-> 5],
   [start |-> 1, end |-> 2, weekly |-> TRUE, until |-> 9],
   [start |-> 1, end |-> 2, weekly |-> TRUE, until |-> None],
   [start |-> 3, end |-> 6, weekly |-> FALSE, until |-> None],
   [start |-> 3, end |-> 5, weekly |-> TRUE, until |-> 11]}

Symmetry == Permutations(Periods) \cup Permutations(Absences) \cup Permutations(Requests)

Editing == {r \in Requests : edit[r] # None}

\* Hours are entered, an appointment made or time has passed
Moving ==
  \/ now # 0 \/ Taken # {}
  \/ \E u \in Units : opening[u] # {} \/ \E d \in Days : special[u][d] # None

Written == {x \in Rows : row[x] # None}
Entries == {row[x] : x \in Written} \cup UNION {edit[r].left : r \in Editing}

\* (bound) Rows are edited first: what a day offers depends on the rows that are written,
\* whenever they were, and on nothing where no period is. Comparisons read one table, and
\* neither units nor repetitions: where three rows are concerned all are of no unit, and
\* where two are being written they are of one table, and absences do not repeat
EditsFirst ==
  /\ Moving => Editing = {} /\ \E p \in Periods : row[p] # None
  /\ Editing # {} /\ Cardinality(Written) + Cardinality(Pending) > 2 =>
       \A x \in Entries : x.unit = None
  /\ Cardinality(Pending) > 1 =>
       /\ \E table \in {Periods, Absences} :
            Written \subseteq table /\ \A r \in Editing : edit[r].table = table
       /\ \A x \in Entries \cap Absent : ~x.span.weekly
=============================================================================
