---------------------------- MODULE Availability ----------------------------
(***************************************************************************)
(* The agenda of one professional: the weekly schedule and the absences    *)
(* (modules/professionals), the hours of the units and their exceptional   *)
(* days (modules/tenants), and the slots that are computed from them, from *)
(* the appointments and from the clock (modules/calendar), which every     *)
(* booking goes through.                                                   *)
(*                                                                         *)
(* Time is counted in the minutes of one time zone whose clocks do not     *)
(* change; an instant is a day times Day plus a minute.                    *)
(***************************************************************************)
EXTENDS Integers, FiniteSetsExt, Database

CONSTANTS
  Periods,       \* rows of professional_work_schedules
  Absences,      \* rows of professional_unavailabilities
  Appointments,  \* rows of appointments, of this professional
  Units,         \* units of the establishment
  Requests,      \* edits of the schedule or the absences under way
  Day,           \* minutes of a day
  Week,          \* days of a week
  LastDay,       \* (bound) days 0 .. LastDay
  Hours,         \* the hours of a day that may be entered
  Spans,         \* the absences that may be entered
  Lengths,       \* minutes that services block: duration and pause
  Interval,      \* defaultAppointmentIntervalMinutes
  Advance,       \* minimumAdvanceMinutes
  Horizon,       \* maximumAdvanceDays
  MaxWindows,    \* (bound) windows entered at once
  MaxPeriods,    \* (bound) periods entered at once, with their copies
  MaxThings      \* (bound) rows, edits, changed days and so on at a time

Days == 0 .. LastDay
DayOf(time) == time \div Day
Weekday(d) == d % Week
At(d, minute) == d * Day + minute

ASSUME AvailabilityAssumption ==
  /\ {Day, Week, Interval} \cup Lengths \subseteq Nat \ {0}
  /\ {LastDay, Advance, Horizon, MaxWindows, MaxPeriods, MaxThings} \subseteq Nat
  /\ \A h \in Hours : h \in [start : Nat, end : Nat] /\ h.start < h.end /\ h.end < Day
  /\ \A a \in Spans :
       /\ a \in [start : Nat, end : Nat, weekly : BOOLEAN, until : Nat \cup {None}]
       /\ a.start < a.end
       /\ a.until # None => a.weekly /\ a.until >= a.start
  /\ Periods \cap Absences = {}

Rows == Periods \cup Absences
Working == [weekday : 0 .. Week - 1, hours : Hours, unit : Units \cup {None}, active : BOOLEAN]
Absent == [span : Spans, unit : Units \cup {None}, active : BOOLEAN]
Opening == [weekday : 0 .. Week - 1, hours : Hours, active : BOOLEAN]
Moment == [start : Nat, end : Nat]
Edit ==
  [table : {Periods}, id : Periods \cup {None}, left : SUBSET Working, unseen : BOOLEAN]
    \cup [table : {Absences}, id : Absences \cup {None}, left : SUBSET Absent, unseen : BOOLEAN]

ASSUME NoneIsNothing ==
  /\ None \notin Rows \cup Working \cup Absent \cup Moment \cup Edit
  /\ \A windows \in SUBSET Hours : None # windows

VARIABLES
  row,       \* the schedule and the absences
  opening,   \* business_unit_operating_hours of each unit
  special,   \* business_unit_date_overrides: the windows of a day, none if closed
  booked,    \* what the appointments in force take
  now,
  edit,      \* what an edit has read and is about to write
  unchecked  \* (history) rows written against rows the edit had not seen, or unseen itself

agendaVars == <<row, opening, special, booked, now, edit, unchecked>>

AgendaInit ==
  /\ row = [x \in Rows |-> None]
  /\ opening = [u \in Units |-> {}]
  /\ special = [u \in Units |-> [d \in Days |-> None]]
  /\ booked = [i \in Appointments |-> None]
  /\ now = 0
  /\ edit = [r \in Requests |-> None]
  /\ unchecked = {}

Overlap(x, y) == x.start < y.end /\ x.end > y.start
IsActive(x) == row[x] # None /\ row[x].active
Taken == {i \in Appointments : booked[i] # None}

\* (bound) What the edits under way will have written; an edit of a row counts too
Pending == UNION {{<<r, x>> : x \in IF edit[r].left = {} THEN {None} ELSE edit[r].left} :
                  r \in {q \in Requests : edit[q] # None}}

\* (bound) There is room for n things more
Room(n) ==
  Cardinality({x \in Rows : row[x] # None}) + Cardinality(Taken)
    + Cardinality({u \in Units : opening[u] # {}})
    + Cardinality({d \in Days : \E u \in Units : special[u][d] # None})
    + Cardinality(Pending) + (IF now = 0 THEN 0 ELSE 1) + n <= MaxThings

-----------------------------------------------------------------------------
(* AvailabilityService.available: on day d, for a service that blocks n minutes, asked
   at a unit or at none, leaving out an appointment that is being moved *)

OutOfRange(d) == d < DayOf(now + Advance) \/ d > DayOf(now) + Horizon

\* The rows that concern who asks at unit u
Serves(x, u) == u = None \/ row[x].unit \in {u, None}

Schedule(d, u) ==
  {p \in Periods : IsActive(p) /\ row[p].weekday = Weekday(d) /\ Serves(p, u)}

\* resolveUnitWindows: the day's own (a replacement leaves either exceptions or holidays),
\* or else the week's; a unit without hours is open
Windows(d, u) ==
  IF u = None THEN {[start |-> 0, end |-> Day]}
  ELSE IF special[u][d] # None THEN special[u][d]
  ELSE IF opening[u] = {} THEN {[start |-> 0, end |-> Day]}
  ELSE {o.hours : o \in {h \in opening[u] : h.active /\ h.weekday = Weekday(d)}}

Later(a, b) == IF a > b THEN a ELSE b
Earlier(a, b) == IF a < b THEN a ELSE b
Clip(h, w) == [start |-> Later(h.start, w.start), end |-> Earlier(h.end, w.end)]

\* clipToOperatingHours
Stretches(d, u) ==
  {h \in {Clip(row[p].hours, w) : p \in Schedule(d, u), w \in Windows(d, u)} :
     h.start < h.end}

\* (fault) A slot may not last to the end
SlotsBeforeTheEnd(d, u, n) ==
  UNION {{[start |-> At(d, m), end |-> At(d, m) + n] :
            m \in {k \in h.start .. h.end - n - 1 : (k - h.start) % Interval = 0}} :
         h \in Stretches(d, u)}

\* A slot at every interval from the start of the stretch, while it fits
GridSlots(d, u, n) ==
  UNION {{[start |-> At(d, m), end |-> At(d, m) + n] :
            m \in {k \in h.start .. h.end - n : (k - h.start) % Interval = 0}} :
         h \in Stretches(d, u)}

\* What the query compares recurrenceEndsAt with; NULL, where it was left out, is neither
\* before nor after
LastsUntil(span, time) == span.weekly /\ span.until # None /\ span.until >= time

\* (fault) Absences that are of no unit are forgotten where a unit is asked
FoundOfTheUnit(a, d, u) ==
  /\ IsActive(a)
  /\ row[a].span.start <= At(d + 1, 0)
  /\ IF u # None
     THEN row[a].unit = u
     ELSE row[a].span.end > At(d, 0) \/ LastsUntil(row[a].span, At(d, 0))

\* The rows of professional_unavailabilities a day is computed with; asked at a unit, the
\* second OR takes the place of the first, and what is over is found too
Found(a, d, u) ==
  /\ IsActive(a)
  /\ row[a].span.start <= At(d + 1, 0)
  /\ IF u # None
     THEN Serves(a, u)
     ELSE row[a].span.end > At(d, 0) \/ LastsUntil(row[a].span, At(d, 0))

\* What the row takes of day d: one that repeats is moved to the day, whichever it is
SpanOn(a, d) ==
  LET span == row[a].span IN
  IF span.weekly
  THEN LET start == At(d, span.start % Day)
       IN  [start |-> start, end |-> start + (span.end - span.start)]
  ELSE [start |-> span.start, end |-> span.end]

Blocked(slot, d, u) ==
  \E a \in Absences : Found(a, d, u) /\ Overlap(SpanOn(a, d), slot)

Reserved(slot, moved) == \E i \in Taken \ {moved} : Overlap(booked[i], slot)

Available(d, u, n, moved) ==
  {slot \in GridSlots(d, u, n) :
     ~OutOfRange(d) /\ ~Blocked(slot, d, u) /\ ~Reserved(slot, moved)}

-----------------------------------------------------------------------------
(* Appointments: Appointments.tla has their locks and transactions *)

Taking(time, n) == [start |-> time, end |-> time + n]

\* save and assertSlot: an appointment is made, or moved, to one of the slots offered to it
BookOffered(i, d, u, n) ==
  /\ booked[i] = None => Room(1)
  /\ \E slot \in Available(d, u, n, i) : booked' = [booked EXCEPT ![i] = slot]
  /\ UNCHANGED <<row, opening, special, now, edit, unchecked>>

\* A fit-in is not asked whether it is offered
FitIn(i, time, n) ==
  /\ booked[i] = None => Room(1)
  /\ ~Reserved(Taking(time, n), i)
  /\ booked' = [booked EXCEPT ![i] = Taking(time, n)]
  /\ UNCHANGED <<row, opening, special, now, edit, unchecked>>

\* Canceled, completed or not shown up
End(i) ==
  /\ booked[i] # None
  /\ booked' = [booked EXCEPT ![i] = None]
  /\ UNCHANGED <<row, opening, special, now, edit, unchecked>>

-----------------------------------------------------------------------------
(* The hours of a unit: replaced in one transaction, apart as the contracts ask *)

Apart(windows) == \A v, w \in windows : v # w => ~Overlap(v, w)
UpTo(n, set) == UNION {kSubset(k, set) : k \in 0 .. n}

ReplaceHours(u, openings) ==
  /\ openings # {} => Room(1)
  /\ \A o, q \in openings :
       o # q /\ o.active /\ q.active /\ o.weekday = q.weekday => ~Overlap(o.hours, q.hours)
  /\ opening' = [opening EXCEPT ![u] = openings]
  /\ UNCHANGED <<row, special, booked, now, edit, unchecked>>

ReplaceDay(u, d, windows) ==
  /\ Apart(windows) /\ Room(1)
  /\ special' = [special EXCEPT ![u][d] = windows]
  /\ UNCHANGED <<row, opening, booked, now, edit, unchecked>>

\* The day is as any other of its week again
RemoveDay(u, d) ==
  /\ special' = [special EXCEPT ![u][d] = None]
  /\ UNCHANGED <<row, opening, booked, now, edit, unchecked>>

-----------------------------------------------------------------------------
(* Edits of the schedule and of the absences: the rows are read and compared, and
   written afterwards without a transaction *)

Table(x) == IF x \in Periods THEN Periods ELSE Absences
Meet(x, y) == x.weekday = y.weekday /\ Overlap(x.hours, y.hours)

Clash(table, v, w) == IF table = Periods THEN Meet(v, w) ELSE Overlap(v.span, w.span)

\* (fault) The new periods are compared with the old ones only
RefusedByOld(table, own, proposed) ==
  LET old == {x \in table \ own : IsActive(x)}
      new == {x \in proposed : x.active}
  IN  \/ table = Periods /\ \E p, q \in old : p # q /\ Meet(row[p], row[q])
      \/ \E x \in old, y \in new : Clash(table, row[x], y)

\* assertNoOverlap of the two services: all active periods, old and new, with one another;
\* the new absence with the old ones
Refused(table, own, proposed) ==
  LET old == {x \in table \ own : IsActive(x)}
      new == {x \in proposed : x.active}
  IN  \/ table = Periods /\ \E p, q \in old : p # q /\ Meet(row[p], row[q])
      \/ table = Periods /\ \E x, y \in new : x # y /\ Meet(x, y)
      \/ \E x \in old, y \in new : Clash(table, row[x], y)

\* r goes on to write: the rows `left` as new ones, or to row `id` all of it or, where
\* nothing is left, that it is active
Begin(r, table, id, left, unseen) ==
  /\ edit[r] = None /\ Room(Later(1, Cardinality(left)))
  /\ edit' = [edit EXCEPT ![r] = [table |-> table, id |-> id, left |-> left, unseen |-> unseen]]
  /\ UNCHANGED <<row, opening, special, booked, now, unchecked>>

\* expandCopiedDays: the periods that are entered, as many as there are, with the copies of
\* each on other days may be any set. (Equal ones are refused or, where they are not active,
\* come to the same as another edit.)
Expanded == UpTo(MaxPeriods, Working) \ {{}}

StartCreate(r) ==
  \/ \E periods \in Expanded :
       Begin(r, Periods, None, periods, FALSE) /\ ~Refused(Periods, {}, periods)
  \/ \E x \in Absent : Begin(r, Absences, None, {x}, FALSE) /\ ~Refused(Absences, {}, {x})

StartUpdate(r, id) ==
  /\ row[id] # None
  /\ \E x \in IF id \in Periods THEN Working ELSE Absent :
       Begin(r, Table(id), id, {x}, FALSE) /\ ~Refused(Table(id), {id}, {x})

\* setStatus: the row itself is compared as it was read, which is not active
StartActivate(r, id) ==
  /\ row[id] # None
  /\ ~Refused(Table(id), {id}, {row[id]})
  /\ Begin(r, Table(id), id, {}, ~row[id].active)

\* The row is written; who has read the table before has not seen it
Write(r, id, x, rest) ==
  /\ row' = [row EXCEPT ![id] = x]
  /\ edit' = [q \in Requests |->
                IF q = r THEN rest
                ELSE IF edit[q] # None /\ edit[q].table = edit[r].table
                          /\ (x.active \/ edit[q].id = id)
                THEN [edit[q] EXCEPT !.unseen = TRUE]
                ELSE edit[q]]
  /\ unchecked' = IF edit[r].unseen THEN unchecked \cup {id} ELSE unchecked \ {id}
  /\ UNCHANGED <<opening, special, booked, now>>

Insert(r) ==
  /\ edit[r] # None /\ edit[r].id = None
  /\ \E x \in edit[r].left, id \in edit[r].table :
       /\ row[id] = None
       /\ Write(r, id, x, IF edit[r].left = {x} THEN None
                          ELSE [edit[r] EXCEPT !.left = @ \ {x}])

Save(r) ==
  /\ edit[r] # None /\ edit[r].id # None
  /\ LET id == edit[r].id IN
     IF edit[r].left = {}
     THEN Write(r, id, [row[id] EXCEPT !.active = TRUE], None)
     ELSE \E x \in edit[r].left : Write(r, id, x, None)

\* A statement fails; copies that have been written stay
Fail(r) ==
  /\ edit[r] # None
  /\ edit' = [edit EXCEPT ![r] = None]
  /\ UNCHANGED <<row, opening, special, booked, now, unchecked>>

Deactivate(id) ==
  /\ row[id] # None
  /\ row' = [row EXCEPT ![id].active = FALSE]
  /\ unchecked' = unchecked \ {id}
  /\ UNCHANGED <<opening, special, booked, now, edit>>

\* An edit of the row will not find it
Remove(id) ==
  /\ row[id] # None
  /\ row' = [row EXCEPT ![id] = None]
  /\ edit' = [r \in Requests |-> IF edit[r] # None /\ edit[r].id = id THEN None ELSE edit[r]]
  /\ unchecked' = unchecked \ {id}
  /\ UNCHANGED <<opening, special, booked, now>>

-----------------------------------------------------------------------------
\* Time passes, within the days of the model
Tick ==
  /\ DayOf(now + 1) \in Days
  /\ now = 0 => Room(1)
  /\ now' = now + 1
  /\ UNCHANGED <<row, opening, special, booked, edit, unchecked>>

\* (bound) Fit-ins of the past are left out
Times == {time \in 0 .. At(LastDay, Day - 1) : time >= now}

Client ==
  \E i \in Appointments, n \in Lengths :
    \/ \E d \in Days, u \in Units \cup {None} : BookOffered(i, d, u, n)
    \/ \E time \in Times : FitIn(i, time, n)
    \/ End(i)

Editor ==
  \/ \E r \in Requests :
       \/ StartCreate(r) \/ Insert(r) \/ Save(r) \/ Fail(r)
       \/ \E id \in Rows : StartUpdate(r, id) \/ StartActivate(r, id)
  \/ \E id \in Rows : Deactivate(id) \/ Remove(id)

Manager ==
  \E u \in Units :
    \/ \E openings \in UpTo(MaxWindows, Opening) : ReplaceHours(u, openings)
    \/ \E d \in Days, windows \in UpTo(MaxWindows, Hours) : ReplaceDay(u, d, windows)
    \/ \E d \in Days : RemoveDay(u, d)

AgendaNext == Client \/ Editor \/ Manager \/ Tick

AgendaSpec == AgendaInit /\ [][AgendaNext]_agendaVars

-----------------------------------------------------------------------------
(* Properties *)

\* Periods and absences are rows of their own table, and an edit is of one of them.
AgendaTypeOK ==
  /\ row \in [Rows -> Working \cup Absent \cup {None}]
  /\ \A p \in Periods : row[p] \in Working \cup {None}
  /\ \A a \in Absences : row[a] \in Absent \cup {None}
  /\ opening \in [Units -> SUBSET Opening]
  /\ special \in [Units -> [Days -> {None} \cup SUBSET Hours]]
  /\ booked \in [Appointments -> Moment \cup {None}]
  /\ now \in Nat
  /\ edit \in [Requests -> Edit \cup {None}]
  /\ unchecked \subseteq Rows

(* What the rows mean, without a grid: h is a part of day d, in its minutes *)

Covers(w, h) == w.start <= h.start /\ h.end <= w.end

WorksThrough(d, u, h) ==
  \E p \in Periods :
    /\ IsActive(p) /\ row[p].weekday = Weekday(d) /\ Covers(row[p].hours, h)
    /\ u = None \/ row[p].unit = None \/ row[p].unit = u

IsOpenThrough(d, u, h) ==
  u # None =>
    IF special[u][d] # None THEN \E w \in special[u][d] : Covers(w, h)
    ELSE opening[u] # {} =>
           \E o \in opening[u] : o.active /\ o.weekday = Weekday(d) /\ Covers(o.hours, h)

\* An absence takes its own dates and, if it repeats, those of the weeks after
Occurrences(a) ==
  LET span == row[a].span
      weeks == IF span.weekly THEN 0 .. LastDay ELSE {0}
  IN  {[start |-> span.start + k * Week * Day, end |-> span.end + k * Week * Day] :
         k \in {j \in weeks : \/ j = 0 \/ span.until = None
                              \/ span.start + j * Week * Day <= span.until}}

Away(a, u) == IsActive(a) /\ (u = None \/ row[a].unit = None \/ row[a].unit = u)
OverMidnight(a) == DayOf(row[a].span.start) # DayOf(row[a].span.end - 1)
Endless(a) == row[a].span.weekly /\ row[a].span.until = None
Questions == [day : Days, unit : Units \cup {None}, length : Lengths, moved : Taken \cup {None}]
Answer(q) == Available(q.day, q.unit, q.length, q.moved)

\* Every slot that is offered can be given: the professional works and the unit is open
\* all through it, no other appointment and no absence, on its dates or repeated, falls
\* into it, and the notice is kept. Three exceptions: an absence that repeats and goes over
\* midnight (its night is moved to the evening of each day); one that repeats without an
\* end, which is forgotten after its first dates where no unit is asked (its end is NULL,
\* which no date comes before); and the notice within the first day that keeps it (only
\* days are compared).
OfferedIsFree ==
  \A q \in Questions : \A slot \in Answer(q) :
    /\ \A minute \in slot.start - At(q.day, 0) .. slot.end - At(q.day, 0) - 1 :
         LET h == [start |-> minute, end |-> minute + 1] IN
         WorksThrough(q.day, q.unit, h) /\ IsOpenThrough(q.day, q.unit, h)
    /\ \A i \in Taken \ {q.moved} : ~Overlap(booked[i], slot)
    /\ \A a \in Absences : Away(a, q.unit) =>
         \/ row[a].span.weekly /\ OverMidnight(a)
         \/ \A o \in Occurrences(a) : Overlap(o, slot) =>
              Endless(a) /\ q.unit = None /\ o.start # row[a].span.start
    /\ slot.start >= now + Advance \/ DayOf(now + Advance) = q.day

\* Room is not withheld: where the professional works and the unit is open long enough
\* for the service, wherever the grid falls, and neither an appointment nor an absence is
\* in the way, a slot is offered, unless an absence that repeats has these hours on
\* another day.
RoomIsOffered ==
  \A q \in Questions : ~OutOfRange(q.day) =>
    LET length == q.length + Interval - 1
        answer == Answer(q)
    IN
    \A minute \in 0 .. Day - length :
      LET h == [start |-> minute, end |-> minute + length]
          room == [start |-> At(q.day, h.start), end |-> At(q.day, h.end)]
      IN  (/\ WorksThrough(q.day, q.unit, h) /\ IsOpenThrough(q.day, q.unit, h)
           /\ \A i \in Taken \ {q.moved} : ~Overlap(booked[i], room)
           /\ \A a \in Absences : Away(a, q.unit) =>
                /\ row[a].span.weekly => ~Overlap(SpanOn(a, q.day), room)
                /\ \A o \in Occurrences(a) : ~Overlap(o, room))
          => \E slot \in answer : Covers(room, slot)

\* Two active periods of a day, or two active absences, overlap only if one of them was
\* activated (which compares nothing) or was written by an edit that had read the table
\* before another wrote it.
ApartUnlessUnseen ==
  \A x, y \in Rows : (x # y /\ IsActive(x) /\ IsActive(y)) =>
    \/ {x, y} \cap unchecked # {}
    \/ {x, y} \subseteq Periods /\ ~Meet(row[x], row[y])
    \/ {x, y} \subseteq Absences /\ ~Overlap(row[x].span, row[y].span)
    \/ ~ \E table \in {Periods, Absences} : {x, y} \subseteq table
=============================================================================
