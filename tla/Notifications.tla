--------------------------- MODULE Notifications ----------------------------
(***************************************************************************)
(* The queue of notifications (modules/notifications): rows of             *)
(* notification_logs that the workers of the API's instances, one tick     *)
(* every minute, and manual retries claim by a conditional UPDATE, hand to *)
(* e-mail, push, WhatsApp or a webhook, and record by another UPDATE.  No  *)
(* step is in a transaction with another.                                  *)
(***************************************************************************)
EXTENDS Database, Integers, FiniteSets

CONSTANTS
  Notes,        \* the rows, numbered in the order of created_at
  Workers,      \* instances of the API, each with one worker
  Retries,      \* manual retries (a bound)
  MaxAttempts,  \* MAX_AUTOMATIC_ATTEMPTS
  BatchSize     \* batchSize of processPending

ASSUME NotificationsAssumption ==
  /\ Notes \subseteq Nat /\ IsFiniteSet(Notes)
  /\ MaxAttempts \in Nat /\ BatchSize \in Nat \ {0}
  /\ Workers \cap Retries = {}
  /\ None \notin Notes

VARIABLES
  log,        \* [Notes -> Row]: notification_logs
  pc,         \* where each execution is
  job,        \* the candidates each execution has read, and the one it attempts
  delivered,  \* [Notes -> Nat]: messages that left (history)
  stolen,     \* rows a retry claimed while they were PROCESSING (history)
  unsaved,    \* rows whose delivery was taken for a failure (history)
  lost        \* rows whose execution died (history)

queueVars == <<log, pc, job, delivered, stolen, unsaved, lost>>

Executions == Workers \cup Retries

Status == {"PENDING", "PROCESSING", "SENT", "FAILED", "SKIPPED"}

\* `rested`: updated_at is before the backoff; "none": not enqueued yet
Row == [status : Status \cup {"none"}, attempts : Nat, rested : BOOLEAN]

\* A row as it was read; attempts only for the properties
Candidate == [note : Notes, status : Status \ {"SENT"}, attempts : Nat]

Phases == {"ready", "claim", "attempt", "sent", "failed", "skipped", "done"}

\* From the claim to the record
Attempting == {"attempt", "sent", "failed", "skipped"}

QueueInit ==
  /\ log = [n \in Notes |-> [status |-> "none", attempts |-> 0, rested |-> FALSE]]
  /\ pc = [e \in Executions |-> "ready"]
  /\ job = [e \in Executions |-> [batch |-> {}, note |-> None]]
  /\ delivered = [n \in Notes |-> 0]
  /\ stolen = {} /\ unsaved = {} /\ lost = {}

-----------------------------------------------------------------------------
\* A worker is ready for its next tick, a retry is answered
Rest(e) == IF e \in Workers THEN "ready" ELSE "done"

Read(n) == [note |-> n, status |-> log[n].status, attempts |-> log[n].attempts]

\* enqueue: the unique key lets each notification in once
Enqueue(n) ==
  /\ log[n].status = "none"
  /\ \A m \in Notes : m < n => log[m].status # "none"
  /\ log' = [log EXCEPT ![n].status = "PENDING"]
  /\ UNCHANGED <<pc, job, delivered, stolen, unsaved, lost>>

\* BACKOFF_MINUTES_PER_ATTEMPT have passed since the last update
PassBackoff(n) ==
  /\ log[n].status = "FAILED" /\ ~log[n].rested
  /\ log' = [log EXCEPT ![n].rested = TRUE]
  /\ UNCHANGED <<pc, job, delivered, stolen, unsaved, lost>>

\* (fault) the backoff is not looked at
NoBackoff(n) ==
  \/ log[n].status = "PENDING"
  \/ log[n].status = "FAILED" /\ log[n].attempts < MaxAttempts

\* (fault) what failed once is left alone
FirstTryOnly(n) == log[n].status = "PENDING"

Eligible(n) ==
  \/ log[n].status = "PENDING"
  \/ log[n].status = "FAILED" /\ log[n].attempts < MaxAttempts /\ log[n].rested

\* The tick of worker w reads the oldest eligible rows
Select(w) ==
  LET due == {n \in Notes : Eligible(n)}
      oldest == {n \in due : Cardinality({m \in due : m < n}) < BatchSize}
  IN
  /\ pc[w] = "ready" /\ due # {}
  /\ job' = [job EXCEPT ![w] = [batch |-> {Read(n) : n \in oldest}, note |-> None]]
  /\ pc' = [pc EXCEPT ![w] = "claim"]
  /\ UNCHANGED <<log, delivered, stolen, unsaved, lost>>

Retriable(n) == log[n].status \notin {"none", "SENT"}

StartRetry(m) ==
  /\ pc[m] = "ready"
  /\ \E n \in Notes :
       /\ Retriable(n)
       /\ job' = [job EXCEPT ![m] = [batch |-> {Read(n)}, note |-> None]]
  /\ pc' = [pc EXCEPT ![m] = "claim"]
  /\ UNCHANGED <<log, delivered, stolen, unsaved, lost>>

-----------------------------------------------------------------------------
\* Candidates are taken in the order of created_at
Oldest(e, c) == c \in job[e].batch /\ \A d \in job[e].batch : c.note <= d.note

\* (fault) the UPDATE is not conditional
AnyStatus(c) == TRUE

Expected(c) == log[c.note].status = c.status

Claim(e) ==
  /\ pc[e] = "claim"
  /\ \E c \in job[e].batch :
       /\ Oldest(e, c) /\ Expected(c)
       /\ log' = [log EXCEPT ![c.note].status = "PROCESSING"]
       /\ job' = [job EXCEPT ![e] = [batch |-> job[e].batch \ {c}, note |-> c.note]]
       /\ stolen' = IF c.status = "PROCESSING" THEN stolen \cup {c.note} ELSE stolen
  /\ pc' = [pc EXCEPT ![e] = "attempt"]
  /\ UNCHANGED <<delivered, unsaved, lost>>

\* Another execution was faster
LoseClaim(e) ==
  /\ pc[e] = "claim"
  /\ \E c \in job[e].batch :
       /\ Oldest(e, c) /\ ~Expected(c)
       /\ job' = [job EXCEPT ![e] = [batch |-> job[e].batch \ {c}, note |-> None]]
       /\ pc' = [pc EXCEPT ![e] = IF job[e].batch = {c} THEN Rest(e) ELSE "claim"]
  /\ UNCHANGED <<log, delivered, stolen, unsaved, lost>>

Deliver(e) ==
  /\ pc[e] = "attempt"
  /\ pc' = [pc EXCEPT ![e] = "sent"]
  /\ delivered' = [delivered EXCEPT ![job[e].note] = @ + 1]
  /\ UNCHANGED <<log, job, stolen, unsaved, lost>>

\* The channel refuses the message, or is not configured
FailDelivery(e) ==
  /\ pc[e] = "attempt"
  /\ \E outcome \in {"failed", "skipped"} : pc' = [pc EXCEPT ![e] = outcome]
  /\ UNCHANGED <<log, job, delivered, stolen, unsaved, lost>>

\* After the delivery its answer, the touch of the subscription or the SENT
\* update fails: the catch takes it for a failed delivery (once a row: a bound)
MistakeDelivery(e) ==
  /\ pc[e] = "sent" /\ job[e].note \notin unsaved
  /\ pc' = [pc EXCEPT ![e] = "failed"]
  /\ unsaved' = unsaved \cup {job[e].note}
  /\ UNCHANGED <<log, job, delivered, stolen, lost>>

\* (fault) a delivery is recorded as a failure
AlwaysFailed(phase) == IF phase = "skipped" THEN "SKIPPED" ELSE "FAILED"

\* (fault) nothing is recorded when the channel is not configured
SkipSilently(phase) ==
  CASE phase = "sent" -> "SENT" [] phase = "failed" -> "FAILED" [] OTHER -> "PROCESSING"

Outcome(phase) ==
  CASE phase = "sent" -> "SENT" [] phase = "failed" -> "FAILED" [] OTHER -> "SKIPPED"

\* The UPDATE by id, whatever the row is by now
Record(e) ==
  /\ pc[e] \in {"sent", "failed", "skipped"}
  /\ log' = [log EXCEPT ![job[e].note] =
       [status |-> Outcome(pc[e]), attempts |-> @.attempts + 1, rested |-> FALSE]]
  /\ job' = [job EXCEPT ![e] = [batch |-> job[e].batch, note |-> None]]
  /\ pc' = [pc EXCEPT ![e] = IF job[e].batch = {} THEN Rest(e) ELSE "claim"]
  /\ UNCHANGED <<delivered, stolen, unsaved, lost>>

\* The process ends during an attempt, or the last UPDATE throws; what dies
\* between two attempts leaves nothing behind (once a row: a bound)
Die(e) ==
  /\ pc[e] \in Attempting /\ job[e].note \notin lost
  /\ lost' = lost \cup {job[e].note}
  /\ job' = [job EXCEPT ![e] = [batch |-> {}, note |-> None]]
  /\ pc' = [pc EXCEPT ![e] = Rest(e)]
  /\ UNCHANGED <<log, delivered, stolen, unsaved>>

Attempt(e) == Deliver(e) \/ FailDelivery(e)

Advance(e) == Claim(e) \/ LoseClaim(e) \/ Attempt(e) \/ Record(e)

QueueNext ==
  \/ \E n \in Notes : Enqueue(n) \/ PassBackoff(n)
  \/ \E w \in Workers : Select(w)
  \/ \E m \in Retries : StartRetry(m)
  \/ \E e \in Executions : Advance(e) \/ MistakeDelivery(e) \/ Die(e)

(***************************************************************************)
(* Time passes, the timer of a worker fires again and again (its earlier   *)
(* steps succeeding), and a request or a tick that has begun goes on.      *)
(***************************************************************************)
Fairness ==
  /\ \A n \in Notes : WF_queueVars(PassBackoff(n))
  /\ \A w \in Workers : WF_queueVars(Select(w))
  /\ \A e \in Executions : WF_queueVars(Advance(e))

QueueSpec == QueueInit /\ [][QueueNext]_queueVars /\ Fairness

-----------------------------------------------------------------------------
\* Candidates were never SENT, and an execution attempts what it has claimed.
QueueTypeOK ==
  /\ log \in [Notes -> Row]
  /\ pc \in [Executions -> Phases]
  /\ job \in [Executions -> [batch : SUBSET Candidate, note : Notes \cup {None}]]
  /\ \A e \in Executions : pc[e] \in Attempting <=> job[e].note # None
  /\ delivered \in [Notes -> Nat]
  /\ stolen \subseteq Notes /\ unsaved \subseteq Notes /\ lost \subseteq Notes

Attempts(e, n) == pc[e] \in Attempting /\ job[e].note = n

(***************************************************************************)
(* claim() keeps two executions, of one instance or of several, from       *)
(* attempting one notification at a time (docs/STATUS.md:130), unless a    *)
(* manual retry took over a row that was PROCESSING.                       *)
(***************************************************************************)
OneSender ==
  \A e, f \in Executions, n \in Notes :
    Attempts(e, n) /\ Attempts(f, n) /\ e # f => n \in stolen

(***************************************************************************)
(* A message leaves twice only after a retry took over a PROCESSING row or *)
(* a delivery was taken for a failure.                                     *)
(***************************************************************************)
DeliveredOnce == \A n \in Notes \ (stolen \cup unsaved) : delivered[n] <= 1

(***************************************************************************)
(* No notification stays PROCESSING with nobody at it, unless its          *)
(* execution died: nothing but a manual retry brings such a row back.      *)
(***************************************************************************)
ProcessingIsAttended ==
  \A n \in Notes \ lost :
    log[n].status = "PROCESSING" => \E e \in Executions : Attempts(e, n)

(***************************************************************************)
(* A worker retries what failed within the limit of attempts and after the *)
(* backoff (notification.service.ts:134-140); it misses either only when   *)
(* another execution attempted the row after the worker had read it.       *)
(***************************************************************************)
RetryPolicy ==
  [][\A w \in Workers : \A c \in job[w].batch :
       /\ pc[w] = "claim" /\ pc'[w] = "attempt" /\ job'[w].note = c.note
       /\ c.status = "FAILED" /\ log[c.note].attempts = c.attempts
       => c.attempts < MaxAttempts /\ log[c.note].rested]_queueVars

Settled(n) ==
  \/ log[n].status \in {"SENT", "SKIPPED"}
  \/ log[n].status = "FAILED" /\ log[n].attempts >= MaxAttempts

(***************************************************************************)
(* What is enqueued is eventually delivered, skipped or tried as often as  *)
(* the limit says (docs/STATUS.md:130), unless its execution dies.         *)
(***************************************************************************)
Settles == \A n \in Notes : log[n].status = "PENDING" ~> Settled(n) \/ n \in lost
=============================================================================
