--------------------------- MODULE PlatformProofs ---------------------------
(***************************************************************************)
(* Proofs about the parts of the platform around its agenda, which share   *)
(* the database and nothing else: the queue of notifications, for any      *)
(* number of rows, instances and retries; the account of an address, for   *)
(* any number of requests, passwords, tokens and establishments; and the   *)
(* commercial life of establishments, for any number of subscriptions,     *)
(* administrators and workers.                                             *)
(***************************************************************************)
EXTENDS Notifications, Accounts, Commercial, SequenceTheorems, TLAPS

(***************************************************************************)
(* Notifications                                                           *)
(***************************************************************************)

\* Unless a retry took n over, whoever attempts it is alone and has claimed it
ClaimInv(n) ==
  /\ \A e, f \in Executions : Attempts(e, n) /\ Attempts(f, n) => e = f
  /\ \A e \in Executions : Attempts(e, n) => log[n].status = "PROCESSING"

\* What was neither delivered nor is being delivered has not left yet
DeliveryInv(n) ==
  /\ delivered[n] <= 1
  /\ log[n].status \notin {"PROCESSING", "SENT"} => delivered[n] = 0
  /\ \A e \in Executions : Attempts(e, n) /\ pc[e] # "sent" => delivered[n] = 0

\* A candidate that nobody attempted since it was read is as it was
CandidateInv(w, c) ==
  /\ c.attempts <= log[c.note].attempts
  /\ c.status = "FAILED" /\ log[c.note].attempts = c.attempts =>
       c.attempts < MaxAttempts /\ log[c.note].rested

QueueInv ==
  /\ QueueTypeOK
  /\ \A n \in Notes \ stolen : ClaimInv(n)
  /\ \A n \in Notes \ (stolen \cup unsaved) : DeliveryInv(n)
  /\ ProcessingIsAttended
  /\ \A w \in Workers : \A c \in job[w].batch : CandidateInv(w, c)

-----------------------------------------------------------------------------
\* A row as it is read is a candidate unless it is SENT or not there.
LEMMA ReadType ==
  ASSUME QueueTypeOK, NEW n \in Notes, log[n].status \notin {"none", "SENT"}
  PROVE  /\ Read(n) \in Candidate
         /\ Read(n).note = n
         /\ Read(n).status = log[n].status
         /\ Read(n).attempts = log[n].attempts
BY DEF QueueTypeOK, Read, Candidate, Row, Status

\* An execution that rests is not at anything.
LEMMA RestType ==
  ASSUME NEW e
  PROVE  Rest(e) \in Phases /\ Rest(e) \notin Attempting
BY DEF Rest, Phases, Attempting

LEMMA QueueInitInv == QueueInit => QueueInv
<1> SUFFICES ASSUME QueueInit PROVE QueueInv
  OBVIOUS
<1>1. QueueTypeOK
  BY NotificationsAssumption DEF QueueInit, QueueTypeOK, Row, Status, Phases, Attempting
<1>2. \A e \in Executions, n \in Notes : ~Attempts(e, n)
  BY DEF QueueInit, Attempts, Attempting
<1>3. \A n \in Notes : ClaimInv(n) /\ DeliveryInv(n)
  BY <1>2 DEF QueueInit, ClaimInv, DeliveryInv
<1>4. ProcessingIsAttended
  BY DEF QueueInit, ProcessingIsAttended
<1> QED BY <1>1, <1>3, <1>4 DEF QueueInv, QueueInit, Executions

-----------------------------------------------------------------------------
(***************************************************************************)
(* What each step does, in terms of the rows and the executions.           *)
(***************************************************************************)
\* Steps of a row: enqueued, or its backoff over
LEMMA NoteStep ==
  ASSUME QueueInv, NEW n \in Notes, Enqueue(n) \/ PassBackoff(n)
  PROVE  QueueInv'
<1> USE DEF QueueInv
<1>0. log \in [Notes -> Row] /\ log[n] \in Row
  BY DEF QueueTypeOK
<1>1. /\ UNCHANGED <<pc, job, delivered, stolen, unsaved, lost>>
      /\ log' = [log EXCEPT ![n] = log'[n]]
      /\ log'[n] \in Row
      /\ log'[n].attempts = log[n].attempts
      /\ log[n].rested => log'[n].rested
      /\ log[n].status \in {"none", "FAILED"}
      /\ log'[n].status \in {"PENDING", "FAILED"}
  <2>1. CASE Enqueue(n)
    <3>1. log' = [log EXCEPT ![n] = [log[n] EXCEPT !.status = "PENDING"]]
      BY <2>1 DEF Enqueue
    <3>2. /\ log'[n] = [log[n] EXCEPT !.status = "PENDING"]
          /\ log' = [log EXCEPT ![n] = log'[n]]
      BY <3>1, <1>0
    <3> QED BY <3>2, <2>1, <1>0 DEF Enqueue, Row, Status
  <2>2. CASE PassBackoff(n)
    <3>1. log' = [log EXCEPT ![n] = [log[n] EXCEPT !.rested = TRUE]]
      BY <2>2 DEF PassBackoff
    <3>2. /\ log'[n] = [log[n] EXCEPT !.rested = TRUE]
          /\ log' = [log EXCEPT ![n] = log'[n]]
      BY <3>1, <1>0
    <3>3. log'[n] \in Row /\ log'[n].attempts = log[n].attempts /\ log'[n].status = log[n].status
      BY <3>2, <1>0 DEF Row, Status
    <3>4. log'[n].rested
      BY <3>2, <1>0 DEF Row
    <3> QED BY <3>2, <3>3, <3>4, <2>2, <1>0 DEF PassBackoff
  <2> QED BY <2>1, <2>2
<1>2. QueueTypeOK'
  BY <1>1 DEF QueueTypeOK
<1>3. \A e \in Executions, m \in Notes : Attempts(e, m)' <=> Attempts(e, m)
  BY <1>1 DEF Attempts
<1>4. \A m \in Notes : m # n => log'[m] = log[m]
  BY <1>1 DEF QueueTypeOK
<1>5. \A m \in Notes \ stolen' : ClaimInv(m)'
  BY <1>1, <1>3, <1>4 DEF ClaimInv
<1>6. \A m \in Notes \ (stolen \cup unsaved)' : DeliveryInv(m)'
  BY <1>1, <1>3, <1>4 DEF DeliveryInv
<1>7. ProcessingIsAttended'
  BY <1>1, <1>3, <1>4 DEF ProcessingIsAttended
<1>8. \A w \in Workers : \A c \in job'[w].batch : CandidateInv(w, c)'
  <2> SUFFICES ASSUME NEW w \in Workers, NEW c \in job'[w].batch PROVE CandidateInv(w, c)'
    OBVIOUS
  <2>1. c \in Candidate /\ CandidateInv(w, c)
    BY <1>1 DEF QueueTypeOK, Executions
  <2> QED BY <2>1, <1>1, <1>4 DEF CandidateInv, Candidate
<1> QED BY <1>2, <1>5, <1>6, <1>7, <1>8

\* Steps that read candidates: nobody attempts more or less than before
LEMMA ReadStep ==
  ASSUME QueueInv, (\E w \in Workers : Select(w)) \/ (\E m \in Retries : StartRetry(m))
  PROVE  QueueInv'
<1> USE DEF QueueInv
<1>1. PICK e \in Executions, B \in SUBSET Candidate :
        /\ pc[e] = "ready"
        /\ pc' = [pc EXCEPT ![e] = "claim"]
        /\ job' = [job EXCEPT ![e] = [batch |-> B, note |-> None]]
        /\ e \in Workers => \A c \in B : CandidateInv(e, c)
        /\ UNCHANGED <<log, delivered, stolen, unsaved, lost>>
  <2>1. CASE \E w \in Workers : Select(w)
    <3>1. PICK w \in Workers : Select(w)
      BY <2>1
    <3> DEFINE due == {n \in Notes : Eligible(n)}
               oldest == {n \in due : Cardinality({m \in due : m < n}) < BatchSize}
               B == {Read(n) : n \in oldest}
    <3>2. \A n \in oldest : /\ n \in Notes /\ Read(n) \in Candidate
                            /\ CandidateInv(w, Read(n))
      <4> SUFFICES ASSUME NEW n \in oldest
                   PROVE  /\ n \in Notes /\ Read(n) \in Candidate
                          /\ CandidateInv(w, Read(n))
        OBVIOUS
      <4>1. n \in Notes /\ Eligible(n)
        OBVIOUS
      <4>2. log[n].status \notin {"none", "SENT"} /\ log[n].attempts \in Nat
        BY <4>1 DEF Eligible, QueueTypeOK, Row
      <4> QED BY <4>1, <4>2, ReadType, NotificationsAssumption DEF CandidateInv, Eligible
    <3>3. B \in SUBSET Candidate /\ \A c \in B : CandidateInv(w, c)
      BY <3>2
    <3> HIDE DEF B, oldest
    <3>4. /\ pc[w] = "ready"
          /\ pc' = [pc EXCEPT ![w] = "claim"]
          /\ job' = [job EXCEPT ![w] = [batch |-> B, note |-> None]]
          /\ UNCHANGED <<log, delivered, stolen, unsaved, lost>>
      BY <3>1 DEF Select, B, oldest
    <3>5. w \in Executions
      BY DEF Executions
    <3> QED BY <3>3, <3>4, <3>5
  <2>2. CASE \E m \in Retries : StartRetry(m)
    <3>1. PICK m \in Retries : StartRetry(m)
      BY <2>2
    <3>2. PICK n \in Notes : /\ Retriable(n)
                             /\ job' = [job EXCEPT ![m] = [batch |-> {Read(n)}, note |-> None]]
      BY <3>1 DEF StartRetry
    <3>3. Read(n) \in Candidate
      BY <3>2, ReadType DEF Retriable
    <3>4. m \in Executions /\ m \notin Workers
      BY NotificationsAssumption DEF Executions
    <3>5. {Read(n)} \in SUBSET Candidate
      BY <3>3
    <3>6. /\ pc[m] = "ready"
          /\ pc' = [pc EXCEPT ![m] = "claim"]
          /\ UNCHANGED <<log, delivered, stolen, unsaved, lost>>
      BY <3>1 DEF StartRetry
    <3> QED BY <3>2, <3>4, <3>5, <3>6
  <2> QED BY <2>1, <2>2
<1>2. /\ pc'[e] = "claim" /\ job'[e].note = None /\ job'[e].batch = B
      /\ \A f \in Executions : f # e => pc'[f] = pc[f] /\ job'[f] = job[f]
  BY <1>1 DEF QueueTypeOK
<1>3. QueueTypeOK'
  <2>1. job' \in [Executions -> [batch : SUBSET Candidate, note : Notes \cup {None}]]
    BY <1>1 DEF QueueTypeOK
  <2>2. pc' \in [Executions -> Phases]
    BY <1>1 DEF QueueTypeOK, Phases
  <2>3. \A f \in Executions : pc'[f] \in Attempting <=> job'[f].note # None
    BY <1>2 DEF QueueTypeOK, Attempting
  <2> QED BY <1>1, <2>1, <2>2, <2>3 DEF QueueTypeOK
<1>4. \A f \in Executions, m \in Notes : Attempts(f, m)' <=> Attempts(f, m)
  BY <1>1, <1>2 DEF Attempts, Attempting
<1>5. \A f \in Executions, m \in Notes : Attempts(f, m) => pc'[f] = pc[f]
  BY <1>1, <1>2 DEF Attempts, Attempting
<1>6. \A m \in Notes \ stolen' : ClaimInv(m)'
  BY <1>1, <1>4 DEF ClaimInv
<1>7. \A m \in Notes \ (stolen \cup unsaved)' : DeliveryInv(m)'
  BY <1>1, <1>4, <1>5 DEF DeliveryInv
<1>8. ProcessingIsAttended'
  BY <1>1, <1>4 DEF ProcessingIsAttended
<1>9. \A w \in Workers : \A c \in job'[w].batch : CandidateInv(w, c)'
  BY <1>1, <1>2 DEF CandidateInv, Executions
<1> QED BY <1>3, <1>6, <1>7, <1>8, <1>9

-----------------------------------------------------------------------------
(***************************************************************************)
(* The attempts of one execution e.                                        *)
(***************************************************************************)
\* The claim: the row becomes PROCESSING, and stolen if it already was
LEMMA ClaimStep ==
  ASSUME QueueInv, NEW e \in Executions, Claim(e)
  PROVE  QueueInv'
<1> USE DEF QueueInv
<1>1. PICK c \in job[e].batch :
        /\ Expected(c)
        /\ log' = [log EXCEPT ![c.note].status = "PROCESSING"]
        /\ job' = [job EXCEPT ![e] = [batch |-> job[e].batch \ {c}, note |-> c.note]]
        /\ stolen' = IF c.status = "PROCESSING" THEN stolen \cup {c.note} ELSE stolen
  BY DEF Claim
<1> DEFINE n == c.note
<1>2. /\ pc[e] = "claim" /\ pc' = [pc EXCEPT ![e] = "attempt"]
      /\ UNCHANGED <<delivered, unsaved, lost>>
  BY DEF Claim
<1>3. c \in Candidate /\ n \in Notes /\ log[n] \in Row /\ log \in [Notes -> Row]
  BY DEF QueueTypeOK, Candidate
<1>4. /\ log' \in [Notes -> Row] /\ log'[n].status = "PROCESSING"
      /\ log'[n].attempts = log[n].attempts /\ log'[n].rested = log[n].rested
      /\ \A m \in Notes : m # n => log'[m] = log[m]
  <2>1. log' = [log EXCEPT ![n] = [log[n] EXCEPT !.status = "PROCESSING"]]
    BY <1>1
  <2>2. [log[n] EXCEPT !.status = "PROCESSING"] \in Row
    BY <1>3 DEF Row, Status
  <2>3. log'[n] = [log[n] EXCEPT !.status = "PROCESSING"]
    BY <2>1, <1>3
  <2> QED BY <2>1, <2>2, <2>3, <1>3 DEF Row
<1>5. /\ pc'[e] = "attempt" /\ job'[e] = [batch |-> job[e].batch \ {c}, note |-> n]
      /\ \A f \in Executions : f # e => pc'[f] = pc[f] /\ job'[f] = job[f]
  BY <1>1, <1>2 DEF QueueTypeOK
<1>6. QueueTypeOK'
  <2>1. job[e].batch \ {c} \in SUBSET Candidate
    BY DEF QueueTypeOK
  <2>2. job' \in [Executions -> [batch : SUBSET Candidate, note : Notes \cup {None}]]
    BY <1>1, <1>3, <2>1 DEF QueueTypeOK
  <2>3. pc' \in [Executions -> Phases]
    BY <1>2 DEF QueueTypeOK, Phases
  <2>4. \A f \in Executions : pc'[f] \in Attempting <=> job'[f].note # None
    BY <1>3, <1>5, NotificationsAssumption DEF QueueTypeOK, Attempting
  <2>5. stolen' \subseteq Notes
    BY <1>1, <1>3 DEF QueueTypeOK
  <2> QED BY <1>2, <1>4, <2>2, <2>3, <2>4, <2>5 DEF QueueTypeOK
<1>7. \A f \in Executions, m \in Notes :
        Attempts(f, m)' <=> IF f = e THEN m = n ELSE Attempts(f, m)
  BY <1>5 DEF Attempts, Attempting
<1>8. \A m \in Notes : ~Attempts(e, m)
  BY <1>2 DEF Attempts, Attempting
<1>9. n \notin stolen' => n \notin stolen /\ log[n].status # "PROCESSING" /\ log[n].status # "SENT"
  BY <1>1, <1>3 DEF Expected, Candidate, Status
<1>10. \A m \in Notes : m \notin stolen' => m \notin stolen
  BY <1>1
<1>11. ASSUME NEW m \in Notes, m \notin stolen' PROVE ClaimInv(m)'
  <2>1. m \notin stolen /\ ClaimInv(m)
    BY <1>10, <1>11
  <2>2. CASE m = n
    <3>1. \A f \in Executions : ~Attempts(f, n)
      BY <1>9, <1>11, <2>1, <2>2 DEF ClaimInv
    <3> QED BY <3>1, <2>2, <1>4, <1>7 DEF ClaimInv
  <2>3. CASE m # n
    BY <2>1, <2>3, <1>4, <1>7, <1>8 DEF ClaimInv
  <2> QED BY <2>2, <2>3
<1>12. ASSUME NEW m \in Notes, m \notin stolen', m \notin unsaved' PROVE DeliveryInv(m)'
  <2>1. m \notin stolen /\ m \notin unsaved /\ DeliveryInv(m)
    BY <1>2, <1>10, <1>12
  <2>2. CASE m = n
    <3>1. delivered[n] = 0
      BY <1>9, <1>12, <2>1, <2>2 DEF DeliveryInv
    <3> QED BY <3>1, <2>2, <1>2 DEF DeliveryInv
  <2>3. CASE m # n
    BY <2>1, <2>3, <1>2, <1>4, <1>5, <1>7 DEF DeliveryInv
  <2> QED BY <2>2, <2>3
<1>13. ProcessingIsAttended'
  <2> SUFFICES ASSUME NEW m \in Notes, m \notin lost', log'[m].status = "PROCESSING"
               PROVE  \E f \in Executions : Attempts(f, m)'
    BY DEF ProcessingIsAttended
  <2>1. CASE m = n
    BY <2>1, <1>7
  <2>2. CASE m # n
    <3>1. PICK f \in Executions : Attempts(f, m)
      BY <2>2, <1>2, <1>4 DEF ProcessingIsAttended
    <3> QED BY <3>1, <1>7, <1>8
  <2> QED BY <2>1, <2>2
<1>14. ASSUME NEW w \in Workers, NEW d \in job'[w].batch PROVE CandidateInv(w, d)'
  <2>1. w \in Executions /\ d \in job[w].batch
    BY <1>5, <1>14 DEF Executions
  <2>2. d \in Candidate /\ d.note \in Notes /\ CandidateInv(w, d)
    BY <2>1 DEF QueueTypeOK, Candidate
  <2> QED BY <2>2, <1>4 DEF CandidateInv
<1> QED BY <1>6, <1>11, <1>12, <1>13, <1>14

\* A candidate is given up: nobody attempts more or less than before
LEMMA LoseClaimStep ==
  ASSUME QueueInv, NEW e \in Executions, LoseClaim(e)
  PROVE  QueueInv'
<1> USE DEF QueueInv
<1>1. PICK c \in job[e].batch :
        /\ job' = [job EXCEPT ![e] = [batch |-> job[e].batch \ {c}, note |-> None]]
        /\ pc' = [pc EXCEPT ![e] = IF job[e].batch = {c} THEN Rest(e) ELSE "claim"]
  BY DEF LoseClaim
<1>2. pc[e] = "claim" /\ UNCHANGED <<log, delivered, stolen, unsaved, lost>>
  BY DEF LoseClaim
<1>3. /\ job'[e] = [batch |-> job[e].batch \ {c}, note |-> None]
      /\ pc'[e] \in Phases /\ pc'[e] \notin Attempting
      /\ \A f \in Executions : f # e => pc'[f] = pc[f] /\ job'[f] = job[f]
  BY <1>1, RestType DEF QueueTypeOK, Phases, Attempting
<1>4. QueueTypeOK'
  <2>1. job[e].batch \ {c} \in SUBSET Candidate
    BY DEF QueueTypeOK
  <2>2. job' \in [Executions -> [batch : SUBSET Candidate, note : Notes \cup {None}]]
    BY <1>1, <2>1 DEF QueueTypeOK
  <2>3. pc' \in [Executions -> Phases]
    BY <1>1, <1>3 DEF QueueTypeOK
  <2>4. \A f \in Executions : pc'[f] \in Attempting <=> job'[f].note # None
    BY <1>3 DEF QueueTypeOK
  <2> QED BY <1>2, <2>2, <2>3, <2>4 DEF QueueTypeOK
<1>5. \A f \in Executions, m \in Notes :
        /\ Attempts(f, m)' <=> Attempts(f, m)
        /\ Attempts(f, m) => pc'[f] = pc[f]
  BY <1>2, <1>3 DEF Attempts, Attempting
<1>6. \A m \in Notes \ stolen' : ClaimInv(m)'
  BY <1>2, <1>5 DEF ClaimInv
<1>7. \A m \in Notes \ (stolen \cup unsaved)' : DeliveryInv(m)'
  BY <1>2, <1>5 DEF DeliveryInv
<1>8. ProcessingIsAttended'
  BY <1>2, <1>5 DEF ProcessingIsAttended
<1>9. \A w \in Workers : \A d \in job'[w].batch : CandidateInv(w, d)'
  BY <1>2, <1>3 DEF CandidateInv, Executions
<1> QED BY <1>4, <1>6, <1>7, <1>8, <1>9

\* The attempt proper, from the delivery to its mistaken failure
LEMMA AttemptStep ==
  ASSUME QueueInv, NEW e \in Executions, Attempt(e) \/ MistakeDelivery(e)
  PROVE  QueueInv'
<1> USE DEF QueueInv
<1> DEFINE n == job[e].note
<1>1. /\ pc[e] \in Attempting
      /\ pc' = [pc EXCEPT ![e] = pc'[e]] /\ pc'[e] \in {"sent", "failed", "skipped"}
      /\ UNCHANGED <<log, job, stolen, lost>>
      /\ \/ /\ pc[e] = "attempt" /\ delivered' = [delivered EXCEPT ![n] = @ + 1]
            /\ pc'[e] = "sent" /\ unsaved' = unsaved
         \/ pc[e] = "attempt" /\ delivered' = delivered /\ unsaved' = unsaved
         \/ delivered' = delivered /\ unsaved' = unsaved \cup {n}
  BY DEF Attempt, Deliver, FailDelivery, MistakeDelivery, QueueTypeOK, Attempting
<1>2. n \in Notes
  BY <1>1 DEF QueueTypeOK
<1>3. QueueTypeOK'
  <2>1. pc' \in [Executions -> Phases]
    BY <1>1 DEF QueueTypeOK, Phases
  <2>2. delivered' \in [Notes -> Nat] /\ unsaved' \subseteq Notes
    BY <1>1, <1>2 DEF QueueTypeOK
  <2>3. \A f \in Executions : pc'[f] \in Attempting <=> job'[f].note # None
    BY <1>1 DEF QueueTypeOK, Attempting
  <2> QED BY <1>1, <2>1, <2>2, <2>3 DEF QueueTypeOK
<1>4. \A f \in Executions, m \in Notes : Attempts(f, m)' <=> Attempts(f, m)
  BY <1>1 DEF Attempts, Attempting, QueueTypeOK
<1>5. Attempts(e, n)
  BY <1>1 DEF Attempts
<1>6. \A m \in Notes \ stolen' : ClaimInv(m)'
  BY <1>1, <1>4 DEF ClaimInv
<1>7. ASSUME NEW m \in Notes, m \notin stolen', m \notin unsaved' PROVE DeliveryInv(m)'
  <2>1. m \notin stolen /\ m \notin unsaved /\ DeliveryInv(m) /\ ClaimInv(m)
    BY <1>1, <1>7
  <2>2. CASE m # n
    <3>1. \A f \in Executions : Attempts(f, m) => pc'[f] = pc[f]
      BY <2>2, <1>1 DEF Attempts, QueueTypeOK
    <3>2. delivered'[m] = delivered[m]
      BY <2>2, <1>1 DEF QueueTypeOK
    <3> QED BY <2>1, <3>1, <3>2, <1>1, <1>4 DEF DeliveryInv
  <2>3. CASE m = n
    <3>1. pc[e] = "attempt"
      BY <2>3, <1>1, <1>7
    <3>2. delivered[n] = 0 /\ log[n].status = "PROCESSING"
      BY <3>1, <2>1, <2>3, <1>5 DEF DeliveryInv, ClaimInv
    <3>3. \A f \in Executions : Attempts(f, n) => f = e
      BY <2>1, <2>3, <1>5 DEF ClaimInv
    <3>4. \/ delivered' = delivered
          \/ delivered' = [delivered EXCEPT ![n] = delivered[n] + 1] /\ pc'[e] = "sent"
      BY <1>1
    <3>5. delivered' = delivered => delivered'[n] = 0
      BY <3>2
    <3>6. delivered' = [delivered EXCEPT ![n] = delivered[n] + 1] => delivered'[n] = 1
      BY <3>2, <1>2 DEF QueueTypeOK
    <3>7. delivered'[n] = 0 \/ (delivered'[n] = 1 /\ pc'[e] = "sent")
      BY <3>4, <3>5, <3>6
    <3> QED BY <2>3, <3>2, <3>3, <3>7, <1>1, <1>4 DEF DeliveryInv
  <2> QED BY <2>2, <2>3
<1>8. ProcessingIsAttended'
  BY <1>1, <1>4 DEF ProcessingIsAttended
<1>9. \A w \in Workers : \A d \in job'[w].batch : CandidateInv(w, d)'
  BY <1>1 DEF CandidateInv, Executions
<1> QED BY <1>3, <1>6, <1>7, <1>8, <1>9

\* The record: the row leaves PROCESSING with one attempt more
LEMMA RecordStep ==
  ASSUME QueueInv, NEW e \in Executions, Record(e)
  PROVE  QueueInv'
<1> USE DEF QueueInv
<1> DEFINE n == job[e].note
           row == [status |-> Outcome(pc[e]), attempts |-> log[n].attempts + 1, rested |-> FALSE]
<1>1. /\ pc[e] \in {"sent", "failed", "skipped"}
      /\ log' = [log EXCEPT ![n] = row]
      /\ job' = [job EXCEPT ![e] = [batch |-> job[e].batch, note |-> None]]
      /\ pc' = [pc EXCEPT ![e] = IF job[e].batch = {} THEN Rest(e) ELSE "claim"]
      /\ UNCHANGED <<delivered, stolen, unsaved, lost>>
  BY DEF Record
<1>2. n \in Notes /\ log[n].attempts \in Nat /\ Attempts(e, n)
  BY <1>1 DEF QueueTypeOK, Row, Attempts, Attempting
<1>3. /\ row \in Row /\ row.status \in {"SENT", "FAILED", "SKIPPED"}
      /\ row.status = "SENT" <=> pc[e] = "sent"
  BY <1>1, <1>2 DEF Outcome, Row, Status
<1>4. /\ log'[n].status = row.status /\ log'[n].attempts = log[n].attempts + 1
      /\ \A m \in Notes : m # n => log'[m] = log[m]
  BY <1>1, <1>2 DEF QueueTypeOK
<1> HIDE DEF row
<1>5. /\ job'[e] = [batch |-> job[e].batch, note |-> None]
      /\ pc'[e] \in Phases /\ pc'[e] \notin Attempting
      /\ \A f \in Executions : f # e => pc'[f] = pc[f] /\ job'[f] = job[f]
  BY <1>1, RestType DEF QueueTypeOK, Phases, Attempting
<1>6. QueueTypeOK'
  <2>1. job' \in [Executions -> [batch : SUBSET Candidate, note : Notes \cup {None}]]
    BY <1>1 DEF QueueTypeOK
  <2>2. pc' \in [Executions -> Phases]
    BY <1>1, <1>5 DEF QueueTypeOK
  <2>3. \A f \in Executions : pc'[f] \in Attempting <=> job'[f].note # None
    BY <1>5 DEF QueueTypeOK
  <2>4. log' \in [Notes -> Row]
    BY <1>1, <1>3 DEF QueueTypeOK
  <2> QED BY <1>1, <2>1, <2>2, <2>3, <2>4 DEF QueueTypeOK
<1>7. \A f \in Executions, m \in Notes :
        /\ Attempts(f, m)' <=> Attempts(f, m) /\ f # e
        /\ f # e => pc'[f] = pc[f]
  BY <1>5 DEF Attempts
<1>8. ASSUME NEW m \in Notes, m \notin stolen' PROVE ClaimInv(m)'
  <2>1. ClaimInv(m)
    BY <1>1, <1>8
  <2>2. \A f \in Executions : Attempts(f, m)' => m # n
    BY <2>1, <1>2, <1>7 DEF ClaimInv
  <2> QED BY <2>1, <2>2, <1>4, <1>7 DEF ClaimInv
<1>9. ASSUME NEW m \in Notes, m \notin stolen', m \notin unsaved' PROVE DeliveryInv(m)'
  <2>1. DeliveryInv(m)
    BY <1>1, <1>9
  <2>2. CASE m # n
    BY <2>1, <2>2, <1>1, <1>4, <1>7 DEF DeliveryInv
  <2>3. CASE m = n
    <3>1. delivered[n] <= 1 /\ (log'[n].status # "SENT" => delivered[n] = 0)
      BY <2>1, <2>3, <1>2, <1>3, <1>4 DEF DeliveryInv
    <3>2. ClaimInv(m)
      BY <1>1, <1>9
    <3>3. \A f \in Executions : ~Attempts(f, m)'
      BY <3>2, <2>3, <1>2, <1>7 DEF ClaimInv
    <3> QED BY <2>3, <3>1, <3>3, <1>1 DEF DeliveryInv
  <2> QED BY <2>2, <2>3
<1>10. ProcessingIsAttended'
  <2> SUFFICES ASSUME NEW m \in Notes, m \notin lost', log'[m].status = "PROCESSING"
               PROVE  \E f \in Executions : Attempts(f, m)'
    BY DEF ProcessingIsAttended
  <2>1. m # n
    BY <1>3, <1>4
  <2>2. PICK f \in Executions : Attempts(f, m)
    BY <2>1, <1>1, <1>4 DEF ProcessingIsAttended
  <2> QED BY <2>1, <2>2, <1>7 DEF Attempts
<1>11. ASSUME NEW w \in Workers, NEW d \in job'[w].batch PROVE CandidateInv(w, d)'
  <2>1. w \in Executions /\ d \in job[w].batch
    BY <1>5, <1>11 DEF Executions
  <2>2. d \in Candidate /\ d.note \in Notes /\ d.attempts \in Nat /\ CandidateInv(w, d)
    BY <2>1 DEF QueueTypeOK, Candidate
  <2>3. CASE d.note = n
    <3>1. log'[d.note].attempts > d.attempts
      BY <2>2, <2>3, <1>2, <1>4 DEF CandidateInv
    <3>2. log'[d.note].attempts # d.attempts /\ d.attempts <= log'[d.note].attempts
      BY <3>1, <2>2, <2>3, <1>2, <1>4
    <3> QED BY <3>2 DEF CandidateInv
  <2>4. CASE d.note # n
    BY <2>2, <2>4, <1>4 DEF CandidateInv
  <2> QED BY <2>3, <2>4
<1> QED BY <1>6, <1>8, <1>9, <1>10, <1>11

\* The end of an execution: its row joins the lost
LEMMA DieStep ==
  ASSUME QueueInv, NEW e \in Executions, Die(e)
  PROVE  QueueInv'
<1> USE DEF QueueInv
<1> DEFINE n == job[e].note
<1>1. /\ pc[e] \in Attempting
      /\ lost' = lost \cup {n}
      /\ job' = [job EXCEPT ![e] = [batch |-> {}, note |-> None]]
      /\ pc' = [pc EXCEPT ![e] = Rest(e)]
      /\ UNCHANGED <<log, delivered, stolen, unsaved>>
  BY DEF Die
<1>2. n \in Notes
  BY <1>1 DEF QueueTypeOK
<1>3. /\ job'[e] = [batch |-> {}, note |-> None]
      /\ pc'[e] \in Phases /\ pc'[e] \notin Attempting
      /\ \A f \in Executions : f # e => pc'[f] = pc[f] /\ job'[f] = job[f]
  BY <1>1, RestType DEF QueueTypeOK
<1>4. QueueTypeOK'
  <2>1. job' \in [Executions -> [batch : SUBSET Candidate, note : Notes \cup {None}]]
    BY <1>1 DEF QueueTypeOK
  <2>2. pc' \in [Executions -> Phases]
    BY <1>1, <1>3 DEF QueueTypeOK
  <2>3. \A f \in Executions : pc'[f] \in Attempting <=> job'[f].note # None
    BY <1>3 DEF QueueTypeOK
  <2> QED BY <1>1, <1>2, <2>1, <2>2, <2>3 DEF QueueTypeOK
<1>5. \A f \in Executions, m \in Notes :
        /\ Attempts(f, m)' <=> Attempts(f, m) /\ f # e
        /\ f # e => pc'[f] = pc[f]
  BY <1>3 DEF Attempts
<1>6. \A m \in Notes \ stolen' : ClaimInv(m)'
  BY <1>1, <1>5 DEF ClaimInv
<1>7. \A m \in Notes \ (stolen \cup unsaved)' : DeliveryInv(m)'
  BY <1>1, <1>5 DEF DeliveryInv
<1>8. ProcessingIsAttended'
  <2> SUFFICES ASSUME NEW m \in Notes, m \notin lost', log'[m].status = "PROCESSING"
               PROVE  \E f \in Executions : Attempts(f, m)'
    BY DEF ProcessingIsAttended
  <2>1. m # n /\ m \notin lost
    BY <1>1
  <2>2. PICK f \in Executions : Attempts(f, m)
    BY <2>1, <1>1 DEF ProcessingIsAttended
  <2> QED BY <2>1, <2>2, <1>5 DEF Attempts
<1>9. \A w \in Workers : \A d \in job'[w].batch : CandidateInv(w, d)'
  BY <1>1, <1>3 DEF CandidateInv, Executions
<1> QED BY <1>4, <1>6, <1>7, <1>8, <1>9

-----------------------------------------------------------------------------
LEMMA QueueStep == QueueInv /\ [QueueNext]_queueVars => QueueInv'
<1> SUFFICES ASSUME QueueInv, [QueueNext]_queueVars PROVE QueueInv'
  OBVIOUS
<1>1. CASE \E n \in Notes : Enqueue(n) \/ PassBackoff(n)
  BY <1>1, NoteStep
<1>2. CASE (\E w \in Workers : Select(w)) \/ (\E m \in Retries : StartRetry(m))
  BY <1>2, ReadStep
<1>3. CASE \E e \in Executions : Advance(e) \/ MistakeDelivery(e) \/ Die(e)
  BY <1>3, ClaimStep, LoseClaimStep, AttemptStep, RecordStep, DieStep DEF Advance
<1>4. CASE UNCHANGED queueVars
  BY <1>4 DEF queueVars, QueueInv, QueueTypeOK, ClaimInv, DeliveryInv, CandidateInv,
              ProcessingIsAttended, Attempts
<1> QED BY <1>1, <1>2, <1>3, <1>4 DEF QueueNext

(***************************************************************************)
(* The rows, the claims and the candidates agree with each other, whatever *)
(* the workers and the manual retries of notification.service.ts do.       *)
(***************************************************************************)
THEOREM QueueInvariant == QueueSpec => []QueueInv
BY QueueInitInv, QueueStep, PTL DEF QueueSpec

\* Every variable of the queue keeps its type.
THEOREM QueueTyped == QueueSpec => []QueueTypeOK
<1>1. QueueInv => QueueTypeOK
  BY DEF QueueInv
<1> QED BY <1>1, QueueInvariant, PTL

(***************************************************************************)
(* The atomic claim gives a row to one execution at a time, for any number *)
(* of instances, unless a retry took over a PROCESSING row.                *)
(***************************************************************************)
THEOREM OneSenderAtATime == QueueSpec => []OneSender
<1>1. QueueInv => OneSender
  BY DEF QueueInv, OneSender, ClaimInv
<1> QED BY <1>1, QueueInvariant, PTL

(***************************************************************************)
(* No message leaves twice but after such a retry or a delivery that was   *)
(* recorded as a failure.                                                  *)
(***************************************************************************)
THEOREM NoSecondDelivery == QueueSpec => []DeliveredOnce
<1>1. QueueInv => DeliveredOnce
  BY DEF QueueInv, DeliveredOnce, DeliveryInv
<1> QED BY <1>1, QueueInvariant, PTL

\* Only an execution that died leaves its row PROCESSING.
THEOREM NoneAbandoned == QueueSpec => []ProcessingIsAttended
<1>1. QueueInv => ProcessingIsAttended
  BY DEF QueueInv
<1> QED BY <1>1, QueueInvariant, PTL

(***************************************************************************)
(* The limit and the backoff hold for every retry of a worker whose        *)
(* candidate nobody attempted in between.                                  *)
(***************************************************************************)
THEOREM RetriesKeepThePolicy == QueueSpec => RetryPolicy
<1> DEFINE Kept == \A w \in Workers : \A c \in job[w].batch :
       /\ pc[w] = "claim" /\ pc'[w] = "attempt" /\ job'[w].note = c.note
       /\ c.status = "FAILED" /\ log[c.note].attempts = c.attempts
       => c.attempts < MaxAttempts /\ log[c.note].rested
<1>1. QueueInv => Kept
  BY DEF QueueInv, CandidateInv
<1>2. QueueInv /\ [QueueNext]_queueVars => [Kept]_queueVars
  BY <1>1
<1> QED BY <1>2, QueueInvariant, PTL DEF QueueSpec, RetryPolicy

-----------------------------------------------------------------------------
(***************************************************************************)
(* Accounts                                                                *)
(***************************************************************************)

(* Sequences of sessions *)

\* What is left of a sequence that loses elements: only elements it had.
From(s, t) == \A i \in DOMAIN s : \E j \in DOMAIN t : s[i] = t[j]

\* A session that is ended leaves the others, one fewer (revokeSession).
LEMMA RemovedOne ==
  ASSUME NEW S, NEW s \in Seq(S), NEW k \in DOMAIN s
  PROVE  /\ RemoveAt(s, k) \in Seq(S)
         /\ Len(RemoveAt(s, k)) = Len(s) - 1
         /\ From(RemoveAt(s, k), s)
<1> DEFINE head == SubSeq(s, 1, k - 1)
           tail == SubSeq(s, k + 1, Len(s))
<1>0. Len(s) \in Nat /\ DOMAIN s = 1 .. Len(s) /\ k \in 1 .. Len(s)
  BY LenProperties
<1>1. /\ head \in Seq(S) /\ Len(head) = k - 1
      /\ \A i \in 1 .. k - 1 : head[i] = s[i]
  BY <1>0, SubSeqProperties
<1>2. /\ tail \in Seq(S) /\ Len(tail) = Len(s) - k
      /\ \A i \in 1 .. Len(s) - k : tail[i] = s[k + i]
  BY <1>0, SubSeqProperties
<1> HIDE DEF head, tail
<1> DEFINE rest == head \o tail
<1>c. /\ rest \in Seq(S) /\ Len(rest) = Len(head) + Len(tail)
      /\ \A i \in 1 .. Len(head) + Len(tail) :
           rest[i] = IF i <= Len(head) THEN head[i] ELSE tail[i - Len(head)]
  <2>1. head \in Seq(S) /\ tail \in Seq(S)
    BY <1>1, <1>2
  <2>2. QED
    BY <2>1, ConcatProperties
<1> HIDE DEF rest
<1>3. \A i \in 1 .. Len(s) - 1 :
        rest[i] = IF i <= k - 1 THEN head[i] ELSE tail[i - (k - 1)]
  BY <1>0, <1>1, <1>2, <1>c
<1>4. Len(rest) = Len(s) - 1 /\ DOMAIN rest = 1 .. Len(s) - 1
  <2>1. Len(rest) = Len(s) - 1
    BY <1>0, <1>1, <1>2, <1>c
  <2>2. QED
    BY <1>c, <2>1, LenProperties
<1>5. From(rest, s)
  <2> SUFFICES ASSUME NEW i \in 1 .. Len(s) - 1
               PROVE  \E j \in 1 .. Len(s) : rest[i] = s[j]
    BY <1>0, <1>4 DEF From
  <2>1. CASE i <= k - 1
    BY <1>0, <1>1, <1>3, <2>1
  <2>2. CASE ~(i <= k - 1)
    <3>1. i - (k - 1) \in 1 .. Len(s) - k /\ k + (i - (k - 1)) \in 1 .. Len(s)
      BY <1>0, <2>2
    <3>2. rest[i] = tail[i - (k - 1)]
      BY <1>0, <1>3, <2>2
    <3>3. QED
      BY <1>2, <3>1, <3>2
  <2>3. QED
    BY <2>1, <2>2
<1>6. RemoveAt(s, k) = rest
  BY DEF RemoveAt, rest, head, tail
<1>7. QED
  BY <1>c, <1>4, <1>5, <1>6

\* The oldest sessions give way until one more fits (createLoginSession).
LEMMA RoomForOne ==
  ASSUME active \in Seq(Session)
  PROVE  /\ WithRoomForOne \in Seq(Session)
         /\ Len(WithRoomForOne) < MaxActiveSessions
         /\ From(WithRoomForOne, active)
<1> DEFINE excess == Len(active) - MaxActiveSessions + 1
<1>0. Len(active) \in Nat /\ MaxActiveSessions \in Nat \ {0} /\ excess \in Int
  BY AccountsAssumption, LenProperties
<1>1. CASE excess > 0
  <2>1. WithRoomForOne = SubSeq(active, excess + 1, Len(active))
    BY <1>1 DEF WithRoomForOne
  <2>2. /\ WithRoomForOne \in Seq(Session)
        /\ Len(WithRoomForOne) = Len(active) - excess
        /\ \A i \in 1 .. Len(active) - excess : WithRoomForOne[i] = active[excess + i]
    BY <1>0, <1>1, <2>1, SubSeqProperties
  <2>3. DOMAIN WithRoomForOne = 1 .. Len(active) - excess /\ DOMAIN active = 1 .. Len(active)
    BY <2>2, LenProperties
  <2>4. From(WithRoomForOne, active)
    <3> SUFFICES ASSUME NEW i \in 1 .. Len(active) - excess
                 PROVE  \E j \in 1 .. Len(active) : WithRoomForOne[i] = active[j]
      BY <2>3 DEF From
    <3>1. excess + i \in 1 .. Len(active)
      BY <1>0, <1>1
    <3>2. QED
      BY <2>2, <3>1
  <2>5. QED
    BY <1>0, <1>1, <2>2, <2>4
<1>2. CASE ~(excess > 0)
  BY <1>0, <1>2 DEF WithRoomForOne, From
<1>3. QED
  BY <1>1, <1>2

\* A session that is opened is the last one.
LEMMA OpenedLast ==
  ASSUME NEW S, NEW s \in Seq(S), NEW e \in S
  PROVE  /\ Append(s, e) \in Seq(S)
         /\ Len(Append(s, e)) = Len(s) + 1
         /\ \A i \in DOMAIN Append(s, e) : Append(s, e)[i] = e \/ \E j \in DOMAIN s : Append(s, e)[i] = s[j]
BY AppendProperties, LenProperties

-----------------------------------------------------------------------------
(* The inductive invariant *)

\* Only an active user has sessions, is signing in, or may recover a password; a login
\* carries the password it verified.
SignInInv ==
  /\ user.status # "ACTIVE" =>
       user.password = None /\ active = <<>> /\ \A k \in Tokens : token[k] # "live"
  /\ \A r \in Requests : request[r].op \in {"rehash", "session"} =>
       user.status = "ACTIVE" /\ request[r].typed = request[r].seen

\* What a request found is still there: rows change and never go.
ItemInv ==
  \A r \in Requests :
    /\ request[r].op \in {"revoke", "accept"} => invitation[request[r].item] # None
    /\ request[r].op = "update" => membership[request[r].item] # None

AccountsInv ==
  /\ AccountsTypeOK /\ SignInInv /\ ItemInv
  /\ PasswordIsTheChosen /\ SessionsFollowThePassword /\ SessionsWithinLimit
  /\ InvitationTellsTheTruth /\ RoleIsTheAssigned

\* What each kind of request carries
LEMMA JobTypes ==
  ASSUME AccountsTypeOK, NEW r \in Requests
  PROVE  /\ request[r].op \in {"idle", "rehash", "session", "revoke", "accept", "update"}
         /\ request[r].op \in {"rehash", "session"} =>
              request[r].typed \in Passwords /\ request[r].seen \in Passwords
         /\ request[r].op \in {"revoke", "accept"} => request[r].item \in Invitations
         /\ request[r].op = "accept" => request[r].password \in Passwords \cup {None}
         /\ request[r].op = "update" =>
              /\ request[r].item \in Tenants
              /\ request[r].role \in Roles \cup {None} /\ request[r].seen \in AnyRole
              /\ request[r].status \in MemberStatus \cup {None}
BY DEF AccountsTypeOK, Job

LEMMA ChosenType == ASSUME NEW p \in Passwords PROVE Chosen(p) \in User
BY DEF Chosen, User

LEMMA MemberType ==
  ASSUME NEW role \in AnyRole, NEW i \in Invitations \cup {None}
  PROVE  Member(role, i) \in Membership
BY DEF Member, Membership, MemberStatus

LEMMA EditedType ==
  ASSUME AccountsTypeOK, NEW r \in Requests, request[r].op = "update", NEW old \in Membership
  PROVE  Edited(old, request[r]) \in Membership
BY JobTypes DEF Edited, Membership, AnyRole

LEMMA AccountsInitInv == AccountsInit => AccountsInv
<1> SUFFICES ASSUME AccountsInit PROVE AccountsInv
  OBVIOUS
<1>1. AccountsTypeOK
  <2>1. user \in User /\ chosen \in Passwords \cup {None}
    <3>1. CASE user = [status |-> "none", password |-> None, legacy |-> FALSE] /\ chosen = None
      BY <3>1 DEF User
    <3>2. CASE \E p \in Passwords : /\ user = [status |-> "ACTIVE", password |-> p, legacy |-> TRUE]
                                     /\ chosen = p
      BY <3>2 DEF User
    <3>3. QED
      BY <3>1, <3>2 DEF AccountsInit
  <2>2. active \in Seq(Session)
    BY DEF AccountsInit
  <2>3. request \in [Requests -> Job]
    BY DEF AccountsInit, Job, Idle
  <2>4. /\ token \in [Tokens -> {"none", "live", "used"}]
        /\ invitation \in [Invitations -> Invitation \cup {None}]
        /\ membership \in [Tenants -> Membership \cup {None}]
        /\ restored \in BOOLEAN /\ crossed \subseteq Invitations
    BY DEF AccountsInit
  <2>5. QED
    BY <2>1, <2>2, <2>3, <2>4 DEF AccountsTypeOK
<1>2. SignInInv /\ ItemInv
  BY DEF AccountsInit, SignInInv, ItemInv, Idle
<1>3. /\ PasswordIsTheChosen /\ SessionsFollowThePassword /\ SessionsWithinLimit
      /\ InvitationTellsTheTruth /\ RoleIsTheAssigned
  BY AccountsAssumption DEF AccountsInit, PasswordIsTheChosen, SessionsFollowThePassword,
     SessionsWithinLimit, InvitationTellsTheTruth, RoleIsTheAssigned
<1>4. QED
  BY <1>1, <1>2, <1>3 DEF AccountsInv

-----------------------------------------------------------------------------
(* What a step leaves alone *)

LEMMA AccountKept ==
  ASSUME AccountsInv, UNCHANGED account
  PROVE  PasswordIsTheChosen' /\ SessionsFollowThePassword' /\ SessionsWithinLimit'
BY DEF AccountsInv, account, PasswordIsTheChosen, SessionsFollowThePassword, SessionsWithinLimit

LEMMA TeamKept ==
  ASSUME AccountsInv, UNCHANGED team
  PROVE  InvitationTellsTheTruth' /\ RoleIsTheAssigned'
BY DEF AccountsInv, team, InvitationTellsTheTruth, RoleIsTheAssigned

\* A request that begins or ends: the others are where they were.
LEMMA BeginType ==
  ASSUME AccountsTypeOK, NEW r \in Requests, NEW j \in Job, Begin(r, j)
  PROVE  /\ request' \in [Requests -> Job] /\ request'[r] = j
         /\ \A q \in Requests \ {r} : request'[q] = request[q]
BY DEF Begin, AccountsTypeOK

LEMMA EndType ==
  ASSUME AccountsTypeOK, NEW r \in Requests, End(r)
  PROVE  /\ request' \in [Requests -> Job] /\ request'[r].op = "idle"
         /\ \A q \in Requests \ {r} : request'[q] = request[q]
BY DEF End, AccountsTypeOK, Job, Idle

-----------------------------------------------------------------------------
(* The steps *)

\* Requests that begin, and those that fail, write nothing else.
LEMMA OnlyRequests ==
  ASSUME AccountsInv, NEW r \in Requests, UNCHANGED <<account, team>>,
         request' \in [Requests -> Job],
         \A q \in Requests \ {r} : request'[q] = request[q],
         request'[r].op \in {"rehash", "session"} =>
           user.status = "ACTIVE" /\ request'[r].typed = request'[r].seen,
         request'[r].op \in {"revoke", "accept"} => invitation[request'[r].item] # None,
         request'[r].op = "update" => membership[request'[r].item] # None
  PROVE  AccountsInv'
<1>1. AccountsTypeOK'
  BY DEF AccountsInv, AccountsTypeOK, account, team
<1>2. SignInInv'
  BY DEF AccountsInv, SignInInv, account
<1>3. ItemInv'
  BY DEF AccountsInv, ItemInv, team
<1>4. QED
  BY <1>1, <1>2, <1>3, AccountKept, TeamKept DEF AccountsInv

LEMMA RequestSteps ==
  ASSUME AccountsInv, NEW r \in Requests,
         \/ \E p \in Passwords : StartLogin(r, p)
         \/ \E i \in Invitations : StartRevoke(r, i)
         \/ \E i \in Invitations, p \in Passwords : StartAccept(r, i, p)
         \/ \E t \in Tenants, role \in Roles \cup {None}, status \in MemberStatus \cup {None} :
              StartUpdate(r, t, role, status)
         \/ Fail(r)
  PROVE  AccountsInv'
<1> USE DEF AccountsInv
<1>1. ASSUME NEW p \in Passwords, StartLogin(r, p)
      PROVE  AccountsInv'
  <2> DEFINE j == [op |-> IF user.legacy THEN "rehash" ELSE "session",
                     typed |-> p, seen |-> user.password]
  <2>1. j \in Job
    BY <1>1 DEF StartLogin, Job
  <2>2. QED
    BY <1>1, <2>1, BeginType, OnlyRequests DEF StartLogin
<1>2. ASSUME NEW i \in Invitations, StartRevoke(r, i)
      PROVE  AccountsInv'
  <2>1. [op |-> "revoke", item |-> i] \in Job
    BY DEF Job
  <2>2. QED
    BY <1>2, <2>1, BeginType, OnlyRequests DEF StartRevoke, Pending
<1>3. ASSUME NEW i \in Invitations, NEW p \in Passwords, StartAccept(r, i, p)
      PROVE  AccountsInv'
  <2> DEFINE j == [op |-> "accept", item |-> i,
                     password |-> IF user.status = "none" THEN p ELSE None]
  <2>1. j \in Job
    BY DEF Job
  <2>2. QED
    BY <1>3, <2>1, BeginType, OnlyRequests DEF StartAccept, Pending
<1>4. ASSUME NEW t \in Tenants, NEW role \in Roles \cup {None},
             NEW status \in MemberStatus \cup {None}, StartUpdate(r, t, role, status)
      PROVE  AccountsInv'
  <2> DEFINE j == [op |-> "update", item |-> t, role |-> role, seen |-> membership[t].role,
                     status |-> status]
  <2>1. membership[t].role \in AnyRole
    BY <1>4 DEF StartUpdate, AccountsTypeOK, Membership
  <2>2. j \in Job
    BY <2>1 DEF Job
  <2>3. QED
    BY <1>4, <2>2, BeginType, OnlyRequests DEF StartUpdate
<1>5. ASSUME Fail(r)
      PROVE  AccountsInv'
  BY <1>5, EndType, OnlyRequests DEF Fail
<1>6. QED
  BY <1>1, <1>2, <1>3, <1>4, <1>5

\* updatePasswordHash puts back the password the login verified: the same one, or the
\* step is a restoration.
LEMMA RehashStep ==
  ASSUME AccountsInv, NEW r \in Requests, Rehash(r)
  PROVE  AccountsInv'
<1> USE DEF AccountsInv
<1>0. /\ request[r].typed \in Passwords /\ request[r].typed = request[r].seen
      /\ user.status = "ACTIVE"
  BY JobTypes DEF Rehash, SignInInv
<1>1. /\ user' \in User /\ user'.status = "ACTIVE" /\ user'.password = request[r].typed
      /\ ~restored' => ~restored /\ user'.password = user.password
  BY <1>0 DEF Rehash, AccountsTypeOK, User
<1>2. /\ request' \in [Requests -> Job]
      /\ request'[r].op = "session" /\ request'[r].typed = request'[r].seen
      /\ \A q \in Requests \ {r} : request'[q] = request[q]
  <2>1. request[r] \in [op : {"rehash", "session"}, typed : Passwords, seen : Passwords]
    BY DEF Rehash, AccountsTypeOK, Job
  <2>2. /\ [request[r] EXCEPT !.op = "session"] \in Job
        /\ [request[r] EXCEPT !.op = "session"].op = "session"
        /\ [request[r] EXCEPT !.op = "session"].typed = request[r].typed
        /\ [request[r] EXCEPT !.op = "session"].seen = request[r].seen
    BY <2>1 DEF Job
  <2>3. QED
    BY <1>0, <2>2 DEF Rehash, AccountsTypeOK
<1>3. AccountsTypeOK'
  BY <1>1, <1>2 DEF Rehash, AccountsTypeOK, team
<1>4. SignInInv' /\ ItemInv'
  BY <1>0, <1>1, <1>2 DEF Rehash, SignInInv, ItemInv, team
<1>5. PasswordIsTheChosen' /\ SessionsFollowThePassword' /\ SessionsWithinLimit'
  BY <1>1 DEF Rehash, PasswordIsTheChosen, SessionsFollowThePassword, SessionsWithinLimit, AccountsTypeOK
<1>6. QED
  BY <1>3, <1>4, <1>5, TeamKept DEF Rehash

LEMMA OpenStep ==
  ASSUME AccountsInv, NEW r \in Requests, OpenSession(r)
  PROVE  AccountsInv'
<1> USE DEF AccountsInv
<1> DEFINE new == [password |-> request[r].typed, late |-> user.password # request[r].seen]
<1>0. /\ request[r].typed = request[r].seen /\ user.status = "ACTIVE" /\ new \in Session
  BY JobTypes DEF OpenSession, SignInInv, Session
<1>1. /\ WithRoomForOne \in Seq(Session)
      /\ Len(WithRoomForOne) < MaxActiveSessions
      /\ From(WithRoomForOne, active)
  BY RoomForOne DEF AccountsTypeOK
<1>2. /\ active' \in Seq(Session) /\ Len(active') = Len(WithRoomForOne) + 1
      /\ \A k \in DOMAIN active' :
           active'[k] = new \/ \E j \in DOMAIN WithRoomForOne : active'[k] = WithRoomForOne[j]
  BY <1>0, <1>1, OpenedLast DEF OpenSession
<1>3. AccountsTypeOK'
  BY <1>2, EndType DEF OpenSession, AccountsTypeOK, team
<1>4. SignInInv' /\ ItemInv'
  BY <1>0, EndType DEF OpenSession, SignInInv, ItemInv, team
<1>5. SessionsWithinLimit'
  BY <1>1, <1>2, AccountsAssumption, LenProperties DEF SessionsWithinLimit
<1>6. SessionsFollowThePassword'
  <2>1. new.late \/ new.password = user.password
    BY <1>0
  <2>2. QED
    BY <1>1, <1>2, <2>1 DEF OpenSession, SessionsFollowThePassword, From
<1>7. PasswordIsTheChosen'
  BY DEF OpenSession, PasswordIsTheChosen
<1>8. QED
  BY <1>3, <1>4, <1>5, <1>6, <1>7, TeamKept DEF OpenSession

\* Sessions that end: those that stay are sessions there were.
LEMMA EndSteps ==
  ASSUME AccountsInv, LogoutAll \/ \E k \in 1 .. MaxActiveSessions : EndSession(k)
  PROVE  AccountsInv'
<1> USE DEF AccountsInv
<1>1. active' \in Seq(Session) /\ Len(active') <= Len(active) /\ From(active', active)
  <2>1. CASE LogoutAll
    BY <2>1, EmptySeq, LenProperties DEF LogoutAll, AccountsTypeOK, From
  <2>2. ASSUME NEW k, EndSession(k)
        PROVE  active' \in Seq(Session) /\ Len(active') <= Len(active) /\ From(active', active)
    <3>1. k \in DOMAIN active /\ active' = RemoveAt(active, k) /\ active \in Seq(Session)
      BY <2>2 DEF EndSession, AccountsTypeOK
    <3>2. Len(active) \in Nat
      BY <3>1, LenProperties
    <3>3. QED
      BY <3>1, <3>2, RemovedOne
  <2>3. QED
    BY <2>1, <2>2
<1>2. UNCHANGED <<user, token, chosen, restored, team, request>>
  BY DEF LogoutAll, EndSession
<1>3. user.status # "ACTIVE" => active' = <<>>
  BY DEF SignInInv, LogoutAll, EndSession
<1>4. AccountsTypeOK' /\ SignInInv' /\ ItemInv'
  BY <1>1, <1>2, <1>3 DEF AccountsTypeOK, SignInInv, ItemInv, team
<1>5. SessionsWithinLimit'
  BY <1>1, AccountsAssumption, LenProperties DEF SessionsWithinLimit, AccountsTypeOK
<1>6. PasswordIsTheChosen' /\ SessionsFollowThePassword'
  BY <1>1, <1>2 DEF PasswordIsTheChosen, SessionsFollowThePassword, From
<1>7. QED
  BY <1>2, <1>4, <1>5, <1>6, TeamKept

LEMMA RecoverySteps ==
  ASSUME AccountsInv,
         \E k \in Tokens : Forgot(k) \/ \E p \in Passwords : Reset(k, p)
  PROVE  AccountsInv'
<1> USE DEF AccountsInv
<1>1. ASSUME NEW k \in Tokens, Forgot(k)
      PROVE  AccountsInv'
  <2>1. AccountsTypeOK' /\ SignInInv' /\ ItemInv'
    BY <1>1 DEF Forgot, AllUsed, AccountsTypeOK, SignInInv, ItemInv, team
  <2>2. PasswordIsTheChosen' /\ SessionsFollowThePassword' /\ SessionsWithinLimit'
    BY <1>1 DEF Forgot, PasswordIsTheChosen, SessionsFollowThePassword, SessionsWithinLimit
  <2>3. QED
    BY <1>1, <2>1, <2>2, TeamKept DEF Forgot
<1>2. ASSUME NEW k \in Tokens, NEW p \in Passwords, Reset(k, p)
      PROVE  AccountsInv'
  <2>1. AccountsTypeOK'
    BY <1>2, ChosenType, EmptySeq DEF Reset, AllUsed, AccountsTypeOK, team
  <2>2. SignInInv' /\ ItemInv'
    BY <1>2 DEF Reset, Chosen, SignInInv, ItemInv, team
  <2>3. PasswordIsTheChosen' /\ SessionsFollowThePassword' /\ SessionsWithinLimit'
    BY <1>2, EmptySeq, AccountsAssumption
    DEF Reset, Chosen, PasswordIsTheChosen, SessionsFollowThePassword, SessionsWithinLimit
  <2>4. QED
    BY <1>2, <2>1, <2>2, <2>3, TeamKept DEF Reset
<1>3. QED
  BY <1>1, <1>2

\* Who signs up, or accepts as the first thing, has no sessions and no requests that sign in.
LEMMA FirstPassword ==
  ASSUME AccountsInv, NEW p \in Passwords, user.status = "none",
         user' = Chosen(p), chosen' = p, UNCHANGED <<active, token, restored>>
  PROVE  /\ user' \in User /\ chosen' \in Passwords \cup {None}
         /\ PasswordIsTheChosen' /\ SessionsFollowThePassword' /\ SessionsWithinLimit'
         /\ user'.status = "ACTIVE"
<1> USE DEF AccountsInv
<1>1. active' = <<>>
  BY DEF SignInInv
<1>2. QED
  BY <1>1, ChosenType, EmptySeq, AccountsAssumption
  DEF Chosen, PasswordIsTheChosen, SessionsFollowThePassword, SessionsWithinLimit

LEMMA SignUpStep ==
  ASSUME AccountsInv, NEW t \in Tenants, NEW p \in Passwords, SignUp(t, p)
  PROVE  AccountsInv'
<1> USE DEF AccountsInv
<1>1. /\ user' \in User /\ chosen' \in Passwords \cup {None}
      /\ PasswordIsTheChosen' /\ SessionsFollowThePassword' /\ SessionsWithinLimit'
      /\ user'.status = "ACTIVE"
  BY FirstPassword DEF SignUp
<1> DEFINE owner == Member("OWNER", None)
<1>2. /\ owner \in Membership /\ owner.by = None /\ owner.role = owner.assigned
  BY MemberType DEF AnyRole, Member
<1> HIDE DEF owner
<1>3. /\ membership'[t] = owner
      /\ \A o \in Tenants \ {t} : membership'[o] = membership[o]
      /\ membership' \in [Tenants -> Membership \cup {None}]
  BY <1>2 DEF SignUp, AccountsTypeOK, owner
<1>4. AccountsTypeOK'
  BY <1>1, <1>3 DEF SignUp, AccountsTypeOK
<1>5. SignInInv' /\ ItemInv'
  BY <1>1, <1>2, <1>3, NoRowIsNone, JobTypes DEF SignUp, SignInInv, ItemInv
<1>6. InvitationTellsTheTruth'
  BY <1>2, <1>3, AccountsAssumption DEF SignUp, InvitationTellsTheTruth, AccountsTypeOK, Invitation
<1>7. RoleIsTheAssigned'
  BY <1>2, <1>3 DEF RoleIsTheAssigned
<1>8. QED
  BY <1>1, <1>4, <1>5, <1>6, <1>7

LEMMA ProvisionStep ==
  ASSUME AccountsInv, NEW t \in Tenants, NEW i \in Invitations, Provision(t, i)
  PROVE  AccountsInv'
<1> USE DEF AccountsInv
<1>1. /\ user' \in User /\ user'.password = user.password
      /\ user.status = "ACTIVE" => user'.status = "ACTIVE"
      /\ user.status # "ACTIVE" => user'.status # "ACTIVE"
  BY DEF Provision, AccountsTypeOK, User
<1> DEFINE owner == Member("OWNER", None)
           row == [tenant |-> t, role |-> "OWNER", status |-> "PENDING", sent |-> FALSE]
<1>2. /\ owner \in Membership /\ owner.by = None /\ owner.role = owner.assigned
      /\ row \in Invitation /\ row.tenant = t /\ row.status = "PENDING"
  BY MemberType DEF AnyRole, Member, Invitation
<1> HIDE DEF owner, row
<1>3. /\ membership'[t] = owner
      /\ \A o \in Tenants \ {t} : membership'[o] = membership[o]
      /\ membership' \in [Tenants -> Membership \cup {None}]
      /\ invitation'[i] = row
      /\ \A o \in Invitations \ {i} : invitation'[o] = invitation[o]
      /\ invitation' \in [Invitations -> Invitation \cup {None}]
  BY <1>2 DEF Provision, AccountsTypeOK, owner, row
<1>4. AccountsTypeOK'
  BY <1>1, <1>3 DEF Provision, AccountsTypeOK
<1>5. SignInInv' /\ ItemInv'
  BY <1>1, <1>2, <1>3, NoRowIsNone, JobTypes DEF Provision, SignInInv, ItemInv
<1>6. PasswordIsTheChosen' /\ SessionsFollowThePassword' /\ SessionsWithinLimit'
  BY <1>1 DEF Provision, PasswordIsTheChosen, SessionsFollowThePassword, SessionsWithinLimit
<1>7. InvitationTellsTheTruth'
  BY <1>2, <1>3, AccountsAssumption DEF Provision, InvitationTellsTheTruth, AccountsTypeOK, Invitation
<1>8. RoleIsTheAssigned'
  BY <1>2, <1>3 DEF RoleIsTheAssigned
<1>9. QED
  BY <1>4, <1>5, <1>6, <1>7, <1>8

LEMMA InviteStep ==
  ASSUME AccountsInv, NEW i \in Invitations, NEW t \in Tenants, NEW role \in Roles,
         Invite(i, t, role)
  PROVE  AccountsInv'
<1> USE DEF AccountsInv
<1> DEFINE row == [tenant |-> t, role |-> role, status |-> "PENDING", sent |-> TRUE]
<1>1. row \in Invitation /\ row.tenant = t /\ row.status = "PENDING"
  BY DEF Invitation, AnyRole
<1> HIDE DEF row
<1>2. /\ invitation'[i] = row
      /\ \A o \in Invitations \ {i} : invitation'[o] = invitation[o]
      /\ invitation' \in [Invitations -> Invitation \cup {None}]
      /\ membership[t] = None
  BY <1>1 DEF Invite, AccountsTypeOK, row
<1>3. AccountsTypeOK'
  BY <1>2 DEF Invite, AccountsTypeOK, account
<1>4. SignInInv' /\ ItemInv'
  BY <1>1, <1>2, NoRowIsNone, JobTypes DEF Invite, SignInInv, ItemInv, account
<1>5. InvitationTellsTheTruth'
  BY <1>1, <1>2 DEF Invite, InvitationTellsTheTruth
<1>6. RoleIsTheAssigned'
  BY DEF Invite, RoleIsTheAssigned
<1>7. QED
  BY <1>3, <1>4, <1>5, <1>6, AccountKept DEF Invite

\* A revocation writes over what the invitation became, and remembers if that was ACCEPTED.
LEMMA RevokeStep ==
  ASSUME AccountsInv, NEW r \in Requests, Revoke(r)
  PROVE  AccountsInv'
<1> USE DEF AccountsInv
<1> DEFINE i == request[r].item
<1>0. i \in Invitations /\ invitation[i] # None /\ invitation[i] \in Invitation
  BY JobTypes DEF Revoke, ItemInv, AccountsTypeOK
<1> HIDE DEF i
<1>1. /\ invitation' = [invitation EXCEPT ![i].status = "REVOKED"]
      /\ crossed' = IF invitation[i].status = "ACCEPTED" THEN crossed \cup {i} ELSE crossed
  BY DEF Revoke, i
<1>2. /\ invitation'[i] \in Invitation /\ invitation'[i].status = "REVOKED"
      /\ invitation'[i].tenant = invitation[i].tenant
      /\ \A o \in Invitations \ {i} : invitation'[o] = invitation[o]
      /\ invitation' \in [Invitations -> Invitation \cup {None}]
  BY <1>0, <1>1 DEF AccountsTypeOK, Invitation
<1>3. AccountsTypeOK'
  BY <1>0, <1>1, <1>2, EndType DEF Revoke, AccountsTypeOK, account
<1>4. SignInInv' /\ ItemInv'
  BY <1>0, <1>2, EndType, NoRowIsNone, JobTypes DEF Revoke, SignInInv, ItemInv, account
<1>5. InvitationTellsTheTruth'
  BY <1>0, <1>1, <1>2 DEF Revoke, InvitationTellsTheTruth
<1>6. RoleIsTheAssigned'
  BY DEF Revoke, RoleIsTheAssigned
<1>7. QED
  BY <1>3, <1>4, <1>5, <1>6, AccountKept DEF Revoke

\* Acceptance makes a member of who is none, of an invitation that is pending still.
LEMMA AcceptStep ==
  ASSUME AccountsInv, NEW r \in Requests, Accept(r)
  PROVE  AccountsInv'
<1> USE DEF AccountsInv
<1> DEFINE i == request[r].item
           t == invitation[i].tenant
           new == Member(invitation[i].role, i)
<1>0. /\ i \in Invitations /\ invitation[i] # None /\ invitation[i] \in Invitation
      /\ t \in Tenants /\ membership[t] = None
      /\ new \in Membership /\ new.by = i /\ new.role = new.assigned
  <2>1. i \in Invitations /\ invitation[i] # None /\ invitation[i] \in Invitation
    BY JobTypes DEF Accept, ItemInv, AccountsTypeOK
  <2>2. invitation[i].role \in AnyRole /\ t \in Tenants /\ membership[t] = None
    BY <2>1 DEF Accept, Invitation
  <2>3. QED
    BY <2>1, <2>2, MemberType DEF Member
<1>1. /\ invitation' = [invitation EXCEPT ![i].status = "ACCEPTED"]
      /\ membership' = [membership EXCEPT ![t] = new]
      /\ crossed' = crossed
  BY DEF Accept
<1> HIDE DEF i, new
<1>2. /\ invitation'[i] \in Invitation /\ invitation'[i].status = "ACCEPTED"
      /\ invitation'[i].tenant = t
      /\ \A o \in Invitations \ {i} : invitation'[o] = invitation[o]
      /\ invitation' \in [Invitations -> Invitation \cup {None}]
  BY <1>0, <1>1 DEF AccountsTypeOK, Invitation
<1>3. /\ membership'[t] = new
      /\ \A o \in Tenants \ {t} : membership'[o] = membership[o]
      /\ membership' \in [Tenants -> Membership \cup {None}]
  BY <1>0, <1>1 DEF AccountsTypeOK
<1>4. /\ user' \in User /\ chosen' \in Passwords \cup {None}
      /\ PasswordIsTheChosen' /\ SessionsFollowThePassword' /\ SessionsWithinLimit'
      /\ user.status = "none" => user'.status = "ACTIVE"
      /\ user.status # "none" => user' = user
  <2>1. CASE user.status = "none"
    <3>1. request[r].password \in Passwords
      BY <2>1, JobTypes DEF Accept
    <3>2. QED
      BY <2>1, <3>1, FirstPassword DEF Accept
  <2>2. CASE user.status # "none"
    BY <2>2 DEF Accept, AccountsTypeOK, PasswordIsTheChosen, SessionsFollowThePassword,
       SessionsWithinLimit
  <2>3. QED
    BY <2>1, <2>2
<1>5. AccountsTypeOK'
  BY <1>1, <1>2, <1>3, <1>4, EndType DEF Accept, AccountsTypeOK
<1>6. SignInInv' /\ ItemInv'
  BY <1>0, <1>2, <1>3, <1>4, EndType, NoRowIsNone, JobTypes
  DEF Accept, SignInInv, ItemInv
<1>7. InvitationTellsTheTruth'
  BY <1>0, <1>1, <1>2, <1>3, NoRowIsNone DEF InvitationTellsTheTruth, AccountsTypeOK, Invitation
<1>8. RoleIsTheAssigned'
  BY <1>0, <1>3 DEF RoleIsTheAssigned
<1>9. QED
  BY <1>4, <1>5, <1>6, <1>7, <1>8

\* An edit that was not asked for a role writes the one it read: if that is not the role
\* any more, it marks the row.
LEMMA UpdateStep ==
  ASSUME AccountsInv, NEW r \in Requests, Update(r)
  PROVE  AccountsInv'
<1> USE DEF AccountsInv
<1> DEFINE t == request[r].item
           new == Edited(membership[t], request[r])
<1>0. /\ t \in Tenants /\ membership[t] # None /\ membership[t] \in Membership
      /\ new \in Membership
  <2>1. t \in Tenants /\ membership[t] # None /\ membership[t] \in Membership
    BY JobTypes DEF Update, ItemInv, AccountsTypeOK
  <2>2. QED
    BY <2>1, EditedType DEF Update
<1>1. /\ new.by = membership[t].by
      /\ membership[t].role = membership[t].assigned \/ membership[t].mixed
      /\ new.role = new.assigned \/ new.mixed
  <2>1. /\ new.by = membership[t].by
        /\ new.role = IF request[r].role = None THEN request[r].seen ELSE request[r].role
        /\ new.assigned = IF request[r].role = None THEN membership[t].assigned ELSE request[r].role
        /\ new.mixed = (request[r].role = None
                          /\ (membership[t].mixed \/ request[r].seen # membership[t].role))
    BY <1>0 DEF Edited, Membership
  <2>2. QED
    BY <1>0, <2>1 DEF RoleIsTheAssigned
<1>2. /\ membership'[t] = new
      /\ \A o \in Tenants \ {t} : membership'[o] = membership[o]
      /\ membership' \in [Tenants -> Membership \cup {None}]
  BY <1>0 DEF Update, AccountsTypeOK
<1> HIDE DEF t, new
<1>3. AccountsTypeOK'
  BY <1>2, EndType DEF Update, AccountsTypeOK, account
<1>4. SignInInv' /\ ItemInv'
  BY <1>0, <1>2, EndType, NoRowIsNone, JobTypes DEF Update, SignInInv, ItemInv, account
<1>5. InvitationTellsTheTruth'
  BY <1>0, <1>1, <1>2, NoRowIsNone DEF Update, InvitationTellsTheTruth
<1>6. RoleIsTheAssigned'
  BY <1>1, <1>2 DEF RoleIsTheAssigned
<1>7. QED
  BY <1>3, <1>4, <1>5, <1>6, AccountKept DEF Update

LEMMA AccountsStep == AccountsInv /\ [AccountsNext]_accountsVars => AccountsInv'
<1> SUFFICES ASSUME AccountsInv, [AccountsNext]_accountsVars
             PROVE  AccountsInv'
  OBVIOUS
<1>1. ASSUME NEW r \in Requests, Step(r)
      PROVE  AccountsInv'
  BY <1>1, RequestSteps, RehashStep, OpenStep, RevokeStep, AcceptStep, UpdateStep DEF Step
<1>2. CASE UNCHANGED accountsVars
  BY <1>2 DEF accountsVars, AccountsInv, AccountsTypeOK, SignInInv, ItemInv, PasswordIsTheChosen,
     SessionsFollowThePassword, SessionsWithinLimit, InvitationTellsTheTruth, RoleIsTheAssigned
<1>3. QED
  BY <1>1, <1>2, EndSteps, RecoverySteps, SignUpStep, ProvisionStep, InviteStep DEF AccountsNext

-----------------------------------------------------------------------------
(* Results *)

\* The account, its sessions, its tokens and its team are as the rows and the requests of
\* auth.service.ts leave them, at every moment.
THEOREM AccountsInvariant == AccountsSpec => []AccountsInv
BY AccountsInitInv, AccountsStep, PTL DEF AccountsSpec

\* Rows, tokens, sessions and requests keep their shape.
THEOREM AccountsTyped == AccountsSpec => []AccountsTypeOK
<1>1. AccountsInv => AccountsTypeOK
  BY DEF AccountsInv
<1>2. QED
  BY <1>1, AccountsInvariant, PTL

\* However logins, resets and registrations cross, the password of the user is the one
\* last chosen, unless a login that refreshed an old hash wrote over a reset.
THEOREM PasswordStaysChosen == AccountsSpec => []PasswordIsTheChosen
<1>1. AccountsInv => PasswordIsTheChosen
  BY DEF AccountsInv
<1>2. QED
  BY <1>1, AccountsInvariant, PTL

\* No session outlives a reset of the password, but those of logins that had verified
\* the old one and opened them afterwards.
THEOREM ResetEndsSessions == AccountsSpec => []SessionsFollowThePassword
<1>1. AccountsInv => SessionsFollowThePassword
  BY DEF AccountsInv
<1>2. QED
  BY <1>1, AccountsInvariant, PTL

\* createLoginSession keeps every account within AUTH_MAX_ACTIVE_SESSIONS.
THEOREM SessionsAreLimited == AccountsSpec => []SessionsWithinLimit
<1>1. AccountsInv => SessionsWithinLimit
  BY DEF AccountsInv
<1>2. QED
  BY <1>1, AccountsInvariant, PTL

\* An invitation is ACCEPTED exactly if its membership came from it, but for those that a
\* revocation found pending and wrote over.
THEOREM InvitationsTellTheTruth == AccountsSpec => []InvitationTellsTheTruth
<1>1. AccountsInv => InvitationTellsTheTruth
  BY DEF AccountsInv
<1>2. QED
  BY <1>1, AccountsInvariant, PTL

\* Members have the role last assigned to them, unless an edit of the status carried an
\* older one over it.
THEOREM RolesAreAssigned == AccountsSpec => []RoleIsTheAssigned
<1>1. AccountsInv => RoleIsTheAssigned
  BY DEF AccountsInv
<1>2. QED
  BY <1>1, AccountsInvariant, PTL

\* A user who is INVITED has nothing to sign in with and nothing that gives it: no step
\* of anybody changes the user or opens a session.
LEMMA InvitedIsStuck ==
  ASSUME AccountsInv, [AccountsNext]_accountsVars, user.status = "INVITED"
  PROVE  user' = user /\ active' = <<>>
<1>1. active = <<>> /\ \A k \in Tokens : token[k] # "live"
  BY DEF AccountsInv, SignInInv
<1>2. ASSUME NEW r \in Requests, Step(r)
      PROVE  user' = user /\ active' = <<>>
  <2>1. request[r].op \notin {"rehash", "session"}
    BY DEF AccountsInv, SignInInv
  <2>2. QED
    BY <1>1, <1>2, <2>1 DEF Step, StartLogin, Rehash, OpenSession, StartRevoke, Revoke,
       StartAccept, Accept, StartUpdate, Update, Fail, account, team
<1>3. ASSUME NEW k \in 1 .. MaxActiveSessions, EndSession(k)
      PROVE  FALSE
  BY <1>1, <1>3, EmptySeq DEF EndSession
<1>4. ASSUME NEW k \in Tokens, Forgot(k) \/ \E p \in Passwords : Reset(k, p)
      PROVE  FALSE
  BY <1>1, <1>4 DEF Forgot, Reset
<1>5. ASSUME NEW t \in Tenants,
             \/ \E p \in Passwords : SignUp(t, p)
             \/ \E i \in Invitations : Provision(t, i)
             \/ \E i \in Invitations, role \in Roles : Invite(i, t, role)
      PROVE  user' = user /\ active' = <<>>
  BY <1>1, <1>5 DEF SignUp, Provision, Invite, account
<1>6. CASE LogoutAll \/ UNCHANGED accountsVars
  BY <1>1, <1>6 DEF LogoutAll, accountsVars
<1>7. QED
  BY <1>2, <1>3, <1>4, <1>5, <1>6 DEF AccountsNext

(***************************************************************************)
(* The owner the platform provisions can never get in: login, recovery and *)
(* acceptance all need what PlatformService.createTenant does not give.    *)
(***************************************************************************)
THEOREM InvitedNeverGetsIn == AccountsSpec => InvitedStaysInvited
<1>1. AccountsInv /\ [AccountsNext]_accountsVars
        => [user.status = "INVITED" => user' = user /\ active' = <<>>]_accountsVars
  BY InvitedIsStuck
<1>2. QED
  BY <1>1, AccountsInvariant, PTL DEF AccountsSpec, InvitedStaysInvited

-----------------------------------------------------------------------------
(***************************************************************************)
(* Commercial                                                              *)
(***************************************************************************)

\* At most one row of an establishment has the key: the unique index.
OneKey ==
  \A s, o \in Subscriptions :
    (/\ Exists(s) /\ Exists(o) /\ subscription[s].tenant = subscription[o].tenant
     /\ subscription[s].effective /\ subscription[o].effective)
    => s = o

\* A row in force without the key was written by the sweep over a change.
KeyFollowsStatus ==
  \A s \in Subscriptions :
    (Exists(s) /\ InForce(subscription[s].status) /\ ~subscription[s].effective)
    => s \in overtaken

\* What a run has listed was due when the run began, in the way its phase looks for.
DueWhenListed(w, x) ==
  /\ Exists(x.id)
  /\ \/ sweep[w].phase = "trials" /\ TrialOver(x.row, sweep[w].started)
     \/ sweep[w].phase = "periods" /\ PeriodOver(x.row, sweep[w].started)
     \/ sweep[w].phase = "graces" /\ GraceOver(x.row, sweep[w].started)

RunInv ==
  \A w \in Sweepers :
    sweep[w].started <= now /\ \A x \in sweep[w].list : DueWhenListed(w, x)

\* Rows are never deleted.
ExtendedExist == \A r \in Administrators : extending[r] # None => Exists(extending[r].id)

CommercialInv ==
  CommercialTypeOK /\ OneKey /\ KeyFollowsStatus /\ RunInv /\ ExtendedExist

-----------------------------------------------------------------------------
\* The fields of the records
LEMMA RowTypes ==
  ASSUME CommercialTypeOK, NEW s \in Subscriptions, Exists(s)
  PROVE  subscription[s] \in Subscription
BY DEF CommercialTypeOK, Exists

LEMMA RunTypes ==
  ASSUME CommercialTypeOK, NEW w \in Sweepers
  PROVE  /\ sweep[w] \in Run
         /\ \A x \in sweep[w].list : x.id \in Subscriptions /\ x.row \in Subscription
BY DEF CommercialTypeOK, Run, Listed

LEMMA PolicyTypes ==
  ASSUME CommercialTypeOK
  PROVE  policy.grace \in Nat /\ policy.suspends \in BOOLEAN
<1>1. policy.grace \in Graces /\ policy.suspends \in BOOLEAN
  BY DEF CommercialTypeOK
<1>2. \A g \in Graces : g \in Nat
  BY CommercialAssumption
<1>3. QED
  BY <1>1, <1>2

\* What the three queries find are rows that are there.
LEMMA ListTypes ==
  ASSUME CommercialTypeOK, NEW time \in Nat
  PROVE  /\ ListTrials(time) \in SUBSET Listed
         /\ ListPeriods(time) \in SUBSET Listed
         /\ ListGraces(time) \in SUBSET Listed
         /\ \A x \in ListTrials(time) : Exists(x.id) /\ TrialOver(x.row, time)
         /\ \A x \in ListPeriods(time) : Exists(x.id) /\ PeriodOver(x.row, time)
         /\ \A x \in ListGraces(time) : Exists(x.id) /\ GraceOver(x.row, time)
<1>1. Rows \subseteq Listed /\ \A x \in Rows : Exists(x.id)
  BY RowTypes DEF Rows, Listed
<1>2. QED
  BY <1>1 DEF ListTrials, ListPeriods, ListGraces

\* A date that was reached stays reached.
LEMMA ReachedStays ==
  ASSUME NEW date \in Nat \cup {None}, NEW t \in Nat, NEW u \in Nat, t <= u, Reached(date, t)
  PROVE  Reached(date, u)
BY CommercialAssumption DEF Reached

LEMMA DueStays ==
  ASSUME NEW row \in Subscription, NEW t \in Nat, NEW u \in Nat, t <= u
  PROVE  /\ TrialOver(row, t) => TrialOver(row, u)
         /\ PeriodOver(row, t) => PeriodOver(row, u)
         /\ GraceOver(row, t) => GraceOver(row, u)
<1>1. /\ row.trialEnds \in Nat \cup {None} /\ row.periodEnds \in Nat \cup {None}
      /\ row.graceEnds \in Nat \cup {None}
  BY DEF Subscription
<1>2. QED
  BY <1>1, ReachedStays DEF TrialOver, PeriodOver, GraceOver

-----------------------------------------------------------------------------
(* What each action writes *)

\* A row of the table is created, or replaced by one that says the same of the
\* establishment; every other row stays.
LEMMA CreateWrites ==
  ASSUME CommercialTypeOK, NEW s \in Subscriptions, NEW t \in Establishments,
         NEW trial \in Trials \cup {None}, NEW days \in Periods, Create(s, t, trial, days)
  PROVE  /\ subscription' \in [Subscriptions -> Subscription \cup {None}]
         /\ subscription'[s] \in Subscription /\ subscription'[s].tenant = t
         /\ subscription'[s].effective
         /\ \A o \in Subscriptions \ {s} : subscription'[o] = subscription[o]
<1> DEFINE row == [tenant |-> t,
        status |-> IF trial = None THEN "ACTIVE" ELSE "TRIALING",
        trialEnds |-> IF trial = None THEN None ELSE now + trial,
        periodEnds |-> now + days, graceEnds |-> None, effective |-> TRUE]
<1>1. row \in Subscription
  <2>1. /\ (IF trial = None THEN None ELSE now + trial) \in Nat \cup {None}
        /\ now + days \in Nat
        /\ (IF trial = None THEN "ACTIVE" ELSE "TRIALING") \in Statuses
    BY CommercialAssumption DEF CommercialTypeOK, Statuses
  <2>2. QED
    BY <2>1 DEF Subscription
<1>2. subscription' = [subscription EXCEPT ![s] = row]
  BY DEF Create
<1>3. row.tenant = t /\ row.effective
  OBVIOUS
<1> HIDE DEF row
<1>4. QED
  BY <1>1, <1>2, <1>3 DEF CommercialTypeOK

LEMMA TransitionWrites ==
  ASSUME CommercialTypeOK, NEW s \in Subscriptions,
         NEW status \in {"ACTIVE", "SUSPENDED", "CANCELED"}, Transition(s, status)
  PROVE  /\ subscription' \in [Subscriptions -> Subscription \cup {None}]
         /\ subscription'[s] \in Subscription
         /\ subscription'[s].tenant = subscription[s].tenant
         /\ subscription'[s].status = status
         /\ subscription'[s].effective = InForce(status)
         /\ \A o \in Subscriptions \ {s} : subscription'[o] = subscription[o]
<1> DEFINE row == Moved(subscription[s], status)
<1>1. subscription[s] \in Subscription
  BY RowTypes DEF Transition
<1>2. /\ row \in Subscription /\ row.tenant = subscription[s].tenant
      /\ row.status = status /\ row.effective = InForce(status)
  <2>1. InForce(status) \in BOOLEAN /\ status \in Statuses
    BY DEF InForce, Statuses
  <2>2. row \in Subscription
    BY <1>1, <2>1 DEF Subscription, Moved
  <2>3. QED
    BY <1>1, <2>1, <2>2 DEF Subscription, Moved
<1>3. subscription' = [subscription EXCEPT ![s] = row]
  BY DEF Transition
<1> HIDE DEF row
<1>4. QED
  BY <1>2, <1>3 DEF CommercialTypeOK

LEMMA ExtendWrites ==
  ASSUME CommercialInv, NEW r \in Administrators, Extend(r)
  PROVE  LET s == extending[r].id IN
         /\ s \in Subscriptions /\ Exists(s)
         /\ subscription' \in [Subscriptions -> Subscription \cup {None}]
         /\ subscription'[s] \in Subscription
         /\ subscription'[s].tenant = subscription[s].tenant
         /\ subscription'[s].status = subscription[s].status
         /\ subscription'[s].effective = subscription[s].effective
         /\ \A o \in Subscriptions \ {s} : subscription'[o] = subscription[o]
<1> DEFINE s == extending[r].id
           row == [subscription[s] EXCEPT !.trialEnds = extending[r].end]
<1>1. s \in Subscriptions /\ extending[r].end \in Nat /\ Exists(s)
  BY CommercialAssumption DEF CommercialInv, CommercialTypeOK, ExtendedExist, Extend, Extension, Times
<1>2. subscription[s] \in Subscription
  BY <1>1, RowTypes DEF CommercialInv
<1>3. /\ row \in Subscription /\ row.tenant = subscription[s].tenant
      /\ row.status = subscription[s].status /\ row.effective = subscription[s].effective
  BY <1>1, <1>2 DEF Subscription
<1>4. subscription' = [subscription EXCEPT ![s] = row]
  BY DEF Extend
<1> HIDE DEF row
<1>5. QED
  BY <1>1, <1>3, <1>4 DEF CommercialInv, CommercialTypeOK

LEMMA SweepWrites ==
  ASSUME CommercialInv, NEW w \in Sweepers, NEW x \in sweep[w].list, Write(w, x)
  PROVE  /\ x.id \in Subscriptions /\ Exists(x.id)
         /\ subscription' \in [Subscriptions -> Subscription \cup {None}]
         /\ subscription'[x.id] \in Subscription
         /\ subscription'[x.id].tenant = subscription[x.id].tenant
         /\ subscription'[x.id].status =
              IF sweep[w].phase = "graces" THEN "SUSPENDED" ELSE "PAST_DUE"
         /\ subscription'[x.id].effective = subscription[x.id].effective
         /\ \A o \in Subscriptions \ {x.id} : subscription'[o] = subscription[o]
<1> DEFINE s == x.id
           row == IF sweep[w].phase = "graces"
                  THEN Suspended(subscription[s]) ELSE Demoted(subscription[s], w)
<1>1. s \in Subscriptions /\ Exists(s) /\ sweep[w].grace \in Nat
  BY RunTypes DEF CommercialInv, RunInv, DueWhenListed, Run
<1>2. subscription[s] \in Subscription
  BY <1>1, RowTypes DEF CommercialInv
<1>3. /\ row \in Subscription /\ row.tenant = subscription[s].tenant
      /\ row.status = IF sweep[w].phase = "graces" THEN "SUSPENDED" ELSE "PAST_DUE"
      /\ row.effective = subscription[s].effective
  BY <1>1, <1>2 DEF Subscription, Suspended, Demoted, Statuses
<1>4. subscription' = [subscription EXCEPT ![s] = row]
  BY DEF Write
<1> HIDE DEF row
<1>5. QED
  BY <1>1, <1>3, <1>4 DEF CommercialInv, CommercialTypeOK

-----------------------------------------------------------------------------
(* The invariant is inductive *)

LEMMA CommercialInitInv == CommercialInit => CommercialInv
<1> SUFFICES ASSUME CommercialInit PROVE CommercialInv
  OBVIOUS
<1>1. NoRun \in Run /\ NoRun.started = 0 /\ NoRun.list = {}
  BY DEF NoRun, Run
<1>2. CommercialTypeOK
  BY <1>1 DEF CommercialInit, CommercialTypeOK
<1>3. OneKey /\ KeyFollowsStatus /\ ExtendedExist
  BY DEF CommercialInit, OneKey, KeyFollowsStatus, ExtendedExist, Exists
<1>4. RunInv
  BY <1>1 DEF CommercialInit, RunInv
<1>5. QED
  BY <1>2, <1>3, <1>4 DEF CommercialInv

\* The rows of the table: their type and their key
LEMMA RowStep ==
  ASSUME CommercialInv, [CommercialNext]_commercialVars
  PROVE  /\ subscription' \in [Subscriptions -> Subscription \cup {None}]
         /\ overtaken' \subseteq Subscriptions
         /\ \A s \in Subscriptions : Exists(s) => Exists(s)'
         /\ OneKey' /\ KeyFollowsStatus'
<1> USE NoSubscriptionIsNone
<1>1. ASSUME NEW s \in Subscriptions, NEW t \in Establishments,
             NEW trial \in Trials \cup {None}, NEW days \in Periods, Create(s, t, trial, days)
      PROVE  /\ subscription' \in [Subscriptions -> Subscription \cup {None}]
             /\ overtaken' \subseteq Subscriptions
             /\ \A o \in Subscriptions : Exists(o) => Exists(o)'
             /\ OneKey' /\ KeyFollowsStatus'
  <2>1. overtaken' = overtaken /\ Effective(t) \subseteq {s}
    BY <1>1 DEF Create, NoOtherEffective
  <2>2. \A o \in Subscriptions \ {s} :
          Exists(o) /\ subscription[o].tenant = t => ~subscription[o].effective
    BY <2>1 DEF Effective, Of
  <2>3. QED
    BY <1>1, <2>1, <2>2, CreateWrites DEF CommercialInv, CommercialTypeOK, OneKey, KeyFollowsStatus, Exists
<1>2. ASSUME NEW s \in Subscriptions, NEW status \in {"ACTIVE", "SUSPENDED", "CANCELED"},
             Transition(s, status)
      PROVE  /\ subscription' \in [Subscriptions -> Subscription \cup {None}]
             /\ overtaken' \subseteq Subscriptions
             /\ \A o \in Subscriptions : Exists(o) => Exists(o)'
             /\ OneKey' /\ KeyFollowsStatus'
  <2>1. /\ overtaken' = overtaken /\ Exists(s)
        /\ InForce(status) => Effective(subscription[s].tenant) \subseteq {s}
    BY <1>2 DEF Transition, NoOtherEffective
  <2>2. InForce(status) => \A o \in Subscriptions \ {s} :
          Exists(o) /\ subscription[o].tenant = subscription[s].tenant => ~subscription[o].effective
    BY <2>1 DEF Effective, Of
  <2>3. QED
    BY <1>2, <2>1, <2>2, TransitionWrites DEF CommercialInv, CommercialTypeOK, OneKey, KeyFollowsStatus, Exists
<1>3. ASSUME NEW r \in Administrators, Extend(r)
      PROVE  /\ subscription' \in [Subscriptions -> Subscription \cup {None}]
             /\ overtaken' \subseteq Subscriptions
             /\ \A o \in Subscriptions : Exists(o) => Exists(o)'
             /\ OneKey' /\ KeyFollowsStatus'
  <2>1. overtaken' = overtaken
    BY <1>3 DEF Extend
  <2>2. QED
    BY <1>3, <2>1, ExtendWrites DEF CommercialInv, CommercialTypeOK, OneKey, KeyFollowsStatus, Exists
<1>4. ASSUME NEW w \in Sweepers, NEW x \in sweep[w].list, Write(w, x)
      PROVE  /\ subscription' \in [Subscriptions -> Subscription \cup {None}]
             /\ overtaken' \subseteq Subscriptions
             /\ \A o \in Subscriptions : Exists(o) => Exists(o)'
             /\ OneKey' /\ KeyFollowsStatus'
  <2>1. /\ overtaken \subseteq overtaken' /\ overtaken' \subseteq overtaken \cup {x.id}
        /\ subscription[x.id] # x.row => x.id \in overtaken'
    BY <1>4 DEF Write
  <2>2. x.row.effective
    BY <1>4 DEF CommercialInv, RunInv, DueWhenListed, TrialOver, PeriodOver, GraceOver
  <2>3. OneKey'
    BY <1>4, SweepWrites DEF CommercialInv, OneKey, Exists
  <2>4. KeyFollowsStatus'
    BY <1>4, <2>1, <2>2, SweepWrites DEF CommercialInv, KeyFollowsStatus, Exists
  <2>5. QED
    BY <1>4, <2>1, <2>3, <2>4, SweepWrites DEF CommercialInv, CommercialTypeOK, Exists
<1>5. ASSUME UNCHANGED <<subscription, overtaken>>
      PROVE  /\ subscription' \in [Subscriptions -> Subscription \cup {None}]
             /\ overtaken' \subseteq Subscriptions
             /\ \A o \in Subscriptions : Exists(o) => Exists(o)'
             /\ OneKey' /\ KeyFollowsStatus'
  BY <1>5 DEF CommercialInv, CommercialTypeOK, OneKey, KeyFollowsStatus, Exists
<1>6. ASSUME NEW r \in Administrators, NEW s \in Subscriptions, NEW end \in Times,
             StartExtend(r, s, end)
      PROVE  UNCHANGED <<subscription, overtaken>>
  BY <1>6 DEF StartExtend
<1>7. ASSUME NEW grace \in Graces, NEW suspends \in BOOLEAN, UpdatePolicy(grace, suspends)
      PROVE  UNCHANGED <<subscription, overtaken>>
  BY <1>7 DEF UpdatePolicy
<1>8. ASSUME NEW w \in Sweepers, StartSweep(w) \/ ListNext(w) \/ SweepFails(w)
      PROVE  UNCHANGED <<subscription, overtaken>>
  BY <1>8 DEF StartSweep, ListNext, SweepFails
<1>9. Tick \/ UNCHANGED commercialVars => UNCHANGED <<subscription, overtaken>>
  BY DEF Tick, commercialVars
<1>10. QED
  BY <1>1, <1>2, <1>3, <1>4, <1>5, <1>6, <1>7, <1>8, <1>9
  DEF CommercialNext, Administer, SweepStep

\* The runs of the sweep
LEMMA RunStep ==
  ASSUME CommercialInv, [CommercialNext]_commercialVars
  PROVE  /\ sweep' \in [Sweepers -> Run] /\ now' \in Nat
         /\ RunInv'
<1>0. \A s \in Subscriptions : Exists(s) => Exists(s)'
  BY RowStep
<1>a. CommercialTypeOK /\ now \in Nat /\ sweep \in [Sweepers -> Run]
  BY DEF CommercialInv, CommercialTypeOK
<1>t. \A v \in Sweepers : sweep[v].started \in Nat /\ \A x \in sweep[v].list : x.id \in Subscriptions
  BY <1>a, RunTypes DEF Run
<1>1. ASSUME NEW w \in Sweepers, StartSweep(w)
      PROVE  sweep' \in [Sweepers -> Run] /\ now' \in Nat /\ RunInv'
  <2> DEFINE run == [phase |-> "trials", started |-> now, grace |-> now + policy.grace,
                     suspends |-> policy.suspends, list |-> ListTrials(now)]
  <2>1. policy.grace \in Nat /\ policy.suspends \in BOOLEAN /\ now + policy.grace \in Nat
    BY <1>a, PolicyTypes
  <2>2. run \in Run
    BY <1>a, <2>1, ListTypes DEF Run
  <2>3. sweep' = [sweep EXCEPT ![w] = run] /\ now' = now /\ subscription' = subscription
    BY <1>1 DEF StartSweep
  <2>4. /\ run.phase = "trials" /\ run.started = now
        /\ \A x \in run.list : Exists(x.id) /\ TrialOver(x.row, now)
    BY <1>a, ListTypes
  <2> HIDE DEF run
  <2>5. QED
    BY <1>a, <2>2, <2>3, <2>4 DEF CommercialInv, RunInv, DueWhenListed, Exists
<1>2. ASSUME NEW w \in Sweepers, ListNext(w)
      PROVE  sweep' \in [Sweepers -> Run] /\ now' \in Nat /\ RunInv'
  <2> DEFINE run == CASE sweep[w].phase = "trials" ->
              [sweep[w] EXCEPT !.phase = "periods", !.list = ListPeriods(sweep[w].started)]
         [] sweep[w].phase = "periods" /\ sweep[w].suspends ->
              [sweep[w] EXCEPT !.phase = "graces", !.list = ListGraces(sweep[w].started)]
         [] OTHER -> NoRun
  <2>1. sweep' = [sweep EXCEPT ![w] = run] /\ now' = now /\ subscription' = subscription
    BY <1>2 DEF ListNext
  <2>2. /\ run \in Run /\ run.started <= now
        /\ \A x \in run.list : Exists(x.id) /\
             (\/ run.phase = "periods" /\ PeriodOver(x.row, run.started)
              \/ run.phase = "graces" /\ GraceOver(x.row, run.started))
    <3>0. CommercialTypeOK
      BY DEF CommercialInv
    <3>1. sweep[w] \in Run /\ sweep[w].started \in Nat /\ sweep[w].started <= now
      BY <1>t, <1>a DEF CommercialInv, RunInv
    <3>2. CASE sweep[w].phase = "trials"
      <4>1. run = [sweep[w] EXCEPT !.phase = "periods", !.list = ListPeriods(sweep[w].started)]
        BY <3>2
      <4>2. run.phase = "periods" /\ run.started = sweep[w].started
            /\ run.list = ListPeriods(sweep[w].started)
        BY <3>1, <4>1 DEF Run
      <4>3. run \in Run
        BY <1>a, <3>0, <3>1, <4>1, ListTypes DEF Run
      <4>4. QED
        BY <1>a, <3>0, <3>1, <4>2, <4>3, ListTypes
    <3>3. CASE sweep[w].phase = "periods" /\ sweep[w].suspends
      <4>1. run = [sweep[w] EXCEPT !.phase = "graces", !.list = ListGraces(sweep[w].started)]
        BY <3>3
      <4>2. run.phase = "graces" /\ run.started = sweep[w].started
            /\ run.list = ListGraces(sweep[w].started)
        BY <3>1, <4>1 DEF Run
      <4>3. run \in Run
        BY <1>a, <3>0, <3>1, <4>1, ListTypes DEF Run
      <4>4. QED
        BY <1>a, <3>0, <3>1, <4>2, <4>3, ListTypes
    <3>4. NoRun \in Run /\ NoRun.started = 0 /\ NoRun.list = {}
      BY DEF NoRun, Run
    <3>5. CASE sweep[w].phase # "trials" /\ ~(sweep[w].phase = "periods" /\ sweep[w].suspends)
      <4>1. run = NoRun
        BY <3>5
      <4>2. run \in Run /\ run.started = 0 /\ run.list = {}
        BY <3>4, <4>1
      <4>3. QED
        BY <1>a, <4>2
    <3>6. QED
      BY <3>2, <3>3, <3>5
  <2> HIDE DEF run
  <2>3. QED
    BY <1>a, <2>1, <2>2 DEF CommercialInv, RunInv, DueWhenListed, Exists
<1>3. ASSUME NEW w \in Sweepers, SweepFails(w)
      PROVE  sweep' \in [Sweepers -> Run] /\ now' \in Nat /\ RunInv'
  <2>1. NoRun \in Run /\ NoRun.started = 0 /\ NoRun.list = {}
    BY DEF NoRun, Run
  <2>2. sweep' = [sweep EXCEPT ![w] = NoRun] /\ now' = now /\ subscription' = subscription
    BY <1>3 DEF SweepFails
  <2>3. QED
    BY <1>a, <2>1, <2>2 DEF CommercialInv, RunInv, DueWhenListed, Exists
<1>4. ASSUME NEW w \in Sweepers, NEW x \in sweep[w].list, Write(w, x)
      PROVE  sweep' \in [Sweepers -> Run] /\ now' \in Nat /\ RunInv'
  <2> DEFINE run == [sweep[w] EXCEPT !.list = sweep[w].list \ {x}]
  <2>1. sweep' = [sweep EXCEPT ![w] = run] /\ now' = now
    BY <1>4 DEF Write
  <2>2. /\ run \in Run /\ run.started = sweep[w].started /\ run.phase = sweep[w].phase
        /\ run.list \subseteq sweep[w].list
    BY <1>a DEF Run
  <2> HIDE DEF run
  <2>3. \A v \in Sweepers : sweep'[v].started = sweep[v].started
          /\ sweep'[v].phase = sweep[v].phase /\ sweep'[v].list \subseteq sweep[v].list
    BY <1>a, <2>1, <2>2
  <2>4. QED
    BY <1>0, <1>a, <1>t, <2>1, <2>2, <2>3 DEF CommercialInv, RunInv, DueWhenListed
<1>5. ASSUME sweep' = sweep, now' = now \/ now' = now + 1
      PROVE  sweep' \in [Sweepers -> Run] /\ now' \in Nat /\ RunInv'
  BY <1>0, <1>a, <1>t, <1>5 DEF CommercialInv, RunInv, DueWhenListed
<1>6. ASSUME NEW s \in Subscriptions, NEW t \in Establishments,
             NEW trial \in Trials \cup {None}, NEW days \in Periods, Create(s, t, trial, days)
      PROVE  sweep' = sweep /\ now' = now
  BY <1>6 DEF Create
<1>7. ASSUME NEW s \in Subscriptions, NEW status \in {"ACTIVE", "SUSPENDED", "CANCELED"},
             Transition(s, status)
      PROVE  sweep' = sweep /\ now' = now
  BY <1>7 DEF Transition
<1>8. ASSUME NEW r \in Administrators, NEW s \in Subscriptions, NEW end \in Times,
             StartExtend(r, s, end)
      PROVE  sweep' = sweep /\ now' = now
  BY <1>8 DEF StartExtend
<1>9. ASSUME NEW r \in Administrators, Extend(r)
      PROVE  sweep' = sweep /\ now' = now
  BY <1>9 DEF Extend
<1>10. ASSUME NEW grace \in Graces, NEW suspends \in BOOLEAN, UpdatePolicy(grace, suspends)
       PROVE  sweep' = sweep /\ now' = now
  BY <1>10 DEF UpdatePolicy
<1>11. Tick \/ UNCHANGED commercialVars => sweep' = sweep /\ (now' = now \/ now' = now + 1)
  BY DEF Tick, commercialVars
<1>12. QED
  BY <1>1, <1>2, <1>3, <1>4, <1>5, <1>6, <1>7, <1>8, <1>9, <1>10, <1>11
  DEF CommercialNext, Administer, SweepStep

\* The policy, the extensions and the count of failures
LEMMA RequestStep ==
  ASSUME CommercialInv, [CommercialNext]_commercialVars
  PROVE  /\ failures' \in Nat /\ policy' \in [grace : Graces, suspends : BOOLEAN]
         /\ extending' \in [Administrators -> Extension \cup {None}]
         /\ ExtendedExist'
<1> USE NoSubscriptionIsNone
<1>0. \A s \in Subscriptions : Exists(s) => Exists(s)'
  BY RowStep
<1>a. /\ failures \in Nat /\ policy \in [grace : Graces, suspends : BOOLEAN]
      /\ extending \in [Administrators -> Extension \cup {None}]
      /\ ExtendedExist
  BY DEF CommercialInv, CommercialTypeOK
<1>b. ASSUME failures' \in Nat, policy' \in [grace : Graces, suspends : BOOLEAN], extending' = extending
      PROVE  /\ extending' \in [Administrators -> Extension \cup {None}]
             /\ ExtendedExist'
  BY <1>0, <1>a, <1>b DEF ExtendedExist, Extension
<1>1. ASSUME NEW r \in Administrators, NEW s \in Subscriptions, NEW end \in Times,
             StartExtend(r, s, end)
      PROVE  /\ failures' = failures /\ policy' = policy
             /\ extending' \in [Administrators -> Extension \cup {None}]
             /\ ExtendedExist'
  <2> DEFINE new == [id |-> s, end |-> end]
  <2>1. /\ extending' = [extending EXCEPT ![r] = new] /\ Exists(s)
        /\ failures' = failures /\ policy' = policy
    BY <1>1 DEF StartExtend
  <2>2. new \in Extension /\ new.id = s
    BY DEF Extension
  <2> HIDE DEF new
  <2>3. QED
    BY <1>0, <1>a, <2>1, <2>2 DEF ExtendedExist, Extension
<1>2. ASSUME NEW r \in Administrators, Extend(r)
      PROVE  /\ failures' = failures /\ policy' = policy
             /\ extending' \in [Administrators -> Extension \cup {None}]
             /\ ExtendedExist'
  <2>1. /\ extending' = [extending EXCEPT ![r] = None]
        /\ failures' = failures /\ policy' = policy
    BY <1>2 DEF Extend
  <2>2. QED
    BY <1>0, <1>a, <2>1 DEF ExtendedExist, Extension
<1>3. ASSUME NEW s \in Subscriptions, NEW t \in Establishments,
             NEW trial \in Trials \cup {None}, NEW days \in Periods, Create(s, t, trial, days)
      PROVE  UNCHANGED <<failures, policy, extending>>
  BY <1>3 DEF Create
<1>4. ASSUME NEW s \in Subscriptions, NEW status \in {"ACTIVE", "SUSPENDED", "CANCELED"},
             Transition(s, status)
      PROVE  UNCHANGED <<failures, policy, extending>>
  BY <1>4 DEF Transition
<1>5. ASSUME NEW grace \in Graces, NEW suspends \in BOOLEAN, UpdatePolicy(grace, suspends)
      PROVE  /\ failures' = failures /\ policy' \in [grace : Graces, suspends : BOOLEAN]
             /\ extending' = extending
  BY <1>5 DEF UpdatePolicy
<1>6. ASSUME NEW w \in Sweepers, StartSweep(w) \/ ListNext(w)
      PROVE  UNCHANGED <<failures, policy, extending>>
  BY <1>6 DEF StartSweep, ListNext
<1>7. ASSUME NEW w \in Sweepers, NEW x \in sweep[w].list, Write(w, x)
      PROVE  UNCHANGED <<failures, policy, extending>>
  BY <1>7 DEF Write
<1>8. ASSUME NEW w \in Sweepers, SweepFails(w)
      PROVE  failures' \in Nat /\ UNCHANGED <<policy, extending>>
  BY <1>a, <1>8 DEF SweepFails
<1>9. Tick \/ UNCHANGED commercialVars => UNCHANGED <<failures, policy, extending>>
  BY DEF Tick, commercialVars
<1>10. QED
  BY <1>a, <1>b, <1>1, <1>2, <1>3, <1>4, <1>5, <1>6, <1>7, <1>8, <1>9
  DEF CommercialNext, Administer, SweepStep

LEMMA CommercialStep ==
  CommercialInv /\ [CommercialNext]_commercialVars => CommercialInv'
BY RowStep, RunStep, RequestStep DEF CommercialInv, CommercialTypeOK

\* The rows, the key of each row and what the runs of the sweep carry are as the tables
\* and the code of the sweep say, at every moment.
THEOREM CommercialInvariant == CommercialSpec => []CommercialInv
BY CommercialInitInv, CommercialStep, PTL DEF CommercialSpec

-----------------------------------------------------------------------------
\* The rows and the runs keep their types.
THEOREM CommercialTyped == CommercialSpec => []CommercialTypeOK
<1>1. CommercialInv => CommercialTypeOK
  BY DEF CommercialInv
<1>2. QED
  BY <1>1, CommercialInvariant, PTL

\* Two subscriptions of an establishment are in force together only after the sweep wrote
\* one that had changed since it listed it: every other writer moves the key with the
\* status, and the index keeps the key unique.
THEOREM OneSubscriptionInForce == CommercialSpec => []OneInForce
<1>1. CommercialInv => OneInForce
  BY DEF CommercialInv, OneKey, KeyFollowsStatus, OneInForce
<1>2. QED
  BY <1>1, CommercialInvariant, PTL

\* A sweep demotes and suspends past the dates the row has, unless the row changed since
\* the sweep listed it: what was due when the run began is due while the row is the same.
LEMMA SweepStepWhenDue ==
  ASSUME CommercialInv, [CommercialNext]_commercialVars,
         NEW w \in Sweepers, NEW s \in Subscriptions,
         sweep'[w] # sweep[w], subscription'[s] # subscription[s]
  PROVE  \/ /\ subscription'[s].status = "PAST_DUE"
            /\ TrialOver(subscription[s], now) \/ PeriodOver(subscription[s], now)
         \/ /\ subscription'[s].status = "SUSPENDED"
            /\ GraceOver(subscription[s], now)
         \/ \E x \in sweep[w].list : x.id = s /\ x.row # subscription[s]
<1>a. CommercialTypeOK /\ now \in Nat /\ sweep \in [Sweepers -> Run]
  BY DEF CommercialInv, CommercialTypeOK
<1>1. PICK v \in Sweepers : \E x \in sweep[v].list : Write(v, x)
  <2>1. \A p \in Subscriptions, t \in Establishments, trial \in Trials \cup {None},
           days \in Periods : Create(p, t, trial, days) => sweep' = sweep
    BY DEF Create
  <2>2. \A p \in Subscriptions, status \in {"ACTIVE", "SUSPENDED", "CANCELED"} :
          Transition(p, status) => sweep' = sweep
    BY DEF Transition
  <2>3. \A r \in Administrators : Extend(r) => sweep' = sweep
    BY DEF Extend
  <2>4. \A r \in Administrators, p \in Subscriptions, end \in Times :
          StartExtend(r, p, end) => subscription' = subscription
    BY DEF StartExtend
  <2>5. \A grace \in Graces, suspends \in BOOLEAN :
          UpdatePolicy(grace, suspends) => subscription' = subscription
    BY DEF UpdatePolicy
  <2>6. \A u \in Sweepers :
          StartSweep(u) \/ ListNext(u) \/ SweepFails(u) => subscription' = subscription
    BY DEF StartSweep, ListNext, SweepFails
  <2>7. Tick \/ UNCHANGED commercialVars => subscription' = subscription
    BY DEF Tick, commercialVars
  <2>8. QED
    BY <2>1, <2>2, <2>3, <2>4, <2>5, <2>6, <2>7 DEF CommercialNext, Administer, SweepStep
<1>2. PICK x \in sweep[v].list : Write(v, x)
  BY <1>1
<1>3. v = w
  BY <1>a, <1>2 DEF Write
<1>4. x.id = s
  BY <1>2, SweepWrites
<1>5. CASE x.row = subscription[s]
  <2>1. /\ sweep[w].started \in Nat /\ sweep[w].started <= now /\ x.row \in Subscription
        /\ DueWhenListed(w, x)
    BY <1>a, <1>2, <1>3, RunTypes DEF CommercialInv, RunInv, Run
  <2>2. \/ sweep[w].phase = "trials" /\ TrialOver(x.row, now)
        \/ sweep[w].phase = "periods" /\ PeriodOver(x.row, now)
        \/ sweep[w].phase = "graces" /\ GraceOver(x.row, now)
    BY <1>a, <2>1, DueStays DEF DueWhenListed
  <2>3. subscription'[s].status = IF sweep[w].phase = "graces" THEN "SUSPENDED" ELSE "PAST_DUE"
    BY <1>2, <1>3, <1>4, SweepWrites
  <2>4. QED
    BY <1>5, <2>2, <2>3
<1>6. QED
  BY <1>2, <1>3, <1>4, <1>5

\* A run of the sweep demotes only past the trial or the period, and suspends only past
\* the grace, unless the row changed since it listed it.
THEOREM SweepIsDue == CommercialSpec => SweptWhenDue
<1>1. CommercialInv /\ [CommercialNext]_commercialVars =>
        [\A w \in Sweepers, s \in Subscriptions :
           (sweep'[w] # sweep[w] /\ subscription'[s] # subscription[s]) =>
             \/ /\ subscription'[s].status = "PAST_DUE"
                /\ TrialOver(subscription[s], now) \/ PeriodOver(subscription[s], now)
             \/ /\ subscription'[s].status = "SUSPENDED"
                /\ GraceOver(subscription[s], now)
             \/ \E x \in sweep[w].list : x.id = s /\ x.row # subscription[s]]_commercialVars
  BY SweepStepWhenDue
<1>2. QED
  BY <1>1, CommercialInvariant, PTL DEF CommercialSpec, SweptWhenDue
=============================================================================
