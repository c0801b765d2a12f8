\* Two rows, one a batch, two instances and one manual retry, two attempts.
SPECIFICATION QueueSpec
CONSTANTS
  Notes = {1, 2}
  Workers = {w1, w2}
  Retries = {m1}
  MaxAttempts = 2
  BatchSize = 1
  None = None
INVARIANTS
  OneSender
  DeliveredOnce
  ProcessingIsAttended
PROPERTIES
  RetryPolicy
  Settles
\* Everything may be settled.
CHECK_DEADLOCK FALSE
