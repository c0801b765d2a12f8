\* One establishment with two subscriptions, a trial of a day, a period of two, a grace
\* of one, one worker (whose flag keeps its runs apart), one of whose runs may throw.
SPECIFICATION CommercialSpec
CONSTANTS
  None = None
  Establishments = {t1}
  Subscriptions = {1, 2}
  Sweepers = {w1}
  Administrators = {r1}
  Trials = {1}
  Periods = {2}
  Graces = {1}
  MaxTime = 2
  MaxFailures = 1
INVARIANTS
  OneInForce
PROPERTIES
  SweptWhenDue OverdueIsSettled
\* An establishment may have had all its subscriptions by the last day.
CHECK_DEADLOCK FALSE
