\* Two uploaders of one machine that share the lock file, append, truncate and repeat.
CONSTANTS
  a = a  b = b  c1 = c1  c2 = c2
  Events = {a}
  MaxLen = 3
  Clients = {c1, c2}
  RetryLimit = 2
  MaxGens = 2
  MaxAppends = 2
  MaxEdits = 3
  MaxFaults = 0
  MaxIdles = 1
  MaxSweeps = 1
  SweepFaults = 0
SPECIFICATION Spec
INVARIANTS CurrentReadable SharedReadable
PROPERTY AnswerIsTrue ImplementsSessionLog
CHECK_DEADLOCK FALSE
