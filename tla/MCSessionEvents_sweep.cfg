\* A sweep that fails half way, and an upload that resumes.
CONSTANTS
  a = a  b = b  c1 = c1  c2 = c2
  Events = {a}
  MaxLen = 2
  Clients = {c1}
  RetryLimit = 2
  MaxGens = 2
  MaxAppends = 0
  MaxEdits = 1
  MaxFaults = 1
  MaxIdles = 1
  MaxSweeps = 1
  SweepFaults = 1
SPECIFICATION Spec
INVARIANTS CurrentReadable
CHECK_DEADLOCK FALSE
