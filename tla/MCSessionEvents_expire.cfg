\* A generation expires before the upload is resumed.
CONSTANTS
  a = a  b = b  c1 = c1  c2 = c2
  Events = {a}
  MaxLen = 2
  Clients = {c1}
  RetryLimit = 2
  MaxGens = 2
  MaxAppends = 0
  MaxEdits = 1
  MaxFaults = 2
  MaxIdles = 2
  MaxSweeps = 0
  SweepFaults = 0
SPECIFICATION Spec
INVARIANTS ConfirmedWasStored
CHECK_DEADLOCK FALSE
