\* One uploader that breaks off, or whose generation gets too old; appends, rewrites and failing sweeps.
CONSTANTS
  a = a  b = b  c1 = c1  c2 = c2
  Events = {a, b}
  MaxLen = 2
  Clients = {c1}
  RetryLimit = 2
  MaxGens = 3
  MaxAppends = 2
  MaxEdits = 2
  MaxFaults = 1
  MaxIdles = 0
  MaxSweeps = 2
  SweepFaults = 1
SPECIFICATION FairSpec
INVARIANTS TypeOK ConfirmedWasStored CurrentReadable SharedReadable
PROPERTY TranscriptStored ImplementsSessionLog
CHECK_DEADLOCK FALSE
