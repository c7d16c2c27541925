\* Two sign-ins, one of the device flow, two requests, two revoke workers and one fault.
CONSTANTS
  r1 = r1  r2 = r2  w1 = w1  w2 = w2
  Requests = {r1, r2}
  Workers = {w1, w2}
  MaxSignIns = 2
  Device = {1}
  MaxTokens = 2
  MaxReplaces = 1
  MaxFaults = 1
SPECIFICATION FairSpec
INVARIANTS TypeOK InstalledNeverRevoked TokenAccounted
PROPERTY OutcomeStands OrphansRevoked
CHECK_DEADLOCK FALSE
