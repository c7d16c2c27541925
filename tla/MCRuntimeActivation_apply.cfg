\* Two changes of the manifest and two faults.
CONSTANTS
  A = A  B = B  C = C  D = D  sys = sys  usr = usr  r1 = r1  r2 = r2  bad = bad  None = None
  Manifests = {A, B, C, D}
  SystemUnits = {sys}
  UserUnits = {usr}
  Revisions = {r1, r2, bad}
  Broken = {bad}
  Contents <- FourManifests
  MaxChanges = 2
  MaxFaults = 2
SPECIFICATION FairSpec
INVARIANTS TypeOK CommittedReplayable ReceiptRuns
PROPERTY Settles
CHECK_DEADLOCK FALSE
