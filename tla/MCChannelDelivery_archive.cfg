\* Does archiving a link end its deliveries?
CONSTANTS
  d1 = d1  d2 = d2  w1 = w1  w2 = w2
  Deliveries = {d1}
  Linked = {d1}
  Queued = {}
  Workers = {w1}
  MaxAttempts = 1
  MaxControls = 1
  MaxFaults = 0
SPECIFICATION Spec
INVARIANTS ArchiveEndsDeliveries
CHECK_DEADLOCK FALSE
