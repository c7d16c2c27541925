\* Two workers, a linked and an unlinked delivery, archives and faults.
CONSTANTS
  d1 = d1  d2 = d2  w1 = w1  w2 = w2
  Deliveries = {d1, d2}
  Linked = {d1}
  Queued = {d2}
  Workers = {w1, w2}
  MaxAttempts = 2
  MaxControls = 1
  MaxFaults = 1
SPECIFICATION FairSpec
INVARIANTS TypeOK SendsBounded SucceededWasAccepted ArchivedLinkFenced
PROPERTY NeverReopened EveryDeliverySettles
CHECK_DEADLOCK FALSE
