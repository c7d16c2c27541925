\* Crashes, stops and restarts between writes, from files of earlier binaries, and heartbeats that fail.
CONSTANTS
  s1 = s1  s2 = s2  c1 = c1  a = a   junk = junk
  SkillKeys = {s1}
  SessionKeys = {c1}
  MaxItems = 2
  Payloads = {a}
  Producers = {}
  MaxAttempts = 2
  LegacyDisks <- SomeDisks
  Junk = junk
  MaxVersion = 2
  MaxBeats = 1
  MaxStarts = 2
SPECIFICATION Spec
INVARIANTS QueueWellFormed DrainHoldsCurrentItem DiskFollowsMemory DropsNeverUnderreported
PROPERTY RestartKeepsQueue
CHECK_DEADLOCK FALSE
