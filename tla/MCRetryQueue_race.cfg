\* Watcher, waiting producer and drain loop race for the slots of two modules.
CONSTANTS
  s1 = s1  s2 = s2  c1 = c1  a = a   junk = junk
  SkillKeys = {s1, s2}
  SessionKeys = {c1}
  MaxItems = 1
  Payloads = {a}
  Producers = {p1}
  MaxAttempts = 2
  LegacyDisks <- NoDisk
  Junk = junk
  MaxVersion = 2
  MaxBeats = 0
  MaxStarts = 1
SPECIFICATION FairSpec
INVARIANTS TypeOK ModuleBounded AcceptedWorkNotLost BlockedOnlyWhenFull NeverSleepsOnWork
PROPERTY EveryItemLeaves
CHECK_DEADLOCK FALSE
