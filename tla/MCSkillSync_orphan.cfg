\* Does the daemon remember every row it left in an old Project?
CONSTANTS
  s1 = s1  pA = pA  pB = pB
  SkillKeys = {s1}
  SessionKeys = {}
  MaxItems = 2
  Projects = {pA, pB}
  FirstProject = pA
  Absent = absent
  Reserved = reserved
  Shared = shared
  MaxAttempts = 2
  MaxEdits = 1
  MaxReassigns = 1
  MaxFaults = 0
SPECIFICATION Spec
INVARIANTS OldProjectRowTracked
CHECK_DEADLOCK FALSE
