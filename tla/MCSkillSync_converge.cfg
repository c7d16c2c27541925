\* Two changes of a folder, a change of Project and a failed request, a retired binding or a
\* crash, in every order with the watcher, the reconcile and the drain loop.
CONSTANTS
  s1 = s1  pA = pA  pB = pB
  SkillKeys = {s1}
  SessionKeys = {}
  MaxItems = 2
  Projects = {pA, pB}
  FirstProject = pA
  Absent = absent
  Reserved = reserved
  Shared = shared
  MaxAttempts = 2
  MaxEdits = 2
  MaxReassigns = 1
  MaxFaults = 1
SPECIFICATION FairSpec
INVARIANT TypeOK
PROPERTY Converges ClaimReleasedAfterRow
CHECK_DEADLOCK FALSE
