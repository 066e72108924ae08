SPECIFICATION Spec
CONSTANTS
  u1 = u1
  g1 = g1
  i1 = i1
  x1 = x1
  Users = {u1}
  Clients = {c1, c2}
  UserOf <- MCUserOf
  Goals = {g1, g2}
  GoalOwner <- MCGoalOwner
  Sessions = {s1, s2}
  Items = {i1}
  ItemGoal <- MCItemGoal
  Subjects = {x1}
  SubjectOf <- MCSubjectOf
  NoItem = NoItem
  NoSession = NoSession
  TicksPerSecond = 1
  MaxTime = 1
  MaxVersion = 3
SYMMETRY MCSymmetry
INVARIANTS
  OneOpenSessionPerUser
  OpenPauseIffPaused
  ItemHeldByOpenSession
  MasteryIsEvidence
PROPERTIES
  SessionLifeCycle
