SPECIFICATION Spec
CONSTANTS
  u1 = u1
  g1 = g1
  i1 = i1
  x1 = x1
  Users = {u1}
  Clients = {c1}
  UserOf <- MCUserOf
  Goals = {g1}
  GoalOwner <- MCGoalOwner
  Sessions = {s1}
  Items = {i1}
  ItemGoal <- MCItemGoal
  Subjects = {x1}
  SubjectOf <- MCSubjectOf
  NoItem = NoItem
  NoSession = NoSession
  TicksPerSecond = 3
  MaxTime = 6
  MaxVersion = 7
INVARIANT NetIsTimeStudied
