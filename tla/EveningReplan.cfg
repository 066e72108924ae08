SPECIFICATION PlanSpec
CONSTANTS
  u1 = u1
  x1 = x1
  Users = {u1}
  Clients = {c1}
  UserOf <- MCUserOf
  Goals = {g1, g2}
  GoalOwner <- MCGoalOwner
  Sessions = {s1}
  Items <- MCItems
  ItemGoal <- MCItemGoal
  Subjects = {x1}
  SubjectOf <- MCSubjectOf
  NoItem = NoItem
  NoSession = NoSession
  TicksPerSecond = 1
  MaxTime = 0
  MaxVersion = 2
  Proposals = {p1, p2}
  NoGoal = NoGoal
  NoProposal = NoProposal
  MaxDay = 2
  Horizons <- MCHorizons
  MaxProposing = 1
PROPERTY ReplanDatesAreLocal
