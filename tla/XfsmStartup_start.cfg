CONSTANTS
  p1 = p1
  p2 = p2
  p3 = p3
  p4 = p4
  Properties = {p1, p2, p3, p4}
  Priority <- MCPriority
  Broken = {p2}
  Flaky = {p1}
  MAX_RESTART_ATTEMPTS = 1
SPECIFICATION FairSpec
INVARIANT TimersFollowQueue
INVARIANT AttemptsFollowClient
INVARIANT StartupWaitsForSomeone
PROPERTY RestartableKept
PROPERTY GroupsInOrder
PROPERTY StartupEnds
CHECK_DEADLOCK FALSE
