SPECIFICATION ToolsSpec
CONSTANTS
  Roadmaps <- MCRoadmaps
  MaxIters = 4
  MaxCommits = 2
  Cases <- MCCases
  Containers <- MCContainers
  CaseLists <- MCCaseLists
INVARIANTS AcceptedIsWhole SuccessMeansDone StallGuard PassIsEarned
CHECK_DEADLOCK FALSE
