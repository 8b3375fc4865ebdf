CONSTANTS
  r1 = r1
  r2 = r2
  p1 = p1
  Requestors = {r1,r2}
  Projects = {p1}
  JenkinsProject <- OneProject
  MaxBuild = 2
  SharedQueue = TRUE
  Faults = {}
  SetupScript = "empty"
  RunScript = "dotted"
  Stages = 1
  MaxLogs = 0
SPECIFICATION Spec
VIEW ButSince
CHECK_DEADLOCK FALSE
INVARIANT VerdictFromFinishedBuild
INVARIANT VerdictInv
