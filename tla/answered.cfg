CONSTANTS
  r1 = r1
  r2 = r2
  p1 = p1
  Requestors = {r1}
  Projects = {p1}
  JenkinsProject <- OneProject
  MaxBuild = 2
  SharedQueue = FALSE
  Faults = {"rebuild"}
  SetupScript = "dotted"
  RunScript = "dotted"
  Stages = 1
  MaxLogs = 0
SPECIFICATION FairSpec
CHECK_DEADLOCK FALSE
 
PROPERTY OldBuildEnds
