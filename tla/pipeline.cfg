CONSTANTS
  r1 = r1
  r2 = r2
  p1 = p1
  Requestors = {r1,r2}
  Projects = {p1}
  JenkinsProject <- OneProject
  MaxBuild = 1
  SharedQueue = FALSE
  Faults = {"timeout"}
  SetupScript = "empty"
  RunScript = "dotted"
  Stages = 3
  MaxLogs = 1
SPECIFICATION Spec
CHECK_DEADLOCK FALSE
 
INVARIANT PipelineInv
