SPECIFICATION FairErrandSpec
CONSTANTS
  a = a
  r1 = r1
  r2 = r2
  ID = {a}
  Org = {"o"}
  Plans = {"small"}
  FirstPlan = "small"
  Version = {"v1", "v2"}
  Release = {"r1", "r2"}
  Configs <- TwoVersions
  MaxInstances = 0
  MaxInstancesPerOrg = 0
  Req = {r1, r2}
  MaxGen = 2
  MaxTask = 3
  Ops = {"provision", "upgrade", "status"}
  Faults = {"crash", "save"}
  Impatience = {"timeout", "overlap"}
  CanaryPct = 50
  HealthTimeout = 2
  MaxRuns = 1
PROPERTIES ErrandEnds
