SPECIFICATION FairFleetSpec
CONSTANTS
  a = a
  b = b
  r1 = r1
  r2 = r2
  ID = {a, b}
  Org = {"o"}
  Plans = {"small"}
  FirstPlan = "small"
  Version = {"v1", "v2"}
  Release = {"r1", "r2"}
  Configs <- NewVersion
  MaxInstances = 0
  MaxInstancesPerOrg = 0
  Req = {r1, r2}
  MaxGen = 1
  MaxTask = 4
  Ops = {"upgrade", "status"}
  Faults = {"crash", "deploy", "status"}
  Impatience = {"timeout"}
  CanaryPct = 50
  HealthTimeout = 2
  MaxRuns = 1
PROPERTIES ErrandEnds RequestsAnswered
