SPECIFICATION PlatformSpec
CONSTANTS
  a = a
  b = b
  r1 = r1
  r2 = r2
  ID = {a, b}
  Org = {"o"}
  Plans = {"small", "large"}
  FirstPlan = "small"
  Version = {"v1"}
  Release = {"r1"}
  Configs <- SsoConfig
  MaxInstances = 0
  MaxInstancesPerOrg = 0
  Req = {r1, r2}
  MaxGen = 2
  MaxTask = 3
  Ops = {"provision", "deprovision", "lastop", "update", "bind"}
  Faults = {"delete", "deleteLost", "task", "status"}
  Impatience = {}
INVARIANTS NoOrphan PolledTask BoundIsUp
VIEW View
SYMMETRY Symmetry
