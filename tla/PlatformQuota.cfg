SPECIFICATION PlatformSpec
CONSTANTS
  a = a
  b = b
  c = c
  r1 = r1
  r2 = r2
  ID = {a, b, c}
  Org = {"o1", "o2", "o3"}
  Plans = {"small"}
  FirstPlan = "small"
  Version = {"v1"}
  Release = {"r1"}
  Configs <- AnyConfig
  MaxInstances = 2
  MaxInstancesPerOrg = 1
  Req = {r1, r2}
  MaxGen = 2
  MaxTask = 3
  Ops = {"provision", "deprovision", "lastop"}
  Faults = {"deploy"}
  Impatience = {}
INVARIANTS QuotaHolds
VIEW View
SYMMETRY Symmetry
