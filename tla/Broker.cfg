SPECIFICATION Spec
CONSTANTS
  a = a
  r1 = r1
  r2 = r2
  ID = {a}
  Org = {"o"}
  Plans = {"small"}
  FirstPlan = "small"
  Version = {"v1", "v2"}
  Release = {"r1", "r2"}
  Configs <- MixedConfigs
  MaxInstances = 0
  MaxInstancesPerOrg = 0
  Req = {r1, r2}
  MaxGen = 3
  MaxTask = 2
  Ops = {"provision", "deprovision", "lastop", "update", "bind", "upgrade", "status"}
  Faults = {"restart", "deployLost"}
INVARIANTS TypeOK
PROPERTIES SlotStable
VIEW View
SYMMETRY Symmetry
