SPECIFICATION PlatformSpec
CONSTANTS
  a = a
  r1 = r1
  ID = {a}
  Org = {"o"}
  Plans = {"small"}
  FirstPlan = "small"
  Version = {"v1"}
  Release = {"r1"}
  Configs <- SsoConfig
  MaxInstances = 0
  MaxInstancesPerOrg = 0
  Req = {r1}
  MaxGen = 2
  MaxTask = 4
  Ops = {"provision", "deprovision", "lastop"}
  Faults = {"crash", "deploy", "deployLost", "task", "uaa"}
  Impatience = {"timeout"}
INVARIANTS NoOrphan SavedWhenIdle
VIEW View
