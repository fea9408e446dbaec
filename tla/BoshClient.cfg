SPECIFICATION ProcessSpec
CONSTANTS
  c1 = c1
  c2 = c2
  Callers = {c1, c2}
  Lifetimes = {1, 4}
  Margin = 2
  Timeout = 2
  MaxTask = 2
  LabelMax = 8
  Owners <- OwnerParams
  IDs <- InstanceIDs
  Texts <- QuotedTexts
  Commands <- CommandNames
  Years = {2025, 2026, 2027}
  Months = {1, 2, 12}
  Days = {1, 28, 29, 31}
  PlanNames = {"", "n1", "n2"}
INVARIANTS ClientTypeOK CachedIsLive HostnameIsLabel HostnamesDiffer QuotedReadsBack BlockedAsListed PortsServed GateIsDateOrder PlansOffered OneSetOfCredentials
PROPERTIES OneTaskPerCall CallsReturn
