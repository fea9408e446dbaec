----------------------------- MODULE MCErrand -----------------------------
(* Small instances of UpgradeErrand for TLC.                                    *)
EXTENDS UpgradeErrand, Functions, TLC

Config(version, release, gate, infra, sso) ==
  [version |-> version, release |-> release, gate |-> gate, infra |-> infra,
   sso |-> sso]
Current == Config("v2", "r2", TRUE, TRUE, FALSE)
TwoVersions == {Config("v1", "r1", TRUE, TRUE, FALSE), Current}
NewVersion == {Current}

Symmetry == Permutations(ID) \cup Permutations(Req)

\* Objects nothing refers to any more cannot influence the broker.
Reachable(i, g) == cur[i] = g \/ \E r \in Req : Holds(r, i, g)
View == <<cfg, cur,
          [i \in ID |-> [g \in Gen |-> IF Reachable(i, g) THEN heap[i][g]
                                                         ELSE NoInstance]],
          tracker, disk, h, tasks, last, deployed, uaa, cf, waiting, errand>>

\* A fleet that an earlier broker process left, one ready agent for every
\* instance: of the configured version, or of the one before it.
VersionOf(x) == IF x = "new" THEN "v2" ELSE "v1"
ReleaseOf(x) == IF x = "new" THEN "r2" ELSE "r1"
Agent(x, t) == [org |-> "o", state |-> "ready", task |-> t, version |-> VersionOf(x),
                plan |-> FirstPlan, sso |-> FALSE]
Made(x) == [version |-> VersionOf(x), release |-> ReleaseOf(x), plan |-> FirstPlan,
            sso |-> FALSE]
Created(i, x) == [kind |-> "deploy", id |-> i, man |-> Made(x), status |-> "done"]
Number == CHOOSE n \in [ID -> 1..Cardinality(ID)] : IsInjective(n)
FleetInit ==
  /\ cfg \in Configs
  /\ tracker = [i \in ID |-> 0] /\ h = [r \in Req |-> Idle] /\ uaa = {}
  /\ cur = [i \in ID |-> 1]
  /\ \E f \in [ID -> {"old", "new"}] :
       /\ disk = [i \in ID |-> Agent(f[i], Number[i])]
       /\ tasks = [t \in TaskId |->
                     IF t > Cardinality(ID) THEN NoTask
                     ELSE LET i == CHOOSE j \in ID : Number[j] = t IN Created(i, f[i])]
       /\ deployed = [i \in ID |-> [status |-> "up", man |-> Made(f[i])]]
       /\ cf = [i \in ID |-> "available"]
  /\ heap = [i \in ID |-> [g \in Gen |-> IF g = 1 THEN disk[i] ELSE NoInstance]]
  /\ last = Cardinality(ID)
  /\ waiting = [i \in ID |-> "none"] /\ errand = Off
FleetSpec == FleetInit /\ [][ErrandNext]_evars
FairFleetSpec == FleetSpec /\ ErrandFairness
=============================================================================
