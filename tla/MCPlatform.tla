----------------------------- MODULE MCPlatform -----------------------------
(* Small instances of Platform for TLC.                                    *)
EXTENDS Platform, TLC

Config(version, release, gate, infra, sso) ==
  [version |-> version, release |-> release, gate |-> gate, infra |-> infra,
   sso |-> sso]
OneConfig == {Config("v1", "r1", TRUE, TRUE, FALSE)}
SsoConfig == {Config("v1", "r1", TRUE, TRUE, TRUE)}
AnyConfig == {Config("v1", "r1", gate, infra, FALSE) : gate, infra \in BOOLEAN}

Symmetry == Permutations(ID) \cup Permutations(Req)

\* Objects nothing refers to any more cannot influence the broker.
Reachable(i, g) == cur[i] = g \/ \E r \in Req : Holds(r, i, g)
View == <<cfg, cur,
          [i \in ID |-> [g \in Gen |-> IF Reachable(i, g) THEN heap[i][g]
                                                         ELSE NoInstance]],
          tracker, disk, h, tasks, last, deployed, uaa, cf, waiting>>
=============================================================================
