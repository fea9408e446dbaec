------------------------------ MODULE MCBroker ------------------------------
(* Small instances of Broker for TLC.                                      *)
EXTENDS Broker, TLC

Config(version, release, gate, infra, sso) ==
  [version |-> version, release |-> release, gate |-> gate, infra |-> infra,
   sso |-> sso]
OneConfig == {Config("v1", "r1", TRUE, TRUE, FALSE)}
MixedConfigs == {Config("v1", "r1", TRUE, TRUE, TRUE), Config("v2", "r2", TRUE, TRUE, FALSE)}
SsoConfig == {Config("v1", "r1", TRUE, TRUE, TRUE)}

Symmetry == Permutations(ID) \cup Permutations(Req)

\* Objects nothing refers to any more cannot influence the broker, and no
\* handler, task or property of this run looks at the content of a manifest, at
\* how well a deployment runs or at UAA's clients.
Reachable(i, g) == cur[i] = g \/ \E r \in Req : Holds(r, i, g)
View == <<cfg, cur,
          [i \in ID |-> [g \in Gen |-> IF Reachable(i, g) THEN heap[i][g]
                                                         ELSE NoInstance]],
          tracker, disk, [r \in Req |-> [h[r] EXCEPT !.man = NoManifest]],
          [t \in TaskId |-> [tasks[t] EXCEPT !.man = NoManifest]], last,
          [i \in ID |-> deployed[i].status # "absent"]>>
=============================================================================
