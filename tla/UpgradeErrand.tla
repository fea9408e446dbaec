--------------------------- MODULE UpgradeErrand ---------------------------
(***************************************************************************)
(* The upgrade-agents errand: it lists the broker's instances, asks for a  *)
(* canary upgrade, polls the upgrade status until enough instances are     *)
(* healthy, and does the same for the rest.  It runs beside the platform,  *)
(* through the same broker; each of its curl calls is one admin handler.   *)
(***************************************************************************)
EXTENDS Platform

CONSTANTS
  CanaryPct,     \* canary_percentage
  HealthTimeout, \* health_check_timeout, in polls
  MaxRuns        \* bound: errand runs in the life of one broker process

ASSUME ErrandAssumption ==
  /\ IsFiniteSet(ID)
  /\ CanaryPct \in 0..100 /\ HealthTimeout \in Nat \ {0} /\ MaxRuns \in Nat

VARIABLE errand
\* pc: the next thing the script does; phase 1 is the canary, 2 the rest;
\* req the handler it waits for; listed the instances it found, canary their
\* share; exit what its last line says.
evars == <<allVars, errand>>

Off == [pc |-> "off", phase |-> 1, req |-> "none", listed |-> {}, canary |-> 0,
        elapsed |-> 0, exit |-> "none", runs |-> 0]
Script == [pc: {"off", "upgrade", "answer", "poll", "status"}, phase: {1, 2},
           req: Req \cup {"none"}, listed: SUBSET ID, canary: Nat,
           elapsed: 0..HealthTimeout,
           exit: {"none", "nothing", "already", "complete", "failed"},
           runs: 0..MaxRuns]
ErrandInit == PlatformInit /\ errand = Off

Total == Cardinality(errand.listed)
CanaryCount(n) == Max({1, (n * CanaryPct + 99) \div 100})
\* How many instances the phase upgrades; below, how many it wants healthy.
Count == IF errand.phase = 1 THEN errand.canary ELSE Total - errand.canary
\* Mutant: one healthy instance too few is enough.
WantedFewer == IF errand.phase = 1 THEN errand.canary - 1 ELSE Total - 1
Wanted == IF errand.phase = 1 THEN errand.canary ELSE Total

Exit(msg) == errand' = [Off EXCEPT !.exit = msg, !.runs = errand.runs,
                                   !.listed = errand.listed]
-----------------------------------------------------------------------------
\* AdminListInstances: every instance that is not being deleted.
AdminListInstances == {i \in ID : Exists(i) /\ Inst(i).state # "deprovisioning"}

\* GET /admin/instances, and the canary count.
ErrandList ==
  /\ "upgrade" \in Ops
  /\ errand.pc = "off" /\ errand.runs < MaxRuns
  /\ LET n == Cardinality(AdminListInstances)
     IN errand' = IF n = 0
                  THEN [Off EXCEPT !.exit = "nothing", !.runs = errand.runs + 1]
                  ELSE [Off EXCEPT !.pc = "upgrade", !.runs = errand.runs + 1,
                                   !.listed = AdminListInstances,
                                   !.canary = CanaryCount(n)]
  /\ Room(Cardinality(AdminListInstances))
  /\ UNCHANGED allVars

\* GET /admin/instances fails, and with it the script.
ErrandUnlisted ==
  /\ "upgrade" \in Ops /\ "timeout" \in Impatience
  /\ errand.pc = "off" /\ errand.runs < MaxRuns
  /\ errand' = [Off EXCEPT !.exit = "failed", !.runs = errand.runs + 1]
  /\ UNCHANGED allVars

\* POST /admin/upgrade
ErrandUpgrade(r) ==
  /\ errand.pc = "upgrade"
  /\ \E todo \in SUBSET Outdated : UpgradeCollect(r, Count, todo)
  /\ errand' = [errand EXCEPT !.pc = "answer", !.req = r]
  /\ UNCHANGED pvars

\* Its answer; no instance to upgrade ends the script, in phase 1 only.
ErrandUpgraded(r) ==
  /\ errand.pc = "answer" /\ errand.req = r
  /\ Return(r)
  /\ IF errand.phase = 1 /\ h[r].count = 0
     THEN Exit("already")
     ELSE errand' = [errand EXCEPT !.pc = "poll", !.req = "none", !.elapsed = 0]
  /\ UNCHANGED pvars

\* GET /admin/upgrade/status
ErrandPoll(r) ==
  /\ errand.pc = "poll"
  /\ StatusCopy(r)
  /\ errand' = [errand EXCEPT !.pc = "status", !.req = r]
  /\ UNCHANGED pvars

\* Mutants: the loop has no limit; ELAPSED is not advanced.
WaitUnlimited == errand' = [errand EXCEPT !.pc = "poll", !.req = "none",
                                          !.elapsed = @ + 1]
WaitStill == errand' = [errand EXCEPT !.pc = "poll", !.req = "none"]
\* Not enough are healthy yet: wait and poll again, or give up.
Wait == IF errand.elapsed + 1 < HealthTimeout
        THEN errand' = [errand EXCEPT !.pc = "poll", !.req = "none",
                                      !.elapsed = @ + 1]
        ELSE Exit("failed")

\* Mutant: the second phase is skipped.
ProceedDone == Exit("complete")
\* The phase is over.
Proceed == IF errand.phase = 1 /\ Total > errand.canary
           THEN errand' = [errand EXCEPT !.pc = "upgrade", !.req = "none",
                                         !.phase = 2]
           ELSE Exit("complete")

ErrandPolled(r) ==
  /\ errand.pc = "status" /\ errand.req = r
  /\ Return(r)
  /\ IF h[r].count >= Wanted THEN Proceed ELSE Wait
  /\ UNCHANGED pvars

\* Mutant: a status request that fails does not advance ELAPSED.
UnreachedStays == IF errand.pc = "answer" THEN Exit("failed")
                  ELSE errand' = [errand EXCEPT !.pc = "poll", !.req = "none"]
\* curl's --max-time, or a broker that went away: a failed upgrade request ends
\* the script, a failed status request counts nobody as healthy.
Unreached == IF errand.pc = "answer" THEN Exit("failed") ELSE Wait

ErrandGivesUp ==
  /\ "timeout" \in Impatience
  /\ errand.req # "none" /\ h[errand.req].pc # "replied"
  /\ Unreached
  /\ UNCHANGED allVars

\* An errand holds the deployment's lock: the broker is not reconfigured while
\* it runs.
ErrandCrash ==
  /\ PlatformCrash
  /\ errand.pc # "off" => cfg' = cfg
  /\ \/ errand.pc = "off" /\ errand' = [errand EXCEPT !.runs = 0]
     \/ errand.pc \in {"upgrade", "poll"} /\ UNCHANGED errand
     \/ errand.pc \in {"answer", "status"} /\ Unreached

ErrandStep(r) == \/ ErrandUpgrade(r) \/ ErrandUpgraded(r)
                 \/ ErrandPoll(r) \/ ErrandPolled(r)

\* The tasks the script will still ask for: the bound MaxTask keeps room for
\* them as it does for the handlers.
ErrandOwed == CASE errand.pc = "upgrade" /\ errand.phase = 1 -> Total
                [] errand.phase = 1 /\ errand.pc # "off" -> Total - errand.canary
                [] errand.pc = "upgrade" /\ errand.phase = 2 -> Count
                [] OTHER -> 0
PlatformSend(r, id) ==
  /\ Send1(r, id) /\ UNCHANGED errand
  /\ (last + MapThenSumSet(Owed, Req) + ErrandOwed)' <= MaxTask

\* The answers the platform waits for.
PlatformReceive(r) == errand.req # r /\ Receive(r) /\ UNCHANGED errand

ErrandNext ==
  \/ ErrandList
  \/ ErrandUnlisted
  \/ \E r \in Req : ErrandStep(r) \/ PlatformReceive(r)
  \/ ErrandGivesUp
  \/ ErrandCrash
  \/ \E r \in Req, id \in ID : PlatformSend(r, id)
  \/ \E r \in Req : Step(r) /\ UNCHANGED <<pvars, errand>>
  \/ \E id \in ID : GiveUp(id) /\ UNCHANGED errand
  \/ \E t \in TaskId : Director(t) /\ UNCHANGED <<pvars, errand>>
  \/ Rest /\ UNCHANGED <<pvars, errand>>

ErrandSpec == ErrandInit /\ [][ErrandNext]_evars

\* As for the platform, and the script runs on.
ErrandFairness ==
  /\ \A r \in Req : /\ WF_evars(Step(r) /\ UNCHANGED <<pvars, errand>>)
                    /\ WF_evars(PlatformReceive(r))
  /\ \A t \in TaskId : WF_evars(Director(t) /\ UNCHANGED <<pvars, errand>>)
  /\ \A id \in ID : /\ WF_evars(\E r \in Req : SendPoll(r, id) /\ UNCHANGED errand)
                    /\ WF_evars(\E r \in Req : cf[id] = "mitigating"
                                   /\ SendDelete(r, id) /\ UNCHANGED errand)
  /\ WF_evars(\E r \in Req : ErrandStep(r))
FairErrandSpec == ErrandSpec /\ ErrandFairness
-----------------------------------------------------------------------------
(* Properties.                                                             *)

ErrandTypeOK == PlatformTypeOK /\ errand \in Script

\* The rest of the fleet is touched only after every redeploy of the canary
\* phase is done, whatever the platform does to the instances meanwhile ("All
\* canary instances are healthy.").
CanaryFirst ==
  [][errand.phase = 1 /\ errand'.phase = 2 =>
       \A i \in ID : tracker[i] # 0 => tasks[tracker[i]].status = "done"]_evars

\* When the errand ends well, every instance it listed that is still there is
\* recorded at the configured version ("All instances already at target
\* version", "Upgrade complete").
Kept(i) == /\ Exists(i) /\ Inst(i).state # "deprovisioning"
           /\ cf[i] \notin {"absent", "deleting", "delete polling", "delete failed"}
Upgraded == \A i \in errand.listed : Kept(i) => Inst(i).version = cfg.version
SuccessIsReal ==
  [][errand.exit = "none" /\ errand'.exit \in {"already", "complete"} =>
       Upgraded]_evars

\* When both phases are over, every instance the errand listed that is still
\* there is deployed from the configured release: none of them is counted as
\* healthy on the strength of a redeploy that failed, was lost or is still under
\* way ("All instances upgraded and healthy.").
CompleteRunsRelease ==
  [][errand.exit = "none" /\ errand'.exit = "complete" =>
       \A i \in errand.listed : Kept(i) => deployed[i].man.release = cfg.release]_evars

\* The errand comes to an end, even if a redeploy never becomes healthy.
ErrandEnds == errand.pc # "off" ~> errand.pc = "off"
=============================================================================
