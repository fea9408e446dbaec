------------------------------ MODULE Platform ------------------------------
(***************************************************************************)
(* The broker driven by the platform it serves.  Cloud Foundry sends one   *)
(* operation at a time for a service instance, polls last_operation until  *)
(* the operation settles, and deletes what a failed create may have left   *)
(* behind.                                                                 *)
(***************************************************************************)
EXTENDS Broker

CONSTANT Impatience
\* "timeout": the platform gives up on a request whose handler still runs
\* (main.go's 30s WriteTimeout against 60s director calls);
\* "overlap": a user deletes an instance whose creation is being polled.

ASSUME ImpatienceAssumption == Impatience \subseteq {"timeout", "overlap"}

VARIABLES
  cf,     \* what the platform believes about each instance
  waiting \* the handler whose answer it waits for, "none" if it waits for none

pvars == <<cf, waiting>>
allVars == <<vars, pvars>>

CfStates == {"absent", "creating", "create polling", "create failed",
             "mitigating", "available", "updating", "update polling",
             "deleting", "delete polling", "delete failed"}

PlatformTypeOK == /\ TypeOK
                  /\ cf \in [ID -> CfStates]
                  /\ waiting \in [ID -> Req \cup {"none"}]

PlatformInit == /\ Init
                /\ cf = [i \in ID |-> "absent"]
                /\ waiting = [i \in ID |-> "none"]
-----------------------------------------------------------------------------
\* Request r goes out for id and the platform is in state c until its answer.
Send(r, id, c) == /\ cf' = [cf EXCEPT ![id] = c]
                  /\ waiting' = [waiting EXCEPT ![id] = r]

SendCreate(r, id) ==
  /\ cf[id] = "absent" /\ waiting[id] = "none"
  /\ \E org \in Org, plan \in Plans \cup {UnknownPlan} :
       \/ ProvisionReject(r, id, org, plan)
       \/ \E g \in Gen : ProvisionReserve(r, id, org, plan, g)
  /\ Send(r, id, "creating")

SendUpdate(r, id) ==
  /\ cf[id] = "available" /\ waiting[id] = "none"
  /\ \E plan \in Plans \cup {NoPlan, UnknownPlan} :
       \/ UpdateReject(r, id, plan)
       \/ \E g \in Gen : UpdateRecover(r, id, plan, g)
       \/ UpdateExisting(r, id, plan)
  /\ Send(r, id, "updating")

Deletable(id) ==
  \/ /\ waiting[id] = "none"
     /\ cf[id] \in {"available", "create failed", "delete failed", "mitigating"}
  \/ "overlap" \in Impatience /\ cf[id] = "create polling"

SendDelete(r, id) ==
  /\ Deletable(id)
  /\ \/ DeprovisionAgain(r, id)
     \/ DeprovisionMark(r, id)
     \/ \E g \in Gen : DeprovisionOrphan(r, id, g)
  /\ Send(r, id, "deleting")

SendPoll(r, id) ==
  /\ cf[id] \in {"create polling", "update polling", "delete polling"}
  /\ waiting[id] = "none"
  /\ LastOpAnswer(r, id) \/ LastOpRead(r, id)
  /\ Send(r, id, cf[id])

SendBind(r, id) ==
  /\ cf[id] = "available" /\ waiting[id] = "none"
  /\ Bind(r, id)
  /\ Send(r, id, "available")

\* What an answer makes of the platform's belief.
After(c, resp) ==
  CASE c = "creating" /\ resp = "accepted" -> "create polling"
    [] c = "creating" /\ resp = "error" -> "mitigating"
    [] c = "creating" /\ resp \in {"conflict", "rejected"} -> "absent"
    [] c = "updating" /\ resp = "accepted" -> "update polling"
    [] c = "updating" /\ resp # "accepted" -> "available"
    [] c = "deleting" /\ resp = "accepted" -> "delete polling"
    [] c = "deleting" /\ resp = "gone" -> "absent"
    [] c = "deleting" /\ resp = "error" -> "delete failed"
    [] c = "create polling" /\ resp = "succeeded" -> "available"
    [] c = "create polling" /\ resp = "failed" -> "create failed"
    [] c = "update polling" /\ resp \in {"succeeded", "failed"} -> "available"
    [] c = "delete polling" /\ resp = "succeeded" -> "absent"
    [] c = "delete polling" /\ resp = "failed" -> "delete failed"
    [] OTHER -> c

\* The answer of handler r arrives; one the platform gave up on is ignored.
Receive(r) ==
  /\ Return(r)
  /\ LET mine == {i \in ID : waiting[i] = r}
     IN /\ cf' = [i \in ID |-> IF i \in mine THEN After(cf[i], h[r].resp)
                                             ELSE cf[i]]
        /\ waiting' = [i \in ID |-> IF i \in mine THEN "none" ELSE waiting[i]]

\* A request the platform got no answer to counts as failed.
Unanswered(c) == CASE c \in {"creating", "updating", "deleting"} ->
                        After(c, "error")
                   [] OTHER -> c

GiveUp(id) ==
  /\ "timeout" \in Impatience /\ waiting[id] # "none"
  /\ h[waiting[id]].pc # "replied"
  /\ cf' = [cf EXCEPT ![id] = Unanswered(cf[id])]
  /\ waiting' = [waiting EXCEPT ![id] = "none"]
  /\ UNCHANGED vars

PlatformCrash ==
  /\ Crash
  /\ cf' = [i \in ID |-> IF waiting[i] = "none" THEN cf[i]
                                                ELSE Unanswered(cf[i])]
  /\ waiting' = [i \in ID |-> "none"]

Send1(r, id) == \/ SendCreate(r, id) \/ SendUpdate(r, id) \/ SendDelete(r, id)
                \/ SendPoll(r, id) \/ SendBind(r, id)

PlatformNext ==
  \/ \E r \in Req, id \in ID : Send1(r, id)
  \/ \E r \in Req : Receive(r) \/ (Step(r) /\ UNCHANGED pvars)
  \/ \E id \in ID : GiveUp(id)
  \/ \E t \in TaskId : Director(t) /\ UNCHANGED pvars
  \/ PlatformCrash
  \/ Rest /\ UNCHANGED pvars

PlatformSpec == PlatformInit /\ [][PlatformNext]_allVars

\* The broker serves every connection in its own goroutine, the director works
\* its tasks off, and the platform polls, reads answers and mitigates.
Fairness ==
  /\ \A r \in Req : WF_allVars(Step(r) /\ UNCHANGED pvars) /\ WF_allVars(Receive(r))
  /\ \A t \in TaskId : WF_allVars(Director(t) /\ UNCHANGED pvars)
  /\ \A id \in ID : /\ WF_allVars(\E r \in Req : SendPoll(r, id))
                    /\ WF_allVars(\E r \in Req : cf[id] = "mitigating"
                                                   /\ SendDelete(r, id))
FairPlatformSpec == PlatformSpec /\ Fairness
-----------------------------------------------------------------------------
(* Properties.                                                             *)

Quiet(id) == \A r \in Req : h[r].id # id

\* Once the platform holds an instance for gone (its create was turned down or
\* cleaned up, or its delete was reported done) and no handler works on it,
\* nothing is left: no record in the broker, no deployment in the director and
\* no task that could still make one.
NoOrphan ==
  \A i \in ID : cf[i] = "absent" /\ Quiet(i) =>
    cur[i] = 0 /\ deployed[i].status = "absent" /\ Processing(i) = {}

\* Nor is its OAuth client left behind in UAA.
NoOrphanClient ==
  \A i \in ID : cf[i] = "absent" /\ Quiet(i) => i \notin uaa

\* A binding is handed out only for an agent that is deployed and running, from
\* a manifest with the version, the plan and the SSO settings its record has.
FromRecord(x) == [version |-> x.version, plan |-> x.plan, sso |-> x.sso]
BoundIsUp ==
  \A r \in Req : h[r].op = "bind" /\ h[r].resp = "bound" =>
    LET d == deployed[h[r].id]
    IN d.status = "up" /\ FromRecord(d.man) = FromRecord(Inst(h[r].id))

\* While the platform polls an operation and no handler works on the instance,
\* the task LastOperation will ask about is the director's latest one for that
\* instance, and of the kind the operation needs: no poll is answered from the
\* outcome of an earlier task.
LatestIs(i, t, kind) == /\ t \in TaskId /\ tasks[t].kind = kind
                       /\ \A u \in TaskId : tasks[u].id = i => u <= t
PolledTask ==
  \A i \in ID :
    /\ /\ cf[i] \in {"create polling", "update polling"} /\ Quiet(i)
       /\ Inst(i).state = "provisioning"
       => LatestIs(i, Inst(i).task, "deploy")
    /\ cf[i] = "delete polling" /\ Quiet(i) =>
         /\ Exists(i) /\ Inst(i).state = "deprovisioning"
         /\ LatestIs(i, Inst(i).task, "delete")

\* The quotas hold of the instances that are not being deleted.
Live == {i \in ID : Exists(i) /\ Inst(i).state # "deprovisioning"}
QuotaHolds ==
  /\ MaxInstances > 0 => Cardinality(Live) <= MaxInstances
  /\ MaxInstancesPerOrg > 0 => \A org \in Org :
       Cardinality({i \in Live : Inst(i).org = org}) <= MaxInstancesPerOrg

\* With no handler running, instances.json holds exactly the broker's map:
\* what the broker acknowledged survives a restart ("saveState writes the
\* instance map to disk for persistence across broker restarts").
SavedWhenIdle == (\A r \in Req : h[r] = Idle) => disk = Snapshot

\* Every handler that begins answers: no call it makes to the director or to
\* UAA, failed or not, and no change another handler makes to the map meanwhile
\* leaves it on a path without an answer, and the loops of the admin handlers
\* end.
RequestsAnswered == \A r \in Req : h[r] # Idle ~> h[r] = Idle

\* Every create settles, every accepted delete does.
CreateSettles ==
  \A i \in ID : cf[i] = "creating" ~>
    cf[i] \in {"available", "absent", "create failed", "delete failed"}
DeleteSettles ==
  \A i \in ID : cf[i] = "deleting" ~> cf[i] \in {"absent", "delete failed"}
=============================================================================
