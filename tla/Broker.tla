------------------------------- MODULE Broker -------------------------------
(***************************************************************************)
(* The OpenClaw service broker: the instance map behind one RWMutex, the   *)
(* Open Service Broker handlers (Provision, Deprovision, Update,           *)
(* LastOperation, Bind), the admin upgrade handlers, the state file, and a *)
(* crash followed by a reload.  Every handler releases the lock around its *)
(* calls to the BOSH Director and to UAA, so each action below is one      *)
(* stretch of a handler between two such points, and handlers interleave   *)
(* there.                                                                  *)
(*                                                                         *)
(* Instances are Go pointers: a handler keeps writing to the object it     *)
(* looked up even when the map has moved on.  An object is an instance ID  *)
(* with a generation; cur[id] is the generation the map holds (0: no       *)
(* entry), heap[id][g] the fields of that object.                          *)
(***************************************************************************)
EXTENDS Integers, FiniteSets, FiniteSetsExt

CONSTANTS
  ID,                 \* service instance IDs
  Org,                \* organization GUIDs
  Plans,              \* configured plan IDs
  FirstPlan,          \* the first configured plan
  Version,            \* OpenClaw versions, as records and manifests name them
  Release,            \* versions of the BOSH release the agents are built from
  Configs,            \* broker configurations a (re)start may find
  MaxInstances,       \* quota on all instances, 0: none
  MaxInstancesPerOrg, \* quota per organization, 0: none
  Req,                \* concurrently running HTTP handlers
  MaxGen,             \* bound: live objects per instance ID
  MaxTask,            \* bound: tasks the director ever issues
  Ops,                \* the operations clients call in this instance
  Faults              \* the faults the environment may produce

NoOrg == "no-org"
NoPlan == "no-plan"
UnknownPlan == "unknown-plan"
NoVersion == "no-version"
OpNames == {"provision", "deprovision", "update", "lastop", "bind",
            "upgrade", "status"}
\* A director call refused or its answer lost, a failing UAA call, task
\* status call or state file write, a task that errors, a broker that crashes
\* at any point or restarts between requests.
FaultNames == {"deploy", "deployLost", "delete", "deleteLost", "uaa", "status",
               "save", "task", "crash", "restart"}
ConfigType == [version: Version, release: Release, gate: BOOLEAN,
               infra: BOOLEAN, sso: BOOLEAN]

ASSUME ConstantsAssumption ==
  /\ FirstPlan \in Plans
  /\ {NoPlan, UnknownPlan} \cap Plans = {}
  /\ Configs \subseteq ConfigType
  /\ MaxInstances \in Nat
  /\ MaxInstancesPerOrg \in Nat
  /\ MaxGen \in Nat \ {0}
  /\ MaxTask \in Nat
  /\ Ops \subseteq OpNames
  /\ Faults \subseteq FaultNames
\* "none" stands for no instance and no handler.
ASSUME NoneAssumption == "none" \notin ID \cup Req

VARIABLES
  cfg,      \* the running broker's configuration
  cur,      \* the map: ID -> generation, 0 when there is no entry
  heap,     \* the fields of each instance object
  tracker,  \* upgradeTracker.tasks, 0 when there is no entry
  disk,     \* instances.json
  h,        \* the handlers
  tasks,    \* the director's tasks
  last,     \* the ID of the director's latest task
  deployed, \* the director's deployments
  uaa       \* instance IDs whose OAuth client exists in UAA

brokerVars == <<cfg, cur, heap, tracker, disk>>
directorVars == <<tasks, last, deployed>>
vars == <<cfg, cur, heap, tracker, disk, h, tasks, last, deployed, uaa>>
-----------------------------------------------------------------------------
Gen == 1..MaxGen
TaskId == 1..MaxTask

\* The fields of Instance that the handlers tell apart; sso is SSOEnabled with
\* an SSOClientID, which is when the manifest gets an SSO proxy.
Manifest == [version: Version \cup {NoVersion}, release: Release \cup {NoVersion},
             plan: Plans \cup {NoPlan}, sso: BOOLEAN]
States == {"none", "provisioning", "ready", "failed", "deprovisioning"}
Instance == [org: Org \cup {NoOrg}, state: States, task: Nat,
             version: Version \cup {NoVersion}, plan: Plans \cup {NoPlan},
             sso: BOOLEAN]

NoInstance == [org |-> NoOrg, state |-> "none", task |-> 0,
               version |-> NoVersion, plan |-> NoPlan, sso |-> FALSE]
NoManifest == [version |-> NoVersion, release |-> NoVersion, plan |-> NoPlan,
               sso |-> FALSE]
EmptyMap == [i \in ID |-> NoInstance]

PCs == {"idle", "uaa", "call", "undo", "record", "track", "next", "poll",
        "apply", "marshal", "write", "replied"}
Responses == {"none", "accepted", "conflict", "rejected", "error", "gone",
              "missing", "in progress", "succeeded", "failed", "bound",
              "counts"}
\* A handler: gen is the object it holds, task the task it was given or polls,
\* was the state it read, man the manifest parameters it built, todo the rest
\* of an admin loop, count that loop's counter, snap the marshalled map.
Handler == [op: OpNames \cup {"none", "orphan"}, pc: PCs, id: ID \cup {"none"},
            gen: 0..MaxGen, task: Nat, was: States, man: Manifest,
            todo: SUBSET (ID \X Nat), count: Nat, snap: [ID -> Instance],
            resp: Responses]
Idle == [op |-> "none", pc |-> "idle", id |-> "none", gen |-> 0, task |-> 0,
         was |-> "none", man |-> NoManifest, todo |-> {}, count |-> 0,
         snap |-> EmptyMap, resp |-> "none"]

TaskRecord == [kind: {"none", "deploy", "delete"}, id: ID \cup {"none"},
               man: Manifest, status: {"none", "processing", "done", "error"}]
NoTask == [kind |-> "none", id |-> "none", man |-> NoManifest,
           status |-> "none"]
Deployment == [status: {"absent", "broken", "up"}, man: Manifest]
NoDeployment == [status |-> "absent", man |-> NoManifest]

TypeOK ==
  /\ cfg \in Configs
  /\ cur \in [ID -> 0..MaxGen]
  /\ heap \in [ID -> [Gen -> Instance]]
  /\ tracker \in [ID -> Nat]
  /\ disk \in [ID -> Instance]
  /\ h \in [Req -> Handler]
  /\ tasks \in [TaskId -> TaskRecord]
  /\ last \in 0..MaxTask
  /\ deployed \in [ID -> Deployment]
  /\ uaa \subseteq ID

Init ==
  /\ cfg \in Configs
  /\ cur = [i \in ID |-> 0]
  /\ heap = [i \in ID |-> [g \in Gen |-> NoInstance]]
  /\ tracker = [i \in ID |-> 0]
  /\ disk = EmptyMap
  /\ h = [r \in Req |-> Idle]
  /\ tasks = [t \in TaskId |-> NoTask]
  /\ last = 0
  /\ deployed = [i \in ID |-> NoDeployment]
  /\ uaa = {}
-----------------------------------------------------------------------------
(* The instance map and the objects.                                       *)

Exists(id) == cur[id] # 0
Inst(id) == heap[id][cur[id]]
Mine(r) == heap[h[r].id][h[r].gen]

\* The objects a handler can still write to.
Holds(r, id, g) == \/ h[r].id = id /\ h[r].gen = g
                   \/ h[r].op = "upgrade" /\ <<id, g>> \in h[r].todo
Free(id, g) == cur[id] # g /\ \A r \in Req : ~Holds(r, id, g)
\* &Instance{...}: the lowest generation nothing refers to.
Fresh(id, g) == Free(id, g) /\ \A g2 \in Gen : g2 < g => ~Free(id, g2)

\* Mutant: only instances that are up are counted.
countReady == Cardinality({i \in ID : Exists(i) /\ Inst(i).state = "ready"})
countInstances ==
  Cardinality({i \in ID : Exists(i) /\ Inst(i).state # "deprovisioning"})
countInstancesByOrg(org) ==
  Cardinality({i \in ID : /\ Exists(i)
                          /\ Inst(i).org = org
                          /\ Inst(i).state # "deprovisioning"})

\* The version is the record's and ends up in a job property that no template
\* of the agent reads; the release is the configuration's, whenever the agent is
\* redeployed, and decides what the agent runs.
buildManifestParams(inst) ==
  [version |-> inst.version, release |-> cfg.release, plan |-> inst.plan,
   sso |-> inst.sso]

Running(r, op, pc) == h[r].op = op /\ h[r].pc = pc
Reply(r, resp) ==
  h' = [h EXCEPT ![r] = [Idle EXCEPT !.op = h[r].op, !.id = h[r].id,
                                     !.count = h[r].count,
                                     !.pc = "replied", !.resp = resp]]
\* A handler that answers in its first stretch.
Answer(r, op, id, resp) ==
  h' = [h EXCEPT ![r] = [Idle EXCEPT !.op = op, !.id = id,
                                     !.pc = "replied", !.resp = resp]]
Begin(r, op, id) == op \in Ops /\ h[r] = Idle /\ id \in ID
Goto(r, pc) == h' = [h EXCEPT ![r].pc = pc]
\* Mutant: the handler answers without saving.
SaveSkipped(r, resp) == Reply(r, resp)
\* The handler has made its change and goes on to saveState and its answer.
Save(r, resp) ==
  h' = [h EXCEPT ![r] = [Idle EXCEPT !.op = h[r].op, !.id = h[r].id,
                                     !.count = h[r].count,
                                     !.pc = "marshal", !.resp = resp]]

\* The tasks running handlers may still ask for: the bound MaxTask keeps room
\* for them, so that no handler is left waiting by the bound.
Owed(r) == (IF h[r].pc \in {"uaa", "call"} THEN 1 ELSE 0)
             + (IF h[r].op = "upgrade" THEN Cardinality(h[r].todo) ELSE 0)
Room(n) == last + MapThenSumSet(Owed, Req) + n <= MaxTask
-----------------------------------------------------------------------------
(* The BOSH Director, as bosh/client.go sees it.                           *)

\* POST /deployments and DELETE /deployments/:name answered with a task.
Issue(kind, id, man) ==
  /\ last < MaxTask
  /\ last' = last + 1
  /\ tasks' = [tasks EXCEPT ![last + 1] =
                 [kind |-> kind, id |-> id, man |-> man,
                  status |-> "processing"]]
  /\ UNCHANGED deployed

Processing(id) == {t \in TaskId : /\ tasks[t].id = id
                                  /\ tasks[t].status = "processing"}
Known(id) == deployed[id].status # "absent" \/ Processing(id) # {}

\* The call fails in transit: refused, or accepted with the answer lost.
CallFails(kind, id, man) ==
  \/ kind \in Faults /\ UNCHANGED directorVars
  \/ /\ \/ kind = "deploy" /\ "deployLost" \in Faults
        \/ kind = "delete" /\ "deleteLost" \in Faults
     /\ Issue(kind, id, man)

\* Tasks of one deployment run one after the other, in the order issued.
Runnable(t) == /\ tasks[t].status = "processing"
               /\ \A t2 \in Processing(tasks[t].id) : t <= t2

\* What a task leaves of its deployment; one that errors, as it was or half
\* changed.
TaskResults(t, status) ==
  LET d == deployed[tasks[t].id]
  IN IF status = "error" THEN {d, [d EXCEPT !.status = "broken"]}
     ELSE IF tasks[t].kind = "delete" THEN {NoDeployment}
     ELSE {[status |-> "up", man |-> tasks[t].man]}

TaskEnds(t, status) ==
  /\ Runnable(t)
  /\ status = "error" => "task" \in Faults
  /\ tasks' = [tasks EXCEPT ![t].status = status]
  /\ \E d \in TaskResults(t, status) :
       deployed' = [deployed EXCEPT ![tasks[t].id] = d]
  /\ UNCHANGED <<brokerVars, h, last, uaa>>
-----------------------------------------------------------------------------
(* UAA, as uaa/client.go sees it.                                          *)

\* The token and POST /oauth/clients. A client that exists already counts as
\* created; a call that fails (~ok) may have registered it all the same.
CreateClient(id, ok) ==
  \/ ok /\ uaa' = uaa \cup {id}
  \/ ~ok /\ "uaa" \in Faults /\ uaa' \in {uaa, uaa \cup {id}}

\* The token and DELETE /oauth/clients/:id. A client that is not there counts
\* as deleted; an error is only logged by the caller.
DeleteClient(id) ==
  \/ uaa' = uaa \ {id}
  \/ "uaa" \in Faults /\ UNCHANGED uaa

\* GET /tasks/:id; a failed call yields "".
TaskStatus(t) ==
  {tasks[t].status} \cup (IF "status" \in Faults THEN {""} ELSE {})
-----------------------------------------------------------------------------
(* saveState: marshal under the read lock, then write and rename.          *)

Snapshot == [i \in ID |-> IF Exists(i) THEN Inst(i) ELSE NoInstance]

SaveMarshal(r) ==
  /\ h[r].pc = "marshal"
  /\ h' = [h EXCEPT ![r].pc = "write", ![r].snap = Snapshot]
  /\ UNCHANGED <<brokerVars, directorVars, uaa>>

\* A failed write is logged and the handler answers all the same.
SaveWrite(r) ==
  /\ h[r].pc = "write"
  /\ \/ disk' = h[r].snap
     \/ "save" \in Faults /\ UNCHANGED disk
  /\ Reply(r, h[r].resp)
  /\ UNCHANGED <<cfg, cur, heap, tracker, directorVars, uaa>>

\* The answer reaches the client and the handler goroutine ends.
Return(r) ==
  /\ h[r].pc = "replied"
  /\ h' = [h EXCEPT ![r] = Idle]
  /\ UNCHANGED <<brokerVars, directorVars, uaa>>

\* The process stops and New starts another one, perhaps reconfigured:
\* loadState reads the file, handlers and upgrade tracker are gone.
Crash ==
  /\ \/ "crash" \in Faults
     \/ "restart" \in Faults /\ \A r \in Req : h[r] = Idle
  /\ cfg' \in Configs
  /\ cur' = [i \in ID |-> IF disk[i] = NoInstance THEN 0 ELSE 1]
  /\ heap' = [i \in ID |-> [g \in Gen |-> IF g = 1 THEN disk[i]
                                                  ELSE NoInstance]]
  /\ tracker' = [i \in ID |-> 0]
  /\ h' = [r \in Req |-> Idle]
  /\ UNCHANGED <<disk, directorVars, uaa>>
-----------------------------------------------------------------------------
(* Provision: PUT /v2/service_instances/:id                                *)

QuotaExceeded(org) ==
  \/ MaxInstances > 0 /\ countInstances >= MaxInstances
  \/ MaxInstancesPerOrg > 0 /\ countInstancesByOrg(org) >= MaxInstancesPerOrg
Refused(org, plan) == QuotaExceeded(org) \/ ~cfg.gate \/ plan \notin Plans

\* Mutant: the exists check is dropped.
CanReprovision(id, org, plan) == ~Refused(org, plan) /\ cfg.infra
CanProvision(id, org, plan) == ~Exists(id) /\ ~Refused(org, plan) /\ cfg.infra

\* The checks under the lock that turn the request down.
ProvisionReject(r, id, org, plan) ==
  /\ Begin(r, "provision", id)
  /\ \/ Exists(id) /\ Answer(r, "provision", id, "conflict")
     \/ ~Exists(id) /\ Refused(org, plan) /\ Answer(r, "provision", id, "rejected")
     \/ /\ ~Exists(id) /\ ~Refused(org, plan) /\ ~cfg.infra
        /\ Answer(r, "provision", id, "error")
  /\ UNCHANGED <<brokerVars, directorVars, uaa>>

\* The slot is reserved before the lock is released.
ProvisionReserve(r, id, org, plan, g) ==
  /\ Begin(r, "provision", id) /\ Room(1)
  /\ CanProvision(id, org, plan)
  /\ Fresh(id, g)
  /\ heap' = [heap EXCEPT ![id][g] =
                [org |-> org, state |-> "provisioning", task |-> 0,
                 version |-> cfg.version, plan |-> plan, sso |-> FALSE]]
  /\ cur' = [cur EXCEPT ![id] = g]
  /\ h' = [h EXCEPT ![r] = [Idle EXCEPT !.op = "provision", !.id = id, !.gen = g,
                              !.pc = IF cfg.sso THEN "uaa" ELSE "call"]]
  /\ UNCHANGED <<cfg, tracker, disk, directorVars, uaa>>

\* A CreateClient that fails switches SSO off for the instance.
ProvisionUaa(r) ==
  /\ Running(r, "provision", "uaa")
  /\ \/ /\ CreateClient(h[r].id, TRUE)
        /\ heap' = [heap EXCEPT ![h[r].id][h[r].gen].sso = TRUE]
     \/ CreateClient(h[r].id, FALSE) /\ UNCHANGED heap
  /\ Goto(r, "call")
  /\ UNCHANGED <<cfg, cur, tracker, disk, directorVars>>

\* Mutants: the task is not recorded; the director's latest task is.
RecordNothing(r) == UNCHANGED heap
RecordLatest(r) == heap' = [heap EXCEPT ![h[r].id][h[r].gen].task = last]
\* instance.BoshTaskID = taskID, on the object the handler holds.
RecordTask(r) == heap' = [heap EXCEPT ![h[r].id][h[r].gen].task = h[r].task]

ProvisionCall(r) ==
  /\ Running(r, "provision", "call")
  /\ \/ /\ Issue("deploy", h[r].id, buildManifestParams(Mine(r)))
        /\ h' = [h EXCEPT ![r].pc = "record", ![r].task = last + 1]
     \/ /\ CallFails("deploy", h[r].id, buildManifestParams(Mine(r)))
        /\ Goto(r, "undo")
  /\ UNCHANGED <<brokerVars, uaa>>

\* The entry is deleted by ID, whatever object is there now.
ProvisionUndo(r) ==
  /\ Running(r, "provision", "undo")
  /\ cur' = [cur EXCEPT ![h[r].id] = 0]
  /\ Reply(r, "error")
  /\ UNCHANGED <<cfg, heap, tracker, disk, directorVars, uaa>>

ProvisionRecord(r) ==
  /\ Running(r, "provision", "record")
  /\ RecordTask(r)
  /\ Save(r, "accepted")
  /\ UNCHANGED <<cfg, cur, tracker, disk, directorVars, uaa>>
-----------------------------------------------------------------------------
(* Deprovision: DELETE /v2/service_instances/:id                           *)

\* Mutant: deleteUAAClient is left out.
AfterMarkNoUaa == "call"
\* Where a deprovision goes once its record is marked.
AfterMark == IF cfg.sso THEN "uaa" ELSE "call"

\* Not in memory: a record is made up so that the deployment can be deleted
\* by its conventional name.
DeprovisionOrphan(r, id, g) ==
  /\ Begin(r, "deprovision", id) /\ Room(1)
  /\ ~Exists(id) /\ Fresh(id, g)
  /\ heap' = [heap EXCEPT ![id][g] =
                [NoInstance EXCEPT !.state = "deprovisioning"]]
  /\ cur' = [cur EXCEPT ![id] = g]
  /\ h' = [h EXCEPT ![r] = [Idle EXCEPT !.op = "orphan", !.id = id, !.gen = g,
                              !.pc = AfterMark]]
  /\ UNCHANGED <<cfg, tracker, disk, directorVars, uaa>>

DeprovisionAgain(r, id) ==
  /\ Begin(r, "deprovision", id)
  /\ Exists(id) /\ Inst(id).state = "deprovisioning"
  /\ Answer(r, "deprovision", id, "accepted")
  /\ UNCHANGED <<brokerVars, directorVars, uaa>>

DeprovisionMark(r, id) ==
  /\ Begin(r, "deprovision", id) /\ Room(1)
  /\ Exists(id) /\ Inst(id).state # "deprovisioning"
  /\ heap' = [heap EXCEPT ![id][cur[id]].state = "deprovisioning"]
  /\ h' = [h EXCEPT ![r] = [Idle EXCEPT !.op = "deprovision", !.id = id,
                              !.gen = cur[id], !.was = Inst(id).state,
                              !.pc = AfterMark]]
  /\ UNCHANGED <<cfg, cur, tracker, disk, directorVars, uaa>>

Deprovisioning(r, pc) == h[r].op \in {"deprovision", "orphan"} /\ h[r].pc = pc

deleteUAAClient(r) ==
  /\ Deprovisioning(r, "uaa")
  /\ DeleteClient(h[r].id)
  /\ Goto(r, "call")
  /\ UNCHANGED <<brokerVars, directorVars>>

\* Mutant: a delete the director refuses is asked for again.
DeprovisionCallAgain(r) ==
  /\ Deprovisioning(r, "call")
  /\ \/ /\ Known(h[r].id)
        /\ Issue("delete", h[r].id, NoManifest)
        /\ h' = [h EXCEPT ![r].pc = "record", ![r].task = last + 1]
     \/ ~Known(h[r].id) /\ UNCHANGED <<directorVars, h>>
  /\ UNCHANGED <<brokerVars, uaa>>
\* The director also refuses to delete a deployment it does not know.
DeprovisionCall(r) ==
  /\ Deprovisioning(r, "call")
  /\ \/ /\ Known(h[r].id)
        /\ Issue("delete", h[r].id, NoManifest)
        /\ h' = [h EXCEPT ![r].pc = "record", ![r].task = last + 1]
     \/ /\ \/ Known(h[r].id) /\ CallFails("delete", h[r].id, NoManifest)
           \/ ~Known(h[r].id) /\ UNCHANGED directorVars
        /\ Goto(r, "undo")
  /\ UNCHANGED <<brokerVars, uaa>>

DeprovisionUndo(r) ==
  /\ Deprovisioning(r, "undo")
  /\ \/ /\ h[r].op = "orphan"
        /\ cur' = [cur EXCEPT ![h[r].id] = 0]
        /\ Reply(r, "gone")
        /\ UNCHANGED heap
     \/ /\ h[r].op = "deprovision"
        /\ heap' = [heap EXCEPT ![h[r].id][h[r].gen].state = h[r].was]
        /\ Reply(r, "error")
        /\ UNCHANGED cur
  /\ UNCHANGED <<cfg, tracker, disk, directorVars, uaa>>

DeprovisionRecord(r) ==
  /\ Deprovisioning(r, "record")
  /\ RecordTask(r)
  /\ Save(r, "accepted")
  /\ UNCHANGED <<cfg, cur, tracker, disk, directorVars, uaa>>
-----------------------------------------------------------------------------
(* Update: PATCH /v2/service_instances/:id                                 *)

UpdateReject(r, id, plan) ==
  /\ Begin(r, "update", id)
  /\ Exists(id) /\ plan = UnknownPlan
  /\ Answer(r, "update", id, "rejected")
  /\ UNCHANGED <<brokerVars, directorVars, uaa>>

\* Not in memory: a recovery record takes the slot and is deployed afresh.
UpdateRecover(r, id, plan, g) ==
  /\ Begin(r, "update", id) /\ Room(1)
  /\ ~Exists(id) /\ Fresh(id, g)
  /\ LET inst == [org |-> NoOrg, state |-> "provisioning", task |-> 0,
                  version |-> cfg.version, sso |-> FALSE,
                  plan |-> IF plan \in Plans THEN plan ELSE FirstPlan]
     IN /\ heap' = [heap EXCEPT ![id][g] = inst]
        /\ h' = [h EXCEPT ![r] = [Idle EXCEPT !.op = "update", !.pc = "call",
                                    !.id = id, !.gen = g,
                                    !.man = buildManifestParams(inst)]]
  /\ cur' = [cur EXCEPT ![id] = g]
  /\ UNCHANGED <<cfg, tracker, disk, directorVars, uaa>>

\* The plan fields change before the redeploy and stay if it fails.
UpdateExisting(r, id, plan) ==
  /\ Begin(r, "update", id) /\ Room(1)
  /\ Exists(id) /\ plan # UnknownPlan
  /\ LET inst == [Inst(id) EXCEPT !.plan = IF plan = NoPlan THEN @ ELSE plan]
     IN /\ heap' = [heap EXCEPT ![id][cur[id]] = inst]
        /\ h' = [h EXCEPT ![r] = [Idle EXCEPT !.op = "update", !.pc = "call",
                                    !.id = id, !.gen = cur[id],
                                    !.man = buildManifestParams(inst)]]
  /\ UNCHANGED <<cfg, cur, tracker, disk, directorVars, uaa>>

UpdateCall(r) ==
  /\ Running(r, "update", "call")
  /\ \/ /\ Issue("deploy", h[r].id, h[r].man)
        /\ h' = [h EXCEPT ![r].pc = "record", ![r].task = last + 1]
     \/ /\ CallFails("deploy", h[r].id, h[r].man)
        /\ Reply(r, "error")
  /\ UNCHANGED <<brokerVars, uaa>>

UpdateRecord(r) ==
  /\ Running(r, "update", "record")
  /\ heap' = [heap EXCEPT ![h[r].id][h[r].gen] =
                [@ EXCEPT !.state = "provisioning", !.task = h[r].task]]
  /\ Save(r, "accepted")
  /\ UNCHANGED <<cfg, cur, tracker, disk, directorVars, uaa>>
-----------------------------------------------------------------------------
(* LastOperation: GET /v2/service_instances/:id/last_operation, and Bind.  *)

LastOpAnswer(r, id) ==
  /\ Begin(r, "lastop", id)
  /\ \/ ~Exists(id) /\ Answer(r, "lastop", id, "missing")
     \/ /\ Exists(id) /\ Inst(id).state = "ready"
        /\ Answer(r, "lastop", id, "succeeded")
     \/ /\ Exists(id) /\ Inst(id).state = "failed"
        /\ Answer(r, "lastop", id, "failed")
     \/ /\ Exists(id) /\ Inst(id).state \in {"provisioning", "deprovisioning"}
        /\ Inst(id).task = 0
        /\ Answer(r, "lastop", id, "in progress")
  /\ UNCHANGED <<brokerVars, directorVars, uaa>>

\* Mutants: an errored task counts as done; it counts as unfinished.
PollErrorDone(s) == IF s \in {"done", "error"} THEN "succeeded" ELSE "in progress"
PollErrorLost(s) == IF s = "done" THEN "succeeded" ELSE "in progress"
\* What a task's state means to whoever polls it.
PollOutcome(s) ==
  CASE s = "done" -> "succeeded" [] s = "error" -> "failed" [] OTHER -> "in progress"

\* State and task are read under the lock and used after it is released.
LastOpRead(r, id) ==
  /\ Begin(r, "lastop", id)
  /\ Exists(id) /\ Inst(id).state \in {"provisioning", "deprovisioning"}
  /\ Inst(id).task # 0
  /\ h' = [h EXCEPT ![r] = [Idle EXCEPT !.op = "lastop", !.pc = "poll", !.id = id,
                              !.gen = cur[id], !.task = Inst(id).task,
                              !.was = Inst(id).state]]
  /\ UNCHANGED <<brokerVars, directorVars, uaa>>

\* A failed delete is reported and changes nothing; an unfinished task, or one
\* whose status is not to be had, is in progress.
LastOpPoll(r) ==
  /\ Running(r, "lastop", "poll")
  /\ \E s \in TaskStatus(h[r].task) :
       \/ /\ \/ PollOutcome(s) = "succeeded"
             \/ PollOutcome(s) = "failed" /\ h[r].was = "provisioning"
          /\ h' = [h EXCEPT ![r].pc = "apply", ![r].resp = PollOutcome(s)]
       \/ /\ \/ PollOutcome(s) = "in progress"
             \/ PollOutcome(s) = "failed" /\ h[r].was = "deprovisioning"
          /\ Reply(r, PollOutcome(s))
  /\ UNCHANGED <<brokerVars, directorVars, uaa>>

\* Mutant: the answer's word is stored as the state.
VerdictWord(resp) == resp
Verdict(resp) == IF resp = "succeeded" THEN "ready" ELSE "failed"

\* The verdict is written to the object read before, the removal is by ID.
LastOpApply(r) ==
  /\ Running(r, "lastop", "apply")
  /\ \/ /\ h[r].was = "provisioning"
        /\ heap' = [heap EXCEPT ![h[r].id][h[r].gen].state = Verdict(h[r].resp)]
        /\ UNCHANGED cur
     \/ /\ h[r].was = "deprovisioning"
        /\ cur' = [cur EXCEPT ![h[r].id] = 0]
        /\ UNCHANGED heap
  /\ Save(r, h[r].resp)
  /\ UNCHANGED <<cfg, tracker, disk, directorVars, uaa>>

\* Mutant: anything not being deleted can be bound.
BindableEarly(id) == Inst(id).state # "deprovisioning"
Bindable(id) == Inst(id).state = "ready"

Bind(r, id) ==
  /\ Begin(r, "bind", id)
  /\ \/ ~Exists(id) /\ Answer(r, "bind", id, "missing")
     \/ Exists(id) /\ ~Bindable(id) /\ Answer(r, "bind", id, "rejected")
     \/ Exists(id) /\ Bindable(id) /\ Answer(r, "bind", id, "bound")
  /\ UNCHANGED <<brokerVars, directorVars, uaa>>
-----------------------------------------------------------------------------
(* AdminUpgrade and AdminUpgradeStatus.                                    *)

\* Back to the head of an admin handler's loop, done with one item.
Loop(r, n) == h' = [h EXCEPT ![r] = [@ EXCEPT !.pc = "next", !.id = "none",
                                       !.gen = 0, !.task = 0, !.resp = "none",
                                       !.man = NoManifest,
                                       !.count = h[r].count + n]]

Outdated == {<<i, cur[i]>> : i \in {j \in ID : /\ Exists(j)
                                               /\ Inst(j).state # "deprovisioning"
                                               /\ Inst(j).version # cfg.version}}

\* The map is walked in any order and the walk stops at count candidates.
UpgradeCollect(r, count, todo) ==
  /\ "upgrade" \in Ops /\ h[r] = Idle
  /\ \/ /\ count = 0 /\ todo = {}
        /\ h' = [h EXCEPT ![r] = [Idle EXCEPT !.op = "upgrade", !.pc = "replied",
                                                !.resp = "rejected"]]
     \/ /\ count > 0 /\ todo \subseteq Outdated
        /\ \/ Cardinality(todo) = count
           \/ Cardinality(todo) < count /\ todo = Outdated
        /\ Room(Cardinality(todo))
        /\ h' = [h EXCEPT ![r] = [Idle EXCEPT !.op = "upgrade", !.pc = "next",
                                                !.todo = todo]]
  /\ UNCHANGED <<brokerVars, directorVars, uaa>>

\* Mutant: the candidate is not taken off the list.
UpgradeParamsAgain(r) ==
  /\ Running(r, "upgrade", "next")
  /\ \E c \in h[r].todo :
       h' = [h EXCEPT ![r] = [@ EXCEPT !.pc = "call", !.id = c[1], !.gen = c[2],
                                !.man = buildManifestParams(heap[c[1]][c[2]])]]
  /\ UNCHANGED <<brokerVars, directorVars, uaa>>
\* The parameters are built from the record, old version included.
UpgradeParams(r) ==
  /\ Running(r, "upgrade", "next")
  /\ \E c \in h[r].todo :
       h' = [h EXCEPT ![r] = [@ EXCEPT !.pc = "call", !.id = c[1], !.gen = c[2],
                                !.man = buildManifestParams(heap[c[1]][c[2]]),
                                !.todo = h[r].todo \ {c}]]
  /\ UNCHANGED <<brokerVars, directorVars, uaa>>

UpgradeCall(r) ==
  /\ Running(r, "upgrade", "call")
  /\ \/ /\ Issue("deploy", h[r].id, h[r].man)
        /\ h' = [h EXCEPT ![r].pc = "record", ![r].task = last + 1]
     \/ /\ CallFails("deploy", h[r].id, h[r].man)
        /\ Loop(r, 0)
  /\ UNCHANGED <<brokerVars, uaa>>

UpgradeRecord(r) ==
  /\ Running(r, "upgrade", "record")
  /\ heap' = [heap EXCEPT ![h[r].id][h[r].gen] =
                [@ EXCEPT !.state = "provisioning", !.task = h[r].task,
                          !.version = cfg.version]]
  /\ Goto(r, "track")
  /\ UNCHANGED <<cfg, cur, tracker, disk, directorVars, uaa>>

UpgradeTrack(r) ==
  /\ Running(r, "upgrade", "track")
  /\ tracker' = [tracker EXCEPT ![h[r].id] = h[r].task]
  /\ Loop(r, 1)
  /\ UNCHANGED <<cfg, cur, heap, disk, directorVars, uaa>>

StatusCopy(r) ==
  /\ "status" \in Ops /\ h[r] = Idle
  /\ h' = [h EXCEPT ![r] = [Idle EXCEPT !.op = "status", !.pc = "next",
             !.todo = {<<i, tracker[i]>> : i \in {j \in ID : tracker[j] # 0}}]]
  /\ UNCHANGED <<brokerVars, directorVars, uaa>>

\* count is the number of healthy instances.
StatusPoll(r) ==
  /\ Running(r, "status", "next")
  /\ \E c \in h[r].todo : \E s \in TaskStatus(c[2]) :
       h' = [h EXCEPT ![r] =
               [@ EXCEPT !.todo = h[r].todo \ {c},
                         !.pc = IF s \in {"done", "error"} THEN "apply" ELSE "next",
                         !.id = IF s \in {"done", "error"} THEN c[1] ELSE "none",
                         !.resp = PollOutcome(s)]]
  /\ UNCHANGED <<brokerVars, directorVars, uaa>>

\* Mutant: an instance whose redeploy failed counts as healthy.
StatusApplyAny(r) ==
  /\ Running(r, "status", "apply")
  /\ heap' = IF Exists(h[r].id)
             THEN [heap EXCEPT ![h[r].id][cur[h[r].id]].state = Verdict(h[r].resp)]
             ELSE heap
  /\ Loop(r, 1)
  /\ UNCHANGED <<cfg, cur, tracker, disk, directorVars, uaa>>
\* Whatever the instance is doing now, it takes the task's verdict.
StatusApply(r) ==
  /\ Running(r, "status", "apply")
  /\ heap' = IF Exists(h[r].id)
             THEN [heap EXCEPT ![h[r].id][cur[h[r].id]].state = Verdict(h[r].resp)]
             ELSE heap
  /\ Loop(r, IF h[r].resp = "succeeded" THEN 1 ELSE 0)
  /\ UNCHANGED <<cfg, cur, tracker, disk, directorVars, uaa>>

AdminEnd(r) ==
  /\ h[r].op \in {"upgrade", "status"} /\ h[r].pc = "next" /\ h[r].todo = {}
  /\ Save(r, "counts")
  /\ UNCHANGED <<brokerVars, directorVars, uaa>>
-----------------------------------------------------------------------------
\* A request arrives.
Arrive(r) ==
  \/ \E id \in ID, org \in Org, plan \in Plans \cup {UnknownPlan} :
       \/ ProvisionReject(r, id, org, plan)
       \/ \E g \in Gen : ProvisionReserve(r, id, org, plan, g)
  \/ \E id \in ID, g \in Gen : DeprovisionOrphan(r, id, g)
  \/ \E id \in ID : DeprovisionAgain(r, id)
  \/ \E id \in ID : DeprovisionMark(r, id)
  \/ \E id \in ID, plan \in Plans \cup {NoPlan, UnknownPlan} :
       \/ UpdateReject(r, id, plan)
       \/ \E g \in Gen : UpdateRecover(r, id, plan, g)
       \/ UpdateExisting(r, id, plan)
  \/ \E id \in ID : LastOpAnswer(r, id)
  \/ \E id \in ID : LastOpRead(r, id)
  \/ \E id \in ID : Bind(r, id)
  \/ \E count \in 0..Cardinality(ID), todo \in SUBSET Outdated :
       UpgradeCollect(r, count, todo)
  \/ StatusCopy(r)

\* A running handler takes its next step.
Step(r) ==
  \/ ProvisionUaa(r)
  \/ ProvisionCall(r)
  \/ ProvisionUndo(r)
  \/ ProvisionRecord(r)
  \/ deleteUAAClient(r)
  \/ DeprovisionCall(r)
  \/ DeprovisionUndo(r)
  \/ DeprovisionRecord(r)
  \/ UpdateCall(r)
  \/ UpdateRecord(r)
  \/ LastOpPoll(r)
  \/ LastOpApply(r)
  \/ UpgradeParams(r)
  \/ UpgradeCall(r)
  \/ UpgradeRecord(r)
  \/ UpgradeTrack(r)
  \/ StatusPoll(r)
  \/ StatusApply(r)
  \/ AdminEnd(r)
  \/ SaveMarshal(r)
  \/ SaveWrite(r)

Director(t) == \E status \in {"done", "error"} : TaskEnds(t, status)

\* Past the bound on tasks clients may rest, once every handler has answered.
Rest ==
  /\ last = MaxTask
  /\ \A r \in Req : h[r] = Idle
  /\ \A t \in TaskId : tasks[t].status # "processing"
  /\ UNCHANGED vars

Next ==
  \/ \E r \in Req : Arrive(r) \/ Step(r) \/ Return(r)
  \/ \E t \in TaskId : Director(t)
  \/ Crash
  \/ Rest

Spec == Init /\ [][Next]_vars
-----------------------------------------------------------------------------
(* Properties.                                                             *)

\* Every task ID a record, a handler, the state file or the upgrade tracker
\* carries for an instance was issued by the director for that instance's own
\* deployment: no interleaving, retry, lost answer or reload crosses tasks
\* between instances (the IDs that LastOperation and AdminUpgradeStatus poll).
Owns(id, t) == t # 0 => t \in TaskId /\ t <= last /\ tasks[t].id = id
TaskOwner ==
  /\ \A i \in ID, g \in Gen : Owns(i, heap[i][g].task)
  /\ \A i \in ID : Owns(i, disk[i].task) /\ Owns(i, tracker[i])
  /\ \A r \in Req : h[r].id \in ID => Owns(h[r].id, h[r].task)
  /\ \A r \in Req, i \in ID : Owns(i, h[r].snap[i].task)
  /\ \A r \in Req : h[r].op = "status" =>
       \A c \in h[r].todo : Owns(c[1], c[2])

\* While the broker runs, the map entry of an instance is never replaced by
\* another object: it has to be removed first (the exists checks under the lock
\* in Provision, Deprovision and Update, and "Reserve the instance slot before
\* releasing the lock for the BOSH call").
SlotStable ==
  [][Crash \/ \A i \in ID : cur[i] # 0 /\ cur'[i] # 0 => cur'[i] = cur[i]]_vars
=============================================================================
