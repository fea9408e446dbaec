--------------------------- MODULE PlatformProofs ---------------------------
(***************************************************************************)
(* The properties of the broker beside a platform that waits for its       *)
(* answers, for any number of instances and handlers.  The rest of the     *)
(* proof that StoryInv is kept, the theorems that are read off it, and     *)
(* which steps add to an organization's instances, for its quota.          *)
(***************************************************************************)
EXTENDS StoryProofs, FiniteSetTheorems

-----------------------------------------------------------------------------
(* Updates and polls.                                                      *)

\* UpdateCall.
LEMMA UpdateCallTold ==
  ASSUME TypeInv, StoryInv, PlatformOK, NEW r \in Req, NEW i \in ID,
         h[r].id = i, UpdateCall(r), UNCHANGED pvars
  PROVE  StoryInv'
<1> DEFINE v == ViewOf(i)
           man == h[r].man
<1>1. /\ h[r].op = "update" /\ h[r].pc = "call"
      /\ UNCHANGED <<cfg, cur, heap, uaa, pvars>>
  BY DEF UpdateCall, Running, brokerVars
<1>2. cf[i] = "updating" /\ Held(v, h[r]) /\ Lasting(v) /\ FromRecord(man) = Params(v)
  <2>1. cf[i] = "updating" /\ Updating(v, h[r])
    BY Zenon, <1>1, OpStory
  <2> QED BY Zenon, <1>1, <2>1 DEF Updating, Ends, Says
<1> HIDE DEF v, man
<1>3. CASE /\ Issue("deploy", i, man)
           /\ h' = [h EXCEPT ![r].pc = "record", ![r].task = last + 1]
  <2>1. PICK y : /\ h' = [h EXCEPT ![r] = y] /\ y.id = i /\ y.op = h[r].op
                 /\ y.pc = "record" /\ y.gen = h[r].gen /\ y.task = last + 1
    BY Zenon, <1>3, TakesTask
  <2>2. ASSUME NEW w, Issued(v, w, last + 1, "deploy", man), Ours(w, last + 1, "deploy")
        PROVE  Served(w, cf[i], y)
    BY Zenon, <1>1, <1>2, <2>1, <2>2
       DEF Served, Updating, Held, In, Lasting, Deploys, Params, Issued
  <2> QED BY Zenon, <1>1, <1>3, <2>1, <2>2, StepIssues DEF v
<1>4. CASE CallFails("deploy", i, man) /\ Reply(r, "error")
  <2>1. PICK y : /\ h' = [h EXCEPT ![r] = y] /\ y.id = i /\ y.op = h[r].op
                 /\ y.pc = "replied" /\ y.resp = "error"
    BY <1>4, Replies
  <2>2. ~DeploysWork
    BY <1>4 DEF CallFails, DeploysWork, NoneLost
  <2>3. CASE UNCHANGED directorVars
    <3>1. Served(v, cf[i], y)
      BY Zenon, <1>1, <1>2, <2>1, <2>2 DEF Served, Updating, Settled, Says
    <3> QED BY Zenon, <1>1, <2>1, <2>3, <3>1, StepSilent DEF v
  <2>4. CASE Issue("deploy", i, man)
    <3>1. ASSUME NEW w, Issued(v, w, last + 1, "deploy", man) PROVE Served(w, cf[i], y)
      <4>1. ASSUME Standing(v) PROVE Standing(w)
        BY <3>1, <4>1 DEF Standing, Busy, Issued
      <4>2. Settled(w)
        BY <1>2, <2>2, <3>1, <4>1 DEF Settled, Lasting, In, Issued
      <4> QED BY Zenon, <1>1, <1>2, <2>1, <2>2, <4>2 DEF Served, Updating, Says
    <3> QED BY Zenon, <1>1, <2>1, <2>4, <3>1, StepIssues DEF v
  <2> QED BY <1>4, <2>3, <2>4 DEF CallFails
<1> QED BY <1>3, <1>4 DEF UpdateCall, man

\* UpdateRecord.
LEMMA UpdateRecordTold ==
  ASSUME TypeInv, StoryInv, PlatformOK, NEW r \in Req, NEW i \in ID,
         h[r].id = i, UpdateRecord(r), UNCHANGED pvars
  PROVE  StoryInv'
<1> DEFINE v == ViewOf(i)
           inst == [Inst(i) EXCEPT !.state = "provisioning", !.task = h[r].task]
<1>1. /\ h[r].op = "update" /\ h[r].pc = "record" /\ Save(r, "accepted")
      /\ UNCHANGED <<cfg, cur, directorVars, uaa, pvars>>
  BY DEF UpdateRecord, Running
<1>2. cf[i] = "updating" /\ Held(v, h[r]) /\ Deploys(v, h[r].task)
  <2>1. cf[i] = "updating" /\ Updating(v, h[r])
    BY Zenon, <1>1, OpStory
  <2> QED BY Zenon, <1>1, <2>1 DEF Updating, Ends, Says
<1>3. PICK y : /\ h' = [h EXCEPT ![r] = y] /\ y.id = i /\ y.op = h[r].op
               /\ y.pc = "marshal" /\ y.resp = "accepted"
  BY <1>1, Saves
<1>4. /\ cur[i] # 0 /\ h[r].gen = cur[i] /\ Inst(i) \in Instance /\ v.inst = Inst(i)
  BY <1>2, ViewParts, InstType DEF Held, TypeInv
<1>5. heap' = [heap EXCEPT ![i][cur[i]] = inst]
  BY <1>4 DEF UpdateRecord, Inst
<1>6. /\ inst.state = "provisioning" /\ inst.task = h[r].task
      /\ FromRecord(inst) = Params(v)
  BY <1>4 DEF Instance, FromRecord, Params
<1> HIDE DEF v, inst
<1>7. ASSUME NEW w, w.gen = cur[i], w.inst = inst, w.dep = v.dep, w.tasks = v.tasks
      PROVE  Served(w, cf[i], y)
  <2>1. Deploying(w)
    BY <1>2, <1>4, <1>6, <1>7, SameDirector DEF Deploying, Deploys, In, Params
  <2> QED BY Zenon, <1>1, <1>2, <1>3, <2>1 DEF Served, Updating, Ends
<1> QED BY ZenonT(60), <1>1, <1>3, <1>4, <1>5, <1>7, StepWrites DEF v

\* LastOpPoll.
LEMMA LastOpPollTold ==
  ASSUME TypeInv, StoryInv, PlatformOK, NEW r \in Req, NEW i \in ID,
         h[r].id = i, LastOpPoll(r), UNCHANGED pvars
  PROVE  StoryInv'
<1> DEFINE v == ViewOf(i)
<1>1. /\ h[r].op = "lastop" /\ h[r].pc = "poll"
      /\ UNCHANGED <<cfg, cur, heap, directorVars, uaa, pvars>>
  BY Zenon DEF LastOpPoll, Running, brokerVars
<1>2. /\ Looks(v, h[r])
      /\ \/ cf[i] \in {"create polling", "update polling"} /\ Deploying(v)
         \/ cf[i] = "delete polling" /\ Doomed(v)
  <2>1. \/ /\ cf[i] \in {"create polling", "update polling"} /\ DeployPoll(v, h[r])
        \/ cf[i] = "delete polling" /\ DeletePoll(v, h[r])
    BY Zenon, <1>1, OpStory
  <2> QED BY Zenon, <1>1, <2>1 DEF DeployPoll, DeletePoll, Ends, Says
<1>3. \/ cf[i] # "delete polling" /\ h[r].was = "provisioning"
      \/ cf[i] = "delete polling" /\ h[r].was = "deprovisioning"
  BY Zenon, <1>2 DEF Looks, Deploying, Doomed, In
<1>4. v.tasks[h[r].task] = tasks[h[r].task]
  <2>1. v.tasks = [t \in {u \in TaskId : tasks[u].id = i} |-> tasks[t]]
    BY ViewParts DEF TasksOf
  <2> HIDE DEF v
  <2>2. h[r].task \in DOMAIN v.tasks
    BY Zenon, <1>2 DEF Looks, Deploying, Doomed, Deploys, Ours, IsLast
  <2> QED BY <2>1, <2>2
<1>5. PICK out :
        /\ out = "succeeded" => v.tasks[h[r].task].status = "done"
        /\ out = "failed" => v.tasks[h[r].task].status = "error"
        /\ \/ /\ \/ out = "succeeded"
                 \/ out = "failed" /\ h[r].was = "provisioning"
              /\ h' = [h EXCEPT ![r].pc = "apply", ![r].resp = out]
           \/ /\ \/ out = "in progress"
                 \/ out = "failed" /\ h[r].was = "deprovisioning"
              /\ Reply(r, out)
  <2>1. PICK s \in TaskStatus(h[r].task) :
          \/ /\ \/ PollOutcome(s) = "succeeded"
                \/ PollOutcome(s) = "failed" /\ h[r].was = "provisioning"
             /\ h' = [h EXCEPT ![r].pc = "apply", ![r].resp = PollOutcome(s)]
          \/ /\ \/ PollOutcome(s) = "in progress"
                \/ PollOutcome(s) = "failed" /\ h[r].was = "deprovisioning"
             /\ Reply(r, PollOutcome(s))
    BY Zenon DEF LastOpPoll
  <2>2. s = "" \/ s = v.tasks[h[r].task].status
    BY Zenon, <1>4 DEF TaskStatus
  <2> HIDE DEF v
  <2>3. /\ PollOutcome(s) = "succeeded" => v.tasks[h[r].task].status = "done"
        /\ PollOutcome(s) = "failed" => v.tasks[h[r].task].status = "error"
    BY Zenon, <2>2 DEF PollOutcome
  <2> QED BY Zenon, <2>1, <2>3
<1> HIDE DEF v
<1>6. CASE /\ \/ out = "succeeded"
              \/ out = "failed" /\ h[r].was = "provisioning"
           /\ h' = [h EXCEPT ![r].pc = "apply", ![r].resp = out]
  <2> DEFINE y == [h[r] EXCEPT !.pc = "apply", !.resp = out]
  <2>1. h[r] \in Handler /\ h \in [Req -> GoodHandler]
    BY DEF TypeInv, GoodHandler
  <2>2. h' = [h EXCEPT ![r] = y]
    BY Zenon, <1>6, <2>1
  <2>3. /\ y.id = i /\ y.op = h[r].op /\ y.pc = "apply" /\ y.resp = out
        /\ y.gen = h[r].gen /\ y.was = h[r].was /\ y.task = h[r].task
    BY <2>1 DEF Handler
  <2> HIDE DEF y
  <2>4. Looks(v, y)
    BY Zenon, <1>2, <2>3 DEF Looks, Held
  <2>5. Served(v, cf[i], y)
    BY Zenon, <1>1, <1>2, <1>3, <1>5, <1>6, <2>3, <2>4 DEF Served, DeployPoll,
       DeletePoll
  <2> QED BY Zenon, <1>1, <2>2, <2>3, <2>5, StepSilent DEF v
<1>7. CASE /\ \/ out = "in progress"
              \/ out = "failed" /\ h[r].was = "deprovisioning"
           /\ Reply(r, out)
  <2>0. Reply(r, out)
    BY Zenon, <1>7
  <2>1. PICK y : /\ h' = [h EXCEPT ![r] = y] /\ y.id = i /\ y.op = h[r].op
                 /\ y.pc = "replied" /\ y.resp = out
    BY <2>0, Replies
  <2>2. Served(v, cf[i], y)
    BY Zenon, <1>1, <1>2, <1>3, <1>7, <2>1 DEF Served, DeployPoll, DeletePoll,
       Says
  <2> QED BY Zenon, <1>1, <2>1, <2>2, StepSilent DEF v
<1> QED BY Zenon, <1>5, <1>6, <1>7

\* LastOpApply.
LEMMA LastOpApplyTold ==
  ASSUME TypeInv, StoryInv, PlatformOK, NEW r \in Req, NEW i \in ID,
         h[r].id = i, LastOpApply(r), UNCHANGED pvars
  PROVE  StoryInv'
<1> DEFINE v == ViewOf(i)
           out == h[r].resp
<1>1. /\ h[r].op = "lastop" /\ h[r].pc = "apply" /\ Save(r, out)
      /\ UNCHANGED <<cfg, directorVars, uaa, pvars>>
  BY DEF LastOpApply, Running
<1>2. /\ Looks(v, h[r]) /\ Ordered(v)
      /\ \/ /\ cf[i] \in {"create polling", "update polling"} /\ Deploying(v)
            /\ \/ out = "succeeded" /\ v.tasks[h[r].task].status = "done"
               \/ out = "failed" /\ v.tasks[h[r].task].status = "error"
         \/ /\ cf[i] = "delete polling" /\ Doomed(v)
            /\ out = "succeeded" /\ v.tasks[h[r].task].status = "done"
  <2>1. \/ /\ cf[i] \in {"create polling", "update polling"} /\ DeployPoll(v, h[r])
        \/ cf[i] = "delete polling" /\ DeletePoll(v, h[r])
    BY Zenon, <1>1, OpStory
  <2> QED BY Zenon, <1>1, <2>1, Serving DEF DeployPoll, DeletePoll, Ends, Says
<1>3. PICK y : /\ h' = [h EXCEPT ![r] = y] /\ y.id = i /\ y.op = h[r].op
               /\ y.pc = "marshal" /\ y.resp = out
  BY <1>1, Saves
<1>4. CASE Deploying(v)
  <2> DEFINE inst == [Inst(i) EXCEPT !.state = Verdict(out)]
  <2>1. /\ cur[i] # 0 /\ h[r].gen = cur[i] /\ Inst(i) \in Instance /\ v.inst = Inst(i)
        /\ h[r].was = "provisioning" /\ h[r].task = v.inst.task
        /\ v.inst.state = "provisioning"
    BY Zenon, <1>2, <1>4, ViewParts, InstType DEF Looks, Held, Deploying, In,
       TypeInv
  <2>2. /\ heap' = [heap EXCEPT ![i][cur[i]] = inst] /\ UNCHANGED cur
    BY <2>1 DEF LastOpApply, Inst
  <2>3. /\ inst.state = Verdict(out)
        /\ FromRecord(inst) = FromRecord(v.inst)
    BY <2>1 DEF Instance, FromRecord
  <2>4. cf[i] \in {"create polling", "update polling"}
    BY Zenon, <1>2, <2>1 DEF Doomed, In
  <2>5. /\ out = "succeeded" => v.tasks[v.inst.task].status = "done"
        /\ out = "failed" => v.tasks[v.inst.task].status = "error"
        /\ out \in {"succeeded", "failed"}
    BY Zenon, <1>2, <2>1 DEF Doomed, In
  <2> HIDE DEF v, inst, out
  <2>6. ASSUME NEW w, w.gen = cur[i], w.inst = inst, w.dep = v.dep, w.tasks = v.tasks
        PROVE  Served(w, cf[i], y)
    <3>1. Busy(v) = {} /\ Busy(w) = {}
      <4>1. /\ Ordered(v) /\ Ours(v, v.inst.task, "deploy")
            /\ v.tasks[v.inst.task].status \in {"done", "error"}
        BY Zenon, <1>2, <1>4, <2>5 DEF Deploying, Deploys
      <4>2. Busy(v) = {}
        BY <4>1, OverNoneBusy
      <4>3. Busy(w) = Busy(v)
        BY <2>6, SameDirector
      <4> QED BY <4>2, <4>3
    <3>2. /\ out = "succeeded" => /\ v.dep.status = "up"
                                  /\ FromRecord(v.dep.man) = Params(v)
          /\ "task" \notin Faults => out = "succeeded"
      <4>1. out = "succeeded" => v.dep = Outcome(v.tasks[v.inst.task])
        BY Zenon, <1>2, <1>4, <2>5 DEF Deploying, Deploys, Ours, IsLast, Ordered
      <4>2. v.tasks[v.inst.task].kind = "deploy"
        BY Zenon, <1>4 DEF Deploying, Deploys, Ours
      <4>3. /\ Outcome(v.tasks[v.inst.task]).status = "up"
            /\ Outcome(v.tasks[v.inst.task]).man = v.tasks[v.inst.task].man
        BY <4>2 DEF Outcome
      <4>4. out = "succeeded" => v.dep.status = "up" /\ FromRecord(v.dep.man) = Params(v)
        BY Zenon, <1>4, <4>1, <4>3 DEF Deploying, Deploys
      <4>5. "task" \notin Faults => out = "succeeded"
        BY Zenon, <1>2, <1>4, <2>5 DEF Deploying, Deploys, Ours, IsLast, Ordered
      <4> QED BY <4>4, <4>5
    <3>3. Params(w) = Params(v)
      BY <2>3, <2>6 DEF Params
    <3>4. NoRefund => Standing(w)
      BY <2>6, <3>1, <3>2 DEF Standing, NoRefund
    <3>5. Verdict("succeeded") = "ready" /\ Verdict("failed") = "failed"
      BY DEF Verdict
    <3>6. CASE out = "succeeded"
      <4>1. Settled(w) /\ w.inst.state = "ready"
        BY Zenon, <2>1, <2>3, <2>6, <3>1, <3>2, <3>3, <3>4, <3>5, <3>6
           DEF Settled, Lasting, In, Over, Up
      <4> QED BY Zenon, <1>1, <1>3, <2>4, <3>6, <4>1 DEF Served, DeployPoll,
                 Ends
    <3>7. CASE out = "failed"
      <4>1. Settled(w) /\ w.inst.state = "failed"
        BY <2>1, <2>3, <2>6, <3>4, <3>5, <3>7 DEF Settled, Lasting, In, Over
      <4> QED BY Zenon, <1>1, <1>3, <2>4, <3>7, <4>1 DEF Served, DeployPoll,
                 Ends
    <3> QED BY <2>5, <3>6, <3>7
  <2> QED BY ZenonT(60), <1>1, <1>3, <2>1, <2>2, <2>6, StepWrites DEF v
<1>5. CASE Doomed(v)
  <2>1. h[r].was = "deprovisioning" /\ h[r].task = v.inst.task
        /\ v.inst.state = "deprovisioning"
    BY Zenon, <1>2, <1>5 DEF Looks, Doomed, In
  <2>2. cur' = [cur EXCEPT ![i] = 0] /\ UNCHANGED heap
    BY <2>1 DEF LastOpApply
  <2>3. v.client = uaa \cap {i}
    BY ViewParts
  <2> HIDE DEF v, out
  <2>4. cf[i] = "delete polling" /\ out = "succeeded"
        /\ v.tasks[v.inst.task].status = "done"
    BY Zenon, <1>2, <2>1 DEF Deploying, In
  <2>5. ~KnownIn(v)
    <3>1. Busy(v) = {}
      BY Zenon, <1>2, <1>5, <2>4, OverNoneBusy DEF Doomed
    <3>2. v.dep = NoDeployment
      BY Zenon, <1>2, <1>5, <2>4 DEF Doomed, Ours, IsLast, Ordered, Outcome
    <3> QED BY <3>1, <3>2 DEF KnownIn, NoDeployment
  <2>6. ASSUME NEW w, w.gen = 0, w.client = uaa \cap {i}, w.dep = v.dep, w.tasks = v.tasks
        PROVE  Served(w, cf[i], y)
    <3>1. Gone(w)
      BY Zenon, <1>5, <2>3, <2>5, <2>6, SameDirector DEF Gone, Doomed,
         Unregistered
    <3> QED BY Zenon, <1>1, <1>3, <2>4, <3>1 DEF Served, DeletePoll, Ends
  <2> QED BY Zenon, <1>1, <1>3, <2>2, <2>6, StepRemoves DEF v
<1> QED BY Zenon, <1>2, <1>4, <1>5

\* Saving and answering keep what the handler ended with.
LEMMA EndsOn ==
  ASSUME NEW v, NEW c, NEW x, NEW y, Served(v, c, x), x.pc \in {"marshal", "write"},
         y.op = x.op, y.resp = x.resp, y.pc \in {"write", "replied"}
  PROVE  Served(v, c, y)
<1>1. CASE c = "creating" /\ Creating(v, x)
  BY <1>1 DEF Served, Creating, Ends, Says
<1>2. CASE c = "updating" /\ Updating(v, x)
  BY <1>2 DEF Served, Updating, Ends, Says
<1>3. CASE c = "deleting" /\ Deleting(v, x)
  BY <1>3 DEF Served, Deleting, Marked, Ends, Says
<1>4. CASE c \in {"create polling", "update polling"} /\ DeployPoll(v, x)
  BY Zenon, <1>4 DEF Served, DeployPoll, Ends, Says
<1>5. CASE c = "delete polling" /\ DeletePoll(v, x)
  BY Zenon, <1>5 DEF Served, DeletePoll, Ends
<1>6. CASE c = "available" /\ Binding(v, x)
  BY Zenon, <1>6 DEF Served, Binding, Says
<1> QED BY Zenon, <1>1, <1>2, <1>3, <1>4, <1>5, <1>6 DEF Served

\* SaveMarshal and SaveWrite.
LEMMA SavesTold ==
  ASSUME TypeInv, StoryInv, PlatformOK, NEW r \in Req, NEW i \in ID,
         h[r].id = i, SaveMarshal(r) \/ SaveWrite(r), UNCHANGED pvars
  PROVE  StoryInv'
<1>1. /\ h[r].pc \in {"marshal", "write"}
      /\ UNCHANGED <<cfg, cur, heap, directorVars, uaa, pvars>>
  BY DEF SaveMarshal, SaveWrite, brokerVars
<1>2. PICK y : /\ h' = [h EXCEPT ![r] = y] /\ y.id = i /\ y.op = h[r].op
               /\ y.pc \in {"write", "replied"} /\ y.resp = h[r].resp
  <2>1. CASE SaveMarshal(r)
    <3> DEFINE y == [h[r] EXCEPT !.pc = "write", !.snap = Snapshot]
    <3>1. h[r] \in Handler /\ h \in [Req -> GoodHandler]
      BY DEF TypeInv, GoodHandler
    <3>2. y.id = i /\ y.op = h[r].op /\ y.pc = "write" /\ y.resp = h[r].resp
      BY <3>1 DEF Handler
    <3>3. h' = [h EXCEPT ![r] = y]
      BY Zenon, <2>1, <3>1 DEF SaveMarshal
    <3> QED BY Zenon, <3>2, <3>3
  <2>2. CASE SaveWrite(r)
    <3>1. Reply(r, h[r].resp)
      BY <2>2 DEF SaveWrite
    <3> QED BY <3>1, Replies
  <2> QED BY <2>1, <2>2
<1>3. Served(ViewOf(i), cf[i], h[r])
  BY Serving
<1>4. Served(ViewOf(i), cf[i], y)
  BY <1>1, <1>2, <1>3, EndsOn
<1> QED BY Zenon, <1>1, <1>2, <1>4, StepSilent

-----------------------------------------------------------------------------
(* Answers and the director's tasks.                                       *)

\* Receive.
LEMMA ReceiveTold ==
  ASSUME TypeInv, StoryInv, PlatformOK, NEW r \in Req, Receive(r)
  PROVE  StoryInv'
<1>1. /\ h[r].pc = "replied" /\ h' = [h EXCEPT ![r] = Idle]
      /\ UNCHANGED <<cfg, cur, heap, directorVars, uaa>>
  BY DEF Receive, Return, brokerVars
<1>2. h'[r] = Idle /\ \A q \in Req \ {r} : h'[q] = h[q]
  BY <1>1 DEF TypeInv
<1>3. \A j \in ID : ViewOf(j)' = ViewOf(j)
  BY <1>1, ViewSame, TasksSame DEF directorVars
<1>4. \A j \in ID : IF waiting[j] = r
                    THEN cf'[j] = After(cf[j], h[r].resp) /\ waiting'[j] = "none"
                    ELSE cf'[j] = cf[j] /\ waiting'[j] = waiting[j]
  BY DEF Receive
<1>5. Serial'
  <2>1. Idle.id = "none" /\ \A j \in ID : j # "none" /\ r # "none"
    BY NoneAssumption DEF Idle
  <2>2. \A q \in Req, j \in ID : h'[q].id = j <=> waiting'[j] = q
    BY <1>2, <1>4, <2>1, NoneAssumption DEF StoryInv, Serial
  <2>3. \A q \in Req : h'[q] = Idle \/ h'[q].op \in OsbOps
    BY Zenon, <1>2 DEF StoryInv, Serial
  <2> QED BY <2>2, <2>3 DEF Serial
<1>6. SsoOnly' /\ NoTasksAhead'
  <2>1. NoTasksAhead'
    BY Zenon, <1>1, NoTaskIssued DEF StoryInv
  <2>2. Idle.pc # "uaa"
    BY DEF Idle
  <2> QED BY <1>1, <1>2, <2>1, <2>2 DEF StoryInv, SsoOnly
<1>7. ASSUME NEW j \in ID PROVE Ordered(ViewOf(j)') /\ Story(j)'
  <2>1. CASE waiting[j] = r
    <3>1. Ordered(ViewOf(j)) /\ Served(ViewOf(j), cf[j], h[r])
      BY <2>1, NoneAssumption DEF StoryInv, Story
    <3>2. AtRest(ViewOf(j), After(cf[j], h[r].resp))
      BY <1>1, <3>1, AnswerTold
    <3>3. ViewOf(j)' = ViewOf(j) /\ cf'[j] = After(cf[j], h[r].resp) /\ waiting'[j] = "none"
      BY <1>3, <1>4, <2>1
    <3> QED BY <3>1, <3>2, <3>3 DEF Story
  <2>2. CASE waiting[j] # r
    BY <1>2, <1>3, <1>4, <2>2, Elsewhere DEF PlatformOK
  <2> QED BY <2>1, <2>2
<1> QED BY <1>5, <1>6, <1>7 DEF StoryInv

\* A task that ends is the oldest unfinished one of its instance, and no
\* other instance sees it.
LEMMA EndedViews ==
  ASSUME TypeInv, NEW t \in TaskId, Director(t), NEW j \in ID
  PROVE  \/ ViewOf(j)' = ViewOf(j)
         \/ Ended(ViewOf(j), ViewOf(j)', t)
<1>1. PICK status \in {"done", "error"} : TaskEnds(t, status)
  BY DEF Director
<1>2. PICK d \in TaskResults(t, status) :
        deployed' = [deployed EXCEPT ![tasks[t].id] = d]
  BY Zenon, <1>1 DEF TaskEnds
<1>3. /\ tasks \in [TaskId -> TaskRecord] /\ deployed \in [ID -> Deployment]
      /\ Runnable(t) /\ (status = "error" => "task" \in Faults)
      /\ UNCHANGED <<cur, heap, uaa>>
  BY <1>1 DEF TypeInv, DirectorOK, TaskEnds, brokerVars
<1>4. /\ tasks'[t].id = tasks[t].id /\ tasks'[t].kind = tasks[t].kind
      /\ tasks'[t].man = tasks[t].man /\ tasks'[t].status = status
      /\ \A u \in TaskId : u # t => tasks'[u] = tasks[u]
  BY <1>1, <1>3 DEF TaskEnds, TaskRecord
<1>5. {u \in TaskId : tasks'[u].id = j} = {u \in TaskId : tasks[u].id = j}
  BY <1>4
<1>6. CASE tasks[t].id # j
  <2>1. TasksOf(j)' = TasksOf(j)
    BY <1>4, <1>5, <1>6 DEF TasksOf
  <2>2. deployed'[j] = deployed[j]
    BY <1>2, <1>3, <1>6
  <2> QED BY Zenon, <1>3, <2>1, <2>2, ViewSame
<1>7. CASE tasks[t].id = j
  <2> DEFINE v == ViewOf(j)
             w == ViewOf(j)'
  <2>1. /\ v.tasks = [u \in {u \in TaskId : tasks[u].id = j} |-> tasks[u]]
        /\ w.tasks = [u \in {u \in TaskId : tasks[u].id = j} |-> tasks'[u]]
    BY Zenon, <1>5, ViewParts, ViewParts2 DEF TasksOf
  <2>2. w.gen = v.gen /\ w.inst = v.inst /\ w.client = v.client
    <3>1. Record(j)' = Record(j)
      BY <1>3 DEF Record, Exists, Inst
    <3>2. v.gen = cur[j] /\ v.inst = Record(j) /\ v.client = uaa \cap {j}
      BY ViewParts
    <3>3. w.gen = cur'[j] /\ w.inst = Record(j)' /\ w.client = uaa' \cap {j}
      BY ViewParts2
    <3> HIDE DEF v, w
    <3> QED BY Zenon, <1>3, <3>1, <3>2, <3>3
  <2>3. w.dep = d
    BY <1>2, <1>3, <1>7, ViewParts2
  <2>4. status = "done" => d = Outcome(tasks[t])
    BY <1>2, <1>7 DEF TaskResults, Outcome
  <2> HIDE DEF v, w
  <2>5. t \in DOMAIN v.tasks /\ v.tasks[t] = tasks[t] /\ w.tasks[t] = tasks'[t]
    BY <1>7, <2>1
  <2>6. /\ DOMAIN w.tasks = DOMAIN v.tasks
        /\ \A u \in DOMAIN v.tasks : u # t => w.tasks[u] = v.tasks[u]
    BY <1>4, <2>1
  <2>7. t \in Busy(v) /\ \A u \in Busy(v) : t <= u
    BY <1>3, <1>7, <2>1, <2>5 DEF Busy, Runnable, Processing
  <2>8. Ended(v, w, t)
    BY Zenon, <1>3, <1>4, <2>2, <2>3, <2>4, <2>5, <2>6, <2>7 DEF Ended
  <2> QED BY <2>8 DEF v, w
<1> QED BY <1>6, <1>7

\* Director.
LEMMA DirectorTold ==
  ASSUME TypeInv, StoryInv, PlatformOK, NEW t \in TaskId, Director(t), UNCHANGED pvars
  PROVE  StoryInv'
<1>1. UNCHANGED <<cfg, h, last, uaa, cf, waiting>>
  BY DEF Director, TaskEnds, brokerVars, pvars
<1>2. Serial' /\ SsoOnly'
  BY Zenon, <1>1 DEF StoryInv, Serial, SsoOnly
<1>3. NoTasksAhead'
  <2>1. \A u \in TaskId : tasks'[u].id = tasks[u].id
    BY DEF Director, TaskEnds, TypeInv, DirectorOK, TaskRecord
  <2> QED BY <1>1, <2>1 DEF StoryInv, NoTasksAhead
<1>4. ASSUME NEW j \in ID PROVE Ordered(ViewOf(j)') /\ Story(j)'
  <2>1. Ordered(ViewOf(j)) /\ Story(j)
    BY DEF StoryInv
  <2>2. CASE ViewOf(j)' = ViewOf(j)
    BY Zenon, <1>1, <2>1, <2>2 DEF Story
  <2>3. CASE Ended(ViewOf(j), ViewOf(j)', t)
    <3>1. Ordered(ViewOf(j)')
      BY <2>1, <2>3, OrderedEnded
    <3>2. CASE waiting[j] = "none"
      <4>1. AtRest(ViewOf(j), cf[j])
        BY <2>1, <3>2 DEF Story
      <4>2. AtRest(ViewOf(j)', cf[j])
        BY <2>1, <2>3, <4>1, EndedRest
      <4> QED BY <1>1, <3>1, <3>2, <4>2 DEF Story
    <3>3. CASE waiting[j] # "none"
      <4>1. Served(ViewOf(j), cf[j], h[waiting[j]])
        BY <2>1, <3>3 DEF Story
      <4>2. Served(ViewOf(j)', cf[j], h[waiting[j]])
        BY <2>1, <2>3, <4>1, EndedServed
      <4> QED BY <1>1, <3>1, <3>3, <4>2 DEF Story
    <3> QED BY <3>2, <3>3
  <2> QED BY <2>2, <2>3, EndedViews
<1> QED BY <1>2, <1>3, <1>4 DEF StoryInv

-----------------------------------------------------------------------------
(* Every step.                                                             *)

\* Under the platform every handler at work serves an instance.
LEMMA Working ==
  ASSUME TypeInv, StoryInv, NEW r \in Req, Step(r)
  PROVE  h[r].op \in OsbOps /\ \E i \in ID : h[r].id = i
<1>1. h[r].op \in OsbOps
  BY StepBusy DEF StoryInv, Serial
<1> QED BY <1>1 DEF TypeInv, GoodHandler, HandlerInv

\* The stretches of the handlers.
LEMMA StepTold ==
  ASSUME Calm, TypeInv, StoryInv, PlatformOK, NEW r \in Req, Step(r), UNCHANGED pvars
  PROVE  StoryInv'
<1>1. PICK i \in ID : h[r].id = i
  BY Working
<1>2. h[r].op \notin {"upgrade", "status"}
  BY Working DEF OsbOps
<1>3. CASE ProvisionUaa(r) \/ ProvisionCall(r) \/ ProvisionUndo(r) \/ ProvisionRecord(r)
  BY <1>1, <1>3, ProvisionUaaTold, ProvisionCallTold, ProvisionUndoTold,
     ProvisionRecordTold
<1>4. CASE \/ deleteUAAClient(r) \/ DeprovisionCall(r)
           \/ DeprovisionUndo(r) \/ DeprovisionRecord(r)
  BY <1>1, <1>4, deleteUAAClientTold, DeprovisionCallTold, DeprovisionUndoTold,
     DeprovisionRecordTold
<1>5. CASE UpdateCall(r) \/ UpdateRecord(r) \/ LastOpPoll(r) \/ LastOpApply(r)
  BY <1>1, <1>5, UpdateCallTold, UpdateRecordTold, LastOpPollTold,
     LastOpApplyTold
<1>6. CASE SaveMarshal(r) \/ SaveWrite(r)
  BY <1>1, <1>6, SavesTold
<1>7. CASE \/ UpgradeParams(r) \/ UpgradeCall(r) \/ UpgradeRecord(r) \/ UpgradeTrack(r)
           \/ StatusPoll(r) \/ StatusApply(r) \/ AdminEnd(r)
  BY Zenon, <1>2, <1>7 DEF UpgradeParams, UpgradeCall, UpgradeRecord,
     UpgradeTrack,
                    StatusPoll, StatusApply, AdminEnd, Running
<1> QED BY <1>3, <1>4, <1>5, <1>6, <1>7 DEF Step

\* The requests.
LEMMA SendTold ==
  ASSUME Calm, TypeInv, StoryInv, PlatformOK, NEW r \in Req, NEW i \in ID, Send1(r, i)
  PROVE  StoryInv'
BY SendCreateTold, SendUpdateTold, SendDeleteTold, SendPollTold,
   SendBindTold DEF Send1

\* The story goes on with every step.
LEMMA StoryStep ==
  ASSUME Calm, TypeInv, StoryInv, PlatformOK, [PlatformNext]_allVars
  PROVE  StoryInv'
<1>1. ASSUME UNCHANGED allVars PROVE StoryInv'
  <2>1. UNCHANGED <<cfg, h, cur, heap, tasks, last, deployed, uaa, cf, waiting>>
    BY <1>1 DEF allVars, vars, pvars, brokerVars, directorVars
  <2>2. \A j \in ID : ViewOf(j)' = ViewOf(j)
    BY <2>1, ViewSame, TasksSame
  <2>3. Serial' /\ SsoOnly' /\ NoTasksAhead'
    BY <2>1 DEF StoryInv, Serial, SsoOnly, NoTasksAhead
  <2>4. ASSUME NEW j \in ID PROVE Ordered(ViewOf(j)') /\ Story(j)'
    BY <2>1, <2>2 DEF StoryInv, Story
  <2> QED BY <2>3, <2>4 DEF StoryInv
<1>2. ASSUME NEW r \in Req, NEW i \in ID, Send1(r, i) PROVE StoryInv'
  BY <1>2, SendTold
<1>3. ASSUME NEW r \in Req, Receive(r) PROVE StoryInv'
  BY <1>3, ReceiveTold
<1>4. ASSUME NEW r \in Req, Step(r), UNCHANGED pvars PROVE StoryInv'
  BY <1>4, StepTold
<1>5. ASSUME NEW t \in TaskId, Director(t), UNCHANGED pvars PROVE StoryInv'
  BY <1>5, DirectorTold
<1>6. ~PlatformCrash /\ \A id \in ID : ~GiveUp(id)
  BY DEF Calm, PlatformCrash, Crash, GiveUp
<1>7. CASE Rest /\ UNCHANGED pvars
  BY <1>1, <1>7 DEF Rest, allVars
<1> QED BY <1>1, <1>2, <1>3, <1>4, <1>5, <1>6, <1>7 DEF PlatformNext

\* It begins with nothing there.
LEMMA StoryStart == PlatformInit => StoryInv
<1> SUFFICES ASSUME PlatformInit PROVE StoryInv
  OBVIOUS
<1>1. \A t \in TaskId : tasks[t].id = "none"
  BY DEF PlatformInit, Init, NoTask
<1>2. Serial /\ SsoOnly /\ NoTasksAhead
  BY <1>1, NoneAssumption DEF PlatformInit, Init, Serial, SsoOnly,
     NoTasksAhead, Idle
<1>3. ASSUME NEW i \in ID PROVE Ordered(ViewOf(i)) /\ Story(i)
  <2> DEFINE v == ViewOf(i)
  <2>1. v.gen = 0 /\ v.dep = NoDeployment /\ v.client = {} /\ v.tasks = TasksOf(i)
    BY Zenon, ViewParts DEF PlatformInit, Init
  <2>2. DOMAIN TasksOf(i) = {}
    BY <1>1, NoneAssumption DEF TasksOf
  <2> HIDE DEF v
  <2>3. Ordered(v) /\ ~KnownIn(v)
    BY <2>1, <2>2 DEF Ordered, KnownIn, Busy, IsLast, NoDeployment
  <2>4. AtRest(v, "absent")
    BY <2>1, <2>3 DEF AtRest, Gone, Unregistered
  <2> QED BY <2>3, <2>4 DEF v, Story, PlatformInit
<1> QED BY <1>2, <1>3 DEF StoryInv

\* What the platform's theorems rest on.
LEMMA PlatformTypes == PlatformSpec => [](TypeInv /\ PlatformOK)
<1>1. PlatformInit => PlatformOK
  BY DEF PlatformInit, PlatformOK, CfStates
<1>2. PlatformOK /\ [PlatformNext]_allVars => PlatformOK'
  BY PlatformTyped
<1>3. PlatformSpec => []PlatformOK
  BY <1>1, <1>2, PTL DEF PlatformSpec
<1> QED BY <1>3, PlatformIsBroker, TypeInvariant, PTL

\* In every state of the system beside a calm platform, every instance is in
\* its story.
LEMMA StoryInvariant == ASSUME Calm PROVE PlatformSpec => []StoryInv
<1>1. TypeInv /\ PlatformOK /\ StoryInv /\ [PlatformNext]_allVars => StoryInv'
  BY StoryStep
<1> QED BY <1>1, StoryStart, PlatformTypes, PTL DEF PlatformSpec

-----------------------------------------------------------------------------
(* The theorems.                                                           *)

\* Beside the platform too, the state keeps its type (the handlers, the map,
\* instances.json, the director and the platform's own belief).
THEOREM PlatformTypeCorrect == PlatformSpec => []PlatformTypeOK
<1>1. PlatformOK /\ TypeOK => PlatformTypeOK
  BY DEF PlatformOK, PlatformTypeOK
<1> QED BY <1>1, PlatformTypes, PlatformIsBroker, TypeCorrect, PTL

\* An instance no handler works for is one the platform does not wait for.
LEMMA QuietRest ==
  ASSUME StoryInv, PlatformOK, NEW i \in ID, Quiet(i) PROVE AtRest(ViewOf(i), cf[i])
<1>1. waiting[i] = "none"
  BY DEF Quiet, StoryInv, Serial, PlatformOK
<1> QED BY <1>1 DEF StoryInv, Story

\* The unfinished tasks of a view.
LEMMA BusyTasks == ASSUME NEW i \in ID PROVE Busy(ViewOf(i)) = Processing(i)
<1>1. ViewOf(i).tasks = TasksOf(i)
  BY ViewParts
<1> QED BY <1>1 DEF Busy, Processing, TasksOf

\* The last task of a view is the instance's latest.
LEMMA OursLatest ==
  ASSUME NEW i \in ID, NEW t, NEW kind, Ours(ViewOf(i), t, kind)
  PROVE  LatestIs(i, t, kind)
<1>1. ViewOf(i).tasks = TasksOf(i)
  BY ViewParts
<1> QED BY <1>1 DEF Ours, IsLast, TasksOf, LatestIs

\* What the story says of an instance at rest.
LEMMA RestMeans ==
  ASSUME StoryInv, PlatformOK PROVE NoOrphan /\ PolledTask
<1>1. ASSUME NEW i \in ID, cf[i] = "absent", Quiet(i)
      PROVE  cur[i] = 0 /\ deployed[i].status = "absent" /\ Processing(i) = {}
  <2>1. Gone(ViewOf(i))
    BY Zenon, <1>1, QuietRest DEF AtRest
  <2> QED BY <2>1, ViewParts, BusyTasks DEF Gone, KnownIn
<1>2. ASSUME NEW i \in ID, cf[i] \in {"create polling", "update polling"}, Quiet(i)
      PROVE  LatestIs(i, Inst(i).task, "deploy")
  <2>1. Deploying(ViewOf(i))
    BY Zenon, <1>2, QuietRest DEF AtRest
  <2>2. Ours(ViewOf(i), Inst(i).task, "deploy")
    BY <2>1, ViewParts DEF Deploying, Deploys, In
  <2> QED BY <2>2, OursLatest
<1>3. ASSUME NEW i \in ID, cf[i] = "delete polling", Quiet(i)
      PROVE  /\ Exists(i) /\ Inst(i).state = "deprovisioning"
             /\ LatestIs(i, Inst(i).task, "delete")
  <2>1. Doomed(ViewOf(i))
    BY Zenon, <1>3, QuietRest DEF AtRest
  <2>2. /\ Exists(i) /\ Inst(i).state = "deprovisioning"
        /\ Ours(ViewOf(i), Inst(i).task, "delete")
    BY <2>1, ViewParts DEF Doomed, In
  <2> QED BY <2>2, OursLatest
<1> QED BY Zenon, <1>1, <1>2, <1>3 DEF NoOrphan, PolledTask

\* Beside a platform that waits for its answers, an instance it holds for gone
\* has left nothing behind, whatever else fails: director calls turned down,
\* answers lost (of deploys or of deletes), tasks that error, UAA and the disk.
THEOREM NothingOrphaned == ASSUME Calm PROVE PlatformSpec => []NoOrphan
<1>1. StoryInv /\ PlatformOK => NoOrphan
  BY RestMeans
<1> QED BY <1>1, StoryInvariant, PlatformTypes, PTL

\* LastOperation asks about the operation's own task: under the same faults no
\* poll is answered from the outcome of an earlier one.
THEOREM PollsLatestTask == ASSUME Calm PROVE PlatformSpec => []PolledTask
<1>1. StoryInv /\ PlatformOK => PolledTask
  BY RestMeans
<1> QED BY <1>1, StoryInvariant, PlatformTypes, PTL

\* When UAA answers, the OAuth client of a gone instance is gone too:
\* deleteUAAClient runs on every path that ends in one.
THEOREM NoClientOrphaned ==
  ASSUME Calm, "uaa" \notin Faults PROVE PlatformSpec => []NoOrphanClient
<1>1. ASSUME StoryInv, PlatformOK PROVE NoOrphanClient
  <2>1. ASSUME NEW i \in ID, cf[i] = "absent", Quiet(i) PROVE i \notin uaa
    <3>1. Gone(ViewOf(i))
      BY Zenon, <1>1, <2>1, QuietRest DEF AtRest
    <3>2. uaa \cap {i} = {}
      BY <3>1, ViewParts DEF Gone, Unregistered
    <3> QED BY <3>2
  <2> QED BY <2>1 DEF NoOrphanClient
<1>2. StoryInv /\ PlatformOK => NoOrphanClient
  BY <1>1
<1> QED BY <1>2, StoryInvariant, PlatformTypes, PTL

\* When the director takes the deploys the broker sends, Bind hands out
\* credentials only for an agent that runs with the version and plan of its
\* record, however creates, updates and deletes went before.
THEOREM BoundAgentIsUp ==
  ASSUME Calm, DeploysWork PROVE PlatformSpec => []BoundIsUp
<1>1. ASSUME TypeInv, StoryInv PROVE BoundIsUp
  <2>1. ASSUME NEW r \in Req, h[r].op = "bind", h[r].resp = "bound"
        PROVE  /\ deployed[h[r].id].status = "up"
               /\ FromRecord(deployed[h[r].id].man) = FromRecord(Inst(h[r].id))
    <3>1. PICK i \in ID : h[r].id = i
      BY <1>1, <2>1 DEF TypeInv, GoodHandler, HandlerInv, OsbOps
    <3>2. Binding(ViewOf(i), h[r])
      BY Zenon, <1>1, <2>1, <3>1, OpStory
    <3>3. Settled(ViewOf(i)) /\ ViewOf(i).inst.state = "ready"
      BY <2>1, <3>2 DEF Binding, Says
    <3>4. Up(ViewOf(i)) /\ ViewOf(i).gen # 0
      BY <3>3 DEF Settled, Lasting, In
    <3> QED BY <3>1, <3>4, ViewParts DEF Up, Params
  <2> QED BY <2>1 DEF BoundIsUp
<1>2. TypeInv /\ StoryInv => BoundIsUp
  BY <1>1
<1> QED BY <1>2, StoryInvariant, PlatformTypes, PTL

-----------------------------------------------------------------------------
(* The quotas.                                                             *)

\* An instance that counts after the step counted before it, for the same
\* organization.
Counts(i) == Exists(i) /\ Inst(i).state # "deprovisioning"
Frugal == \A j \in ID : Counts(j)' => Counts(j) /\ Inst(j)'.org = Inst(j).org
Reserves(r, i) == \E org \in Org, plan \in Plans \cup {UnknownPlan}, g \in Gen :
                    ProvisionReserve(r, i, org, plan, g)

\* Steps that leave the records alone, remove one,
LEMMA FrugalFrame == ASSUME UNCHANGED <<cur, heap>> PROVE Frugal
BY DEF Frugal, Counts, Exists, Inst

LEMMA FrugalRemove ==
  ASSUME TypeInv, NEW i \in ID, cur' = [cur EXCEPT ![i] = 0], UNCHANGED heap PROVE Frugal
<1>1. cur'[i] = 0 /\ \A j \in ID \ {i} : cur'[j] = cur[j]
  BY DEF TypeInv, BrokerOK
<1> QED BY <1>1 DEF Frugal, Counts, Exists, Inst

\* or write to an object that counted before, or does not count after.
LEMMA FrugalWrite ==
  ASSUME TypeInv, NEW i \in ID, NEW g \in Gen, NEW inst, UNCHANGED cur,
         heap' = [heap EXCEPT ![i][g] = inst],
         \/ inst.state = "deprovisioning"
         \/ heap[i][g].state # "deprovisioning" /\ inst.org = heap[i][g].org
  PROVE  Frugal
<1>1. heap'[i][g] = inst /\ \A j \in ID, k \in Gen : j # i \/ k # g => heap'[j][k] = heap[j][k]
  BY DEF TypeInv, BrokerOK, Heap
<1>2. \A j \in ID : cur[j] # 0 => cur[j] \in Gen
  BY BoundFacts DEF TypeInv, BrokerOK
<1> QED BY <1>1, <1>2 DEF Frugal, Counts, Exists, Inst

\* Requests: only ProvisionReserve takes a slot that counts, since the
\* platform updates no instance the broker does not know.
LEMMA SendFrugal ==
  ASSUME TypeInv, StoryInv, NEW r \in Req, NEW i \in ID, Send1(r, i)
  PROVE  Frugal \/ Reserves(r, i)
<1>1. CASE SendCreate(r, i)
  <2>1. PICK org \in Org, plan \in Plans \cup {UnknownPlan} :
          \/ ProvisionReject(r, i, org, plan)
          \/ \E g \in Gen : ProvisionReserve(r, i, org, plan, g)
    BY <1>1 DEF SendCreate
  <2>2. CASE ProvisionReject(r, i, org, plan)
    BY <2>2, FrugalFrame DEF ProvisionReject, brokerVars
  <2> QED BY <2>1, <2>2 DEF Reserves
<1>2. CASE SendUpdate(r, i)
  <2>1. Exists(i)
    <3>1. Settled(ViewOf(i))
      BY Zenon, <1>2 DEF SendUpdate, StoryInv, Story, AtRest
    <3> QED BY <3>1, ViewParts DEF Settled, Lasting, In
  <2>2. PICK plan \in Plans \cup {NoPlan, UnknownPlan} :
          UpdateReject(r, i, plan) \/ UpdateExisting(r, i, plan)
    BY <1>2, <2>1 DEF SendUpdate, UpdateRecover
  <2>3. CASE UpdateReject(r, i, plan)
    BY <2>3, FrugalFrame DEF UpdateReject, brokerVars
  <2>4. CASE UpdateExisting(r, i, plan)
    <3> DEFINE inst == [Inst(i) EXCEPT !.plan = IF plan = NoPlan THEN @ ELSE plan]
    <3>1. UNCHANGED cur /\ heap' = [heap EXCEPT ![i][cur[i]] = inst]
      BY <2>4 DEF UpdateExisting
    <3>2. cur[i] \in Gen /\ Inst(i) \in Instance /\ heap[i][cur[i]] = Inst(i)
      BY <2>1, InstType DEF Exists, Inst, TypeInv
    <3>3. inst.state = Inst(i).state /\ inst.org = Inst(i).org
      BY <3>2 DEF Instance
    <3> HIDE DEF inst
    <3> QED BY Zenon, <3>1, <3>2, <3>3, FrugalWrite
  <2> QED BY <2>2, <2>3, <2>4
<1>3. CASE SendDelete(r, i)
  <2>1. CASE DeprovisionAgain(r, i)
    BY <2>1, FrugalFrame DEF DeprovisionAgain, brokerVars
  <2>2. CASE DeprovisionMark(r, i)
    <3> DEFINE inst == [Inst(i) EXCEPT !.state = "deprovisioning"]
    <3>1. /\ UNCHANGED cur /\ heap' = [heap EXCEPT ![i][cur[i]] = inst]
          /\ cur[i] \in Gen /\ Inst(i) \in Instance
      BY <2>2, InstType DEF DeprovisionMark, Exists, Inst, TypeInv
    <3>2. inst.state = "deprovisioning"
      BY <3>1 DEF Instance
    <3> HIDE DEF inst
    <3> QED BY Zenon, <3>1, <3>2, FrugalWrite
  <2>3. ASSUME NEW g \in Gen, DeprovisionOrphan(r, i, g) PROVE Frugal
    <3> DEFINE inst == [NoInstance EXCEPT !.state = "deprovisioning"]
    <3>1. heap' = [heap EXCEPT ![i][g] = inst] /\ cur' = [cur EXCEPT ![i] = g]
      BY <2>3 DEF DeprovisionOrphan
    <3>2. inst.state = "deprovisioning"
      BY DEF NoInstance
    <3> HIDE DEF inst
    <3>3. /\ cur'[i] = g /\ heap'[i][g] = inst
          /\ \A j \in ID \ {i} : cur'[j] = cur[j] /\ heap'[j] = heap[j]
      BY <3>1 DEF TypeInv, BrokerOK, Heap
    <3> QED BY <3>2, <3>3 DEF Frugal, Counts, Exists, Inst
  <2> QED BY <1>3, <2>1, <2>2, <2>3 DEF SendDelete
<1>4. CASE SendPoll(r, i) \/ SendBind(r, i)
  <2>1. UNCHANGED <<cur, heap>>
    BY Zenon, <1>4 DEF SendPoll, SendBind, LastOpAnswer, LastOpRead, Bind,
       brokerVars
  <2> QED BY <2>1, FrugalFrame
<1> QED BY <1>1, <1>2, <1>3, <1>4 DEF Send1

\* Handlers: a record that stops counting never counts again, as no
\* deprovision is undone when the director takes the deletes of what stands.
LEMMA StepFrugal ==
  ASSUME NoRefund, TypeInv, StoryInv, NEW r \in Req, Step(r)
  PROVE  Frugal
<1>1. PICK i \in ID : h[r].id = i
  BY Working
<1>2. h[r].op \in OsbOps /\ h[r].op \notin {"upgrade", "status"}
  BY Working DEF OsbOps
<1>3. CASE \/ ProvisionCall(r) \/ deleteUAAClient(r) \/ DeprovisionCall(r)
           \/ UpdateCall(r) \/ LastOpPoll(r) \/ SaveMarshal(r) \/ SaveWrite(r)
  <2>1. UNCHANGED <<cur, heap>>
    BY Zenon, <1>3 DEF ProvisionCall, deleteUAAClient, DeprovisionCall,
       UpdateCall,
                LastOpPoll, SaveMarshal, SaveWrite, brokerVars
  <2> QED BY <2>1, FrugalFrame
<1>4. CASE ProvisionUndo(r)
  BY Zenon, <1>1, <1>4, FrugalRemove DEF ProvisionUndo
<1>5. ASSUME NEW inst, h[r].pc \in Holding, UNCHANGED cur,
             heap' = [heap EXCEPT ![i][h[r].gen] = inst],
             Mine(r) \in Instance => inst.state = Mine(r).state /\ inst.org = Mine(r).org
      PROVE  Frugal
  <2>1. h[r].gen \in Gen /\ Mine(r) \in Instance /\ Mine(r) = heap[i][h[r].gen]
    BY <1>1, <1>2, <1>5, MineType DEF Mine
  <2> QED BY Zenon, <1>5, <2>1, FrugalWrite
<1>6. CASE ProvisionUaa(r)
  <2> DEFINE inst == [Mine(r) EXCEPT !.sso = TRUE]
  <2>1. CASE UNCHANGED heap
    BY <1>6, <2>1, FrugalFrame DEF ProvisionUaa
  <2>2. CASE heap' = [heap EXCEPT ![i][h[r].gen] = inst]
    <3>1. h[r].pc \in Holding /\ UNCHANGED cur
      BY <1>6 DEF ProvisionUaa, Running, Holding
    <3>2. Mine(r) \in Instance => inst.state = Mine(r).state /\ inst.org = Mine(r).org
      BY DEF Instance
    <3> HIDE DEF inst
    <3> QED BY Zenon, <1>5, <2>2, <3>1, <3>2
  <2> QED BY Zenon, <1>1, <1>6, <2>1, <2>2 DEF ProvisionUaa, Mine
<1>7. CASE ProvisionRecord(r) \/ DeprovisionRecord(r)
  <2> DEFINE inst == [Mine(r) EXCEPT !.task = h[r].task]
  <2>1. /\ h[r].pc \in Holding /\ UNCHANGED cur
        /\ heap' = [heap EXCEPT ![i][h[r].gen] = inst]
    BY <1>1, <1>7 DEF ProvisionRecord, DeprovisionRecord, RecordTask, Running,
                      Deprovisioning, Holding, Mine
  <2>2. Mine(r) \in Instance => inst.state = Mine(r).state /\ inst.org = Mine(r).org
    BY DEF Instance
  <2> HIDE DEF inst
  <2> QED BY Zenon, <1>5, <2>1, <2>2
<1>8. CASE DeprovisionUndo(r)
  <2>1. h[r].op = "deprovision" => FALSE
    <3>1. h[r].op = "deprovision" => Deleting(ViewOf(i), h[r])
      BY Zenon, <1>1, OpStory
    <3> QED BY <1>8, <3>1 DEF Deleting, DeprovisionUndo, Deprovisioning, Ends,
               Says
  <2> QED BY <1>1, <1>8, <2>1, FrugalRemove DEF DeprovisionUndo
<1>9. ASSUME NEW inst, h[r].pc \in Holding, UNCHANGED cur, heap[i][h[r].gen] \in Instance,
             heap[i][h[r].gen].state # "deprovisioning",
             heap' = [heap EXCEPT ![i][h[r].gen] = inst],
             inst.org = heap[i][h[r].gen].org
      PROVE  Frugal
  <2>1. h[r].gen \in Gen
    BY <1>2, <1>9, MineType
  <2> QED BY Zenon, <1>9, <2>1, FrugalWrite
<1>10. CASE UpdateRecord(r)
  <2> DEFINE old == heap[i][h[r].gen]
             inst == [old EXCEPT !.state = "provisioning", !.task = h[r].task]
  <2>1. /\ h[r].op = "update" /\ h[r].pc = "record" /\ h[r].pc \in Holding /\ UNCHANGED cur
        /\ heap' = [heap EXCEPT ![i][h[r].gen] = inst]
    BY <1>1, <1>10 DEF UpdateRecord, Running, Holding
  <2>2. Held(ViewOf(i), h[r]) /\ In(ViewOf(i), Over)
    <3>1. Updating(ViewOf(i), h[r])
      BY Zenon, <1>1, <2>1, OpStory
    <3> QED BY <2>1, <3>1 DEF Updating, Ends, Says
  <2>3. old \in Instance /\ old.state # "deprovisioning"
    <3>1. cur[i] # 0 /\ h[r].gen = cur[i] /\ Inst(i).state \in Over
      BY <2>2, ViewParts DEF Held, In
    <3> QED BY <3>1, InstType DEF Inst, Over, TypeInv
  <2>4. inst.org = old.org
    BY <2>3 DEF Instance
  <2> HIDE DEF inst
  <2> QED BY Zenon, <1>9, <2>1, <2>3, <2>4
<1>11. CASE LastOpApply(r)
  <2> DEFINE old == heap[i][h[r].gen]
             inst == [old EXCEPT !.state = Verdict(h[r].resp)]
  <2>1. h[r].op = "lastop" /\ h[r].pc = "apply" /\ h[r].pc \in Holding
    BY <1>11 DEF LastOpApply, Running, Holding
  <2>2. CASE h[r].was = "deprovisioning" /\ cur' = [cur EXCEPT ![i] = 0] /\ UNCHANGED heap
    BY Zenon, <2>2, FrugalRemove
  <2>3. CASE /\ h[r].was = "provisioning" /\ UNCHANGED cur
             /\ heap' = [heap EXCEPT ![i][h[r].gen] = inst]
    <3>1. Looks(ViewOf(i), h[r])
      <4>1. DeployPoll(ViewOf(i), h[r]) \/ DeletePoll(ViewOf(i), h[r])
        BY Zenon, <1>1, <2>1, OpStory
      <4> QED BY Zenon, <2>1, <4>1 DEF DeployPoll, DeletePoll, Ends, Says
    <3>2. cur[i] # 0 /\ h[r].gen = cur[i] /\ Inst(i).state = "provisioning"
      BY <2>3, <3>1, ViewParts DEF Looks, Held
    <3>3. old \in Instance /\ old.state # "deprovisioning"
      BY <3>2, InstType DEF Inst, TypeInv
    <3>4. inst.org = old.org
      BY <3>3 DEF Instance
    <3> HIDE DEF inst
    <3> QED BY Zenon, <1>9, <2>1, <2>3, <3>3, <3>4
  <2> QED BY <1>1, <1>11, <2>2, <2>3 DEF LastOpApply
<1>12. CASE \/ UpgradeParams(r) \/ UpgradeCall(r) \/ UpgradeRecord(r) \/ UpgradeTrack(r)
            \/ StatusPoll(r) \/ StatusApply(r) \/ AdminEnd(r)
  BY Zenon, <1>2, <1>12 DEF UpgradeParams, UpgradeCall, UpgradeRecord,
     UpgradeTrack,
                     StatusPoll, StatusApply, AdminEnd, Running
<1> QED BY <1>3, <1>4, <1>6, <1>7, <1>8, <1>10, <1>11, <1>12 DEF Step

-----------------------------------------------------------------------------
(* The quotas, beside the platform.                                        *)

\* The quotas survive a step that adds none.
LEMMA QuotaKept ==
  ASSUME IsFiniteSet(ID), QuotaHolds, Frugal PROVE QuotaHolds'
<1> DEFINE L == {i \in ID : Counts(i)}
           M == {i \in ID : Counts(i)'}
<1>1. Live = L /\ Live' = M
  BY DEF Live, Counts, Exists, Inst
<1>2. M \subseteq L /\ \A i \in M : Inst(i)'.org = Inst(i).org
  BY DEF Frugal
<1>3. IsFiniteSet(L)
  BY FS_Subset
<1>4. Cardinality(M) <= Cardinality(L) /\ Cardinality(M) \in Nat /\ Cardinality(L) \in Nat
  BY <1>2, <1>3, FS_Subset, FS_CardinalityType
<1>5. ASSUME NEW org \in Org, MaxInstancesPerOrg > 0
      PROVE  Cardinality({i \in M : Inst(i)'.org = org}) <= MaxInstancesPerOrg
  <2> DEFINE A == {i \in L : Inst(i).org = org}
             B == {i \in M : Inst(i)'.org = org}
  <2>1. B \subseteq A /\ A \subseteq L
    BY <1>2
  <2>2. IsFiniteSet(A)
    BY <1>3, <2>1, FS_Subset
  <2>3. Cardinality(B) <= Cardinality(A) /\ Cardinality(B) \in Nat /\ Cardinality(A) \in Nat
    BY Zenon, <2>1, <2>2, FS_Subset, FS_CardinalityType
  <2>4. Cardinality(A) <= MaxInstancesPerOrg
    BY <1>1, <1>5 DEF QuotaHolds
  <2> HIDE DEF A, B
  <2>5. Cardinality(B) <= MaxInstancesPerOrg
    BY <2>3, <2>4, ConstantsAssumption
  <2> QED BY <2>5 DEF B
<1>6. MaxInstances > 0 => Cardinality(M) <= MaxInstances
  <2>1. MaxInstances > 0 => Cardinality(L) <= MaxInstances
    BY <1>1 DEF QuotaHolds
  <2> HIDE DEF L, M
  <2> QED BY <1>4, <2>1, ConstantsAssumption
<1> HIDE DEF M
<1> QED BY <1>1, <1>5, <1>6 DEF QuotaHolds

\* Provision counts under the lock before it takes the slot.
LEMMA QuotaReserved ==
  ASSUME IsFiniteSet(ID), TypeInv, QuotaHolds, NEW r \in Req, NEW id \in ID,
         NEW org \in Org, NEW plan, NEW g \in Gen, ProvisionReserve(r, id, org, plan, g)
  PROVE  QuotaHolds'
<1> DEFINE L == {i \in ID : Counts(i)}
           M == {i \in ID : Counts(i)'}
           inst == [org |-> org, state |-> "provisioning", task |-> 0,
                    version |-> cfg.version, plan |-> plan, sso |-> FALSE]
<1>1. Live = L /\ Live' = M
  BY DEF Live, Counts, Exists, Inst
<1>2. /\ heap' = [heap EXCEPT ![id][g] = inst] /\ cur' = [cur EXCEPT ![id] = g]
      /\ ~Exists(id) /\ ~QuotaExceeded(org)
  BY DEF ProvisionReserve, CanProvision, Refused
<1>3. inst.org = org /\ inst.state = "provisioning" /\ g # 0
  BY BoundFacts DEF Gen
<1> HIDE DEF inst
<1>4. /\ Counts(id)' /\ Inst(id)'.org = org /\ ~Counts(id)
      /\ \A j \in ID \ {id} : (Counts(j)' <=> Counts(j)) /\ Inst(j)' = Inst(j)
  <2>1. /\ cur'[id] = g /\ heap'[id][g] = inst
        /\ \A j \in ID \ {id} : cur'[j] = cur[j] /\ heap'[j] = heap[j]
    BY <1>2 DEF TypeInv, BrokerOK, Heap
  <2>2. Inst(id)' = inst /\ Exists(id)'
    BY <1>3, <2>1 DEF Exists, Inst
  <2>3. Counts(id)' /\ Inst(id)'.org = org /\ ~Counts(id)
    BY <1>2, <1>3, <2>2 DEF Counts
  <2>4. \A j \in ID \ {id} : (Counts(j)' <=> Counts(j)) /\ Inst(j)' = Inst(j)
    BY <2>1 DEF Counts, Exists, Inst
  <2> QED BY <2>3, <2>4
<1>5. M = L \cup {id} /\ id \notin L
  BY <1>4
<1>6. IsFiniteSet(L)
  BY FS_Subset
<1>7. MaxInstances > 0 => Cardinality(M) <= MaxInstances
  <2>1. countInstances = Cardinality(L)
    BY DEF countInstances, Counts
  <2>2. MaxInstances > 0 => ~(Cardinality(L) >= MaxInstances)
    BY <1>2, <2>1 DEF QuotaExceeded
  <2> HIDE DEF L, M
  <2>3. Cardinality(M) = Cardinality(L) + 1 /\ Cardinality(L) \in Nat
    BY <1>5, <1>6, FS_AddElement, FS_CardinalityType
  <2> QED BY <2>2, <2>3, ConstantsAssumption
<1>8. ASSUME NEW o \in Org, MaxInstancesPerOrg > 0
      PROVE  Cardinality({i \in M : Inst(i)'.org = o}) <= MaxInstancesPerOrg
  <2> DEFINE A == {i \in L : Inst(i).org = o}
             B == {i \in M : Inst(i)'.org = o}
  <2>1. IsFiniteSet(A) /\ Cardinality(A) \in Nat
    BY <1>6, FS_Subset, FS_CardinalityType
  <2>2. CASE o # org
    <3>1. B = A
      BY <1>4, <1>5, <2>2
    <3> QED BY Zenon, <1>1, <1>8, <3>1 DEF QuotaHolds
  <2>3. CASE o = org
    <3>1. B = A \cup {id} /\ id \notin A
      BY <1>4, <1>5, <2>3
    <3>2. countInstancesByOrg(org) = Cardinality(A)
      <4>1. A = {i \in ID : /\ Exists(i) /\ Inst(i).org = org
                            /\ Inst(i).state # "deprovisioning"}
        BY <2>3 DEF Counts
      <4> QED BY <4>1 DEF countInstancesByOrg
    <3>3. ~(Cardinality(A) >= MaxInstancesPerOrg)
      BY <1>2, <1>8, <3>2 DEF QuotaExceeded
    <3> HIDE DEF A, B
    <3>4. Cardinality(B) = Cardinality(A) + 1
      BY Zenon, <2>1, <3>1, FS_AddElement
    <3>5. Cardinality(B) <= MaxInstancesPerOrg
      BY <2>1, <3>3, <3>4, ConstantsAssumption
    <3> QED BY <3>5 DEF B
  <2> QED BY <2>2, <2>3
<1> HIDE DEF M
<1> QED BY <1>1, <1>7, <1>8 DEF QuotaHolds

\* Where deletes of standing deployments go through (the director takes them
\* and its tasks succeed), neither quota is ever exceeded, however many
\* Provision requests run at once: the count and the reservation are one
\* critical section, and no deprovision gives a slot back to its instance.
THEOREM QuotasHold ==
  ASSUME Calm, NoRefund, IsFiniteSet(ID) PROVE PlatformSpec => []QuotaHolds
<1>1. PlatformInit => QuotaHolds
  <2> SUFFICES ASSUME PlatformInit PROVE QuotaHolds
    OBVIOUS
  <2>1. Live = {}
    BY DEF PlatformInit, Init, Live, Exists
  <2>2. \A org : {i \in Live : Inst(i).org = org} = {}
    BY <2>1
  <2>3. Cardinality({}) = 0
    BY FS_EmptySet
  <2> QED BY <2>1, <2>2, <2>3, ConstantsAssumption DEF QuotaHolds
<1>2. ASSUME TypeInv, PlatformOK, StoryInv, QuotaHolds, [PlatformNext]_allVars
      PROVE  QuotaHolds'
  <2>1. ASSUME UNCHANGED <<cur, heap>> PROVE QuotaHolds'
    BY <1>2, <2>1, FrugalFrame, QuotaKept
  <2>2. ASSUME NEW r \in Req, NEW i \in ID, Send1(r, i) PROVE QuotaHolds'
    <3>1. Frugal \/ Reserves(r, i)
      BY <1>2, <2>2, SendFrugal
    <3>2. CASE Frugal
      BY <1>2, <3>2, QuotaKept
    <3>3. CASE Reserves(r, i)
      BY Zenon, <1>2, <3>3, QuotaReserved DEF Reserves
    <3> QED BY <3>1, <3>2, <3>3
  <2>3. ASSUME NEW r \in Req, Receive(r) PROVE UNCHANGED <<cur, heap>>
    BY <2>3 DEF Receive, Return, brokerVars
  <2>4. ASSUME NEW r \in Req, Step(r) PROVE QuotaHolds'
    <3>1. Frugal
      BY <1>2, <2>4, StepFrugal
    <3> QED BY <1>2, <3>1, QuotaKept
  <2>5. ASSUME NEW t \in TaskId, Director(t) PROVE UNCHANGED <<cur, heap>>
    BY <2>5 DEF Director, TaskEnds, brokerVars
  <2>6. ~PlatformCrash /\ \A id \in ID : ~GiveUp(id)
    BY DEF Calm, PlatformCrash, Crash, GiveUp
  <2>7. Rest \/ UNCHANGED allVars => UNCHANGED <<cur, heap>>
    BY DEF Rest, allVars, vars, brokerVars
  <2> QED BY <1>2, <2>1, <2>2, <2>3, <2>4, <2>5, <2>6, <2>7 DEF PlatformNext
<1>3. TypeInv /\ PlatformOK /\ StoryInv /\ QuotaHolds /\ [PlatformNext]_allVars
      => QuotaHolds'
  BY <1>2
<1> QED BY <1>1, <1>3, StoryInvariant, PlatformTypes, PTL DEF PlatformSpec
=============================================================================
