---------------------------- MODULE StoryProofs ----------------------------
(***************************************************************************)
(* What the properties of the broker rest on beside a platform that waits  *)
(* for its answers, for any number of instances and handlers.              *)
(*                                                                         *)
(* None of them is inductive: what is true once an operation is over       *)
(* rests on what was true at every stretch of the handlers that served it. *)
(* The inductive invariant tells the story of one instance: for each       *)
(* belief of the platform and each point its handler can be at, what the   *)
(* record, the deployment, its tasks and the OAuth client are.  The story  *)
(* is told of a view of the state, the part one instance depends on, so    *)
(* that a step for one instance leaves the stories of the others alone.    *)
(***************************************************************************)
EXTENDS BrokerProofs

NoneLost == "deployLost" \notin Faults
DeploysWork == NoneLost /\ "deploy" \notin Faults
DeletesWork == "delete" \notin Faults /\ "deleteLost" \notin Faults
\* Deployments, once there, stay until a delete is acknowledged.
NoRefund == DeletesWork /\ "task" \notin Faults
\* The platform waits for every answer, the broker stays up, and not both
\* deploys and deletes go wrong behind its back.
Calm == /\ Impatience = {}
        /\ "crash" \notin Faults /\ "restart" \notin Faults
        /\ NoneLost \/ DeletesWork

\* What instance i depends on.
Record(i) == IF Exists(i) THEN Inst(i) ELSE NoInstance
TasksOf(i) == [t \in {u \in TaskId : tasks[u].id = i} |-> tasks[t]]
ViewOf(i) == [gen |-> cur[i], inst |-> Record(i), dep |-> deployed[i],
            tasks |-> TasksOf(i), client |-> uaa \cap {i}]

Busy(v) == {t \in DOMAIN v.tasks : v.tasks[t].status = "processing"}
KnownIn(v) == v.dep.status # "absent" \/ Busy(v) # {}
IsLast(v, t) == t \in DOMAIN v.tasks /\ \A u \in DOMAIN v.tasks : u <= t
Outcome(job) == IF job.kind = "delete" THEN NoDeployment
                ELSE [status |-> "up", man |-> job.man]
\* The director works the tasks of a deployment off in the order issued, and
\* the last one decides what is deployed.
Ordered(v) ==
  /\ DOMAIN v.tasks \subseteq TaskId
  /\ \A t \in DOMAIN v.tasks : v.tasks[t].status = "error" => "task" \in Faults
  /\ \A t \in TaskId : IsLast(v, t) /\ v.tasks[t].status # "processing" => Busy(v) = {}
  /\ \A t \in TaskId : IsLast(v, t) /\ v.tasks[t].status = "done" =>
       v.dep = Outcome(v.tasks[t])

\* The record, what is deployed and what is under way agree in one of a few
\* ways.
Params(v) == FromRecord(v.inst)
In(v, states) == v.gen # 0 /\ v.inst.state \in states
Over == {"ready", "failed"}
Unregistered(v) == "uaa" \notin Faults => v.client = {}
Standing(v) == /\ v.dep.status # "absent"
               /\ \A t \in Busy(v) : v.tasks[t].kind = "deploy"
Up(v) == v.dep.status = "up" /\ FromRecord(v.dep.man) = Params(v) /\ Busy(v) = {}
Ours(v, t, kind) == IsLast(v, t) /\ v.tasks[t].kind = kind
Deploys(v, t) == Ours(v, t, "deploy") /\ FromRecord(v.tasks[t].man) = Params(v)

Gone(v) == v.gen = 0 /\ ~KnownIn(v) /\ Unregistered(v)
Undone(v) == v.gen = 0 /\ (NoneLost => ~KnownIn(v))
Deploying(v) == In(v, {"provisioning"}) /\ Deploys(v, v.inst.task)
Lasting(v) == In(v, Over) /\ (NoRefund => Standing(v))
Settled(v) == Lasting(v) /\ (DeploysWork /\ v.inst.state = "ready" => Up(v))
Doomed(v) == /\ In(v, {"deprovisioning"})
             /\ Ours(v, v.inst.task, "delete") /\ Unregistered(v)
Spared(v) == In(v, Over) /\ ~NoRefund

\* The stories of the operations, by the point the handler x has reached.
Held(v, x) == x.gen = v.gen /\ v.gen # 0
Looks(v, x) == Held(v, x) /\ x.task = v.inst.task /\ x.was = v.inst.state
Says(x, resp) == x.pc = "replied" /\ x.resp = resp
Ends(x, resp) == x.pc \in {"marshal", "write", "replied"} /\ x.resp = resp

Creating(v, x) ==
  /\ x.op = "provision"
  /\ \/ /\ x.pc \in {"uaa", "call"}
        /\ Held(v, x) /\ In(v, {"provisioning"}) /\ ~KnownIn(v)
     \/ x.pc = "undo" /\ (NoneLost => ~KnownIn(v))
     \/ x.pc = "record" /\ Held(v, x) /\ In(v, {"provisioning"}) /\ Deploys(v, x.task)
     \/ Ends(x, "accepted") /\ Deploying(v)
     \/ Says(x, "rejected") /\ Gone(v)
     \/ Says(x, "error") /\ Undone(v)
Updating(v, x) ==
  /\ x.op = "update"
  /\ \/ x.pc = "call" /\ Held(v, x) /\ Lasting(v) /\ FromRecord(x.man) = Params(v)
     \/ x.pc = "record" /\ Held(v, x) /\ In(v, Over) /\ Deploys(v, x.task)
     \/ Ends(x, "accepted") /\ Deploying(v)
     \/ Says(x, "rejected") /\ Settled(v)
     \/ Says(x, "error") /\ ~DeploysWork /\ Settled(v)
Marked(v, x) ==
  /\ x.pc \in {"uaa", "call", "undo"}
  /\ Held(v, x) /\ In(v, {"deprovisioning"})
  /\ x.pc # "uaa" => Unregistered(v)
Deleting(v, x) ==
  \/ /\ x.op = "deprovision" /\ Marked(v, x) /\ x.was \in Over
     /\ NoRefund => Standing(v) /\ x.pc # "undo"
  \/ /\ x.op = "orphan" /\ Marked(v, x)
     /\ NoneLost \/ x.pc = "undo" => ~KnownIn(v)
  \/ /\ x.op \in {"deprovision", "orphan"}
     /\ \/ /\ x.pc = "record" /\ Held(v, x) /\ In(v, {"deprovisioning"})
           /\ Ours(v, x.task, "delete") /\ Unregistered(v)
        \/ Ends(x, "accepted") /\ Doomed(v)
  \/ x.op = "deprovision" /\ Says(x, "error") /\ Spared(v)
  \/ x.op = "orphan" /\ Says(x, "gone") /\ Gone(v)
DeployPoll(v, x) ==
  /\ x.op = "lastop"
  /\ \/ x.pc = "poll" /\ Looks(v, x) /\ Deploying(v)
     \/ /\ x.pc = "apply" /\ Looks(v, x) /\ Deploying(v)
        /\ \/ x.resp = "succeeded" /\ v.tasks[x.task].status = "done"
           \/ x.resp = "failed" /\ v.tasks[x.task].status = "error"
     \/ Ends(x, "succeeded") /\ Settled(v) /\ v.inst.state = "ready"
     \/ Ends(x, "failed") /\ Settled(v) /\ v.inst.state = "failed"
     \/ Says(x, "in progress") /\ Deploying(v)
DeletePoll(v, x) ==
  /\ x.op = "lastop"
  /\ \/ x.pc = "poll" /\ Looks(v, x) /\ Doomed(v)
     \/ /\ x.pc = "apply" /\ Looks(v, x) /\ Doomed(v)
        /\ x.resp = "succeeded" /\ v.tasks[x.task].status = "done"
     \/ Ends(x, "succeeded") /\ Gone(v)
     \/ x.pc = "replied" /\ x.resp \in {"in progress", "failed"} /\ Doomed(v)
Binding(v, x) ==
  /\ x.op = "bind" /\ Settled(v)
  /\ \/ Says(x, "rejected")
     \/ Says(x, "bound") /\ v.inst.state = "ready"

\* With no request under way, and with one.
AtRest(v, c) ==
  \/ c = "absent" /\ Gone(v)
  \/ c = "mitigating" /\ Undone(v)
  \/ c \in {"create polling", "update polling"} /\ Deploying(v)
  \/ c \in {"available", "create failed"} /\ Settled(v)
  \/ c = "delete polling" /\ Doomed(v)
  \/ c = "delete failed" /\ (Doomed(v) \/ Spared(v))
Served(v, c, x) ==
  \/ c = "creating" /\ Creating(v, x)
  \/ c = "updating" /\ Updating(v, x)
  \/ c = "deleting" /\ Deleting(v, x)
  \/ c \in {"create polling", "update polling"} /\ DeployPoll(v, x)
  \/ c = "delete polling" /\ DeletePoll(v, x)
  \/ c = "available" /\ Binding(v, x)
Story(i) == IF waiting[i] = "none" THEN AtRest(ViewOf(i), cf[i])
                                   ELSE Served(ViewOf(i), cf[i], h[waiting[i]])

\* One handler at most works for an instance, and the platform waits for it.
Serial ==
  /\ \A r \in Req, i \in ID : h[r].id = i <=> waiting[i] = r
  /\ \A r \in Req : h[r] = Idle \/ h[r].op \in OsbOps
NoTasksAhead == \A t \in TaskId : t > last => tasks[t].id = "none"
\* Clients are registered only when SSO is configured.
SsoOnly == ~cfg.sso => uaa = {} /\ \A r \in Req : h[r].pc # "uaa"
StoryInv == /\ Serial /\ NoTasksAhead /\ SsoOnly
            /\ \A i \in ID : Ordered(ViewOf(i)) /\ Story(i)
-----------------------------------------------------------------------------
(* Stories of one view.                                                    *)

\* What the view becomes when the director ends the instance's task t,
Ended(v, w, t) ==
  /\ t \in Busy(v) /\ \A u \in Busy(v) : t <= u
  /\ w.gen = v.gen /\ w.inst = v.inst /\ w.client = v.client
  /\ DOMAIN w.tasks = DOMAIN v.tasks
  /\ \A u \in DOMAIN v.tasks : u # t => w.tasks[u] = v.tasks[u]
  /\ w.tasks[t].kind = v.tasks[t].kind /\ w.tasks[t].man = v.tasks[t].man
  /\ \/ w.tasks[t].status = "done" /\ w.dep = Outcome(v.tasks[t])
     \/ w.tasks[t].status = "error" /\ "task" \in Faults
\* and when it accepts a task for the instance.
Issued(v, w, t, kind, man) ==
  /\ w.gen = v.gen /\ w.inst = v.inst /\ w.client = v.client /\ w.dep = v.dep
  /\ t \in TaskId /\ DOMAIN w.tasks = DOMAIN v.tasks \cup {t}
  /\ \A u \in DOMAIN v.tasks : u < t /\ w.tasks[u] = v.tasks[u]
  /\ w.tasks[t].kind = kind /\ w.tasks[t].man = man
  /\ w.tasks[t].status = "processing"

\* The task that ends is the oldest; if it is also the last, nothing is left
\* to do and its outcome is what is deployed.
LEMMA OrderedEnded ==
  ASSUME NEW v, NEW w, NEW t, Ordered(v), Ended(v, w, t)
  PROVE  Ordered(w)
<1>1. DOMAIN v.tasks \subseteq Nat /\ t \in DOMAIN v.tasks
  BY BoundFacts DEF Ordered, TaskId, Ended, Busy
<1>2. Busy(w) = Busy(v) \ {t}
  BY <1>1 DEF Busy, Ended
<1>3. \A u : IsLast(w, u) <=> IsLast(v, u)
  BY DEF IsLast, Ended
<1>4. ASSUME NEW u \in TaskId, IsLast(w, u), w.tasks[u].status # "processing"
      PROVE  Busy(w) = {} /\ (w.tasks[u].status = "done" => w.dep = Outcome(w.tasks[u]))
  <2>1. IsLast(v, u)
    BY <1>3, <1>4
  <2>2. CASE u = t
    <3>1. Busy(w) = {}
      BY <1>1, <1>2, <2>1, <2>2 DEF Busy, Ended, IsLast
    <3>2. Outcome(w.tasks[t]) = Outcome(v.tasks[t])
      BY DEF Outcome, Ended
    <3> QED BY <2>2, <3>1, <3>2 DEF Ended
  <2>3. CASE u # t
    <3>1. w.tasks[u] = v.tasks[u]
      BY <2>1, <2>3 DEF Ended, IsLast
    <3>2. Busy(v) = {}
      BY <1>4, <2>1, <3>1 DEF Ordered
    <3> QED BY <3>2 DEF Ended
  <2> QED BY <2>2, <2>3
<1> QED BY <1>1, <1>4 DEF Ordered, Ended

\* A new task is the last, and unfinished.
LEMMA OrderedIssued ==
  ASSUME NEW v, NEW w, NEW t, NEW kind, NEW man, Ordered(v), Issued(v, w, t, kind, man)
  PROVE  Ordered(w) /\ Ours(w, t, kind) /\ Busy(w) = Busy(v) \cup {t}
<1>1. DOMAIN v.tasks \subseteq Nat /\ t \in Nat
  BY BoundFacts DEF Ordered, TaskId, Issued
<1>2. IsLast(w, t) /\ \A u : IsLast(w, u) => u = t
  BY <1>1 DEF IsLast, Issued
<1>3. Busy(w) = Busy(v) \cup {t}
  BY <1>1 DEF Busy, Issued
<1>4. \A u \in DOMAIN w.tasks : w.tasks[u].status = "error" => "task" \in Faults
  BY DEF Ordered, Issued
<1> QED BY <1>2, <1>3, <1>4 DEF Ordered, Ours, Issued

\* While a task runs, the director knows the deployment; when it ends nothing
\* that a story says changes.
LEMMA EndedTold ==
  ASSUME NEW v, NEW w, NEW t, Ordered(v), Ended(v, w, t)
  PROVE  /\ KnownIn(v) /\ Busy(v) # {}
         /\ \A S : In(w, S) <=> In(v, S)
         /\ \A u, k : Ours(w, u, k) <=> Ours(v, u, k)
         /\ \A u \in DOMAIN v.tasks : w.tasks[u].man = v.tasks[u].man
         /\ Params(w) = Params(v)
         /\ Unregistered(w) <=> Unregistered(v)
         /\ NoRefund /\ Standing(v) => Standing(w)
<1>1. t \in DOMAIN v.tasks /\ Busy(v) # {} /\ Busy(w) = Busy(v) \ {t}
  BY DEF Busy, Ended
<1>2. \A u \in DOMAIN v.tasks : /\ w.tasks[u].man = v.tasks[u].man
                                /\ w.tasks[u].kind = v.tasks[u].kind
  BY DEF Ended
<1>3. \A u, k : Ours(w, u, k) <=> Ours(v, u, k)
  BY <1>2 DEF Ours, IsLast, Ended
<1>4. ASSUME NoRefund, Standing(v) PROVE Standing(w)
  <2>1. w.dep = Outcome(v.tasks[t]) /\ v.tasks[t].kind = "deploy"
    BY <1>4 DEF Standing, NoRefund, Ended
  <2> QED BY <1>1, <1>2, <1>4, <2>1 DEF Standing, Outcome, Busy
<1>5. (\A S : In(w, S) <=> In(v, S)) /\ Params(w) = Params(v)
      /\ (Unregistered(w) <=> Unregistered(v))
  BY DEF In, Params, Unregistered, Ended
<1> QED BY <1>1, <1>2, <1>3, <1>4, <1>5 DEF KnownIn

\* The last task has run: nothing is under way.
LEMMA OverNoneBusy ==
  ASSUME NEW v, NEW t, NEW kind, Ordered(v), Ours(v, t, kind),
         v.tasks[t].status \in {"done", "error"}
  PROVE  Busy(v) = {}
BY DEF Ordered, Ours, IsLast

\* So a task that ends keeps the story, with no request under way
LEMMA EndedRest ==
  ASSUME NEW v, NEW w, NEW t, NEW c, Ordered(v), Ended(v, w, t), AtRest(v, c)
  PROVE  AtRest(w, c)
<1>1. KnownIn(v) /\ Busy(v) # {} /\ w.gen = v.gen /\ w.inst = v.inst
  BY EndedTold DEF Ended
<1>2. Deploying(v) => Deploying(w)
  BY <1>1, EndedTold DEF Deploying, Deploys, Ours, IsLast
<1>3. Doomed(v) => Doomed(w)
  BY <1>1, EndedTold DEF Doomed
<1>4. Settled(v) => Settled(w)
  BY <1>1, EndedTold DEF Settled, Lasting, Up
<1>5. (Spared(v) => Spared(w)) /\ ~Gone(v) /\ (Undone(v) => Undone(w))
  BY <1>1, EndedTold DEF Spared, Gone, Undone
<1> QED BY Zenon, <1>2, <1>3, <1>4, <1>5 DEF AtRest

\* and at every point of a handler.
LEMMA EndedServed ==
  ASSUME NEW v, NEW w, NEW t, NEW c, NEW x, Ordered(v), Ended(v, w, t), Served(v, c, x)
  PROVE  Served(w, c, x)
<1>1. KnownIn(v) /\ Busy(v) # {} /\ w.gen = v.gen /\ w.inst = v.inst
  BY EndedTold DEF Ended
<1>2. \A u : Deploys(v, u) => Deploys(w, u)
  BY EndedTold DEF Deploys, Ours, IsLast
<1>3. Deploying(v) => Deploying(w)
  BY <1>1, <1>2, EndedTold DEF Deploying
<1>4. Doomed(v) => Doomed(w)
  BY <1>1, EndedTold DEF Doomed
<1>5. Lasting(v) => Lasting(w)
  BY EndedTold DEF Lasting
<1>6. Settled(v) => Settled(w)
  BY <1>1, <1>5 DEF Settled, Up
<1>7. (Spared(v) => Spared(w)) /\ ~Gone(v) /\ (Undone(v) => Undone(w))
  BY <1>1, EndedTold DEF Spared, Gone, Undone
<1>8. (Held(v, x) => Held(w, x)) /\ (Looks(v, x) => Looks(w, x))
  BY <1>1 DEF Held, Looks
<1>9. CASE c = "creating" /\ Creating(v, x)
  BY <1>1, <1>2, <1>3, <1>7, <1>8, <1>9, EndedTold DEF Served, Creating
<1>10. CASE c = "updating" /\ Updating(v, x)
  BY <1>2, <1>3, <1>5, <1>6, <1>8, <1>10, EndedTold DEF Served, Updating
<1>11. CASE c = "deleting" /\ Deleting(v, x)
  <2>1. Marked(v, x) => Marked(w, x)
    BY <1>8, EndedTold DEF Marked
  <2> QED BY <1>1, <1>4, <1>7, <1>8, <1>11, <2>1, EndedTold DEF Served, Deleting
<1>12. ASSUME Looks(v, x), Deploying(v) \/ Doomed(v)
       PROVE  v.tasks[x.task].status \notin {"done", "error"}
  BY <1>1, <1>12, OverNoneBusy DEF Looks, Deploying, Doomed, Deploys
<1>13. CASE c \in {"create polling", "update polling"} /\ DeployPoll(v, x)
  BY Zenon, <1>1, <1>3, <1>6, <1>8, <1>12, <1>13 DEF Served, DeployPoll
<1>14. CASE c = "delete polling" /\ DeletePoll(v, x)
  BY Zenon, <1>4, <1>7, <1>8, <1>12, <1>14 DEF Served, DeletePoll
<1>15. CASE c = "available" /\ Binding(v, x)
  BY <1>1, <1>6, <1>15 DEF Served, Binding
<1> QED BY Zenon, <1>9, <1>10, <1>11, <1>13, <1>14, <1>15 DEF Served

\* An answer leaves the instance in the story its operation ends with.
LEMMA AnswerTold ==
  ASSUME NEW v, NEW c, NEW x, Served(v, c, x), x.pc = "replied"
  PROVE  AtRest(v, After(c, x.resp))
<1>1. CASE c = "creating" /\ Creating(v, x)
  BY <1>1 DEF Creating, Ends, Says, After, AtRest
<1>2. CASE c = "updating" /\ Updating(v, x)
  BY <1>2 DEF Updating, Ends, Says, After, AtRest
<1>3. CASE c = "deleting" /\ Deleting(v, x)
  BY <1>3 DEF Deleting, Marked, Ends, Says, After, AtRest
<1>4. CASE c \in {"create polling", "update polling"} /\ DeployPoll(v, x)
  BY Zenon, <1>4 DEF DeployPoll, Ends, Says, After, AtRest
<1>5. CASE c = "delete polling" /\ DeletePoll(v, x)
  BY Zenon, <1>5 DEF DeletePoll, Ends, After, AtRest
<1>6. CASE c = "available" /\ Binding(v, x)
  BY <1>6 DEF Binding, Says, After, AtRest
<1> QED BY Zenon, <1>1, <1>2, <1>3, <1>4, <1>5, <1>6 DEF Served

-----------------------------------------------------------------------------
(* Views and the steps of the broker.                                      *)

\* A view changes only with the entry, the object, the deployment, the tasks
\* and the client of its instance.
LEMMA ViewSame ==
  ASSUME NEW j \in ID, cur'[j] = cur[j], heap'[j] = heap[j], deployed'[j] = deployed[j],
         TasksOf(j)' = TasksOf(j), uaa' \cap {j} = uaa \cap {j}
  PROVE  ViewOf(j)' = ViewOf(j)
BY DEF ViewOf, Record, Exists, Inst

\* The director did nothing.
LEMMA TasksSame == ASSUME NEW j \in ID, UNCHANGED tasks PROVE TasksOf(j)' = TasksOf(j)
BY DEF TasksOf

\* A new task is a task of the instance it is for, and of no other.
LEMMA IssueViews ==
  ASSUME TypeInv, NoTasksAhead, NEW i \in ID, NEW kind, NEW man, Issue(kind, i, man),
         UNCHANGED <<cur, heap, uaa>>
  PROVE  /\ \A j \in ID \ {i} : ViewOf(j)' = ViewOf(j)
         /\ Issued(ViewOf(i), ViewOf(i)', last + 1, kind, man)
         /\ NoTasksAhead'
<1> DEFINE n == last + 1
           job == [kind |-> kind, id |-> i, man |-> man, status |-> "processing"]
<1>1. /\ last \in Nat /\ n \in TaskId /\ last' = n /\ n > last
      /\ tasks \in [TaskId -> TaskRecord] /\ TaskId \subseteq Nat
  BY BoundFacts DEF TypeInv, DirectorOK, Issue, TaskId
<1>2. tasks' = [tasks EXCEPT ![n] = job] /\ UNCHANGED deployed
  BY DEF Issue
<1>3. tasks[n].id = "none" /\ \A t \in TaskId : tasks[t].id # "none" => t < n
  BY <1>1 DEF NoTasksAhead
<1> HIDE DEF n
<1>4. /\ tasks'[n].id = i /\ tasks'[n].kind = kind /\ tasks'[n].man = man
      /\ tasks'[n].status = "processing"
      /\ \A t \in TaskId : t # n => tasks'[t] = tasks[t]
  BY <1>1, <1>2
<1>5. ASSUME NEW j \in ID \ {i} PROVE ViewOf(j)' = ViewOf(j)
  <2>1. {u \in TaskId : tasks'[u].id = j} = {u \in TaskId : tasks[u].id = j}
    BY <1>3, <1>4, NoneAssumption
  <2>2. \A u \in {v \in TaskId : tasks[v].id = j} : tasks'[u] = tasks[u]
    BY <1>3, <1>4, NoneAssumption
  <2>3. TasksOf(j)' = TasksOf(j)
    BY <2>1, <2>2 DEF TasksOf
  <2> QED BY <1>2, <2>3, ViewSame
<1>6. Issued(ViewOf(i), ViewOf(i)', n, kind, man)
  <2>1. {u \in TaskId : tasks'[u].id = i} = {u \in TaskId : tasks[u].id = i} \cup {n}
    BY <1>1, <1>3, <1>4
  <2>2. \A u \in {v \in TaskId : tasks[v].id = i} : u < n /\ tasks'[u] = tasks[u]
    BY <1>1, <1>3, <1>4, NoneAssumption
  <2>3. /\ DOMAIN (TasksOf(i)') = DOMAIN TasksOf(i) \cup {n}
        /\ \A u \in DOMAIN TasksOf(i) : u < n /\ TasksOf(i)'[u] = TasksOf(i)[u]
        /\ TasksOf(i)'[n] = tasks'[n]
    BY <2>1, <2>2 DEF TasksOf
  <2>4. Record(i)' = Record(i)
    BY DEF Record, Exists, Inst
  <2> HIDE DEF job
  <2> QED BY <1>1, <1>2, <1>4, <2>3, <2>4 DEF Issued, ViewOf
<1>7. NoTasksAhead'
  BY <1>1, <1>3, <1>4 DEF NoTasksAhead
<1> QED BY <1>5, <1>6, <1>7 DEF n

\* A step for another instance leaves the story of j as it was.
LEMMA Elsewhere ==
  ASSUME StoryInv, NEW r \in Req, NEW j \in ID, waiting[j] # r,
         \A q \in Req \ {r} : h'[q] = h[q], waiting[j] \in Req \cup {"none"},
         ViewOf(j)' = ViewOf(j), cf'[j] = cf[j], waiting'[j] = waiting[j]
  PROVE  Ordered(ViewOf(j)') /\ Story(j)'
<1>1. Ordered(ViewOf(j)) /\ Story(j)
  BY DEF StoryInv
<1> QED BY <1>1 DEF Story

\* The step of a handler that serves an instance.
LEMMA Stepped ==
  ASSUME TypeInv, StoryInv, waiting \in [ID -> Req \cup {"none"}],
         NEW r \in Req, NEW i \in ID, waiting[i] = r, UNCHANGED <<cfg, pvars>>,
         NEW y, h' = [h EXCEPT ![r] = y],
         y.id = i, y.op = h[r].op, y.pc # "uaa",
         \A j \in ID \ {i} : ViewOf(j)' = ViewOf(j),
         NoTasksAhead', UNCHANGED uaa \/ cfg.sso,
         Ordered(ViewOf(i)'), Served(ViewOf(i)', cf[i], y)
  PROVE  StoryInv'
<1>1. h \in [Req -> GoodHandler] /\ h'[r] = y /\ \A q \in Req \ {r} : h'[q] = h[q]
  BY DEF TypeInv
<1>2. waiting' = waiting /\ cf' = cf /\ cfg' = cfg
  BY DEF pvars
<1>3. h[r].id = i /\ \A j \in ID \ {i} : waiting[j] # r
  BY DEF StoryInv, Serial
<1>4. Serial'
  <2>1. h[r].op \in OsbOps
    BY <1>3, NoneAssumption DEF StoryInv, Serial, Idle
  <2> QED BY <1>1, <1>2, <1>3, <2>1 DEF StoryInv, Serial
<1>5. SsoOnly'
  BY <1>1, <1>2 DEF StoryInv, SsoOnly
<1>6. \A j \in ID \ {i} : Ordered(ViewOf(j)') /\ Story(j)'
  BY <1>1, <1>2, <1>3, Elsewhere
<1>7. Story(i)'
  BY <1>1, <1>2, NoneAssumption DEF Story
<1> QED BY <1>4, <1>5, <1>6, <1>7 DEF StoryInv

\* A request that arrives and the first stretch of its handler.
LEMMA Sent ==
  ASSUME TypeInv, StoryInv, waiting \in [ID -> Req \cup {"none"}], cf \in [ID -> CfStates],
         NEW r \in Req, NEW i \in ID, h[r] = Idle, waiting[i] = "none",
         NEW c, Send(r, i, c), UNCHANGED <<cfg, directorVars, uaa>>,
         NEW y, h' = [h EXCEPT ![r] = y],
         y.id = i, y.op \in OsbOps,
         y.pc = "uaa" => cfg.sso,
         \A j \in ID \ {i} : cur'[j] = cur[j] /\ heap'[j] = heap[j],
         Served(ViewOf(i)', c, y)
  PROVE  StoryInv'
<1>1. h \in [Req -> GoodHandler] /\ h'[r] = y /\ \A q \in Req \ {r} : h'[q] = h[q]
  BY DEF TypeInv
<1>2. /\ waiting'[i] = r /\ cf'[i] = c
      /\ \A j \in ID \ {i} : waiting'[j] = waiting[j] /\ cf'[j] = cf[j]
  BY DEF Send
<1>3. h[r].id = "none" /\ \A j \in ID : waiting[j] # r
  BY NoneAssumption DEF StoryInv, Serial, Idle
<1>4. Serial'
  BY SMTT(60), <1>1, <1>2, <1>3, NoneAssumption DEF StoryInv, Serial
<1>5. SsoOnly' /\ NoTasksAhead'
  BY <1>1 DEF StoryInv, SsoOnly, NoTasksAhead, directorVars
<1>6. \A j \in ID \ {i} : ViewOf(j)' = ViewOf(j)
  BY ViewSame, TasksSame DEF directorVars
<1>7. \A j \in ID \ {i} : Ordered(ViewOf(j)') /\ Story(j)'
  BY <1>1, <1>2, <1>3, <1>6, Elsewhere
<1>8. Ordered(ViewOf(i)')
  <2>1. ViewOf(i)'.tasks = ViewOf(i).tasks /\ ViewOf(i)'.dep = ViewOf(i).dep
    BY TasksSame DEF ViewOf, directorVars
  <2> QED BY <2>1 DEF StoryInv, Ordered, IsLast, Busy
<1>9. Story(i)'
  BY <1>1, <1>2, NoneAssumption DEF Story
<1> QED BY <1>4, <1>5, <1>7, <1>8, <1>9 DEF StoryInv

-----------------------------------------------------------------------------
(* Requests of the platform.                                               *)

\* The parts of a view.
LEMMA ViewParts ==
  ASSUME NEW i \in ID
  PROVE  LET v == ViewOf(i)
         IN /\ v.gen = cur[i] /\ v.inst = Record(i) /\ v.dep = deployed[i]
            /\ v.tasks = TasksOf(i) /\ v.client = uaa \cap {i}
            /\ v.gen # 0 => v.inst = Inst(i)
            /\ v.gen # 0 <=> Exists(i)
BY DEF ViewOf, Record, Exists

\* The same after a step.
LEMMA ViewParts2 ==
  ASSUME NEW i \in ID
  PROVE  LET v == ViewOf(i)'
         IN /\ v.gen = cur'[i] /\ v.inst = Record(i)' /\ v.dep = deployed'[i]
            /\ v.tasks = TasksOf(i)' /\ v.client = uaa' \cap {i}
            /\ v.gen # 0 => v.inst = heap'[i][cur'[i]]
BY DEF ViewOf, Record, Exists, Inst

\* A step that leaves the director alone.
LEMMA DirectorSide ==
  ASSUME NEW i \in ID, UNCHANGED directorVars
  PROVE  ViewOf(i)'.dep = ViewOf(i).dep /\ ViewOf(i)'.tasks = ViewOf(i).tasks
         /\ (KnownIn(ViewOf(i)') <=> KnownIn(ViewOf(i)))
         /\ (\A t, k : Ours(ViewOf(i)', t, k) <=> Ours(ViewOf(i), t, k))
         /\ (Standing(ViewOf(i)') <=> Standing(ViewOf(i)))
<1>1. ViewOf(i)'.dep = ViewOf(i).dep /\ ViewOf(i)'.tasks = ViewOf(i).tasks
  BY TasksSame, ViewParts, ViewParts2 DEF directorVars
<1> QED BY <1>1 DEF KnownIn, Busy, Ours, IsLast, Standing

\* A handler that answers at once changes nothing but its own state.
LEMMA AnswerSent ==
  ASSUME TypeInv, StoryInv, PlatformOK, NEW r \in Req, NEW i \in ID,
         h[r] = Idle, waiting[i] = "none", NEW c, Send(r, i, c),
         UNCHANGED <<brokerVars, directorVars, uaa>>,
         NEW op \in OsbOps, NEW resp, Answer(r, op, i, resp),
         \A y : y.op = op /\ y.pc = "replied" /\ y.resp = resp => Served(ViewOf(i), c, y)
  PROVE  StoryInv'
<1> DEFINE y == [Idle EXCEPT !.op = op, !.id = i, !.pc = "replied", !.resp = resp]
<1>1. y.op = op /\ y.id = i /\ y.pc = "replied" /\ y.resp = resp
  BY DEF Idle
<1>2. h' = [h EXCEPT ![r] = y]
  BY DEF Answer
<1>3. ViewOf(i)' = ViewOf(i)
  BY ViewSame, TasksSame DEF brokerVars, directorVars
<1>4. Served(ViewOf(i)', c, y)
  BY Zenon, <1>1, <1>3
<1> HIDE DEF y
<1> QED BY Zenon, <1>1, <1>2, <1>4, Sent DEF PlatformOK, brokerVars

\* Create requests.
LEMMA SendCreateTold ==
  ASSUME TypeInv, StoryInv, PlatformOK, NEW r \in Req, NEW i \in ID, SendCreate(r, i)
  PROVE  StoryInv'
<1> DEFINE v == ViewOf(i)
<1>1. waiting[i] = "none" /\ cf[i] = "absent" /\ Send(r, i, "creating")
  BY DEF SendCreate
<1>2. Gone(v)
  BY Zenon, <1>1 DEF StoryInv, Story, AtRest
<1>3. ~Exists(i)
  BY <1>2, ViewParts DEF Gone
<1>4. PICK org \in Org, plan \in Plans \cup {UnknownPlan} :
        \/ ProvisionReject(r, i, org, plan)
        \/ \E g \in Gen : ProvisionReserve(r, i, org, plan, g)
  BY DEF SendCreate
<1>5. CASE ProvisionReject(r, i, org, plan)
  <2>1. h[r] = Idle /\ UNCHANGED <<brokerVars, directorVars, uaa>>
    BY <1>5 DEF ProvisionReject, Begin
  <2>2. PICK resp \in {"rejected", "error"} : Answer(r, "provision", i, resp)
    BY <1>3, <1>5 DEF ProvisionReject
  <2>3. \A y : y.op = "provision" /\ y.pc = "replied" /\ y.resp = resp
               => Served(v, "creating", y)
    BY <1>2 DEF Served, Creating, Says, Undone, Gone
  <2> QED BY <1>1, <2>1, <2>2, <2>3, AnswerSent DEF OsbOps
<1>6. ASSUME NEW g \in Gen, ProvisionReserve(r, i, org, plan, g) PROVE StoryInv'
  <2> DEFINE y == [Idle EXCEPT !.op = "provision", !.id = i, !.gen = g,
                               !.pc = IF cfg.sso THEN "uaa" ELSE "call"]
             inst == [org |-> org, state |-> "provisioning", task |-> 0,
                      version |-> cfg.version, plan |-> plan, sso |-> FALSE]
             w == ViewOf(i)'
  <2>1. /\ y.op = "provision" /\ y.id = i /\ y.gen = g /\ y.pc \in {"uaa", "call"}
        /\ y.pc = "uaa" => cfg.sso
    BY DEF Idle
  <2>2. /\ h[r] = Idle /\ h' = [h EXCEPT ![r] = y]
        /\ heap' = [heap EXCEPT ![i][g] = inst] /\ cur' = [cur EXCEPT ![i] = g]
        /\ UNCHANGED <<cfg, directorVars, uaa>>
    BY <1>6 DEF ProvisionReserve, Begin
  <2>3. inst.state = "provisioning"
    OBVIOUS
  <2> HIDE DEF y, inst
  <2>4. /\ cur'[i] = g /\ heap'[i][g] = inst /\ g # 0
        /\ \A j \in ID \ {i} : cur'[j] = cur[j] /\ heap'[j] = heap[j]
    BY <2>2, BoundFacts DEF TypeInv, BrokerOK, Heap, Gen
  <2>5. w.gen = g /\ g # 0 /\ w.inst.state = "provisioning"
    BY <2>3, <2>4, ViewParts2
  <2>6. ~KnownIn(w)
    BY <1>2, <2>2, DirectorSide DEF Gone
  <2>7. Served(w, "creating", y)
    BY <2>1, <2>5, <2>6 DEF Served, Creating, Held, In
  <2> QED BY Zenon, <1>1, <2>1, <2>2, <2>4, <2>7, Sent DEF PlatformOK, OsbOps
<1> QED BY <1>4, <1>5, <1>6

\* What buildManifestParams takes from the record it leaves as it is.
LEMMA ParamsOf == \A x : FromRecord(buildManifestParams(x)) = FromRecord(x)
BY DEF FromRecord, buildManifestParams

\* Update requests.
LEMMA SendUpdateTold ==
  ASSUME TypeInv, StoryInv, PlatformOK, NEW r \in Req, NEW i \in ID, SendUpdate(r, i)
  PROVE  StoryInv'
<1> DEFINE v == ViewOf(i)
<1>1. waiting[i] = "none" /\ cf[i] = "available" /\ Send(r, i, "updating")
  BY DEF SendUpdate
<1>2. Settled(v)
  BY Zenon, <1>1 DEF StoryInv, Story, AtRest
<1>3. /\ Exists(i) /\ cur[i] \in Gen /\ v.gen = cur[i] /\ v.gen # 0 /\ v.inst = Inst(i)
      /\ Inst(i) \in Instance /\ Inst(i).state \in Over
  BY <1>2, ViewParts, InstType DEF Settled, Lasting, In, TypeInv
<1>4. PICK plan \in Plans \cup {NoPlan, UnknownPlan} :
        UpdateReject(r, i, plan) \/ UpdateExisting(r, i, plan)
  BY <1>3 DEF SendUpdate, UpdateRecover
<1>5. CASE UpdateReject(r, i, plan)
  <2>1. /\ h[r] = Idle /\ UNCHANGED <<brokerVars, directorVars, uaa>>
        /\ Answer(r, "update", i, "rejected")
    BY <1>5 DEF UpdateReject, Begin
  <2>2. \A y : y.op = "update" /\ y.pc = "replied" /\ y.resp = "rejected"
               => Served(v, "updating", y)
    BY <1>2 DEF Served, Updating, Says
  <2> QED BY <1>1, <2>1, <2>2, AnswerSent DEF OsbOps
<1>6. CASE UpdateExisting(r, i, plan)
  <2> DEFINE inst == [Inst(i) EXCEPT !.plan = IF plan = NoPlan THEN @ ELSE plan]
             y == [Idle EXCEPT !.op = "update", !.pc = "call", !.id = i, !.gen = cur[i],
                               !.man = buildManifestParams(inst)]
             w == ViewOf(i)'
  <2>1. /\ y.op = "update" /\ y.id = i /\ y.gen = cur[i] /\ y.pc = "call"
        /\ y.man = buildManifestParams(inst)
    BY DEF Idle
  <2>2. /\ h[r] = Idle /\ h' = [h EXCEPT ![r] = y]
        /\ heap' = [heap EXCEPT ![i][cur[i]] = inst]
        /\ UNCHANGED <<cfg, cur, directorVars, uaa>>
    BY <1>6 DEF UpdateExisting, Begin
  <2>3. inst.state = Inst(i).state /\ FromRecord(y.man) = FromRecord(inst)
    <3>1. inst.state = Inst(i).state
      BY <1>3 DEF Instance
    <3> HIDE DEF y, inst
    <3> QED BY <2>1, <3>1, ParamsOf
  <2> HIDE DEF y, inst
  <2>4. heap'[i][cur[i]] = inst /\ \A j \in ID \ {i} : cur'[j] = cur[j] /\ heap'[j] = heap[j]
    BY <1>3, <2>2 DEF TypeInv, BrokerOK, Heap
  <2>5. w.gen = cur[i] /\ cur[i] # 0 /\ w.inst = inst
    BY <1>3, <2>2, <2>4, ViewParts2
  <2>6. NoRefund => Standing(w)
    BY <1>2, <2>2, DirectorSide DEF Settled, Lasting
  <2>7. Served(w, "updating", y)
    BY Zenon, <1>3, <2>1, <2>3, <2>5, <2>6 DEF Served, Updating, Held, Lasting,
       In, Params
  <2> QED BY Zenon, <1>1, <2>1, <2>2, <2>4, <2>7, Sent DEF PlatformOK, OsbOps
<1> QED BY <1>4, <1>5, <1>6

\* Where there is no OAuth client the mark is followed by the director call.
LEMMA AfterMarkTold ==
  ASSUME StoryInv, NEW i \in ID
  PROVE  /\ AfterMark \in {"uaa", "call"} /\ (AfterMark = "uaa" => cfg.sso)
         /\ AfterMark = "call" => uaa \cap {i} = {}
BY DEF AfterMark, StoryInv, SsoOnly

\* Delete requests.
LEMMA SendDeleteTold ==
  ASSUME Calm, TypeInv, StoryInv, PlatformOK, NEW r \in Req, NEW i \in ID,
         SendDelete(r, i)
  PROVE  StoryInv'
<1> DEFINE v == ViewOf(i)
           w == ViewOf(i)'
<1>1. /\ waiting[i] = "none" /\ Send(r, i, "deleting")
      /\ cf[i] \in {"available", "create failed", "delete failed", "mitigating"}
  BY Zenon DEF SendDelete, Deletable, Calm
<1>2. \/ Settled(v) \/ Spared(v) \/ Doomed(v) \/ Undone(v)
  BY Zenon, <1>1 DEF StoryInv, Story, AtRest
<1>3. ASSUME Exists(i)
      PROVE  /\ cur[i] \in Gen /\ v.gen = cur[i] /\ v.gen # 0 /\ v.inst = Inst(i)
             /\ Inst(i) \in Instance
  BY <1>3, ViewParts, InstType DEF TypeInv, Exists
<1>4. CASE DeprovisionAgain(r, i)
  <2>1. /\ h[r] = Idle /\ UNCHANGED <<brokerVars, directorVars, uaa>>
        /\ Answer(r, "deprovision", i, "accepted")
        /\ Exists(i) /\ Inst(i).state = "deprovisioning"
    BY <1>4 DEF DeprovisionAgain, Begin
  <2>2. Doomed(v)
    BY <1>2, <1>3, <2>1 DEF Settled, Lasting, Spared, Undone, In, Over
  <2>3. \A y : y.op = "deprovision" /\ y.pc = "replied" /\ y.resp = "accepted"
               => Served(v, "deleting", y)
    BY <2>2 DEF Served, Deleting, Ends
  <2> QED BY Zenon, <1>1, <2>1, <2>3, AnswerSent DEF OsbOps
<1>5. CASE DeprovisionMark(r, i)
  <2> DEFINE inst == [Inst(i) EXCEPT !.state = "deprovisioning"]
             y == [Idle EXCEPT !.op = "deprovision", !.id = i, !.gen = cur[i],
                               !.was = Inst(i).state, !.pc = AfterMark]
  <2>1. /\ y.op = "deprovision" /\ y.id = i /\ y.gen = cur[i] /\ y.pc = AfterMark
        /\ y.was = Inst(i).state
    BY DEF Idle
  <2>2. /\ h[r] = Idle /\ h' = [h EXCEPT ![r] = y]
        /\ heap' = [heap EXCEPT ![i][cur[i]] = inst]
        /\ UNCHANGED <<cfg, cur, directorVars, uaa>>
        /\ Exists(i) /\ Inst(i).state # "deprovisioning"
    BY <1>5 DEF DeprovisionMark, Begin, Inst
  <2>3. inst.state = "deprovisioning"
    BY <1>3, <2>2 DEF Instance
  <2> HIDE DEF y, inst
  <2>4. heap'[i][cur[i]] = inst /\ \A j \in ID \ {i} : cur'[j] = cur[j] /\ heap'[j] = heap[j]
    BY <1>3, <2>2 DEF TypeInv, BrokerOK, Heap
  <2>5. w.gen = cur[i] /\ cur[i] # 0 /\ w.inst = inst /\ w.client = uaa \cap {i}
    BY <1>3, <2>2, <2>4, ViewParts2
  <2>6. Inst(i).state \in Over /\ (NoRefund => Standing(v))
    BY <1>2, <1>3, <2>2 DEF Settled, Lasting, Spared, Doomed, Undone, In
  <2>7. NoRefund => Standing(w)
    BY <2>2, <2>6, DirectorSide
  <2>8. Marked(w, y) /\ y.pc # "undo"
    BY <2>1, <2>3, <2>5, AfterMarkTold DEF Marked, Held, In, Unregistered
  <2>9. Served(w, "deleting", y)
    BY Zenon, <2>1, <2>6, <2>7, <2>8 DEF Served, Deleting
  <2>10. y.pc = "uaa" => cfg.sso
    BY <2>1, AfterMarkTold
  <2> QED BY Zenon, <1>1, <2>1, <2>2, <2>4, <2>9, <2>10, Sent DEF PlatformOK,
             OsbOps
<1>6. ASSUME NEW g \in Gen, DeprovisionOrphan(r, i, g) PROVE StoryInv'
  <2> DEFINE inst == [NoInstance EXCEPT !.state = "deprovisioning"]
             y == [Idle EXCEPT !.op = "orphan", !.id = i, !.gen = g, !.pc = AfterMark]
  <2>1. y.op = "orphan" /\ y.id = i /\ y.gen = g /\ y.pc = AfterMark
    BY DEF Idle
  <2>2. /\ h[r] = Idle /\ h' = [h EXCEPT ![r] = y] /\ ~Exists(i)
        /\ heap' = [heap EXCEPT ![i][g] = inst] /\ cur' = [cur EXCEPT ![i] = g]
        /\ UNCHANGED <<cfg, directorVars, uaa>>
    BY <1>6 DEF DeprovisionOrphan, Begin
  <2>3. inst.state = "deprovisioning"
    BY DEF NoInstance
  <2> HIDE DEF y, inst
  <2>4. /\ cur'[i] = g /\ heap'[i][g] = inst /\ g # 0
        /\ \A j \in ID \ {i} : cur'[j] = cur[j] /\ heap'[j] = heap[j]
    BY <2>2, BoundFacts DEF TypeInv, BrokerOK, Heap, Gen
  <2>5. w.gen = g /\ g # 0 /\ w.inst = inst /\ w.client = uaa \cap {i}
    BY <2>2, <2>4, ViewParts2
  <2>6. Undone(v)
    BY <1>2, <2>2, ViewParts DEF Settled, Lasting, Spared, Doomed, In
  <2>7. NoneLost => ~KnownIn(w)
    BY <2>2, <2>6, DirectorSide DEF Undone
  <2>8. Marked(w, y) /\ y.pc # "undo"
    BY <2>1, <2>3, <2>5, AfterMarkTold DEF Marked, Held, In, Unregistered
  <2>9. Served(w, "deleting", y)
    BY <2>1, <2>7, <2>8 DEF Served, Deleting
  <2>10. y.pc = "uaa" => cfg.sso
    BY <2>1, AfterMarkTold
  <2> QED BY Zenon, <1>1, <2>1, <2>2, <2>4, <2>9, <2>10, Sent DEF PlatformOK,
             OsbOps
<1> QED BY <1>4, <1>5, <1>6 DEF SendDelete

\* An operation being polled has a task: last_operation asks the director.
LEMMA SendPollTold ==
  ASSUME TypeInv, StoryInv, PlatformOK, NEW r \in Req, NEW i \in ID, SendPoll(r, i)
  PROVE  StoryInv'
<1> DEFINE v == ViewOf(i)
           c == cf[i]
           y == [Idle EXCEPT !.op = "lastop", !.pc = "poll", !.id = i, !.gen = cur[i],
                             !.task = Inst(i).task, !.was = Inst(i).state]
<1>1. /\ waiting[i] = "none" /\ Send(r, i, c)
      /\ c \in {"create polling", "update polling", "delete polling"}
  BY Zenon DEF SendPoll
<1>2. \/ c \in {"create polling", "update polling"} /\ Deploying(v)
      \/ c = "delete polling" /\ Doomed(v)
  BY Zenon, <1>1 DEF StoryInv, Story, AtRest
<1>3. /\ Exists(i) /\ v.gen = cur[i] /\ v.gen # 0 /\ v.inst = Inst(i)
      /\ Inst(i).state \in {"provisioning", "deprovisioning"}
      /\ Inst(i).task \in DOMAIN v.tasks
  BY Zenon, <1>2, ViewParts DEF Deploying, Doomed, In, Deploys, Ours, IsLast
<1>4. Inst(i).task # 0
  BY <1>3, BoundFacts DEF StoryInv, Ordered, TaskId
<1>5. LastOpRead(r, i)
  BY Zenon, <1>3, <1>4 DEF SendPoll, LastOpAnswer
<1>6. /\ h[r] = Idle /\ h' = [h EXCEPT ![r] = y]
      /\ UNCHANGED <<cfg, cur, heap, directorVars, uaa>>
  BY <1>5 DEF LastOpRead, Begin, brokerVars
<1>7. /\ y.op = "lastop" /\ y.id = i /\ y.pc = "poll" /\ y.gen = cur[i]
      /\ y.task = Inst(i).task /\ y.was = Inst(i).state
  BY DEF Idle
<1> HIDE DEF y
<1>8. ViewOf(i)' = v
  BY <1>6, ViewSame, TasksSame DEF directorVars
<1>9. Served(v, c, y)
  BY Zenon, <1>2, <1>3, <1>7 DEF Served, DeployPoll, DeletePoll, Looks, Held
<1> QED BY Zenon, <1>1, <1>6, <1>7, <1>8, <1>9, Sent DEF PlatformOK, OsbOps

\* Bind requests.
LEMMA SendBindTold ==
  ASSUME TypeInv, StoryInv, PlatformOK, NEW r \in Req, NEW i \in ID, SendBind(r, i)
  PROVE  StoryInv'
<1> DEFINE v == ViewOf(i)
<1>1. /\ waiting[i] = "none" /\ Send(r, i, "available") /\ cf[i] = "available"
      /\ Bind(r, i)
  BY DEF SendBind
<1>2. Settled(v)
  BY Zenon, <1>1 DEF StoryInv, Story, AtRest
<1>3. Exists(i) /\ v.inst = Inst(i)
  BY <1>2, ViewParts DEF Settled, Lasting, In
<1>4. h[r] = Idle /\ UNCHANGED <<brokerVars, directorVars, uaa>>
  BY <1>1 DEF Bind, Begin
<1>5. PICK resp : /\ Answer(r, "bind", i, resp)
                  /\ \/ resp = "rejected"
                     \/ resp = "bound" /\ Inst(i).state = "ready"
  BY <1>1, <1>3 DEF Bind, Bindable
<1>6. \A y : y.op = "bind" /\ y.pc = "replied" /\ y.resp = resp
             => Served(v, "available", y)
  BY <1>2, <1>3, <1>5 DEF Served, Binding, Says
<1> QED BY Zenon, <1>1, <1>4, <1>5, <1>6, AnswerSent DEF OsbOps

-----------------------------------------------------------------------------
(* The later stretches of the handlers.                                    *)

\* The operation a handler runs says which story its instance is in.
LEMMA ByOp ==
  ASSUME NEW v, NEW c, NEW x, Served(v, c, x)
  PROVE  /\ x.op = "provision" => c = "creating" /\ Creating(v, x)
         /\ x.op = "update" => c = "updating" /\ Updating(v, x)
         /\ x.op \in {"deprovision", "orphan"} => c = "deleting" /\ Deleting(v, x)
         /\ x.op = "lastop" =>
              \/ c \in {"create polling", "update polling"} /\ DeployPoll(v, x)
              \/ c = "delete polling" /\ DeletePoll(v, x)
         /\ x.op = "bind" => c = "available" /\ Binding(v, x)
BY Zenon DEF Served, Creating, Updating, Deleting, DeployPoll, DeletePoll,
   Binding

\* A handler at work serves the instance it names.
LEMMA Serving ==
  ASSUME TypeInv, StoryInv, NEW r \in Req, NEW i \in ID, h[r].id = i
  PROVE  /\ waiting[i] = r /\ Served(ViewOf(i), cf[i], h[r]) /\ Ordered(ViewOf(i))
         /\ h[r] \in Handler
<1>1. waiting[i] = r /\ h[r] \in Handler
  BY Zenon DEF StoryInv, Serial, TypeInv, GoodHandler
<1> QED BY Zenon, <1>1, NoneAssumption DEF StoryInv, Story

\* The story of the operation it runs.
LEMMA OpStory ==
  ASSUME TypeInv, StoryInv, NEW r \in Req, NEW i \in ID, h[r].id = i
  PROVE  /\ h[r].op = "provision" => cf[i] = "creating" /\ Creating(ViewOf(i), h[r])
         /\ h[r].op = "update" => cf[i] = "updating" /\ Updating(ViewOf(i), h[r])
         /\ h[r].op \in {"deprovision", "orphan"} =>
              cf[i] = "deleting" /\ Deleting(ViewOf(i), h[r])
         /\ h[r].op = "lastop" =>
              \/ /\ cf[i] \in {"create polling", "update polling"}
                 /\ DeployPoll(ViewOf(i), h[r])
              \/ cf[i] = "delete polling" /\ DeletePoll(ViewOf(i), h[r])
         /\ h[r].op = "bind" => cf[i] = "available" /\ Binding(ViewOf(i), h[r])
<1>1. Served(ViewOf(i), cf[i], h[r])
  BY Serving
<1> QED BY Zenon, <1>1, ByOp

\* A write to the object of a live entry.
LEMMA Written ==
  ASSUME TypeInv, NEW i \in ID, cur[i] # 0, UNCHANGED <<cur, directorVars>>, NEW inst,
         heap' = [heap EXCEPT ![i][cur[i]] = inst]
  PROVE  /\ ViewOf(i)'.gen = ViewOf(i).gen /\ ViewOf(i)'.inst = inst
         /\ UNCHANGED uaa => /\ ViewOf(i)'.client = ViewOf(i).client
                             /\ \A j \in ID \ {i} : ViewOf(j)' = ViewOf(j)
<1>1. cur[i] \in Gen
  BY InstType DEF TypeInv
<1>2. heap'[i][cur[i]] = inst /\ \A j \in ID \ {i} : heap'[j] = heap[j]
  BY <1>1 DEF TypeInv, BrokerOK, Heap
<1>3. UNCHANGED uaa => \A j \in ID \ {i} : ViewOf(j)' = ViewOf(j)
  BY <1>2, ViewSame, TasksSame DEF directorVars
<1>4. ViewOf(i)'.gen = ViewOf(i).gen /\ ViewOf(i)'.inst = inst
  BY <1>2, ViewParts, ViewParts2
<1>5. UNCHANGED uaa => ViewOf(i)'.client = ViewOf(i).client
  BY ZenonT(60), ViewParts, ViewParts2
<1> QED BY <1>3, <1>4, <1>5

\* An entry that is removed.
LEMMA Removed ==
  ASSUME TypeInv, NEW i \in ID, UNCHANGED <<heap, uaa, directorVars>>,
         cur' = [cur EXCEPT ![i] = 0]
  PROVE  /\ ViewOf(i)'.gen = 0 /\ ViewOf(i)'.client = ViewOf(i).client
         /\ \A j \in ID \ {i} : ViewOf(j)' = ViewOf(j)
<1>1. cur'[i] = 0 /\ \A j \in ID \ {i} : cur'[j] = cur[j]
  BY DEF TypeInv, BrokerOK
<1>2. \A j \in ID \ {i} : ViewOf(j)' = ViewOf(j)
  BY <1>1, ViewSame, TasksSame DEF directorVars
<1> QED BY Zenon, <1>1, <1>2, ViewParts, ViewParts2

\* The director's part of a view in order stays in order.
LEMMA OrderedSame ==
  ASSUME NEW v, NEW w, Ordered(v), w.tasks = v.tasks, w.dep = v.dep PROVE Ordered(w)
BY DEF Ordered, IsLast, Busy

\* No task is issued.
LEMMA NoTaskIssued ==
  ASSUME NoTasksAhead, UNCHANGED directorVars PROVE NoTasksAhead'
BY DEF NoTasksAhead, directorVars

\* A stretch that changes only the handler.
LEMMA StepSilent ==
  ASSUME TypeInv, StoryInv, PlatformOK, NEW r \in Req, NEW i \in ID, h[r].id = i,
         UNCHANGED <<cfg, cur, heap, directorVars, uaa, pvars>>,
         NEW y, h' = [h EXCEPT ![r] = y],
         y.id = i, y.op = h[r].op, y.pc # "uaa", Served(ViewOf(i), cf[i], y)
  PROVE  StoryInv'
<1>1. \A j \in ID : ViewOf(j)' = ViewOf(j)
  BY ViewSame, TasksSame DEF directorVars
<1>2. waiting[i] = r /\ Ordered(ViewOf(i)) /\ NoTasksAhead'
  BY Serving, NoTaskIssued DEF StoryInv
<1> QED BY Zenon, <1>1, <1>2, Stepped DEF PlatformOK

\* A stretch in which the director accepts a task.
LEMMA StepIssues ==
  ASSUME TypeInv, StoryInv, PlatformOK, NEW r \in Req, NEW i \in ID, h[r].id = i,
         UNCHANGED <<cfg, cur, heap, uaa, pvars>>, NEW kind, NEW man, Issue(kind, i, man),
         NEW y, h' = [h EXCEPT ![r] = y],
         y.id = i, y.op = h[r].op, y.pc # "uaa",
         \A w : /\ Issued(ViewOf(i), w, last + 1, kind, man)
                /\ Ours(w, last + 1, kind)
                => Served(w, cf[i], y)
  PROVE  StoryInv'
<1>1. /\ Issued(ViewOf(i), ViewOf(i)', last + 1, kind, man) /\ NoTasksAhead'
      /\ \A j \in ID \ {i} : ViewOf(j)' = ViewOf(j)
  BY Zenon, IssueViews DEF StoryInv
<1>2. waiting[i] = r /\ Ordered(ViewOf(i))
  BY Zenon, Serving
<1>3. Ordered(ViewOf(i)') /\ Ours(ViewOf(i)', last + 1, kind)
  BY Zenon, <1>1, <1>2, OrderedIssued
<1>4. Served(ViewOf(i)', cf[i], y)
  BY Zenon, <1>1, <1>3
<1> QED BY Zenon, <1>1, <1>2, <1>3, <1>4, Stepped DEF PlatformOK

\* A stretch that writes to the object of the instance.
LEMMA StepWrites ==
  ASSUME TypeInv, StoryInv, PlatformOK, NEW r \in Req, NEW i \in ID, h[r].id = i,
         UNCHANGED <<cfg, cur, directorVars, uaa, pvars>>,
         cur[i] # 0, NEW inst, heap' = [heap EXCEPT ![i][cur[i]] = inst],
         NEW y, h' = [h EXCEPT ![r] = y],
         y.id = i, y.op = h[r].op, y.pc # "uaa",
         \A w : /\ w.gen = cur[i] /\ w.inst = inst /\ w.client = uaa \cap {i}
                /\ w.dep = ViewOf(i).dep /\ w.tasks = ViewOf(i).tasks
                => Served(w, cf[i], y)
  PROVE  StoryInv'
<1>1. /\ ViewOf(i)'.gen = cur[i] /\ ViewOf(i)'.inst = inst
      /\ ViewOf(i)'.client = uaa \cap {i}
      /\ \A j \in ID \ {i} : ViewOf(j)' = ViewOf(j)
  BY Zenon, Written, ViewParts
<1>2. ViewOf(i)'.dep = ViewOf(i).dep /\ ViewOf(i)'.tasks = ViewOf(i).tasks
  BY DirectorSide
<1>3. waiting[i] = r /\ Ordered(ViewOf(i)') /\ NoTasksAhead'
  BY <1>2, Serving, OrderedSame, NoTaskIssued DEF StoryInv
<1>4. Served(ViewOf(i)', cf[i], y)
  BY <1>1, <1>2
<1> QED BY Zenon, <1>1, <1>3, <1>4, Stepped DEF PlatformOK

\* A stretch that removes the entry of the instance.
LEMMA StepRemoves ==
  ASSUME TypeInv, StoryInv, PlatformOK, NEW r \in Req, NEW i \in ID, h[r].id = i,
         UNCHANGED <<cfg, heap, directorVars, uaa, pvars>>,
         cur' = [cur EXCEPT ![i] = 0],
         NEW y, h' = [h EXCEPT ![r] = y],
         y.id = i, y.op = h[r].op, y.pc # "uaa",
         \A w : /\ w.gen = 0 /\ w.client = uaa \cap {i}
                /\ w.dep = ViewOf(i).dep /\ w.tasks = ViewOf(i).tasks
                => Served(w, cf[i], y)
  PROVE  StoryInv'
<1>1. /\ ViewOf(i)'.gen = 0 /\ ViewOf(i)'.client = uaa \cap {i}
      /\ \A j \in ID \ {i} : ViewOf(j)' = ViewOf(j)
  BY Zenon, Removed, ViewParts
<1>2. ViewOf(i)'.dep = ViewOf(i).dep /\ ViewOf(i)'.tasks = ViewOf(i).tasks
  BY DirectorSide
<1>3. waiting[i] = r /\ Ordered(ViewOf(i)') /\ NoTasksAhead'
  BY <1>2, Serving, OrderedSame, NoTaskIssued DEF StoryInv
<1>4. Served(ViewOf(i)', cf[i], y)
  BY <1>1, <1>2
<1> QED BY Zenon, <1>1, <1>3, <1>4, Stepped DEF PlatformOK

\* What the director alone decides of a view.
LEMMA SameDirector ==
  ASSUME NEW v, NEW w, w.dep = v.dep, w.tasks = v.tasks
  PROVE  /\ KnownIn(w) <=> KnownIn(v)
         /\ Busy(w) = Busy(v)
         /\ Standing(w) <=> Standing(v)
         /\ \A t, k : Ours(w, t, k) <=> Ours(v, t, k)
BY DEF KnownIn, Busy, Standing, Ours, IsLast

\* ProvisionUaa.
LEMMA ProvisionUaaTold ==
  ASSUME TypeInv, StoryInv, PlatformOK, NEW r \in Req, NEW i \in ID,
         h[r].id = i, ProvisionUaa(r), UNCHANGED pvars
  PROVE  StoryInv'
<1> DEFINE v == ViewOf(i)
           w == ViewOf(i)'
           y == [h[r] EXCEPT !.pc = "call"]
<1>1. h[r].op = "provision" /\ h[r].pc = "uaa"
  BY DEF ProvisionUaa, Running
<1>2. waiting[i] = r /\ Served(v, cf[i], h[r]) /\ Ordered(v) /\ h[r] \in Handler
  BY Serving
<1>3. cf[i] = "creating" /\ Held(v, h[r]) /\ In(v, {"provisioning"}) /\ ~KnownIn(v)
  <2>1. cf[i] = "creating" /\ Creating(v, h[r])
    BY Zenon, <1>1, OpStory
  <2> QED BY Zenon, <1>1, <2>1 DEF Creating, Ends, Says
<1>4. h[r].gen = cur[i] /\ cur[i] # 0 /\ v.gen = cur[i] /\ v.inst = Inst(i)
      /\ Inst(i) \in Instance
  BY Zenon, <1>2, <1>3, ViewParts, InstType DEF Held, TypeInv
<1>5. y.id = i /\ y.op = h[r].op /\ y.pc = "call" /\ y.gen = h[r].gen
  BY <1>2 DEF Handler
<1>6. h' = [h EXCEPT ![r] = y] /\ UNCHANGED <<cfg, cur, directorVars>>
  BY DEF ProvisionUaa, Goto
<1>7. cfg.sso
  BY <1>1 DEF StoryInv, SsoOnly
<1>8. \A j \in ID \ {i} : uaa' \cap {j} = uaa \cap {j}
  BY DEF ProvisionUaa, CreateClient
<1>9. PICK inst : /\ inst.state = "provisioning"
                  /\ heap' = [heap EXCEPT ![i][cur[i]] = inst]
  <2>1. CASE heap' = [heap EXCEPT ![i][h[r].gen].sso = TRUE]
    <3> DEFINE inst == [Inst(i) EXCEPT !.sso = TRUE]
    <3>1. heap' = [heap EXCEPT ![i][cur[i]] = inst]
      BY <1>4, <2>1 DEF Inst
    <3>2. inst.state = "provisioning"
      BY <1>3, <1>4 DEF In, Instance
    <3> QED BY Zenon, <3>1, <3>2
  <2>2. CASE UNCHANGED heap
    <3>1. heap' = [heap EXCEPT ![i][cur[i]] = Inst(i)]
      BY <1>4, <2>2 DEF Inst, TypeInv, BrokerOK, Heap
    <3> QED BY Zenon, <1>3, <1>4, <3>1 DEF In
  <2> QED BY Zenon, <2>1, <2>2 DEF ProvisionUaa
<1> HIDE DEF y
<1>10. w.gen = v.gen /\ w.inst = inst
  BY Zenon, <1>2, <1>4, <1>6, <1>9, Written
<1>11. \A j \in ID \ {i} : ViewOf(j)' = ViewOf(j)
  <2>1. \A j \in ID \ {i} : heap'[j] = heap[j]
    BY <1>9 DEF TypeInv, BrokerOK, Heap
  <2> QED BY <1>6, <1>8, <2>1, ViewSame, TasksSame DEF directorVars
<1>12. w.tasks = v.tasks /\ w.dep = v.dep /\ ~KnownIn(w)
  BY Zenon, <1>2, <1>3, <1>6, DirectorSide
<1>13. Served(w, cf[i], y)
  BY <1>1, <1>3, <1>4, <1>5, <1>9, <1>10, <1>12 DEF Served, Creating, Held, In
<1> HIDE DEF v, w
<1>14. Ordered(w) /\ NoTasksAhead'
  BY <1>2, <1>6, <1>12, OrderedSame, NoTaskIssued DEF StoryInv
<1> QED BY Zenon, <1>2, <1>5, <1>6, <1>7, <1>11, <1>13, <1>14, Stepped
           DEF PlatformOK, w

\* ProvisionCall.
LEMMA ProvisionCallTold ==
  ASSUME TypeInv, StoryInv, PlatformOK, NEW r \in Req, NEW i \in ID,
         h[r].id = i, ProvisionCall(r), UNCHANGED pvars
  PROVE  StoryInv'
<1> DEFINE v == ViewOf(i)
           man == buildManifestParams(Mine(r))
<1>1. /\ h[r].op = "provision" /\ h[r].pc = "call"
      /\ UNCHANGED <<cfg, cur, heap, uaa, pvars>>
  BY DEF ProvisionCall, Running, brokerVars
<1>2. cf[i] = "creating" /\ Held(v, h[r]) /\ In(v, {"provisioning"}) /\ ~KnownIn(v)
  <2>1. cf[i] = "creating" /\ Creating(v, h[r])
    BY Zenon, <1>1, OpStory
  <2> QED BY Zenon, <1>1, <2>1 DEF Creating, Ends, Says
<1>3. FromRecord(man) = Params(v)
  <2>1. v.inst = Inst(i) /\ h[r].gen = cur[i]
    BY <1>2, ViewParts DEF Held
  <2>2. Mine(r) = v.inst
    BY <2>1 DEF Mine, Inst
  <2> QED BY <2>2, ParamsOf DEF Params
<1> HIDE DEF v, man
<1>4. CASE /\ Issue("deploy", i, man)
           /\ h' = [h EXCEPT ![r].pc = "record", ![r].task = last + 1]
  <2>1. PICK y : /\ h' = [h EXCEPT ![r] = y] /\ y.id = i /\ y.op = h[r].op
                 /\ y.pc = "record" /\ y.gen = h[r].gen /\ y.task = last + 1
    BY Zenon, <1>4, TakesTask
  <2>2. ASSUME NEW w, Issued(v, w, last + 1, "deploy", man), Ours(w, last + 1, "deploy")
        PROVE  Served(w, cf[i], y)
    BY Zenon, <1>1, <1>2, <1>3, <2>1, <2>2
       DEF Served, Creating, Held, In, Deploys, Params, Issued
  <2> QED BY Zenon, <1>1, <1>4, <2>1, <2>2, StepIssues DEF v
<1>5. CASE CallFails("deploy", i, man) /\ Goto(r, "undo")
  <2>1. PICK y : h' = [h EXCEPT ![r] = y] /\ y.id = i /\ y.op = h[r].op /\ y.pc = "undo"
    BY <1>5, GoesOn
  <2>2. CASE UNCHANGED directorVars
    <3>1. Served(v, cf[i], y)
      BY Zenon, <1>1, <1>2, <2>1 DEF Served, Creating
    <3> QED BY Zenon, <1>1, <2>1, <2>2, <3>1, StepSilent DEF v
  <2>3. CASE Issue("deploy", i, man) /\ ~NoneLost
    <3>1. \A w : Served(w, cf[i], y)
      BY Zenon, <1>1, <1>2, <2>1, <2>3 DEF Served, Creating
    <3> QED BY Zenon, <1>1, <2>1, <2>3, <3>1, StepIssues
  <2> QED BY <1>5, <2>2, <2>3 DEF CallFails, NoneLost
<1> QED BY <1>4, <1>5 DEF ProvisionCall, man

\* ProvisionUndo.
LEMMA ProvisionUndoTold ==
  ASSUME TypeInv, StoryInv, PlatformOK, NEW r \in Req, NEW i \in ID,
         h[r].id = i, ProvisionUndo(r), UNCHANGED pvars
  PROVE  StoryInv'
<1> DEFINE v == ViewOf(i)
<1>1. /\ h[r].op = "provision" /\ h[r].pc = "undo" /\ Reply(r, "error")
      /\ cur' = [cur EXCEPT ![i] = 0] /\ UNCHANGED <<cfg, heap, directorVars, uaa, pvars>>
  BY Zenon DEF ProvisionUndo, Running
<1>2. cf[i] = "creating" /\ (NoneLost => ~KnownIn(v))
  <2>1. cf[i] = "creating" /\ Creating(v, h[r])
    BY Zenon, <1>1, OpStory
  <2> QED BY Zenon, <1>1, <2>1 DEF Creating, Ends, Says
<1>3. PICK y : /\ h' = [h EXCEPT ![r] = y] /\ y.id = i /\ y.op = h[r].op
               /\ y.pc = "replied" /\ y.resp = "error"
  BY <1>1, Replies
<1> HIDE DEF v
<1>4. ASSUME NEW w, w.gen = 0, w.dep = v.dep, w.tasks = v.tasks
      PROVE  Served(w, cf[i], y)
  <2>1. Undone(w)
    BY Zenon, <1>2, <1>4, SameDirector DEF Undone
  <2> QED BY Zenon, <1>1, <1>2, <1>3, <2>1 DEF Served, Creating, Says
<1> QED BY Zenon, <1>1, <1>3, <1>4, StepRemoves DEF v

\* RecordTask on the object of the instance.
LEMMA RecordsTask ==
  ASSUME TypeInv, NEW r \in Req, NEW i \in ID, h[r].id = i, Held(ViewOf(i), h[r]),
         RecordTask(r)
  PROVE  \E inst : /\ heap' = [heap EXCEPT ![i][cur[i]] = inst] /\ cur[i] # 0
                   /\ inst.task = h[r].task /\ inst.state = ViewOf(i).inst.state
                   /\ FromRecord(inst) = Params(ViewOf(i))
<1> DEFINE inst == [Inst(i) EXCEPT !.task = h[r].task]
<1>1. /\ cur[i] # 0 /\ h[r].gen = cur[i] /\ Inst(i) \in Instance
      /\ ViewOf(i).inst = Inst(i)
  BY ViewParts, InstType DEF Held, TypeInv
<1>2. heap' = [heap EXCEPT ![i][cur[i]] = inst]
  BY <1>1 DEF RecordTask, Inst
<1>3. /\ inst.task = h[r].task /\ inst.state = Inst(i).state
      /\ FromRecord(inst) = FromRecord(Inst(i))
  BY <1>1 DEF Instance, FromRecord
<1> QED BY Zenon, <1>1, <1>2, <1>3 DEF Params

\* ProvisionRecord.
LEMMA ProvisionRecordTold ==
  ASSUME TypeInv, StoryInv, PlatformOK, NEW r \in Req, NEW i \in ID,
         h[r].id = i, ProvisionRecord(r), UNCHANGED pvars
  PROVE  StoryInv'
<1> DEFINE v == ViewOf(i)
<1>1. /\ h[r].op = "provision" /\ h[r].pc = "record" /\ Save(r, "accepted")
      /\ RecordTask(r) /\ UNCHANGED <<cfg, cur, directorVars, uaa, pvars>>
  BY DEF ProvisionRecord, Running
<1>2. /\ cf[i] = "creating" /\ Held(v, h[r]) /\ In(v, {"provisioning"})
      /\ Deploys(v, h[r].task)
  <2>1. cf[i] = "creating" /\ Creating(v, h[r])
    BY Zenon, <1>1, OpStory
  <2> QED BY Zenon, <1>1, <2>1 DEF Creating, Ends, Says
<1>3. PICK y : /\ h' = [h EXCEPT ![r] = y] /\ y.id = i /\ y.op = h[r].op
               /\ y.pc = "marshal" /\ y.resp = "accepted"
  BY <1>1, Saves
<1>4. PICK inst : /\ heap' = [heap EXCEPT ![i][cur[i]] = inst] /\ cur[i] # 0
                  /\ inst.task = h[r].task /\ inst.state = v.inst.state
                  /\ FromRecord(inst) = Params(v)
  BY <1>1, <1>2, RecordsTask
<1> HIDE DEF v
<1>5. ASSUME NEW w, w.gen = cur[i], w.inst = inst, w.dep = v.dep, w.tasks = v.tasks
      PROVE  Served(w, cf[i], y)
  <2>1. Deploying(w)
    BY <1>2, <1>4, <1>5, SameDirector DEF Deploying, Deploys, In, Params
  <2> QED BY Zenon, <1>1, <1>2, <1>3, <2>1 DEF Served, Creating, Ends
<1> QED BY ZenonT(60), <1>1, <1>3, <1>4, <1>5, StepWrites DEF v

\* deleteUAAClient.
LEMMA deleteUAAClientTold ==
  ASSUME TypeInv, StoryInv, PlatformOK, NEW r \in Req, NEW i \in ID,
         h[r].id = i, deleteUAAClient(r), UNCHANGED pvars
  PROVE  StoryInv'
<1> DEFINE v == ViewOf(i)
           w == ViewOf(i)'
<1>1. /\ h[r].op \in {"deprovision", "orphan"} /\ h[r].pc = "uaa" /\ Goto(r, "call")
      /\ DeleteClient(i) /\ UNCHANGED <<cfg, cur, heap, directorVars, pvars>>
  BY Zenon DEF deleteUAAClient, Deprovisioning, brokerVars
<1>2. waiting[i] = r /\ Ordered(v) /\ cf[i] = "deleting" /\ Deleting(v, h[r]) /\ cfg.sso
  BY Zenon, <1>1, Serving, OpStory DEF StoryInv, SsoOnly
<1>3. PICK y : /\ h' = [h EXCEPT ![r] = y] /\ y.id = i /\ y.op = h[r].op
               /\ y.pc = "call" /\ y.gen = h[r].gen /\ y.was = h[r].was
  BY <1>1, GoesOn
<1>4. Marked(v, h[r])
  BY Zenon, <1>1, <1>2 DEF Deleting, Ends, Says
<1>5. /\ \A j \in ID \ {i} : uaa' \cap {j} = uaa \cap {j}
      /\ uaa' \cap {i} = {} \/ "uaa" \in Faults
  BY <1>1 DEF DeleteClient
<1>6. \A j \in ID \ {i} : ViewOf(j)' = ViewOf(j)
  BY <1>1, <1>5, ViewSame, TasksSame DEF directorVars
<1>7. w.gen = v.gen /\ w.inst = v.inst /\ w.dep = v.dep /\ w.tasks = v.tasks
  <2>1. Record(i)' = Record(i)
    BY <1>1 DEF Record, Exists, Inst
  <2>2. w.dep = v.dep /\ w.tasks = v.tasks
    BY <1>1, DirectorSide
  <2>3. v.gen = cur[i] /\ v.inst = Record(i) /\ w.gen = cur'[i] /\ w.inst = Record(i)'
    BY Zenon, ViewParts, ViewParts2
  <2> QED BY <1>1, <2>1, <2>2, <2>3
<1>8. Unregistered(w)
  BY Zenon, <1>5, ViewParts2 DEF Unregistered
<1> HIDE DEF v, w
<1>9. Marked(w, y)
  BY <1>3, <1>4, <1>7, <1>8 DEF Marked, Held, In
<1>10. Served(w, cf[i], y)
  <2>1. (Standing(w) <=> Standing(v)) /\ (KnownIn(w) <=> KnownIn(v))
    BY <1>7, SameDirector
  <2> QED BY Zenon, <1>1, <1>2, <1>3, <1>9, <2>1 DEF Served, Deleting, Ends,
             Says
<1>11. Ordered(w) /\ NoTasksAhead'
  BY <1>1, <1>2, <1>7, OrderedSame, NoTaskIssued DEF StoryInv
<1> QED BY Zenon, <1>1, <1>2, <1>3, <1>6, <1>10, <1>11, Stepped DEF PlatformOK,
           w

\* The director's knowledge of a deployment, from its view.
LEMMA KnownView ==
  ASSUME NEW i \in ID
  PROVE  Processing(i) = Busy(ViewOf(i)) /\ (Known(i) <=> KnownIn(ViewOf(i)))
<1>1. Processing(i) = Busy(ViewOf(i))
  <2>1. ViewOf(i).tasks = [t \in {u \in TaskId : tasks[u].id = i} |-> tasks[t]]
    BY ViewParts DEF TasksOf
  <2> QED BY <2>1 DEF Processing, Busy
<1> QED BY <1>1, ViewParts DEF Known, KnownIn

\* DeprovisionCall.
LEMMA DeprovisionCallTold ==
  ASSUME Calm, TypeInv, StoryInv, PlatformOK, NEW r \in Req, NEW i \in ID,
         h[r].id = i, DeprovisionCall(r), UNCHANGED pvars
  PROVE  StoryInv'
<1> DEFINE v == ViewOf(i)
<1>1. /\ h[r].op \in {"deprovision", "orphan"} /\ h[r].pc = "call"
      /\ UNCHANGED <<cfg, cur, heap, uaa, pvars>>
  BY DEF DeprovisionCall, Deprovisioning, brokerVars
<1>2. cf[i] = "deleting" /\ Deleting(v, h[r])
  BY Zenon, <1>1, OpStory
<1>3. /\ Held(v, h[r]) /\ In(v, {"deprovisioning"}) /\ Unregistered(v)
      /\ h[r].op = "deprovision" => h[r].was \in Over /\ (NoRefund => Standing(v))
      /\ h[r].op = "orphan" => (NoneLost => ~KnownIn(v))
  BY Zenon, <1>1, <1>2 DEF Deleting, Marked, Ends, Says
<1>4. CASE /\ Issue("delete", i, NoManifest)
           /\ h' = [h EXCEPT ![r].pc = "record", ![r].task = last + 1]
  <2>1. PICK y : /\ h' = [h EXCEPT ![r] = y] /\ y.id = i /\ y.op = h[r].op
                 /\ y.pc = "record" /\ y.gen = h[r].gen /\ y.task = last + 1
    BY Zenon, <1>4, TakesTask
  <2> HIDE DEF v
  <2>2. ASSUME NEW w, Issued(v, w, last + 1, "delete", NoManifest),
               Ours(w, last + 1, "delete")
        PROVE  Served(w, cf[i], y)
    BY Zenon, <1>1, <1>2, <1>3, <2>1, <2>2
       DEF Served, Deleting, Held, In, Unregistered, Issued
  <2> QED BY Zenon, <1>1, <1>4, <2>1, <2>2, StepIssues DEF v
<1>5. CASE /\ \/ Known(i) /\ CallFails("delete", i, NoManifest)
              \/ ~Known(i) /\ UNCHANGED directorVars
           /\ Goto(r, "undo")
  <2>1. PICK y : /\ h' = [h EXCEPT ![r] = y] /\ y.id = i /\ y.op = h[r].op
                 /\ y.pc = "undo" /\ y.gen = h[r].gen /\ y.was = h[r].was
    BY <1>5, GoesOn
  <2>2. CASE ~Known(i) /\ UNCHANGED directorVars
    <3>1. ~KnownIn(v)
      BY <2>2, KnownView
    <3> HIDE DEF v
    <3>2. Marked(v, y) /\ (h[r].op = "deprovision" => ~NoRefund)
      BY <1>3, <2>1, <3>1 DEF Marked, Held, Standing, KnownIn
    <3>3. Served(v, cf[i], y)
      BY Zenon, <1>1, <1>2, <1>3, <2>1, <3>1, <3>2 DEF Served, Deleting
    <3> QED BY Zenon, <1>1, <2>1, <2>2, <3>3, StepSilent DEF v
  <2>3. CASE Known(i) /\ CallFails("delete", i, NoManifest)
    <3>1. ~DeletesWork
      BY <2>3 DEF CallFails, DeletesWork
    <3>2. KnownIn(v)
      BY <2>3, KnownView
    <3>3. h[r].op = "deprovision" /\ ~NoRefund
      BY <1>1, <1>3, <3>1, <3>2 DEF Calm, NoRefund
    <3>4. CASE UNCHANGED directorVars
      <4> HIDE DEF v
      <4>1. Served(v, cf[i], y)
        BY Zenon, <1>2, <1>3, <2>1, <3>3 DEF Served, Deleting, Marked, Held
      <4> QED BY Zenon, <1>1, <2>1, <3>4, <4>1, StepSilent DEF v
    <3>5. CASE Issue("delete", i, NoManifest)
      <4> HIDE DEF v
      <4>1. ASSUME NEW w, Issued(v, w, last + 1, "delete", NoManifest)
            PROVE  Served(w, cf[i], y)
        BY Zenon, <1>2, <1>3, <2>1, <3>3, <4>1
           DEF Served, Deleting, Marked, Held, In, Unregistered, Issued
      <4> QED BY Zenon, <1>1, <2>1, <3>5, <4>1, StepIssues DEF v
    <3> QED BY <2>3, <3>4, <3>5 DEF CallFails
  <2> QED BY <1>5, <2>2, <2>3
<1> QED BY <1>4, <1>5 DEF DeprovisionCall

\* DeprovisionUndo.
LEMMA DeprovisionUndoTold ==
  ASSUME TypeInv, StoryInv, PlatformOK, NEW r \in Req, NEW i \in ID,
         h[r].id = i, DeprovisionUndo(r), UNCHANGED pvars
  PROVE  StoryInv'
<1> DEFINE v == ViewOf(i)
<1>1. /\ h[r].op \in {"deprovision", "orphan"} /\ h[r].pc = "undo"
      /\ UNCHANGED <<cfg, directorVars, uaa, pvars>>
  BY DEF DeprovisionUndo, Deprovisioning
<1>2. cf[i] = "deleting" /\ Deleting(v, h[r])
  BY Zenon, <1>1, OpStory
<1>3. /\ Held(v, h[r]) /\ In(v, {"deprovisioning"}) /\ Unregistered(v)
      /\ h[r].op = "deprovision" => h[r].was \in Over /\ ~NoRefund
      /\ h[r].op = "orphan" => ~KnownIn(v)
  BY Zenon, <1>1, <1>2 DEF Deleting, Marked, Ends, Says
<1>4. CASE /\ h[r].op = "orphan" /\ cur' = [cur EXCEPT ![i] = 0]
           /\ Reply(r, "gone") /\ UNCHANGED heap
  <2>1. PICK y : /\ h' = [h EXCEPT ![r] = y] /\ y.id = i /\ y.op = h[r].op
                 /\ y.pc = "replied" /\ y.resp = "gone"
    BY <1>4, Replies
  <2>2. v.client = uaa \cap {i}
    BY ViewParts
  <2> HIDE DEF v
  <2>3. ASSUME NEW w, w.gen = 0, w.client = uaa \cap {i}, w.dep = v.dep, w.tasks = v.tasks
        PROVE  Served(w, cf[i], y)
    <3>1. Gone(w)
      BY Zenon, <1>3, <1>4, <2>2, <2>3, SameDirector DEF Gone, Unregistered
    <3> QED BY Zenon, <1>2, <1>4, <2>1, <3>1 DEF Served, Deleting, Says
  <2> QED BY Zenon, <1>1, <1>4, <2>1, <2>3, StepRemoves DEF v
<1>5. CASE /\ h[r].op = "deprovision"
           /\ heap' = [heap EXCEPT ![i][h[r].gen].state = h[r].was]
           /\ Reply(r, "error") /\ UNCHANGED cur
  <2> DEFINE inst == [Inst(i) EXCEPT !.state = h[r].was]
  <2>1. PICK y : /\ h' = [h EXCEPT ![r] = y] /\ y.id = i /\ y.op = h[r].op
                 /\ y.pc = "replied" /\ y.resp = "error"
    BY <1>5, Replies
  <2>2. cur[i] # 0 /\ h[r].gen = cur[i] /\ Inst(i) \in Instance
    BY Zenon, <1>3, ViewParts, InstType DEF Held, TypeInv
  <2>3. heap' = [heap EXCEPT ![i][cur[i]] = inst] /\ inst.state = h[r].was
    BY <1>5, <2>2 DEF Inst, Instance
  <2> HIDE DEF v, inst
  <2>4. ASSUME NEW w, w.gen = cur[i], w.inst = inst PROVE Served(w, cf[i], y)
    BY <1>2, <1>3, <1>5, <2>1, <2>2, <2>3, <2>4 DEF Served, Deleting, Says,
       Spared, In
  <2> QED BY ZenonT(60), <1>1, <1>5, <2>1, <2>2, <2>3, <2>4, StepWrites
<1> QED BY <1>4, <1>5 DEF DeprovisionUndo

\* DeprovisionRecord.
LEMMA DeprovisionRecordTold ==
  ASSUME TypeInv, StoryInv, PlatformOK, NEW r \in Req, NEW i \in ID,
         h[r].id = i, DeprovisionRecord(r), UNCHANGED pvars
  PROVE  StoryInv'
<1> DEFINE v == ViewOf(i)
<1>1. /\ h[r].op \in {"deprovision", "orphan"} /\ h[r].pc = "record"
      /\ Save(r, "accepted") /\ RecordTask(r)
      /\ UNCHANGED <<cfg, cur, directorVars, uaa, pvars>>
  BY DEF DeprovisionRecord, Deprovisioning
<1>2. cf[i] = "deleting" /\ Deleting(v, h[r])
  BY Zenon, <1>1, OpStory
<1>3. /\ Held(v, h[r]) /\ In(v, {"deprovisioning"}) /\ Unregistered(v)
      /\ Ours(v, h[r].task, "delete")
  BY Zenon, <1>1, <1>2 DEF Deleting, Marked, Ends, Says
<1>4. PICK y : /\ h' = [h EXCEPT ![r] = y] /\ y.id = i /\ y.op = h[r].op
               /\ y.pc = "marshal" /\ y.resp = "accepted"
  BY <1>1, Saves
<1>5. PICK inst : /\ heap' = [heap EXCEPT ![i][cur[i]] = inst] /\ cur[i] # 0
                  /\ inst.task = h[r].task /\ inst.state = v.inst.state
  BY <1>1, <1>3, RecordsTask
<1>6. v.client = uaa \cap {i}
  BY ViewParts
<1> HIDE DEF v
<1>7. ASSUME NEW w, w.gen = cur[i], w.inst = inst, w.client = uaa \cap {i},
             w.dep = v.dep, w.tasks = v.tasks
      PROVE  Served(w, cf[i], y)
  <2>1. Doomed(w)
    BY <1>3, <1>5, <1>6, <1>7, SameDirector DEF Doomed, In, Unregistered
  <2> QED BY Zenon, <1>1, <1>2, <1>4, <2>1 DEF Served, Deleting, Ends
<1> QED BY Zenon, <1>1, <1>4, <1>5, <1>7, StepWrites DEF v

=============================================================================
