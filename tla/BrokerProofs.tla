---------------------------- MODULE BrokerProofs ----------------------------
(***************************************************************************)
(* Theorems about Broker, for every set of instances, handlers, faults and *)
(* operations and every bound: its type invariant, that a live map entry   *)
(* is never replaced (SlotStable), that the platform only chooses which    *)
(* requests reach it, when instances.json holds what memory holds, and that*)
(* a task ID never travels from one instance to another (TaskOwner).       *)
(*                                                                         *)
(* TypeOK is not inductive: a handler writes to the object it looked up    *)
(* before it released the lock, so one has to know that it still names an  *)
(* instance and a generation of it.  HandlerInv says so.  TaskOwner is     *)
(* inductive once the types are known, with one addition: an admin handler *)
(* at the head of its loop carries no task from the instance it dealt with *)
(* before.                                                                 *)
(***************************************************************************)
EXTENDS Platform, TLAPS

Heap == [ID -> [Gen -> Instance]]

\* A handler that works for an instance names it and holds one of its
\* objects; the objects an upgrade still has to do are live generations.
OsbOps == {"provision", "deprovision", "orphan", "update", "lastop", "bind"}
Holding == {"uaa", "call", "undo", "record", "poll", "apply"}
HandlerInv(x) ==
  /\ x.op \in OsbOps => x.id \in ID
  /\ x.op \in OsbOps /\ x.pc \in Holding => x.gen \in Gen
  /\ x.op = "upgrade" => x.todo \subseteq ID \X Gen
GoodHandler == {x \in Handler : HandlerInv(x)}

BrokerOK == /\ cfg \in Configs
            /\ cur \in [ID -> 0..MaxGen]
            /\ heap \in Heap
            /\ tracker \in [ID -> Nat]
            /\ disk \in [ID -> Instance]
DirectorOK == /\ tasks \in [TaskId -> TaskRecord]
              /\ last \in 0..MaxTask
              /\ deployed \in [ID -> Deployment]
\* The inductive form of TypeOK.
TypeInv == BrokerOK /\ DirectorOK /\ h \in [Req -> GoodHandler] /\ uaa \subseteq ID
-----------------------------------------------------------------------------
(* Records.                                                                *)

\* What the assumptions on the bounds give.
LEMMA BoundFacts == /\ MaxGen \in Nat /\ MaxTask \in Nat
                    /\ 0 \in 0..MaxGen /\ 1 \in Gen /\ Gen \subseteq 0..MaxGen
                    /\ Gen \subseteq Nat /\ \A g \in 0..MaxGen : g # 0 => g \in Gen
BY ConstantsAssumption DEF Gen

\* The empty instance, manifest and map are typed.
LEMMA NoneTypes == /\ NoInstance \in Instance
                   /\ NoManifest \in Manifest
                   /\ EmptyMap \in [ID -> Instance]
<1>1. NoInstance \in Instance
  BY DEF NoInstance, Instance, States
<1>2. NoManifest \in Manifest
  BY DEF NoManifest, Manifest
<1> QED BY <1>1, <1>2 DEF EmptyMap

\* A free handler slot is a good handler.
LEMMA IdleGood == Idle \in GoodHandler
<1>1. Idle \in Handler
  BY NoneTypes, BoundFacts DEF Idle, Handler, PCs, Responses, States
<1> QED BY <1>1 DEF GoodHandler, HandlerInv, Idle, OsbOps

\* Writing a typed object keeps the heap typed, wherever it is written.
LEMMA HeapPut ==
  ASSUME NEW H \in Heap, NEW i, NEW g, NEW x,
         i \in ID /\ g \in Gen => x \in Instance
  PROVE  [H EXCEPT ![i][g] = x] \in Heap
BY Zenon DEF Heap

\* Changing the State field of an Instance.
LEMMA WithState ==
  ASSUME NEW x \in Instance, NEW s \in States
  PROVE  [x EXCEPT !.state = s] \in Instance
BY DEF Instance

\* Changing its BoshTaskID.
LEMMA WithTask ==
  ASSUME NEW x \in Instance, NEW t \in Nat
  PROVE  [x EXCEPT !.task = t] \in Instance
BY DEF Instance

\* inst.State = s keeps the heap typed.
LEMMA HeapState ==
  ASSUME NEW H \in Heap, NEW i, NEW g, NEW s \in States
  PROVE  [H EXCEPT ![i][g].state = s] \in Heap
<1>1. ASSUME i \in ID, g \in Gen PROVE [H[i][g] EXCEPT !.state = s] \in Instance
  <2>1. H[i][g] \in Instance BY <1>1 DEF Heap
  <2> QED BY <2>1, WithState
<1> QED BY Zenon, <1>1 DEF Heap

\* inst.BoshTaskID = t keeps the heap typed.
LEMMA HeapTask ==
  ASSUME NEW H \in Heap, NEW i, NEW g, NEW t \in Nat
  PROVE  [H EXCEPT ![i][g].task = t] \in Heap
<1>1. ASSUME i \in ID, g \in Gen PROVE [H[i][g] EXCEPT !.task = t] \in Instance
  <2>1. H[i][g] \in Instance BY <1>1 DEF Heap
  <2> QED BY <2>1, WithTask
<1> QED BY Zenon, <1>1 DEF Heap

\* inst.SSOEnabled = true keeps the heap typed.
LEMMA HeapSso ==
  ASSUME NEW H \in Heap, NEW i, NEW g
  PROVE  [H EXCEPT ![i][g].sso = TRUE] \in Heap
<1>1. ASSUME i \in ID, g \in Gen PROVE [H[i][g] EXCEPT !.sso = TRUE] \in Instance
  <2>1. H[i][g] \in Instance BY <1>1 DEF Heap
  <2> QED BY Zenon, <2>1 DEF Instance
<1> QED BY Zenon, <1>1 DEF Heap

\* buildManifestParams of an instance is a manifest.
LEMMA ManifestOf ==
  ASSUME BrokerOK, NEW x \in Instance
  PROVE  buildManifestParams(x) \in Manifest
<1>1. cfg.release \in Release
  BY ConstantsAssumption DEF BrokerOK, ConfigType
<1> QED BY <1>1 DEF Instance, Manifest, buildManifestParams

\* b.instances[id], when there, is a live object.
LEMMA InstType ==
  ASSUME BrokerOK, NEW i \in ID, cur[i] # 0
  PROVE  cur[i] \in Gen /\ Inst(i) \in Instance
<1>1. cur[i] \in Gen BY BoundFacts DEF BrokerOK
<1> QED BY <1>1 DEF BrokerOK, Inst, Heap

\* The map saveState marshals is typed.
LEMMA SnapshotType ==
  ASSUME BrokerOK PROVE Snapshot \in [ID -> Instance]
BY InstType, NoneTypes DEF Snapshot, Exists

(* Handlers.                                                               *)

\* Replacing one handler by a good one.
LEMMA HandlerPut ==
  ASSUME NEW r \in Req, NEW x \in GoodHandler, h \in [Req -> GoodHandler],
         h' = [h EXCEPT ![r] = x]
  PROVE  h' \in [Req -> GoodHandler]
OBVIOUS

\* A handler that answers stays good.
LEMMA ReplyGood ==
  ASSUME NEW r \in Req, h \in [Req -> GoodHandler], NEW resp \in Responses,
         Reply(r, resp)
  PROVE  h' \in [Req -> GoodHandler]
<1>1. h[r] \in GoodHandler OBVIOUS
<1> DEFINE x == [Idle EXCEPT !.op = h[r].op, !.id = h[r].id, !.count = h[r].count,
                             !.pc = "replied", !.resp = resp]
<1>2. x \in Handler
  BY Zenon, <1>1, IdleGood DEF GoodHandler, Handler, PCs
<1>3. HandlerInv(x)
  BY <1>1 DEF GoodHandler, HandlerInv, Idle, Holding
<1> QED BY <1>2, <1>3, HandlerPut DEF Reply, GoodHandler

\* So does one that goes on to saveState,
LEMMA SaveGood ==
  ASSUME NEW r \in Req, h \in [Req -> GoodHandler], NEW resp \in Responses,
         Save(r, resp)
  PROVE  h' \in [Req -> GoodHandler]
<1>1. h[r] \in GoodHandler OBVIOUS
<1> DEFINE x == [Idle EXCEPT !.op = h[r].op, !.id = h[r].id, !.count = h[r].count,
                             !.pc = "marshal", !.resp = resp]
<1>2. x \in Handler
  BY Zenon, <1>1, IdleGood DEF GoodHandler, Handler, PCs
<1>3. HandlerInv(x)
  BY <1>1 DEF GoodHandler, HandlerInv, Idle, Holding
<1> QED BY <1>2, <1>3, HandlerPut DEF Save, GoodHandler

\* one that answers at once,
LEMMA AnswerGood ==
  ASSUME NEW r \in Req, h \in [Req -> GoodHandler], NEW resp \in Responses,
         NEW op \in OpNames, NEW id \in ID, Answer(r, op, id, resp)
  PROVE  h' \in [Req -> GoodHandler]
<1> DEFINE x == [Idle EXCEPT !.op = op, !.id = id, !.pc = "replied", !.resp = resp]
<1>2. x \in Handler
  BY Zenon, IdleGood DEF GoodHandler, Handler, PCs
<1>3. HandlerInv(x)
  BY DEF HandlerInv, Idle, Holding
<1> QED BY <1>2, <1>3, HandlerPut DEF Answer, GoodHandler

\* one that moves on with the object it holds,
LEMMA GotoGood ==
  ASSUME NEW r \in Req, h \in [Req -> GoodHandler], NEW pc \in PCs, Goto(r, pc),
         h[r].pc \in Holding \/ h[r].op \notin OsbOps
  PROVE  h' \in [Req -> GoodHandler]
<1>1. h[r] \in GoodHandler OBVIOUS
<1> DEFINE x == [h[r] EXCEPT !.pc = pc]
<1>2. x \in Handler
  BY <1>1 DEF GoodHandler, Handler
<1>3. HandlerInv(x)
  BY <1>1 DEF GoodHandler, Handler, HandlerInv
<1> QED BY <1>2, <1>3, HandlerPut DEF Goto, GoodHandler

\* one that is given a task,
LEMMA IssueGood ==
  ASSUME NEW r \in Req, h \in [Req -> GoodHandler], NEW t \in Nat,
         h[r].pc = "call",
         h' = [h EXCEPT ![r].pc = "record", ![r].task = t]
  PROVE  h' \in [Req -> GoodHandler]
<1>1. h[r] \in GoodHandler OBVIOUS
<1> DEFINE x == [h[r] EXCEPT !.pc = "record", !.task = t]
<1>2. x \in Handler
  BY Zenon, <1>1 DEF GoodHandler, Handler, PCs
<1>3. HandlerInv(x)
  BY <1>1 DEF GoodHandler, Handler, HandlerInv, Holding
<1>4. h' = [h EXCEPT ![r] = x]
  BY ZenonT(60)
<1> QED BY <1>2, <1>3, <1>4, HandlerPut DEF GoodHandler

\* and an admin handler back at the head of its loop.
LEMMA LoopGood ==
  ASSUME NEW r \in Req, h \in [Req -> GoodHandler], NEW n \in Nat, Loop(r, n),
         h[r].op \notin OsbOps
  PROVE  h' \in [Req -> GoodHandler]
<1>1. h[r] \in GoodHandler OBVIOUS
<1> DEFINE x == [h[r] EXCEPT !.pc = "next", !.id = "none", !.gen = 0, !.task = 0,
                   !.resp = "none", !.man = NoManifest, !.count = h[r].count + n]
<1>2. h[r].count + n \in Nat
  BY <1>1 DEF GoodHandler, Handler
<1>3. x \in Handler
  BY ZenonT(60), <1>1, <1>2, NoneTypes, BoundFacts DEF GoodHandler, Handler, PCs,
     Responses
<1>4. HandlerInv(x)
  BY <1>1 DEF GoodHandler, Handler, HandlerInv
<1>5. h' = [h EXCEPT ![r] = x]
  BY DEF Loop
<1> QED BY <1>3, <1>4, <1>5, HandlerPut DEF GoodHandler

\* The record of a handler that moves on,
LEMMA GoesOn ==
  ASSUME TypeInv, NEW r \in Req, NEW pc, Goto(r, pc)
  PROVE  \E y : /\ h' = [h EXCEPT ![r] = y] /\ y.id = h[r].id /\ y.op = h[r].op
                /\ y.pc = pc /\ y.gen = h[r].gen /\ y.was = h[r].was
<1> DEFINE y == [h[r] EXCEPT !.pc = pc]
<1>1. h[r] \in Handler
  BY DEF TypeInv, GoodHandler
<1>2. /\ y.id = h[r].id /\ y.op = h[r].op /\ y.pc = pc /\ y.gen = h[r].gen
      /\ y.was = h[r].was
  BY <1>1 DEF Handler
<1>3. h' = [h EXCEPT ![r] = y]
  BY DEF Goto
<1> QED BY Zenon, <1>2, <1>3

\* of one that is given a task,
LEMMA TakesTask ==
  ASSUME TypeInv, NEW r \in Req, h' = [h EXCEPT ![r].pc = "record", ![r].task = last + 1]
  PROVE  \E y : /\ h' = [h EXCEPT ![r] = y] /\ y.id = h[r].id /\ y.op = h[r].op
                /\ y.pc = "record" /\ y.gen = h[r].gen /\ y.task = last + 1
<1> DEFINE y == [h[r] EXCEPT !.pc = "record", !.task = last + 1]
<1>1. h[r] \in Handler /\ h \in [Req -> GoodHandler]
  BY DEF TypeInv, GoodHandler
<1>2. /\ y.id = h[r].id /\ y.op = h[r].op /\ y.pc = "record" /\ y.gen = h[r].gen
      /\ y.task = last + 1
  BY <1>1 DEF Handler
<1>3. h' = [h EXCEPT ![r] = y]
  BY Zenon, <1>1
<1> QED BY Zenon, <1>2, <1>3

\* of one that answers,
LEMMA Replies ==
  ASSUME NEW r \in Req, NEW resp, Reply(r, resp)
  PROVE  \E y : /\ h' = [h EXCEPT ![r] = y] /\ y.id = h[r].id /\ y.op = h[r].op
                /\ y.pc = "replied" /\ y.resp = resp
<1> DEFINE y == [Idle EXCEPT !.op = h[r].op, !.id = h[r].id, !.count = h[r].count,
                             !.pc = "replied", !.resp = resp]
<1>1. h' = [h EXCEPT ![r] = y]
  BY DEF Reply
<1>2. y.id = h[r].id /\ y.op = h[r].op /\ y.pc = "replied" /\ y.resp = resp
  BY DEF Idle
<1> QED BY Zenon, <1>1, <1>2

\* and of one that goes on to saveState.
LEMMA Saves ==
  ASSUME NEW r \in Req, NEW resp, Save(r, resp)
  PROVE  \E y : /\ h' = [h EXCEPT ![r] = y] /\ y.id = h[r].id /\ y.op = h[r].op
                /\ y.pc = "marshal" /\ y.resp = resp
<1> DEFINE y == [Idle EXCEPT !.op = h[r].op, !.id = h[r].id, !.count = h[r].count,
                             !.pc = "marshal", !.resp = resp]
<1>1. h' = [h EXCEPT ![r] = y]
  BY DEF Save
<1>2. y.id = h[r].id /\ y.op = h[r].op /\ y.pc = "marshal" /\ y.resp = resp
  BY DEF Idle
<1> QED BY Zenon, <1>1, <1>2

(* What the broker's and the director's variables may become.              *)

\* Steps that leave the broker's memory and file alone.
LEMMA BrokerFrame == ASSUME BrokerOK, UNCHANGED brokerVars PROVE BrokerOK'
BY DEF BrokerOK, brokerVars

\* Steps that leave the director alone.
LEMMA DirectorFrame == ASSUME DirectorOK, UNCHANGED directorVars PROVE DirectorOK'
BY DEF DirectorOK, directorVars

\* Steps that write objects only.
LEMMA HeapStep ==
  ASSUME BrokerOK, heap' \in Heap, UNCHANGED <<cfg, cur, tracker, disk>>
  PROVE  BrokerOK'
BY DEF BrokerOK

\* Steps that write objects and one map entry.
LEMMA EntryStep ==
  ASSUME BrokerOK, heap' \in Heap, NEW i, NEW g \in 0..MaxGen,
         cur' = [cur EXCEPT ![i] = g], UNCHANGED <<cfg, tracker, disk>>
  PROVE  BrokerOK'
<1>1. cur' \in [ID -> 0..MaxGen] BY Zenon DEF BrokerOK
<1> QED BY <1>1 DEF BrokerOK

\* A task the director accepts is a typed task.
LEMMA IssueType ==
  ASSUME DirectorOK, NEW kind \in {"deploy", "delete"}, NEW id \in ID \cup {"none"},
         NEW man \in Manifest, Issue(kind, id, man)
  PROVE  DirectorOK' /\ last + 1 \in Nat
<1>1. last \in Nat /\ last + 1 \in TaskId
  BY BoundFacts DEF DirectorOK, Issue, TaskId
<1> DEFINE x == [kind |-> kind, id |-> id, man |-> man, status |-> "processing"]
<1>2. x \in TaskRecord
  BY DEF TaskRecord
<1>3. tasks' \in [TaskId -> TaskRecord]
  BY <1>1, <1>2 DEF DirectorOK, Issue
<1>4. last' \in 0..MaxTask
  BY <1>1 DEF Issue, TaskId
<1> QED BY <1>1, <1>3, <1>4 DEF DirectorOK, Issue

\* So is one whose answer is lost.
LEMMA CallFailsType ==
  ASSUME DirectorOK, NEW kind \in {"deploy", "delete"}, NEW id \in ID \cup {"none"},
         NEW man \in Manifest, CallFails(kind, id, man)
  PROVE  DirectorOK'
BY IssueType, DirectorFrame DEF CallFails
-----------------------------------------------------------------------------
(* The type invariant, action by action.                                   *)

\* SaveMarshal keeps the types.
LEMMA SaveMarshalType ==
  ASSUME TypeInv, NEW r \in Req, SaveMarshal(r) PROVE TypeInv'
<1>1. h[r] \in GoodHandler BY DEF TypeInv
<1> DEFINE x == [h[r] EXCEPT !.pc = "write", !.snap = Snapshot]
<1>2. x \in Handler
  BY Zenon, <1>1, SnapshotType DEF TypeInv, GoodHandler, Handler, PCs
<1>3. HandlerInv(x)
  BY <1>1 DEF GoodHandler, Handler, HandlerInv, Holding
<1>4. h' = [h EXCEPT ![r] = x]
  BY Zenon DEF SaveMarshal, TypeInv
<1>5. h' \in [Req -> GoodHandler]
  BY <1>2, <1>3, <1>4, HandlerPut DEF GoodHandler, TypeInv
<1> QED BY <1>5, BrokerFrame, DirectorFrame DEF TypeInv, SaveMarshal

\* SaveWrite keeps the types.
LEMMA SaveWriteType ==
  ASSUME TypeInv, NEW r \in Req, SaveWrite(r) PROVE TypeInv'
<1>1. h[r] \in Handler BY DEF TypeInv, GoodHandler
<1>2. h[r].resp \in Responses /\ h[r].snap \in [ID -> Instance]
  BY <1>1 DEF Handler
<1>3. h' \in [Req -> GoodHandler]
  BY <1>2, ReplyGood DEF SaveWrite, TypeInv
<1>4. BrokerOK'
  BY <1>2 DEF SaveWrite, TypeInv, BrokerOK
<1> QED BY <1>3, <1>4, DirectorFrame DEF TypeInv, SaveWrite

\* Return keeps the types.
LEMMA ReturnType ==
  ASSUME TypeInv, NEW r \in Req, Return(r) PROVE TypeInv'
<1>1. h' \in [Req -> GoodHandler]
  BY IdleGood, HandlerPut DEF Return, TypeInv
<1> QED BY <1>1, BrokerFrame, DirectorFrame DEF TypeInv, Return

\* Crash keeps the types.
LEMMA CrashType == ASSUME TypeInv, Crash PROVE TypeInv'
<1>1. h' \in [Req -> GoodHandler]
  BY IdleGood DEF Crash
<1>2. heap' \in Heap
  BY NoneTypes DEF Crash, TypeInv, BrokerOK, Heap
<1>3. cur' \in [ID -> 0..MaxGen]
  BY BoundFacts DEF Crash
<1>4. BrokerOK'
  BY <1>2, <1>3 DEF Crash, TypeInv, BrokerOK
<1> QED BY <1>1, <1>4, DirectorFrame DEF TypeInv, Crash

\* ProvisionReject keeps the types.
LEMMA ProvisionRejectType ==
  ASSUME TypeInv, NEW r \in Req, NEW id \in ID, NEW org, NEW plan,
         ProvisionReject(r, id, org, plan)
  PROVE  TypeInv'
<1>1. h' \in [Req -> GoodHandler]
  BY Zenon, AnswerGood DEF ProvisionReject, TypeInv, Responses, OpNames
<1> QED BY <1>1, BrokerFrame, DirectorFrame DEF TypeInv, ProvisionReject

\* ProvisionReserve keeps the types.
LEMMA ProvisionReserveType ==
  ASSUME TypeInv, NEW r \in Req, NEW id \in ID, NEW org \in Org,
         NEW plan \in Plans \cup {UnknownPlan}, NEW g \in Gen,
         ProvisionReserve(r, id, org, plan, g)
  PROVE  TypeInv'
<1> DEFINE x == [Idle EXCEPT !.op = "provision", !.id = id, !.gen = g,
                             !.pc = IF cfg.sso THEN "uaa" ELSE "call"]
<1>1. x \in Handler
  BY ZenonT(60), IdleGood, BoundFacts DEF GoodHandler, Handler, PCs, OpNames
<1>2. HandlerInv(x)
  BY DEF HandlerInv, Idle
<1>3. h' \in [Req -> GoodHandler]
  BY <1>1, <1>2, HandlerPut DEF ProvisionReserve, GoodHandler, TypeInv
<1> DEFINE inst == [org |-> org, state |-> "provisioning", task |-> 0,
                    version |-> cfg.version, plan |-> plan, sso |-> FALSE]
<1>4. plan \in Plans
  BY DEF ProvisionReserve, CanProvision, Refused
<1>5. cfg.version \in Version
  BY ConstantsAssumption DEF TypeInv, BrokerOK, ConfigType
<1>6. inst \in Instance
  BY <1>4, <1>5 DEF Instance, States
<1>7. heap' \in Heap
  BY Zenon, <1>6, HeapPut DEF ProvisionReserve, TypeInv, BrokerOK
<1>8. BrokerOK'
  BY Zenon, <1>7, EntryStep, BoundFacts DEF ProvisionReserve, TypeInv
<1> QED BY <1>3, <1>8, DirectorFrame DEF TypeInv, ProvisionReserve
\* ProvisionUaa keeps the types.
LEMMA ProvisionUaaType ==
  ASSUME TypeInv, NEW r \in Req, ProvisionUaa(r) PROVE TypeInv'
<1>1. h[r] \in GoodHandler /\ h[r].op = "provision" /\ h[r].pc = "uaa"
  BY DEF TypeInv, ProvisionUaa, Running
<1>2. h[r].id \in ID
  BY <1>1 DEF GoodHandler, HandlerInv, OsbOps
<1>3. h' \in [Req -> GoodHandler]
  BY <1>1, GotoGood DEF ProvisionUaa, TypeInv, Holding, PCs
<1>5. heap' \in Heap
  <2>1. [heap EXCEPT ![h[r].id][h[r].gen].sso = TRUE] \in Heap
    BY Zenon, HeapSso DEF TypeInv, BrokerOK
  <2> QED BY Zenon, <2>1 DEF ProvisionUaa, TypeInv, BrokerOK
<1>6. uaa' \subseteq ID
  BY <1>2 DEF ProvisionUaa, CreateClient, TypeInv
<1> QED BY <1>3, <1>5, <1>6, HeapStep, DirectorFrame DEF TypeInv, ProvisionUaa

\* The object a handler holds across an unlock is an instance.
LEMMA MineType ==
  ASSUME TypeInv, NEW r \in Req, h[r].op \in OsbOps, h[r].pc \in Holding
  PROVE  h[r].id \in ID /\ h[r].gen \in Gen /\ Mine(r) \in Instance
<1>1. h[r].id \in ID /\ h[r].gen \in Gen
  BY DEF TypeInv, GoodHandler, HandlerInv
<1> QED BY <1>1 DEF Mine, TypeInv, BrokerOK, Heap

\* ProvisionCall keeps the types.
LEMMA ProvisionCallType ==
  ASSUME TypeInv, NEW r \in Req, ProvisionCall(r) PROVE TypeInv'
<1>1. h[r].op \in OsbOps /\ h[r].pc \in Holding /\ h[r].pc = "call"
  BY DEF ProvisionCall, Running, OsbOps, Holding
<1>2. h[r].id \in ID /\ buildManifestParams(Mine(r)) \in Manifest
  BY <1>1, MineType, ManifestOf DEF TypeInv
<1>3. DirectorOK'
  BY <1>2, IssueType, CallFailsType DEF ProvisionCall, TypeInv
<1>4. last + 1 \in Nat
  BY BoundFacts DEF TypeInv, DirectorOK
<1>5. h' \in [Req -> GoodHandler]
  BY <1>1, <1>4, IssueGood, GotoGood DEF ProvisionCall, TypeInv, PCs
<1> QED BY <1>3, <1>5, BrokerFrame DEF TypeInv, ProvisionCall

\* ProvisionUndo keeps the types.
LEMMA ProvisionUndoType ==
  ASSUME TypeInv, NEW r \in Req, ProvisionUndo(r) PROVE TypeInv'
<1>1. h' \in [Req -> GoodHandler]
  BY Zenon, ReplyGood DEF ProvisionUndo, TypeInv, Responses
<1>2. BrokerOK'
  BY Zenon, EntryStep, BoundFacts DEF ProvisionUndo, TypeInv, BrokerOK
<1> QED BY <1>1, <1>2, DirectorFrame DEF TypeInv, ProvisionUndo

\* RecordTask keeps the types.
LEMMA RecordTaskType ==
  ASSUME TypeInv, NEW r \in Req, RecordTask(r) PROVE heap' \in Heap
<1>1. h[r].task \in Nat
  BY DEF TypeInv, GoodHandler, Handler
<1> QED BY Zenon, <1>1, HeapTask DEF RecordTask, TypeInv, BrokerOK

\* ProvisionRecord keeps the types.
LEMMA ProvisionRecordType ==
  ASSUME TypeInv, NEW r \in Req, ProvisionRecord(r) PROVE TypeInv'
<1>1. h' \in [Req -> GoodHandler]
  BY Zenon, SaveGood DEF ProvisionRecord, TypeInv, Responses
<1>2. BrokerOK'
  BY HeapStep, RecordTaskType DEF ProvisionRecord, TypeInv
<1> QED BY <1>1, <1>2, DirectorFrame DEF TypeInv, ProvisionRecord

\* DeprovisionOrphan keeps the types.
LEMMA DeprovisionOrphanType ==
  ASSUME TypeInv, NEW r \in Req, NEW id \in ID, NEW g \in Gen,
         DeprovisionOrphan(r, id, g)
  PROVE  TypeInv'
<1> DEFINE x == [Idle EXCEPT !.op = "orphan", !.id = id, !.gen = g, !.pc = AfterMark]
<1>1. x \in Handler
  BY ZenonT(60), IdleGood, BoundFacts DEF GoodHandler, Handler, PCs, AfterMark
<1>2. HandlerInv(x)
  BY DEF HandlerInv, Idle
<1>3. h' \in [Req -> GoodHandler]
  BY <1>1, <1>2, HandlerPut DEF DeprovisionOrphan, GoodHandler, TypeInv
<1>4. [NoInstance EXCEPT !.state = "deprovisioning"] \in Instance
  BY Zenon, NoneTypes, WithState DEF States
<1>5. heap' \in Heap
  BY Zenon, <1>4, HeapPut DEF DeprovisionOrphan, TypeInv, BrokerOK
<1>6. BrokerOK'
  BY Zenon, <1>5, EntryStep, BoundFacts DEF DeprovisionOrphan, TypeInv
<1> QED BY <1>3, <1>6, DirectorFrame DEF TypeInv, DeprovisionOrphan

\* DeprovisionAgain keeps the types.
LEMMA DeprovisionAgainType ==
  ASSUME TypeInv, NEW r \in Req, NEW id \in ID, DeprovisionAgain(r, id)
  PROVE  TypeInv'
<1>1. h' \in [Req -> GoodHandler]
  BY Zenon, AnswerGood DEF DeprovisionAgain, TypeInv, Responses, OpNames
<1> QED BY <1>1, BrokerFrame, DirectorFrame DEF TypeInv, DeprovisionAgain

\* DeprovisionMark keeps the types.
LEMMA DeprovisionMarkType ==
  ASSUME TypeInv, NEW r \in Req, NEW id \in ID, DeprovisionMark(r, id)
  PROVE  TypeInv'
<1>1. cur[id] \in Gen /\ Inst(id) \in Instance
  BY InstType DEF DeprovisionMark, Exists, TypeInv
<1>2. Inst(id).state \in States
  BY <1>1 DEF Instance
<1> DEFINE x == [Idle EXCEPT !.op = "deprovision", !.id = id, !.gen = cur[id],
                             !.was = Inst(id).state, !.pc = AfterMark]
<1>3. x \in Handler
  BY ZenonT(60), <1>1, <1>2, IdleGood, BoundFacts DEF GoodHandler, Handler, PCs,
     AfterMark, OpNames
<1>4. HandlerInv(x)
  BY <1>1 DEF HandlerInv, Idle
<1>5. h' \in [Req -> GoodHandler]
  BY <1>3, <1>4, HandlerPut DEF DeprovisionMark, GoodHandler, TypeInv
<1>6. heap' \in Heap
  BY Zenon, HeapState DEF DeprovisionMark, TypeInv, BrokerOK, States
<1> QED BY <1>5, <1>6, HeapStep, DirectorFrame DEF TypeInv, DeprovisionMark

\* deleteUAAClient keeps the types.
LEMMA deleteUAAClientType ==
  ASSUME TypeInv, NEW r \in Req, deleteUAAClient(r) PROVE TypeInv'
<1>1. h' \in [Req -> GoodHandler]
  BY GotoGood DEF deleteUAAClient, Deprovisioning, TypeInv, Holding, PCs
<1> QED BY <1>1, BrokerFrame, DirectorFrame
       DEF TypeInv, deleteUAAClient, DeleteClient

\* DeprovisionCall keeps the types.
LEMMA DeprovisionCallType ==
  ASSUME TypeInv, NEW r \in Req, DeprovisionCall(r) PROVE TypeInv'
<1>1. h[r].op \in OsbOps /\ h[r].pc \in Holding /\ h[r].pc = "call"
  BY DEF DeprovisionCall, Deprovisioning, OsbOps, Holding
<1>2. h[r].id \in ID
  BY <1>1, MineType
<1>3. DirectorOK'
  BY <1>2, NoneTypes, IssueType, CallFailsType, DirectorFrame
     DEF DeprovisionCall, TypeInv
<1>4. last + 1 \in Nat
  BY BoundFacts DEF TypeInv, DirectorOK
<1>5. h' \in [Req -> GoodHandler]
  BY <1>1, <1>4, IssueGood, GotoGood DEF DeprovisionCall, TypeInv, PCs
<1> QED BY <1>3, <1>5, BrokerFrame DEF TypeInv, DeprovisionCall

\* DeprovisionUndo keeps the types.
LEMMA DeprovisionUndoType ==
  ASSUME TypeInv, NEW r \in Req, DeprovisionUndo(r) PROVE TypeInv'
<1>1. h' \in [Req -> GoodHandler]
  BY Zenon, ReplyGood DEF DeprovisionUndo, TypeInv, Responses
<1>2. h[r].was \in States
  BY DEF TypeInv, GoodHandler, Handler
<1>3. CASE h[r].op = "orphan"
  <2>1. BrokerOK'
    BY <1>3, EntryStep, BoundFacts DEF DeprovisionUndo, TypeInv, BrokerOK
  <2> QED BY <1>1, <2>1, DirectorFrame DEF TypeInv, DeprovisionUndo
<1>4. CASE h[r].op = "deprovision"
  <2>1. heap' \in Heap
    <3>1. heap' = [heap EXCEPT ![h[r].id][h[r].gen].state = h[r].was]
      BY <1>4 DEF DeprovisionUndo
    <3> QED BY Zenon, <3>1, <1>2, HeapState DEF TypeInv, BrokerOK
  <2>2. BrokerOK'
    BY <2>1, <1>4, HeapStep DEF DeprovisionUndo, TypeInv
  <2> QED BY <1>1, <2>2, DirectorFrame DEF TypeInv, DeprovisionUndo
<1> QED BY <1>3, <1>4 DEF DeprovisionUndo

\* DeprovisionRecord keeps the types.
LEMMA DeprovisionRecordType ==
  ASSUME TypeInv, NEW r \in Req, DeprovisionRecord(r) PROVE TypeInv'
<1>1. h' \in [Req -> GoodHandler]
  BY Zenon, SaveGood DEF DeprovisionRecord, TypeInv, Responses
<1>2. BrokerOK'
  BY HeapStep, RecordTaskType DEF DeprovisionRecord, TypeInv
<1> QED BY <1>1, <1>2, DirectorFrame DEF TypeInv, DeprovisionRecord
\* UpdateReject keeps the types.
LEMMA UpdateRejectType ==
  ASSUME TypeInv, NEW r \in Req, NEW id \in ID, NEW plan, UpdateReject(r, id, plan)
  PROVE  TypeInv'
<1>1. h' \in [Req -> GoodHandler]
  BY Zenon, AnswerGood DEF UpdateReject, TypeInv, Responses, OpNames
<1> QED BY <1>1, BrokerFrame, DirectorFrame DEF TypeInv, UpdateReject

\* The handler Update starts, on object g of instance id.
LEMMA UpdateHandler ==
  ASSUME NEW id \in ID, NEW g \in Gen, NEW man \in Manifest
  PROVE  [Idle EXCEPT !.op = "update", !.pc = "call", !.id = id, !.gen = g,
                      !.man = man] \in GoodHandler
<1> DEFINE x == [Idle EXCEPT !.op = "update", !.pc = "call", !.id = id, !.gen = g,
                             !.man = man]
<1>1. x \in Handler
  BY Zenon, IdleGood, BoundFacts DEF GoodHandler, Handler, PCs, OpNames
<1>2. HandlerInv(x)
  BY DEF HandlerInv, Idle
<1> QED BY <1>1, <1>2 DEF GoodHandler

\* UpdateRecover keeps the types.
LEMMA UpdateRecoverType ==
  ASSUME TypeInv, NEW r \in Req, NEW id \in ID, NEW plan, NEW g \in Gen,
         UpdateRecover(r, id, plan, g)
  PROVE  TypeInv'
<1> DEFINE inst == [org |-> NoOrg, state |-> "provisioning", task |-> 0,
                    version |-> cfg.version, sso |-> FALSE,
                    plan |-> IF plan \in Plans THEN plan ELSE FirstPlan]
<1>1. cfg.version \in Version /\ FirstPlan \in Plans
  BY ConstantsAssumption DEF TypeInv, BrokerOK, ConfigType
<1>2. inst \in Instance
  BY <1>1 DEF Instance, States
<1>3. heap' = [heap EXCEPT ![id][g] = inst]
  BY DEF UpdateRecover
<1>4. heap' \in Heap
  BY Zenon, <1>2, <1>3, HeapPut DEF TypeInv, BrokerOK
<1> HIDE DEF inst
<1>5. h' = [h EXCEPT ![r] = [Idle EXCEPT !.op = "update", !.pc = "call",
                               !.id = id, !.gen = g, !.man = buildManifestParams(inst)]]
  BY DEF UpdateRecover, inst
<1>6. h' \in [Req -> GoodHandler]
  BY Zenon, <1>2, <1>5, ManifestOf, UpdateHandler, HandlerPut DEF TypeInv
<1>7. BrokerOK'
  BY Zenon, <1>4, EntryStep, BoundFacts DEF UpdateRecover, TypeInv
<1> QED BY <1>6, <1>7, DirectorFrame DEF TypeInv, UpdateRecover

\* UpdateExisting keeps the types.
LEMMA UpdateExistingType ==
  ASSUME TypeInv, NEW r \in Req, NEW id \in ID,
         NEW plan \in Plans \cup {NoPlan, UnknownPlan}, UpdateExisting(r, id, plan)
  PROVE  TypeInv'
<1> DEFINE inst == [Inst(id) EXCEPT !.plan = IF plan = NoPlan THEN @ ELSE plan]
<1>1. cur[id] \in Gen /\ Inst(id) \in Instance /\ plan # UnknownPlan
  BY InstType DEF UpdateExisting, Exists, TypeInv
<1>2. inst \in Instance
  BY <1>1 DEF Instance
<1>3. heap' = [heap EXCEPT ![id][cur[id]] = inst]
  BY DEF UpdateExisting
<1>4. heap' \in Heap
  BY Zenon, <1>2, <1>3, HeapPut DEF TypeInv, BrokerOK
<1>5. h' = [h EXCEPT ![r] = [Idle EXCEPT !.op = "update", !.pc = "call",
                               !.id = id, !.gen = cur[id],
                               !.man = buildManifestParams(inst)]]
  BY DEF UpdateExisting
<1> HIDE DEF inst
<1>6. h' \in [Req -> GoodHandler]
  BY Zenon, <1>1, <1>2, <1>5, ManifestOf, UpdateHandler, HandlerPut DEF TypeInv
<1> QED BY <1>4, <1>6, HeapStep, DirectorFrame DEF TypeInv, UpdateExisting

\* UpdateCall keeps the types.
LEMMA UpdateCallType ==
  ASSUME TypeInv, NEW r \in Req, UpdateCall(r) PROVE TypeInv'
<1>1. h[r].pc = "call" /\ h[r].id \in ID \cup {"none"} /\ h[r].man \in Manifest
  BY DEF UpdateCall, Running, TypeInv, GoodHandler, Handler
<1>2. DirectorOK'
  BY <1>1, IssueType, CallFailsType DEF UpdateCall, TypeInv
<1>3. last + 1 \in Nat
  BY BoundFacts DEF TypeInv, DirectorOK
<1>4. h' \in [Req -> GoodHandler]
  BY Zenon, <1>1, <1>3, IssueGood, ReplyGood DEF UpdateCall, TypeInv, Responses
<1> QED BY <1>2, <1>4, BrokerFrame DEF TypeInv, UpdateCall

\* UpdateRecord keeps the types.
LEMMA UpdateRecordType ==
  ASSUME TypeInv, NEW r \in Req, UpdateRecord(r) PROVE TypeInv'
<1>1. h' \in [Req -> GoodHandler]
  BY Zenon, SaveGood DEF UpdateRecord, TypeInv, Responses
<1>2. h[r].task \in Nat
  BY DEF TypeInv, GoodHandler, Handler
<1> DEFINE x == [heap[h[r].id][h[r].gen] EXCEPT !.state = "provisioning",
                                                !.task = h[r].task]
<1>3. ASSUME h[r].id \in ID, h[r].gen \in Gen PROVE x \in Instance
  <2>1. heap[h[r].id][h[r].gen] \in Instance
    BY <1>3 DEF TypeInv, BrokerOK, Heap
  <2> QED BY Zenon, <2>1, <1>2 DEF Instance, States
<1>4. heap' = [heap EXCEPT ![h[r].id][h[r].gen] = x]
  BY DEF UpdateRecord
<1> HIDE DEF x
<1>5. heap' \in Heap
  BY Zenon, <1>3, <1>4, HeapPut DEF TypeInv, BrokerOK
<1> QED BY <1>1, <1>5, HeapStep, DirectorFrame DEF TypeInv, UpdateRecord

\* LastOpAnswer keeps the types.
LEMMA LastOpAnswerType ==
  ASSUME TypeInv, NEW r \in Req, NEW id \in ID, LastOpAnswer(r, id)
  PROVE  TypeInv'
<1>1. h' \in [Req -> GoodHandler]
  BY Zenon, AnswerGood DEF LastOpAnswer, TypeInv, Responses, OpNames
<1> QED BY Zenon, <1>1, BrokerFrame, DirectorFrame DEF TypeInv, LastOpAnswer

\* LastOpRead keeps the types.
LEMMA LastOpReadType ==
  ASSUME TypeInv, NEW r \in Req, NEW id \in ID, LastOpRead(r, id)
  PROVE  TypeInv'
<1>1. cur[id] \in Gen /\ Inst(id) \in Instance
  BY InstType DEF LastOpRead, Exists, TypeInv
<1>2. Inst(id).state \in States /\ Inst(id).task \in Nat
  BY <1>1 DEF Instance
<1> DEFINE x == [Idle EXCEPT !.op = "lastop", !.pc = "poll", !.id = id,
                   !.gen = cur[id], !.task = Inst(id).task, !.was = Inst(id).state]
<1>3. x \in Handler
  BY Zenon, <1>1, <1>2, IdleGood, BoundFacts DEF GoodHandler, Handler, PCs,
     OpNames
<1>4. HandlerInv(x)
  BY <1>1 DEF HandlerInv, Idle
<1>5. h' \in [Req -> GoodHandler]
  BY <1>3, <1>4, HandlerPut DEF LastOpRead, GoodHandler, TypeInv
<1> QED BY <1>5, BrokerFrame, DirectorFrame DEF TypeInv, LastOpRead

\* A polled status has a verdict.
LEMMA PollOutcomeType ==
  ASSUME NEW s PROVE PollOutcome(s) \in {"succeeded", "failed", "in progress"}
BY DEF PollOutcome

\* LastOpPoll keeps the types.
LEMMA LastOpPollType ==
  ASSUME TypeInv, NEW r \in Req, LastOpPoll(r) PROVE TypeInv'
<1>1. PICK s \in TaskStatus(h[r].task) :
        \/ h' = [h EXCEPT ![r].pc = "apply", ![r].resp = PollOutcome(s)]
        \/ Reply(r, PollOutcome(s))
  BY Zenon DEF LastOpPoll
<1>2. PollOutcome(s) \in Responses
  BY Zenon, PollOutcomeType DEF Responses
<1>3. h[r] \in GoodHandler /\ h[r].op = "lastop" /\ h[r].pc = "poll"
  BY Zenon DEF TypeInv, LastOpPoll, Running
<1>4. CASE Reply(r, PollOutcome(s))
  <2>1. h' \in [Req -> GoodHandler]
    BY <1>2, <1>4, ReplyGood DEF TypeInv
  <2> QED BY Zenon, <2>1, BrokerFrame, DirectorFrame DEF TypeInv, LastOpPoll
<1>5. CASE h' = [h EXCEPT ![r].pc = "apply", ![r].resp = PollOutcome(s)]
  <2> DEFINE x == [h[r] EXCEPT !.pc = "apply", !.resp = PollOutcome(s)]
  <2>1. x \in Handler
    BY Zenon, <1>2, <1>3 DEF GoodHandler, Handler, PCs
  <2>2. HandlerInv(x)
    BY <1>3 DEF GoodHandler, Handler, HandlerInv, Holding
  <2>3. h' = [h EXCEPT ![r] = x]
    BY Zenon, <1>5
  <2>4. h' \in [Req -> GoodHandler]
    BY <2>1, <2>2, <2>3, HandlerPut DEF GoodHandler, TypeInv
  <2> QED BY Zenon, <2>4, BrokerFrame, DirectorFrame DEF TypeInv, LastOpPoll
<1> QED BY <1>1, <1>4, <1>5

\* LastOpApply keeps the types.
LEMMA LastOpApplyType ==
  ASSUME TypeInv, NEW r \in Req, LastOpApply(r) PROVE TypeInv'
<1>1. h[r].resp \in Responses
  BY DEF TypeInv, GoodHandler, Handler
<1>2. h' \in [Req -> GoodHandler]
  BY <1>1, SaveGood DEF LastOpApply, TypeInv
<1>3. CASE h[r].was = "provisioning"
  <2>1. heap' = [heap EXCEPT ![h[r].id][h[r].gen].state = Verdict(h[r].resp)]
        /\ UNCHANGED cur
    BY <1>3 DEF LastOpApply
  <2>2. Verdict(h[r].resp) \in States
    BY DEF Verdict, States
  <2>3. heap' \in Heap
    BY Zenon, <2>1, <2>2, HeapState DEF TypeInv, BrokerOK
  <2>4. BrokerOK'
    BY <2>1, <2>3, HeapStep DEF LastOpApply, TypeInv
  <2> QED BY <1>2, <2>4, DirectorFrame DEF TypeInv, LastOpApply
<1>4. CASE h[r].was = "deprovisioning"
  <2>1. BrokerOK'
    BY <1>4, EntryStep, BoundFacts DEF LastOpApply, TypeInv, BrokerOK
  <2> QED BY <1>2, <2>1, DirectorFrame DEF TypeInv, LastOpApply
<1> QED BY <1>3, <1>4 DEF LastOpApply

\* Bind keeps the types.
LEMMA BindType ==
  ASSUME TypeInv, NEW r \in Req, NEW id \in ID, Bind(r, id)
  PROVE  TypeInv'
<1>1. h' \in [Req -> GoodHandler]
  BY Zenon, AnswerGood DEF Bind, TypeInv, Responses, OpNames
<1> QED BY <1>1, BrokerFrame, DirectorFrame DEF TypeInv, Bind
\* AdminUpgrade collects live objects.
LEMMA OutdatedType ==
  ASSUME BrokerOK PROVE Outdated \subseteq ID \X Gen
<1>1. \A i \in ID : cur[i] # 0 => cur[i] \in Gen
  BY InstType
<1> QED BY <1>1 DEF Outdated, Exists

\* UpgradeCollect keeps the types.
LEMMA UpgradeCollectType ==
  ASSUME TypeInv, NEW r \in Req, NEW count, NEW todo, UpgradeCollect(r, count, todo)
  PROVE  TypeInv'
<1>1. CASE h' = [h EXCEPT ![r] = [Idle EXCEPT !.op = "upgrade", !.pc = "replied",
                                                !.resp = "rejected"]]
  <2> DEFINE x == [Idle EXCEPT !.op = "upgrade", !.pc = "replied", !.resp = "rejected"]
  <2>1. x \in Handler
    BY ZenonT(60), IdleGood DEF GoodHandler, Handler, PCs, OpNames, Responses
  <2>2. HandlerInv(x)
    BY DEF HandlerInv, Idle, OsbOps
  <2>3. h' \in [Req -> GoodHandler]
    BY <1>1, <2>1, <2>2, HandlerPut DEF GoodHandler, TypeInv
  <2> QED BY <2>3, BrokerFrame, DirectorFrame DEF TypeInv, UpgradeCollect
<1>2. CASE /\ todo \subseteq Outdated
           /\ h' = [h EXCEPT ![r] = [Idle EXCEPT !.op = "upgrade", !.pc = "next",
                                                   !.todo = todo]]
  <2> DEFINE x == [Idle EXCEPT !.op = "upgrade", !.pc = "next", !.todo = todo]
  <2>1. todo \subseteq ID \X Gen /\ todo \subseteq ID \X Nat
    BY <1>2, OutdatedType, BoundFacts DEF TypeInv
  <2>2. x \in Handler
    BY Zenon, <2>1, IdleGood DEF GoodHandler, Handler, PCs, OpNames
  <2>3. HandlerInv(x)
    BY <2>1 DEF HandlerInv, Idle, OsbOps
  <2>4. h' \in [Req -> GoodHandler]
    BY <1>2, <2>2, <2>3, HandlerPut DEF GoodHandler, TypeInv
  <2> QED BY <2>4, BrokerFrame, DirectorFrame DEF TypeInv, UpgradeCollect
<1> QED BY <1>1, <1>2 DEF UpgradeCollect

\* UpgradeParams keeps the types.
LEMMA UpgradeParamsType ==
  ASSUME TypeInv, NEW r \in Req, UpgradeParams(r) PROVE TypeInv'
<1>1. h[r] \in GoodHandler /\ h[r].op = "upgrade"
  BY DEF TypeInv, UpgradeParams, Running
<1>2. PICK c \in h[r].todo :
        h' = [h EXCEPT ![r] = [h[r] EXCEPT !.pc = "call", !.id = c[1], !.gen = c[2],
                                 !.man = buildManifestParams(heap[c[1]][c[2]]),
                                 !.todo = h[r].todo \ {c}]]
  BY Zenon DEF UpgradeParams
<1>3. h[r].todo \subseteq ID \X Gen
  BY <1>1 DEF GoodHandler, HandlerInv
<1>4. c[1] \in ID /\ c[2] \in Gen
  BY <1>3
<1>5. heap[c[1]][c[2]] \in Instance
  BY <1>4 DEF TypeInv, BrokerOK, Heap
<1> DEFINE m == buildManifestParams(heap[c[1]][c[2]])
           x == [h[r] EXCEPT !.pc = "call", !.id = c[1], !.gen = c[2],
                             !.man = m, !.todo = h[r].todo \ {c}]
<1>6. m \in Manifest
  BY <1>5, ManifestOf DEF TypeInv
<1> HIDE DEF m
<1>7. x \in Handler
  BY Zenon, <1>1, <1>4, <1>6, BoundFacts DEF GoodHandler, Handler, PCs
<1>8. HandlerInv(x)
  BY <1>1, <1>3 DEF HandlerInv, GoodHandler, Handler, OsbOps
<1>9. h' \in [Req -> GoodHandler]
  BY <1>2, <1>7, <1>8, HandlerPut DEF GoodHandler, TypeInv, m
<1> QED BY <1>9, BrokerFrame, DirectorFrame DEF TypeInv, UpgradeParams

\* UpgradeCall keeps the types.
LEMMA UpgradeCallType ==
  ASSUME TypeInv, NEW r \in Req, UpgradeCall(r) PROVE TypeInv'
<1>1. /\ h[r].op = "upgrade" /\ h[r].pc = "call"
      /\ h[r].id \in ID \cup {"none"} /\ h[r].man \in Manifest
  BY DEF UpgradeCall, Running, TypeInv, GoodHandler, Handler
<1>2. DirectorOK'
  BY <1>1, IssueType, CallFailsType DEF UpgradeCall, TypeInv
<1>3. last + 1 \in Nat
  BY BoundFacts DEF TypeInv, DirectorOK
<1>4. h' \in [Req -> GoodHandler]
  BY <1>1, <1>3, IssueGood, LoopGood DEF UpgradeCall, TypeInv, OsbOps
<1> QED BY <1>2, <1>4, BrokerFrame DEF TypeInv, UpgradeCall

\* UpgradeRecord keeps the types.
LEMMA UpgradeRecordType ==
  ASSUME TypeInv, NEW r \in Req, UpgradeRecord(r) PROVE TypeInv'
<1>1. h' \in [Req -> GoodHandler]
  BY GotoGood DEF UpgradeRecord, Running, TypeInv, PCs, OsbOps
<1>2. h[r].task \in Nat
  BY DEF TypeInv, GoodHandler, Handler
<1>3. cfg.version \in Version
  BY ConstantsAssumption DEF TypeInv, BrokerOK, ConfigType
<1> DEFINE x == [heap[h[r].id][h[r].gen] EXCEPT !.state = "provisioning",
                   !.task = h[r].task, !.version = cfg.version]
<1>4. ASSUME h[r].id \in ID, h[r].gen \in Gen PROVE x \in Instance
  <2>1. heap[h[r].id][h[r].gen] \in Instance
    BY <1>4 DEF TypeInv, BrokerOK, Heap
  <2> QED BY Zenon, <2>1, <1>2, <1>3 DEF Instance, States
<1>5. heap' = [heap EXCEPT ![h[r].id][h[r].gen] = x]
  BY DEF UpgradeRecord
<1> HIDE DEF x
<1>6. heap' \in Heap
  BY Zenon, <1>4, <1>5, HeapPut DEF TypeInv, BrokerOK
<1> QED BY <1>1, <1>6, HeapStep, DirectorFrame DEF TypeInv, UpgradeRecord

\* UpgradeTrack keeps the types.
LEMMA UpgradeTrackType ==
  ASSUME TypeInv, NEW r \in Req, UpgradeTrack(r) PROVE TypeInv'
<1>1. h' \in [Req -> GoodHandler]
  BY LoopGood DEF UpgradeTrack, Running, TypeInv, OsbOps
<1>2. h[r].task \in Nat
  BY DEF TypeInv, GoodHandler, Handler
<1>3. BrokerOK'
  BY Zenon, <1>2 DEF UpgradeTrack, TypeInv, BrokerOK
<1> QED BY <1>1, <1>3, DirectorFrame DEF TypeInv, UpgradeTrack

\* StatusCopy keeps the types.
LEMMA StatusCopyType ==
  ASSUME TypeInv, NEW r \in Req, StatusCopy(r) PROVE TypeInv'
<1> DEFINE todo == {<<i, tracker[i]>> : i \in {j \in ID : tracker[j] # 0}}
           x == [Idle EXCEPT !.op = "status", !.pc = "next", !.todo = todo]
<1>1. todo \in SUBSET (ID \X Nat)
  BY DEF TypeInv, BrokerOK
<1>2. h' = [h EXCEPT ![r] = x]
  BY DEF StatusCopy
<1> HIDE DEF todo
<1>3. x \in Handler
  BY Zenon, <1>1, IdleGood DEF GoodHandler, Handler, PCs, OpNames
<1>4. HandlerInv(x)
  BY DEF HandlerInv, Idle, OsbOps
<1>5. h' \in [Req -> GoodHandler]
  BY <1>2, <1>3, <1>4, HandlerPut DEF GoodHandler, TypeInv
<1> QED BY <1>5, BrokerFrame, DirectorFrame DEF TypeInv, StatusCopy

\* StatusPoll keeps the types.
LEMMA StatusPollType ==
  ASSUME TypeInv, NEW r \in Req, StatusPoll(r) PROVE TypeInv'
<1>1. h[r] \in GoodHandler /\ h[r].op = "status"
  BY DEF TypeInv, StatusPoll, Running
<1>2a. PICK c \in h[r].todo : \E s \in TaskStatus(c[2]) :
        h' = [h EXCEPT ![r] =
               [h[r] EXCEPT !.todo = h[r].todo \ {c},
                         !.pc = IF s \in {"done", "error"} THEN "apply" ELSE "next",
                         !.id = IF s \in {"done", "error"} THEN c[1] ELSE "none",
                         !.resp = PollOutcome(s)]]
  BY Zenon DEF StatusPoll
<1>2. PICK s \in TaskStatus(c[2]) :
        h' = [h EXCEPT ![r] =
               [h[r] EXCEPT !.todo = h[r].todo \ {c},
                         !.pc = IF s \in {"done", "error"} THEN "apply" ELSE "next",
                         !.id = IF s \in {"done", "error"} THEN c[1] ELSE "none",
                         !.resp = PollOutcome(s)]]
  BY Zenon, <1>2a
<1>3. c[1] \in ID /\ PollOutcome(s) \in Responses
  BY Zenon, <1>1, PollOutcomeType DEF GoodHandler, Handler, Responses
<1> DEFINE x == [h[r] EXCEPT !.todo = h[r].todo \ {c},
                         !.pc = IF s \in {"done", "error"} THEN "apply" ELSE "next",
                         !.id = IF s \in {"done", "error"} THEN c[1] ELSE "none",
                         !.resp = PollOutcome(s)]
<1>4. x \in Handler
  BY ZenonT(60), <1>1, <1>3 DEF GoodHandler, Handler, PCs
<1>5. HandlerInv(x)
  BY <1>1 DEF HandlerInv, GoodHandler, Handler, OsbOps
<1>6. h' \in [Req -> GoodHandler]
  BY <1>2, <1>4, <1>5, HandlerPut DEF GoodHandler, TypeInv
<1> QED BY <1>6, BrokerFrame, DirectorFrame DEF TypeInv, StatusPoll

\* StatusApply keeps the types.
LEMMA StatusApplyType ==
  ASSUME TypeInv, NEW r \in Req, StatusApply(r) PROVE TypeInv'
<1>1. h' \in [Req -> GoodHandler]
  BY LoopGood DEF StatusApply, Running, TypeInv, OsbOps
<1>2. Verdict(h[r].resp) \in States
  BY DEF Verdict, States
<1>3. heap' \in Heap
  <2>1. [heap EXCEPT ![h[r].id][cur[h[r].id]].state = Verdict(h[r].resp)] \in Heap
    BY Zenon, <1>2, HeapState DEF TypeInv, BrokerOK
  <2> QED BY <2>1 DEF StatusApply, TypeInv, BrokerOK
<1> QED BY <1>1, <1>3, HeapStep, DirectorFrame DEF TypeInv, StatusApply

\* AdminEnd keeps the types.
LEMMA AdminEndType ==
  ASSUME TypeInv, NEW r \in Req, AdminEnd(r) PROVE TypeInv'
<1>1. h' \in [Req -> GoodHandler]
  BY Zenon, SaveGood DEF AdminEnd, TypeInv, Responses
<1> QED BY <1>1, BrokerFrame, DirectorFrame DEF TypeInv, AdminEnd

\* A task that ends keeps the types.
LEMMA DirectorType ==
  ASSUME TypeInv, NEW t \in TaskId, Director(t) PROVE TypeInv'
<1>1. tasks[t] \in TaskRecord
  BY DEF TypeInv, DirectorOK
<1>2. PICK status \in {"done", "error"} : TaskEnds(t, status)
  BY DEF Director
<1>3. [tasks[t] EXCEPT !.status = status] \in TaskRecord
  BY <1>1 DEF TaskRecord
<1>4. tasks' \in [TaskId -> TaskRecord]
  BY <1>2, <1>3 DEF TaskEnds, TypeInv, DirectorOK
<1>5. ASSUME tasks[t].id \in ID PROVE TaskResults(t, status) \subseteq Deployment
  <2>1. deployed[tasks[t].id] \in Deployment
    BY <1>5 DEF TypeInv, DirectorOK
  <2>2. [deployed[tasks[t].id] EXCEPT !.status = "broken"] \in Deployment
    BY <2>1 DEF Deployment
  <2>3. [status |-> "up", man |-> tasks[t].man] \in Deployment
    BY <1>1 DEF Deployment, TaskRecord
  <2>4. NoDeployment \in Deployment
    BY NoneTypes DEF Deployment, NoDeployment
  <2> QED BY <2>1, <2>2, <2>3, <2>4 DEF TaskResults
<1>6. PICK d \in TaskResults(t, status) :
        deployed' = [deployed EXCEPT ![tasks[t].id] = d]
  BY Zenon, <1>2 DEF TaskEnds
<1>7. deployed' \in [ID -> Deployment]
  BY Zenon, <1>5, <1>6 DEF TypeInv, DirectorOK
<1>8. DirectorOK' /\ UNCHANGED <<brokerVars, h, uaa>>
  BY <1>2, <1>4, <1>7 DEF TaskEnds, TypeInv, DirectorOK
<1> QED BY <1>8, BrokerFrame DEF TypeInv
\* New starts in a typed state.
LEMMA TypeInit == Init => TypeInv
<1> SUFFICES ASSUME Init PROVE TypeInv
  OBVIOUS
<1>1. BrokerOK
  BY NoneTypes, BoundFacts DEF Init, BrokerOK, Heap
<1>2. NoTask \in TaskRecord /\ NoDeployment \in Deployment
  BY NoneTypes DEF NoTask, TaskRecord, NoDeployment, Deployment
<1>3. DirectorOK
  BY <1>2, BoundFacts DEF Init, DirectorOK
<1>4. h \in [Req -> GoodHandler] /\ uaa \subseteq ID
  BY IdleGood DEF Init
<1> QED BY <1>1, <1>3, <1>4 DEF TypeInv

\* Every first stretch of a handler keeps the types,
LEMMA ArriveType ==
  ASSUME TypeInv, NEW r \in Req, Arrive(r) PROVE TypeInv'
BY ProvisionRejectType, ProvisionReserveType, DeprovisionOrphanType,
   DeprovisionAgainType, DeprovisionMarkType, UpdateRejectType, UpdateRecoverType,
   UpdateExistingType, LastOpAnswerType, LastOpReadType, BindType,
   UpgradeCollectType, StatusCopyType
   DEF Arrive

\* every later one does,
LEMMA StepType ==
  ASSUME TypeInv, NEW r \in Req, Step(r) PROVE TypeInv'
BY ProvisionUaaType, ProvisionCallType, ProvisionUndoType, ProvisionRecordType,
   deleteUAAClientType, DeprovisionCallType, DeprovisionUndoType,
   DeprovisionRecordType, UpdateCallType, UpdateRecordType, LastOpPollType,
   LastOpApplyType, UpgradeParamsType, UpgradeCallType, UpgradeRecordType,
   UpgradeTrackType, StatusPollType, StatusApplyType, AdminEndType,
   SaveMarshalType, SaveWriteType
   DEF Step

\* and so does a step in which nothing happens.
LEMMA StutterType == ASSUME TypeInv, UNCHANGED vars PROVE TypeInv'
BY DEF TypeInv, BrokerOK, DirectorOK, vars

\* TypeInv is inductive.
LEMMA TypeStep == TypeInv /\ [Next]_vars => TypeInv'
BY ArriveType, StepType, ReturnType, DirectorType, CrashType, StutterType
   DEF Next, Rest

\* TypeInv holds in every reachable state.
LEMMA TypeInvariant == Spec => []TypeInv
BY TypeInit, TypeStep, PTL DEF Spec

\* The fields the handlers read and write across their unlocks stay in range in
\* every reachable state: TypeOK, for every value of the constants.  In
\* particular Provision, Update and LastOperation never store a state that is
\* not one of the five, and a handler that answers late still holds an object.
THEOREM TypeCorrect == Spec => []TypeOK
<1>1. TypeInv => TypeOK
  BY DEF TypeInv, BrokerOK, DirectorOK, TypeOK, Heap, GoodHandler
<1> QED BY <1>1, TypeInvariant, PTL
-----------------------------------------------------------------------------
(* The map's slots.                                                        *)

SlotKept == \A i \in ID : cur[i] # 0 /\ cur'[i] # 0 => cur'[i] = cur[i]

\* A handler takes a slot only when it is free.
LEMMA ArriveSlot ==
  ASSUME TypeInv, NEW r \in Req, Arrive(r) PROVE SlotKept
<1>1. cur \in [ID -> 0..MaxGen]
  BY DEF TypeInv, BrokerOK
<1>2. ASSUME NEW id \in ID, ~Exists(id), NEW g, cur' = [cur EXCEPT ![id] = g]
      PROVE  SlotKept
  BY <1>1, <1>2 DEF SlotKept, Exists
<1>3. ASSUME UNCHANGED cur PROVE SlotKept
  BY <1>3 DEF SlotKept
<1>4. ASSUME NEW id \in ID, NEW org, NEW plan, NEW g, ProvisionReserve(r, id, org, plan, g)
      PROVE  SlotKept
  BY Zenon, <1>2, <1>4 DEF ProvisionReserve, CanProvision
<1>5. ASSUME NEW id \in ID, NEW g, DeprovisionOrphan(r, id, g) PROVE SlotKept
  BY Zenon, <1>2, <1>5 DEF DeprovisionOrphan
<1>6. ASSUME NEW id \in ID, NEW plan, NEW g, UpdateRecover(r, id, plan, g)
      PROVE  SlotKept
  BY Zenon, <1>2, <1>6 DEF UpdateRecover
<1>7. ASSUME NEW id \in ID, NEW org, NEW plan,
             \/ ProvisionReject(r, id, org, plan) \/ DeprovisionAgain(r, id)
             \/ DeprovisionMark(r, id) \/ UpdateReject(r, id, plan)
             \/ UpdateExisting(r, id, plan) \/ LastOpAnswer(r, id)
             \/ LastOpRead(r, id) \/ Bind(r, id)
      PROVE  SlotKept
  <2>1. UNCHANGED cur
    BY Zenon, <1>7 DEF ProvisionReject, DeprovisionAgain, DeprovisionMark,
       UpdateReject,
                UpdateExisting, LastOpAnswer, LastOpRead, Bind, brokerVars
  <2> QED BY <2>1, <1>3
<1>8. ASSUME NEW count, NEW todo, UpgradeCollect(r, count, todo) \/ StatusCopy(r)
      PROVE  SlotKept
  BY <1>3, <1>8 DEF UpgradeCollect, StatusCopy, brokerVars
<1> QED BY <1>4, <1>5, <1>6, <1>7, <1>8 DEF Arrive

\* A running handler only ever empties a slot, or leaves the map alone.
LEMMA StepSlot ==
  ASSUME TypeInv, NEW r \in Req, Step(r) PROVE SlotKept
<1>1. cur \in [ID -> 0..MaxGen]
  BY DEF TypeInv, BrokerOK
<1>2. ASSUME NEW i, cur' = [cur EXCEPT ![i] = 0] PROVE SlotKept
  BY <1>1, <1>2 DEF SlotKept
<1>3. ASSUME UNCHANGED cur PROVE SlotKept
  BY <1>3 DEF SlotKept
<1>4. ASSUME ProvisionUndo(r) \/ DeprovisionUndo(r) \/ LastOpApply(r) PROVE SlotKept
  BY <1>2, <1>3, <1>4 DEF ProvisionUndo, DeprovisionUndo, LastOpApply
<1>5. ASSUME \/ ProvisionUaa(r) \/ ProvisionCall(r) \/ ProvisionRecord(r)
             \/ deleteUAAClient(r) \/ DeprovisionCall(r) \/ DeprovisionRecord(r)
             \/ UpdateCall(r) \/ UpdateRecord(r) \/ LastOpPoll(r)
      PROVE  UNCHANGED cur
  BY Zenon, <1>5 DEF ProvisionUaa, ProvisionCall, ProvisionRecord,
     deleteUAAClient,
              DeprovisionCall, DeprovisionRecord, UpdateCall, UpdateRecord,
              LastOpPoll, brokerVars
<1>6. ASSUME \/ UpgradeParams(r) \/ UpgradeCall(r) \/ UpgradeRecord(r)
             \/ UpgradeTrack(r) \/ StatusPoll(r) \/ StatusApply(r) \/ AdminEnd(r)
             \/ SaveMarshal(r) \/ SaveWrite(r)
      PROVE  UNCHANGED cur
  BY Zenon, <1>6 DEF UpgradeParams, UpgradeCall, UpgradeRecord, UpgradeTrack,
     StatusPoll,
              StatusApply, AdminEnd, SaveMarshal, SaveWrite, brokerVars
<1> QED BY <1>3, <1>4, <1>5, <1>6 DEF Step

\* The exists checks of Provision, Deprovision and Update run under the same
\* lock as the write that takes the slot, so that no step but a restart puts
\* another object in an instance's slot: SlotStable, for any number of
\* instances and handlers.
THEOREM SlotsNeverStolen == Spec => SlotStable
<1>1. TypeInv /\ [Next]_vars => [Crash \/ SlotKept]_vars
  <2> SUFFICES ASSUME TypeInv, Next PROVE Crash \/ SlotKept \/ UNCHANGED vars
    OBVIOUS
  <2>1. ASSUME NEW r \in Req, Return(r) PROVE SlotKept
    BY <2>1 DEF Return, brokerVars, SlotKept
  <2>2. ASSUME NEW t \in TaskId, Director(t) PROVE SlotKept
    BY <2>2 DEF Director, TaskEnds, brokerVars, SlotKept
  <2> QED BY <2>1, <2>2, ArriveSlot, StepSlot DEF Next, Rest
<1>2. [Crash \/ SlotKept]_vars
      => [Crash \/ \A i \in ID : cur[i] # 0 /\ cur'[i] # 0 => cur'[i] = cur[i]]_vars
  BY DEF SlotKept
<1> QED BY <1>1, <1>2, TypeInvariant, PTL DEF Spec, SlotStable
-----------------------------------------------------------------------------
(* The platform beside the broker.                                         *)

\* Every request of the platform is one the broker may receive.
LEMMA SendArrives ==
  ASSUME NEW r \in Req, NEW id \in ID, Send1(r, id)
  PROVE  Arrive(r)
<1>1. CASE SendCreate(r, id)
  BY <1>1 DEF SendCreate, Arrive
<1>2. CASE SendUpdate(r, id)
  BY <1>2 DEF SendUpdate, Arrive
<1>3. CASE SendDelete(r, id)
  BY <1>3 DEF SendDelete, Arrive
<1>4. CASE SendPoll(r, id)
  BY Zenon, <1>4 DEF SendPoll, Arrive
<1>5. CASE SendBind(r, id)
  BY <1>5 DEF SendBind, Arrive
<1>6. QED BY <1>1, <1>2, <1>3, <1>4, <1>5 DEF Send1

\* The platform beside the broker is the broker with particular clients.
THEOREM PlatformIsBroker == PlatformSpec => Spec
<1>1. PlatformInit => Init
  BY DEF PlatformInit
<1>2. [PlatformNext]_allVars => [Next]_vars
  <2> SUFFICES ASSUME [PlatformNext]_allVars PROVE [Next]_vars
    OBVIOUS
  <2>1. ASSUME NEW r \in Req, NEW id \in ID, Send1(r, id) PROVE Next
    BY <2>1, SendArrives DEF Next
  <2>2. ASSUME NEW r \in Req, Receive(r) \/ Step(r) PROVE Next
    BY <2>2 DEF Next, Receive
  <2>3. ASSUME NEW id \in ID, GiveUp(id) PROVE UNCHANGED vars
    BY <2>3 DEF GiveUp
  <2>4. ASSUME NEW t \in TaskId, Director(t) PROVE Next
    BY <2>4 DEF Next
  <2>5. ASSUME PlatformCrash \/ Rest PROVE Next
    BY <2>5 DEF Next, PlatformCrash
  <2>6. CASE UNCHANGED allVars
    BY <2>6 DEF allVars
  <2>7. QED BY <2>1, <2>2, <2>3, <2>4, <2>5, <2>6 DEF PlatformNext
<1>3. QED BY <1>1, <1>2, PTL DEF PlatformSpec, Spec
-----------------------------------------------------------------------------
(* instances.json.                                                         *)

\* One handler runs at a time.
OneAtATime == \A q, r \in Req : h[q] # Idle /\ h[r] # Idle => q = r
\* The director takes every deploy, or nobody updates: Update changes the
\* plan of its record first and keeps the change when the deploy fails.
UpdatesWork == "update" \in Ops => "deploy" \notin Faults /\ "deployLost" \notin Faults

\* What the file has while handler r is at work: the map without the entry
\* r has reserved, the state it will put back, or the map itself.  What is
\* not in the file yet will be, as r is bound for saveState.
Apart(i, inst) == disk = [Snapshot EXCEPT ![i] = inst]
SavedBy(r) ==
  \/ h[r].pc = "replied" /\ disk = Snapshot
  \/ h[r].pc = "marshal"
  \/ h[r].pc = "write" /\ h[r].snap = Snapshot
  \/ h[r].op = "lastop" /\ h[r].pc \in {"poll", "apply"} /\ disk = Snapshot
  \/ /\ h[r].op \in {"provision", "orphan"} /\ h[r].pc \in {"uaa", "call", "undo"}
     /\ Apart(h[r].id, NoInstance)
  \/ /\ h[r].op = "deprovision" /\ h[r].pc \in {"uaa", "call", "undo"}
     /\ h[r].gen = cur[h[r].id] /\ cur[h[r].id] # 0
     /\ Apart(h[r].id, [Mine(r) EXCEPT !.state = h[r].was])
  \/ h[r].op \in {"provision", "deprovision", "orphan"} /\ h[r].pc = "record"
  \/ h[r].op = "update" /\ h[r].pc \in {"call", "record"} /\ "update" \in Ops
  \/ h[r].op \in {"upgrade", "status"} /\ h[r].pc \in {"next", "call", "record", "track", "apply"}
SavedInv == /\ SavedWhenIdle
            /\ \A r \in Req : h[r] # Idle => SavedBy(r)

\* The map changes only with entries and objects.
LEMMA SameSnapshot == ASSUME UNCHANGED <<cur, heap>> PROVE Snapshot' = Snapshot
BY DEF Snapshot, Exists, Inst

\* A handler that runs alone and keeps to its part.
LEMMA SavedAlone ==
  ASSUME NEW r \in Req, \A q \in Req \ {r} : h'[q] = Idle, SavedBy(r)'
  PROVE  SavedInv'
<1>1. h'[r].pc # "idle"
  BY DEF SavedBy
<1>2. h'[r] # Idle
  BY <1>1 DEF Idle
<1> QED BY <1>2 DEF SavedInv, SavedWhenIdle

\* One that answers at once, or takes its first look.
LEMMA ArriveSilent ==
  ASSUME disk = Snapshot, NEW r \in Req, UNCHANGED brokerVars,
         \/ h'[r].pc = "replied"
         \/ h'[r].op = "lastop" /\ h'[r].pc = "poll"
         \/ h'[r].op \in {"upgrade", "status"} /\ h'[r].pc = "next"
  PROVE  SavedBy(r)'
<1>1. Snapshot' = Snapshot /\ disk' = disk
  BY SameSnapshot DEF brokerVars
<1> QED BY <1>1 DEF SavedBy

\* One that takes a free slot.
LEMMA ArriveSlotTaken ==
  ASSUME TypeInv, disk = Snapshot, NEW r \in Req, NEW i \in ID, NEW g \in Gen, NEW inst,
         ~Exists(i), heap' = [heap EXCEPT ![i][g] = inst], cur' = [cur EXCEPT ![i] = g],
         UNCHANGED disk, NEW y, h' = [h EXCEPT ![r] = y], y.id = i,
         y.op \in {"provision", "orphan"}, y.pc \in {"uaa", "call"}
  PROVE  SavedBy(r)'
<1>1. h'[r] = y
  BY DEF TypeInv
<1>2. \A j \in ID \ {i} : cur'[j] = cur[j] /\ heap'[j] = heap[j]
  BY DEF TypeInv, BrokerOK, Heap
<1>3. \A j \in ID \ {i} : Snapshot'[j] = Snapshot[j]
  BY <1>2 DEF Snapshot, Exists, Inst
<1>4. Snapshot[i] = NoInstance /\ DOMAIN Snapshot = ID /\ DOMAIN Snapshot' = ID
  BY DEF Snapshot
<1>5. [Snapshot' EXCEPT ![i] = NoInstance] = Snapshot
  <2> DEFINE S == Snapshot
             T == Snapshot'
  <2>1. S = [j \in ID |-> S[j]] /\ T = [j \in ID |-> T[j]]
    BY DEF Snapshot
  <2> HIDE DEF S, T
  <2> QED BY Zenon, <1>3, <1>4, <2>1 DEF S, T
<1> QED BY <1>1, <1>5 DEF SavedBy, Apart

\* Requests.
LEMMA ArriveSaved ==
  ASSUME TypeInv, disk = Snapshot, NEW r \in Req, Arrive(r)
  PROVE  SavedBy(r)'
<1>1. h \in [Req -> GoodHandler]
  BY DEF TypeInv
<1>2. ASSUME NEW op, NEW id, NEW resp, Answer(r, op, id, resp), UNCHANGED brokerVars
      PROVE  SavedBy(r)'
  <2>1. h'[r].pc = "replied"
    BY <1>1, <1>2 DEF Answer, Idle
  <2> QED BY <1>2, <2>1, ArriveSilent
<1>3. ASSUME NEW id \in ID, NEW org \in Org, NEW plan \in Plans \cup {UnknownPlan},
             ProvisionReject(r, id, org, plan)
      PROVE  SavedBy(r)'
  BY <1>2, <1>3 DEF ProvisionReject
<1>4. ASSUME NEW id \in ID, NEW org \in Org, NEW plan \in Plans \cup {UnknownPlan},
             NEW g \in Gen, ProvisionReserve(r, id, org, plan, g)
      PROVE  SavedBy(r)'
  <2> DEFINE y == [Idle EXCEPT !.op = "provision", !.id = id, !.gen = g,
                               !.pc = IF cfg.sso THEN "uaa" ELSE "call"]
             inst == [org |-> org, state |-> "provisioning", task |-> 0,
                      version |-> cfg.version, plan |-> plan, sso |-> FALSE]
  <2>1. y.id = id /\ y.op = "provision" /\ y.pc \in {"uaa", "call"}
    BY DEF Idle
  <2>2. /\ ~Exists(id) /\ heap' = [heap EXCEPT ![id][g] = inst]
        /\ cur' = [cur EXCEPT ![id] = g] /\ UNCHANGED disk /\ h' = [h EXCEPT ![r] = y]
    BY <1>4 DEF ProvisionReserve, CanProvision
  <2> HIDE DEF y, inst
  <2> QED BY Zenon, <2>1, <2>2, ArriveSlotTaken
<1>5. ASSUME NEW id \in ID, NEW g \in Gen, DeprovisionOrphan(r, id, g) PROVE SavedBy(r)'
  <2> DEFINE y == [Idle EXCEPT !.op = "orphan", !.id = id, !.gen = g, !.pc = AfterMark]
             inst == [NoInstance EXCEPT !.state = "deprovisioning"]
  <2>1. y.id = id /\ y.op = "orphan" /\ y.pc \in {"uaa", "call"}
    BY DEF Idle, AfterMark
  <2>2. /\ ~Exists(id) /\ heap' = [heap EXCEPT ![id][g] = inst]
        /\ cur' = [cur EXCEPT ![id] = g] /\ UNCHANGED disk /\ h' = [h EXCEPT ![r] = y]
    BY <1>5 DEF DeprovisionOrphan
  <2> HIDE DEF y, inst
  <2> QED BY Zenon, <2>1, <2>2, ArriveSlotTaken
<1>6. ASSUME NEW id \in ID, DeprovisionMark(r, id) PROVE SavedBy(r)'
  <2> DEFINE y == [Idle EXCEPT !.op = "deprovision", !.id = id, !.gen = cur[id],
                               !.was = Inst(id).state, !.pc = AfterMark]
             inst == [Inst(id) EXCEPT !.state = "deprovisioning"]
  <2>1. /\ y.id = id /\ y.op = "deprovision" /\ y.pc \in {"uaa", "call"}
        /\ y.gen = cur[id] /\ y.was = Inst(id).state
    BY DEF Idle, AfterMark
  <2>2. /\ cur[id] # 0 /\ heap' = [heap EXCEPT ![id][cur[id]] = inst]
        /\ UNCHANGED <<cur, disk>> /\ h' = [h EXCEPT ![r] = y]
    BY <1>6 DEF DeprovisionMark, Exists, Inst
  <2>3. Inst(id) \in Instance /\ cur[id] \in Gen
    BY <2>2, InstType DEF TypeInv
  <2>4. [inst EXCEPT !.state = Inst(id).state] = Inst(id)
    BY Zenon, <2>3 DEF Instance
  <2> HIDE DEF y, inst
  <2>5. h'[r] = y /\ Mine(r)' = inst
    BY <1>1, <2>1, <2>2, <2>3 DEF Mine, TypeInv, BrokerOK, Heap
  <2>6. \A j \in ID \ {id} : Snapshot'[j] = Snapshot[j]
    BY <2>2, <2>3 DEF Snapshot, Exists, Inst, TypeInv, BrokerOK, Heap
  <2>7. Snapshot[id] = Inst(id)
    BY <2>2 DEF Snapshot, Exists
  <2>8. [Snapshot' EXCEPT ![id] = Inst(id)] = Snapshot
    <3> DEFINE S == Snapshot
               T == Snapshot'
    <3>1. S = [j \in ID |-> S[j]] /\ T = [j \in ID |-> T[j]]
      BY DEF Snapshot
    <3> HIDE DEF S, T
    <3> QED BY Zenon, <2>6, <2>7, <3>1 DEF S, T
  <2>9. disk' = [Snapshot' EXCEPT ![h'[r].id] = [Mine(r)' EXCEPT !.state = h'[r].was]]
    BY <2>1, <2>2, <2>4, <2>5, <2>8
  <2> QED BY Zenon, <2>1, <2>2, <2>5, <2>9 DEF SavedBy, Apart
<1>7. ASSUME NEW id \in ID, DeprovisionAgain(r, id) PROVE SavedBy(r)'
  BY <1>2, <1>7 DEF DeprovisionAgain
<1>8. ASSUME NEW id \in ID, NEW plan \in Plans \cup {NoPlan, UnknownPlan},
             UpdateReject(r, id, plan)
      PROVE  SavedBy(r)'
  BY <1>2, <1>8 DEF UpdateReject
<1>9. ASSUME NEW id \in ID, NEW plan \in Plans \cup {NoPlan, UnknownPlan},
             \/ \E g \in Gen : UpdateRecover(r, id, plan, g)
             \/ UpdateExisting(r, id, plan)
      PROVE  SavedBy(r)'
  <2>1. "update" \in Ops
    BY Zenon, <1>9 DEF UpdateRecover, UpdateExisting, Begin
  <2>2. h'[r].op = "update" /\ h'[r].pc = "call"
    <3> DEFINE inst == [Inst(id) EXCEPT !.plan = IF plan = NoPlan THEN @ ELSE plan]
               y(g, m) == [Idle EXCEPT !.op = "update", !.pc = "call", !.id = id,
                                       !.gen = g, !.man = m]
    <3>1. CASE \E g \in Gen : UpdateRecover(r, id, plan, g)
      BY <1>1, <3>1 DEF UpdateRecover, Idle
    <3>2. CASE UpdateExisting(r, id, plan)
      <4>1. h' = [h EXCEPT ![r] = y(cur[id], buildManifestParams(inst))]
        BY <3>2 DEF UpdateExisting
      <4>2. \A g, m : y(g, m).op = "update" /\ y(g, m).pc = "call"
        BY DEF Idle
      <4> HIDE DEF inst, y
      <4> QED BY <1>1, <4>1, <4>2
    <3> QED BY <1>9, <3>1, <3>2
  <2> QED BY <2>1, <2>2 DEF SavedBy
<1>10. ASSUME NEW id \in ID, LastOpAnswer(r, id) \/ Bind(r, id) PROVE SavedBy(r)'
  <2>1. UNCHANGED brokerVars /\ \E op, resp : Answer(r, op, id, resp)
    BY Zenon, <1>10 DEF LastOpAnswer, Bind
  <2> QED BY <1>2, <2>1
<1>11. ASSUME NEW id \in ID, LastOpRead(r, id) PROVE SavedBy(r)'
  <2>1. UNCHANGED brokerVars /\ h'[r].op = "lastop" /\ h'[r].pc = "poll"
    BY <1>1, <1>11 DEF LastOpRead, Idle
  <2> QED BY <2>1, ArriveSilent
<1>12. ASSUME NEW count, NEW todo, UpgradeCollect(r, count, todo) PROVE SavedBy(r)'
  <2>1. /\ UNCHANGED brokerVars
        /\ h'[r].pc = "replied" \/ (h'[r].op = "upgrade" /\ h'[r].pc = "next")
    BY ZenonT(60), <1>1, <1>12 DEF UpgradeCollect, Idle
  <2> QED BY <2>1, ArriveSilent
<1>13. ASSUME StatusCopy(r) PROVE SavedBy(r)'
  <2>1. UNCHANGED brokerVars /\ h'[r].op = "status" /\ h'[r].pc = "next"
    BY <1>1, <1>13 DEF StatusCopy, Idle
  <2> QED BY <2>1, ArriveSilent
<1> QED BY Zenon, <1>3, <1>4, <1>5, <1>6, <1>7, <1>8, <1>9, <1>10, <1>11,
           <1>12, <1>13 DEF Arrive

\* A handler that moves on without a change to the map,
LEMMA MoveSaved ==
  ASSUME TypeInv, NEW r \in Req, SavedBy(r), UNCHANGED <<cur, heap, disk>>,
         h[r].op \in {"provision", "deprovision", "orphan"}, h[r].pc \in {"uaa", "call"},
         NEW pc \in {"call", "undo"}, Goto(r, pc)
  PROVE  SavedBy(r)'
<1>1. PICK y : /\ h' = [h EXCEPT ![r] = y] /\ y.id = h[r].id /\ y.op = h[r].op
               /\ y.pc = pc /\ y.gen = h[r].gen /\ y.was = h[r].was
  BY GoesOn
<1>2. h'[r] = y
  BY <1>1 DEF TypeInv
<1>3. Snapshot' = Snapshot /\ Mine(r)' = Mine(r)
  BY <1>1, <1>2, SameSnapshot DEF Mine
<1>4. \A inst : Apart(h[r].id, inst) => disk' = [Snapshot' EXCEPT ![h'[r].id] = inst]
  BY Zenon, <1>1, <1>2, <1>3 DEF Apart
<1>5. h[r].op # "deprovision" => Apart(h[r].id, NoInstance)
  BY DEF SavedBy
<1>6. h[r].op = "deprovision" => /\ h[r].gen = cur[h[r].id] /\ cur[h[r].id] # 0
                                 /\ Apart(h[r].id, [Mine(r) EXCEPT !.state = h[r].was])
  BY DEF SavedBy
<1>7. CASE h[r].op = "deprovision"
  <2>1. disk' = [Snapshot' EXCEPT ![h'[r].id] = [Mine(r)' EXCEPT !.state = h'[r].was]]
    BY <1>1, <1>2, <1>3, <1>4, <1>6, <1>7
  <2> QED BY ZenonT(60), <1>1, <1>2, <1>6, <1>7, <2>1 DEF SavedBy, Apart
<1>8. CASE h[r].op # "deprovision"
  BY <1>1, <1>2, <1>4, <1>5, <1>8 DEF SavedBy, Apart
<1> QED BY <1>7, <1>8

\* is given a task,
LEMMA TaskSaved ==
  ASSUME TypeInv, NEW r \in Req, h' = [h EXCEPT ![r].pc = "record", ![r].task = last + 1],
         \/ h[r].op \in {"provision", "deprovision", "orphan", "upgrade"}
         \/ h[r].op = "update" /\ "update" \in Ops
  PROVE  SavedBy(r)'
<1>1. PICK y : /\ h' = [h EXCEPT ![r] = y] /\ y.op = h[r].op /\ y.pc = "record"
  BY Zenon, TakesTask
<1>2. h'[r] = y
  BY Zenon, <1>1 DEF TypeInv
<1> QED BY <1>1, <1>2 DEF SavedBy

\* is bound for saveState,
LEMMA SaveSaved ==
  ASSUME TypeInv, NEW r \in Req, NEW resp, Save(r, resp) PROVE SavedBy(r)'
<1>1. PICK y : h' = [h EXCEPT ![r] = y] /\ y.pc = "marshal"
  BY Saves
<1>2. h'[r] = y
  BY <1>1 DEF TypeInv
<1> QED BY <1>1, <1>2 DEF SavedBy

\* or answers with the file as the map.
LEMMA ReplySaved ==
  ASSUME TypeInv, NEW r \in Req, NEW resp, Reply(r, resp), disk' = Snapshot'
  PROVE  SavedBy(r)'
<1>1. PICK y : h' = [h EXCEPT ![r] = y] /\ y.pc = "replied"
  BY Replies
<1>2. h'[r] = y
  BY <1>1 DEF TypeInv
<1> QED BY <1>1, <1>2 DEF SavedBy

\* A write to an object of i changes the map at most at i.
LEMMA WriteSnapshot ==
  ASSUME TypeInv, NEW i \in ID, NEW g \in Gen, NEW inst, UNCHANGED cur,
         heap' = [heap EXCEPT ![i][g] = inst]
  PROVE  /\ \A x : [Snapshot' EXCEPT ![i] = x] = [Snapshot EXCEPT ![i] = x]
         /\ g = cur[i] => Snapshot' = [Snapshot EXCEPT ![i] = inst]
<1>1. /\ heap'[i][g] = inst /\ \A j \in ID \ {i} : heap'[j] = heap[j]
  BY DEF TypeInv, BrokerOK, Heap
<1>2. \A j \in ID \ {i} : Snapshot'[j] = Snapshot[j]
  BY <1>1 DEF Snapshot, Exists, Inst
<1>3. g = cur[i] => Snapshot'[i] = inst
  BY <1>1, BoundFacts DEF Snapshot, Exists, Inst, Gen
<1> DEFINE S == Snapshot
           T == Snapshot'
<1>4. S = [j \in ID |-> S[j]] /\ T = [j \in ID |-> T[j]]
  BY DEF Snapshot
<1> HIDE DEF S, T
<1> QED BY <1>2, <1>3, <1>4 DEF S, T

\* An entry that is removed is NoInstance in the map.
LEMMA RemoveSnapshot ==
  ASSUME TypeInv, NEW i \in ID, cur' = [cur EXCEPT ![i] = 0], UNCHANGED heap
  PROVE  Snapshot' = [Snapshot EXCEPT ![i] = NoInstance]
<1>1. cur'[i] = 0 /\ \A j \in ID \ {i} : cur'[j] = cur[j]
  BY DEF TypeInv, BrokerOK
<1>2. Snapshot'[i] = NoInstance /\ \A j \in ID \ {i} : Snapshot'[j] = Snapshot[j]
  BY <1>1 DEF Snapshot, Exists, Inst
<1> DEFINE S == Snapshot
           T == Snapshot'
<1>3. S = [j \in ID |-> S[j]] /\ T = [j \in ID |-> T[j]]
  BY DEF Snapshot
<1> HIDE DEF S, T
<1> QED BY <1>2, <1>3 DEF S, T

\* The stretches of the handlers.
LEMMA StepSaved ==
  ASSUME "save" \notin Faults, UpdatesWork, TypeInv, NEW r \in Req, SavedBy(r), Step(r)
  PROVE  SavedBy(r)'
<1>1. h \in [Req -> GoodHandler] /\ h[r] \in Handler
  BY DEF TypeInv, GoodHandler
<1>2. UNCHANGED <<cur, heap>> => Snapshot' = Snapshot
  BY SameSnapshot
<1>3. CASE ProvisionUaa(r)
  <2>1. h[r].op = "provision" /\ h[r].pc = "uaa" /\ Goto(r, "call") /\ UNCHANGED <<cur, disk>>
    BY <1>3 DEF ProvisionUaa, Running
  <2>2. CASE UNCHANGED heap
    BY <2>1, <2>2, MoveSaved
  <2>3. CASE heap' = [heap EXCEPT ![h[r].id][h[r].gen].sso = TRUE]
    <3> DEFINE inst == [Mine(r) EXCEPT !.sso = TRUE]
    <3>1. h[r].id \in ID /\ h[r].gen \in Gen
      BY <2>1, MineType DEF OsbOps, Holding
    <3>2. heap' = [heap EXCEPT ![h[r].id][h[r].gen] = inst]
      BY <2>3 DEF Mine
    <3> HIDE DEF inst
    <3>3. Apart(h[r].id, NoInstance)
      BY <2>1 DEF SavedBy
    <3>4. [Snapshot' EXCEPT ![h[r].id] = NoInstance] = [Snapshot EXCEPT ![h[r].id] = NoInstance]
      BY Zenon, <2>1, <3>1, <3>2, WriteSnapshot
    <3>5. PICK y : /\ h' = [h EXCEPT ![r] = y] /\ y.id = h[r].id /\ y.op = h[r].op
                   /\ y.pc = "call"
      BY <2>1, GoesOn
    <3>6. h'[r] = y /\ disk' = [Snapshot' EXCEPT ![h[r].id] = NoInstance]
      BY <1>1, <2>1, <3>3, <3>4, <3>5 DEF Apart
    <3> QED BY ZenonT(60), <2>1, <3>5, <3>6 DEF SavedBy, Apart
  <2> QED BY Zenon, <1>3, <2>2, <2>3 DEF ProvisionUaa
<1>4. CASE ProvisionCall(r) \/ deleteUAAClient(r) \/ DeprovisionCall(r)
  <2>1. /\ h[r].op \in {"provision", "deprovision", "orphan"} /\ h[r].pc \in {"uaa", "call"}
        /\ UNCHANGED <<cur, heap, disk>>
        /\ \/ Goto(r, "call") \/ Goto(r, "undo")
           \/ h' = [h EXCEPT ![r].pc = "record", ![r].task = last + 1]
    BY <1>4 DEF ProvisionCall, deleteUAAClient, DeprovisionCall, Running,
       Deprovisioning,
                brokerVars
  <2> QED BY <2>1, MoveSaved, TaskSaved
<1>5. CASE ProvisionUndo(r) \/ (DeprovisionUndo(r) /\ h[r].op = "orphan")
  <2>1. /\ h[r].op \in {"provision", "orphan"} /\ h[r].pc = "undo"
        /\ cur' = [cur EXCEPT ![h[r].id] = 0] /\ UNCHANGED <<heap, disk>>
        /\ \E resp : Reply(r, resp)
    BY <1>5 DEF ProvisionUndo, DeprovisionUndo, Running, Deprovisioning
  <2>2. h[r].id \in ID /\ Apart(h[r].id, NoInstance)
    BY <2>1, MineType DEF SavedBy, OsbOps, Holding
  <2>3. disk' = Snapshot'
    BY Zenon, <2>1, <2>2, RemoveSnapshot DEF Apart
  <2> QED BY <2>1, <2>3, ReplySaved
<1>6. CASE DeprovisionUndo(r) /\ h[r].op = "deprovision"
  <2> DEFINE inst == [Mine(r) EXCEPT !.state = h[r].was]
  <2>1. /\ h[r].pc = "undo" /\ UNCHANGED <<cur, disk>> /\ Reply(r, "error")
        /\ heap' = [heap EXCEPT ![h[r].id][h[r].gen] = inst]
    BY <1>6 DEF DeprovisionUndo, Deprovisioning, Mine
  <2>2. h[r].id \in ID /\ h[r].gen \in Gen
    BY <1>6, <2>1, MineType DEF OsbOps, Holding
  <2>3. h[r].gen = cur[h[r].id] /\ disk = [Snapshot EXCEPT ![h[r].id] = inst]
    BY <1>6, <2>1 DEF SavedBy, Apart
  <2> HIDE DEF inst
  <2>4. disk' = Snapshot'
    BY Zenon, <2>1, <2>2, <2>3, WriteSnapshot
  <2> QED BY <2>1, <2>4, ReplySaved
<1>7. CASE \/ ProvisionRecord(r) \/ DeprovisionRecord(r) \/ UpdateRecord(r)
           \/ LastOpApply(r) \/ AdminEnd(r)
  <2>1. \E resp : Save(r, resp)
    BY <1>7 DEF ProvisionRecord, DeprovisionRecord, UpdateRecord, LastOpApply,
       AdminEnd
  <2> QED BY <2>1, SaveSaved
<1>8. CASE UpdateCall(r)
  <2>1. h[r].op = "update" /\ "update" \in Ops
    BY <1>8 DEF UpdateCall, Running, SavedBy
  <2>2. h' = [h EXCEPT ![r].pc = "record", ![r].task = last + 1]
    BY <1>8, <2>1 DEF UpdateCall, CallFails, UpdatesWork
  <2> QED BY Zenon, <2>1, <2>2, TaskSaved
<1>9. CASE LastOpPoll(r)
  <2>1. /\ h[r].op = "lastop" /\ h[r].pc = "poll" /\ UNCHANGED <<cur, heap, disk>>
        /\ \E out : \/ h' = [h EXCEPT ![r].pc = "apply", ![r].resp = out]
                    \/ Reply(r, out)
    BY Zenon, <1>9 DEF LastOpPoll, Running, brokerVars
  <2>2. disk' = Snapshot'
    BY <1>2, <2>1 DEF SavedBy
  <2>3. ASSUME NEW out, Reply(r, out) PROVE SavedBy(r)'
    BY <2>2, <2>3, ReplySaved
  <2>4. ASSUME NEW out, h' = [h EXCEPT ![r].pc = "apply", ![r].resp = out]
        PROVE  SavedBy(r)'
    <3>1. h'[r].op = "lastop" /\ h'[r].pc = "apply"
      BY <1>1, <2>1, <2>4 DEF Handler
    <3> QED BY <2>2, <3>1 DEF SavedBy
  <2> QED BY <2>1, <2>3, <2>4
<1>10. CASE \/ UpgradeParams(r) \/ UpgradeCall(r) \/ UpgradeRecord(r) \/ UpgradeTrack(r)
            \/ StatusPoll(r) \/ StatusApply(r)
  <2>1. h[r].op \in {"upgrade", "status"}
    BY Zenon, <1>10 DEF UpgradeParams, UpgradeCall, UpgradeRecord,
       UpgradeTrack, StatusPoll,
                 StatusApply, Running
  <2>2. ASSUME h'[r].op = h[r].op, h'[r].pc \in {"next", "call", "record", "track", "apply"}
        PROVE  SavedBy(r)'
    BY <2>1, <2>2 DEF SavedBy
  <2>3. ASSUME NEW n, Loop(r, n) PROVE SavedBy(r)'
    <3>1. h'[r].op = h[r].op /\ h'[r].pc = "next"
      BY <1>1, <2>3 DEF Loop, Handler
    <3> QED BY <2>2, <3>1
  <2>4. CASE UpgradeParams(r)
    <3>1. h'[r].op = h[r].op /\ h'[r].pc = "call"
      BY <1>1, <2>4 DEF UpgradeParams, Handler
    <3> QED BY <2>2, <3>1
  <2>5. CASE UpgradeCall(r)
    <3>1. \/ Loop(r, 0)
          \/ /\ h[r].op = "upgrade"
             /\ h' = [h EXCEPT ![r].pc = "record", ![r].task = last + 1]
      BY <2>5 DEF UpgradeCall, Running
    <3> QED BY <2>3, <3>1, TaskSaved
  <2>6. CASE UpgradeRecord(r)
    <3>1. h'[r].op = h[r].op /\ h'[r].pc = "track"
      BY <1>1, <2>6 DEF UpgradeRecord, Goto, Handler
    <3> QED BY <2>2, <3>1
  <2>7. CASE StatusPoll(r)
    <3>1. h'[r].op = h[r].op /\ h'[r].pc \in {"next", "apply"}
      BY <1>1, <2>7 DEF StatusPoll, Handler
    <3> QED BY <2>2, <3>1
  <2>8. CASE UpgradeTrack(r) \/ StatusApply(r)
    BY <2>3, <2>8 DEF UpgradeTrack, StatusApply
  <2> QED BY <1>10, <2>4, <2>5, <2>6, <2>7, <2>8
<1>11. CASE SaveMarshal(r)
  <2>1. h'[r].pc = "write" /\ h'[r].snap = Snapshot
    BY <1>1, <1>11 DEF SaveMarshal, Handler
  <2>2. Snapshot' = Snapshot
    BY <1>2, <1>11 DEF SaveMarshal, brokerVars
  <2> QED BY <2>1, <2>2 DEF SavedBy
<1>12. CASE SaveWrite(r)
  <2>1. /\ h[r].pc = "write" /\ disk' = h[r].snap /\ Reply(r, h[r].resp)
        /\ UNCHANGED <<cur, heap>>
    BY <1>12 DEF SaveWrite
  <2>2. disk' = Snapshot'
    BY <1>2, <2>1 DEF SavedBy
  <2> QED BY <2>1, <2>2, ReplySaved
<1>13. DeprovisionUndo(r) => h[r].op \in {"deprovision", "orphan"}
  BY DEF DeprovisionUndo, Deprovisioning
<1> QED BY Zenon, <1>3, <1>4, <1>5, <1>6, <1>7, <1>8, <1>9, <1>10, <1>11,
           <1>12, <1>13 DEF Step

\* A step of one handler leaves the others' records alone.
LEMMA OthersStay ==
  ASSUME TypeInv, NEW r \in Req, Arrive(r) \/ Step(r)
  PROVE  \A q \in Req \ {r} : h'[q] = h[q]
<1>1. \E y : h' = [h EXCEPT ![r] = y]
  <2>1. CASE Arrive(r)
    <3>1. ASSUME NEW id, NEW org, NEW plan, NEW g,
                 \/ ProvisionReject(r, id, org, plan)
                 \/ ProvisionReserve(r, id, org, plan, g)
                 \/ UpdateReject(r, id, plan) \/ UpdateRecover(r, id, plan, g)
                 \/ UpdateExisting(r, id, plan)
          PROVE  \E y : h' = [h EXCEPT ![r] = y]
      BY Zenon, <3>1 DEF ProvisionReject, ProvisionReserve, UpdateReject,
         UpdateRecover, UpdateExisting, Answer
    <3>2. ASSUME NEW id, NEW g,
                 \/ DeprovisionOrphan(r, id, g) \/ DeprovisionAgain(r, id)
                 \/ DeprovisionMark(r, id) \/ LastOpAnswer(r, id)
                 \/ LastOpRead(r, id) \/ Bind(r, id)
          PROVE  \E y : h' = [h EXCEPT ![r] = y]
      BY Zenon, <3>2 DEF DeprovisionOrphan, DeprovisionAgain, DeprovisionMark,
         LastOpAnswer, LastOpRead, Bind, Answer
    <3>3. ASSUME NEW count, NEW todo, UpgradeCollect(r, count, todo) \/ StatusCopy(r)
          PROVE  \E y : h' = [h EXCEPT ![r] = y]
      BY Zenon, <3>3 DEF UpgradeCollect, StatusCopy
    <3> QED BY Zenon, <2>1, <3>1, <3>2, <3>3 DEF Arrive
  <2>2. CASE Step(r)
    BY Zenon, <2>2 DEF Step, ProvisionUaa, ProvisionCall, ProvisionUndo,
       ProvisionRecord, deleteUAAClient, DeprovisionCall, DeprovisionUndo,
       DeprovisionRecord, UpdateCall, UpdateRecord, LastOpPoll, LastOpApply,
       UpgradeParams, UpgradeCall, UpgradeRecord, UpgradeTrack, StatusPoll,
       StatusApply, AdminEnd, SaveMarshal, SaveWrite, Reply, Save, Goto, Loop
  <2> QED BY <2>1, <2>2
<1> QED BY <1>1 DEF TypeInv

\* A handler that takes a step is at work,
LEMMA StepBusy == ASSUME NEW r \in Req, Step(r) PROVE h[r] # Idle
<1>1. h[r].pc # "idle"
  BY Zenon DEF Step, Running, Deprovisioning, ProvisionUaa, ProvisionCall,
     ProvisionUndo,
         ProvisionRecord, deleteUAAClient, DeprovisionCall, DeprovisionUndo,
         DeprovisionRecord, UpdateCall, UpdateRecord, LastOpPoll, LastOpApply,
         UpgradeParams, UpgradeCall, UpgradeRecord, UpgradeTrack, StatusPoll,
         StatusApply, AdminEnd, SaveMarshal, SaveWrite
<1> QED BY <1>1 DEF Idle

\* and one that takes a request is at work then.
LEMMA ArriveMoves == ASSUME TypeInv, NEW r \in Req, Arrive(r) PROVE h'[r] # Idle
<1>1. h \in [Req -> GoodHandler]
  BY DEF TypeInv
<1>2. ASSUME NEW id \in ID, NEW plan, UpdateExisting(r, id, plan) PROVE h'[r].pc # "idle"
  <2> DEFINE inst == [Inst(id) EXCEPT !.plan = IF plan = NoPlan THEN @ ELSE plan]
  <2>1. h' = [h EXCEPT ![r] = [Idle EXCEPT !.op = "update", !.pc = "call", !.id = id,
                                 !.gen = cur[id], !.man = buildManifestParams(inst)]]
    BY <1>2 DEF UpdateExisting
  <2> HIDE DEF inst
  <2> QED BY <1>1, <2>1 DEF Idle
<1>3. ASSUME NEW op, NEW id, NEW resp, Answer(r, op, id, resp) PROVE h'[r].pc # "idle"
  BY <1>1, <1>3 DEF Answer, Idle
<1>4. ASSUME NEW id, NEW org, NEW plan, NEW g,
             \/ ProvisionReserve(r, id, org, plan, g) \/ UpdateRecover(r, id, plan, g)
             \/ DeprovisionOrphan(r, id, g) \/ DeprovisionMark(r, id)
      PROVE  h'[r].pc # "idle"
  <2>1. CASE ProvisionReserve(r, id, org, plan, g)
    BY <1>1, <2>1 DEF ProvisionReserve, Idle
  <2>2. CASE UpdateRecover(r, id, plan, g)
    BY <1>1, <2>2 DEF UpdateRecover, Idle
  <2>3. CASE DeprovisionOrphan(r, id, g)
    BY <1>1, <2>3 DEF DeprovisionOrphan, AfterMark, Idle
  <2>4. CASE DeprovisionMark(r, id)
    BY <1>1, <2>4 DEF DeprovisionMark, AfterMark, Idle
  <2> QED BY <1>4, <2>1, <2>2, <2>3, <2>4
<1>5. ASSUME NEW id, NEW count, NEW todo,
             LastOpRead(r, id) \/ UpgradeCollect(r, count, todo) \/ StatusCopy(r)
      PROVE  h'[r].pc # "idle"
  <2>1. CASE LastOpRead(r, id)
    BY <1>1, <2>1 DEF LastOpRead, Idle
  <2>2. CASE UpgradeCollect(r, count, todo)
    BY ZenonT(60), <1>1, <2>2 DEF UpgradeCollect, Idle
  <2>3. CASE StatusCopy(r)
    BY <1>1, <2>3 DEF StatusCopy, Idle
  <2> QED BY <1>5, <2>1, <2>2, <2>3
<1>6. h'[r].pc # "idle"
  BY Zenon, <1>2, <1>3, <1>4, <1>5
     DEF Arrive, ProvisionReject, DeprovisionAgain, UpdateReject, LastOpAnswer, Bind
<1> QED BY <1>6 DEF Idle

\* loadState reads back what was saved.
LEMMA CrashSaved == ASSUME TypeInv, Crash PROVE disk' = Snapshot'
<1>1. \A i \in ID : Snapshot'[i] = disk[i]
  BY BoundFacts DEF Crash, Snapshot, Exists, Inst
<1>2. Snapshot' = [i \in ID |-> Snapshot'[i]] /\ disk = [i \in ID |-> disk[i]] /\ disk' = disk
  BY DEF Snapshot, TypeInv, BrokerOK, Crash
<1> QED BY <1>1, <1>2

\* When requests do not overlap, the disk takes what is written and no update
\* fails, instances.json is the broker's map whenever no handler runs, with
\* creates, deletes and upgrades failing halfway and with crashes at any
\* point.  (Overlapping saves can leave an older map in the file.)
THEOREM SavedUnlessOverlapping ==
  ASSUME "save" \notin Faults, UpdatesWork
  PROVE  Spec /\ []OneAtATime => []SavedWhenIdle
<1>1. Init => SavedInv
  <2> SUFFICES ASSUME Init PROVE SavedInv
    OBVIOUS
  <2>1. disk = Snapshot
    BY DEF Init, Snapshot, Exists, EmptyMap
  <2> QED BY <2>1 DEF SavedInv, SavedWhenIdle, Init
<1>2. ASSUME TypeInv, OneAtATime, OneAtATime', SavedInv, [Next]_vars PROVE SavedInv'
  <2>1. ASSUME NEW r \in Req, Arrive(r) PROVE SavedInv'
    <3>1. SavedBy(r)' \/ disk # Snapshot
      BY <1>2, <2>1, ArriveSaved
    <3>2. h[r] = Idle
      BY ZenonT(60), <2>1 DEF Arrive, ProvisionReject, ProvisionReserve,
         DeprovisionOrphan,
         DeprovisionAgain, DeprovisionMark, UpdateReject, UpdateRecover, UpdateExisting,
         LastOpAnswer, LastOpRead, Bind, UpgradeCollect, StatusCopy, Begin
    <3>3. \A q \in Req \ {r} : h'[q] = h[q]
      BY <1>2, <2>1, OthersStay
    <3>4. CASE \A q \in Req \ {r} : h[q] = Idle
      <4>1. disk = Snapshot
        BY <1>2, <3>2, <3>4 DEF SavedInv, SavedWhenIdle
      <4> QED BY <3>1, <3>3, <3>4, <4>1, SavedAlone
    <3>5. CASE ~(\A q \in Req \ {r} : h[q] = Idle)
      <4>1. PICK q \in Req \ {r} : h[q] # Idle
        BY <3>5
      <4>2. h'[r] = Idle
        BY <1>2, <3>3, <4>1 DEF OneAtATime
      <4> QED BY <1>2, <2>1, <4>2, ArriveMoves
    <3> QED BY <3>4, <3>5
  <2>2. ASSUME NEW r \in Req, Step(r) PROVE SavedInv'
    <3>1. h[r] # Idle
      BY <2>2, StepBusy
    <3>2. SavedBy(r)'
      BY <1>2, <2>2, <3>1, StepSaved DEF SavedInv
    <3>3. \A q \in Req \ {r} : h'[q] = Idle
      BY <1>2, <2>2, <3>1, OthersStay DEF OneAtATime
    <3> QED BY <3>2, <3>3, SavedAlone
  <2>3. ASSUME NEW r \in Req, Return(r) PROVE SavedInv'
    <3>1. /\ h[r].pc = "replied" /\ h'[r] = Idle /\ \A q \in Req \ {r} : h'[q] = h[q]
          /\ UNCHANGED <<cur, heap, disk>>
      BY <1>2, <2>3 DEF Return, TypeInv, brokerVars
    <3>2. h[r] # Idle
      BY <3>1 DEF Idle
    <3>3. disk = Snapshot
      BY Zenon, <1>2, <3>1, <3>2 DEF SavedInv, SavedBy
    <3>4. Snapshot' = Snapshot
      BY <3>1, SameSnapshot
    <3>5. \A q \in Req : h'[q] = Idle
      BY <1>2, <3>1, <3>2 DEF OneAtATime
    <3> QED BY <3>1, <3>3, <3>4, <3>5 DEF SavedInv, SavedWhenIdle
  <2>4. CASE Crash
    <3>1. \A q \in Req : h'[q] = Idle
      BY <2>4 DEF Crash
    <3> QED BY <1>2, <2>4, <3>1, CrashSaved DEF SavedInv, SavedWhenIdle
  <2>5. ASSUME UNCHANGED <<cur, heap, disk, h>> PROVE SavedInv'
    BY <1>2, <2>5, SameSnapshot DEF SavedInv, SavedWhenIdle, SavedBy, Apart,
       Mine
  <2>6. ASSUME NEW t \in TaskId, Director(t) PROVE UNCHANGED <<cur, heap, disk, h>>
    BY <2>6 DEF Director, TaskEnds, brokerVars
  <2>7. Rest \/ UNCHANGED vars => UNCHANGED <<cur, heap, disk, h>>
    BY DEF Rest, vars, brokerVars
  <2> QED BY <1>2, <2>1, <2>2, <2>3, <2>4, <2>5, <2>6, <2>7 DEF Next
<1>3. TypeInv /\ OneAtATime /\ OneAtATime' /\ SavedInv /\ [Next]_vars => SavedInv'
  BY <1>2
<1>4. SavedInv => SavedWhenIdle
  BY DEF SavedInv
<1> QED BY <1>1, <1>3, <1>4, TypeInvariant, PTL DEF Spec

-----------------------------------------------------------------------------
(* The platform beside the broker.                                        *)

\* What the platform knows of its own state.
PlatformOK == cf \in [ID -> CfStates] /\ waiting \in [ID -> Req \cup {"none"}]

\* The platform's own state stays typed.
LEMMA PlatformTyped ==
  ASSUME PlatformOK, [PlatformNext]_allVars PROVE PlatformOK'
<1>1. ASSUME NEW c \in CfStates, NEW resp PROVE After(c, resp) \in CfStates
  BY Zenon DEF After, CfStates
<1>2. \A c \in CfStates : Unanswered(c) \in CfStates
  BY <1>1 DEF Unanswered
<1>3. ASSUME NEW r \in Req, NEW id \in ID, NEW c \in CfStates, Send(r, id, c)
      PROVE  PlatformOK'
  BY <1>3 DEF Send, PlatformOK
<1>4. ASSUME NEW r \in Req, NEW id \in ID, Send1(r, id) PROVE PlatformOK'
  <2>1. \E c \in CfStates : Send(r, id, c)
    BY Zenon, <1>4 DEF Send1, SendCreate, SendUpdate, SendDelete, SendPoll,
       SendBind, CfStates
  <2> QED BY <1>3, <2>1
<1>5. ASSUME NEW r \in Req, Receive(r) PROVE PlatformOK'
  BY <1>1, <1>5 DEF Receive, PlatformOK
<1>6. ASSUME NEW id \in ID, GiveUp(id) PROVE PlatformOK'
  BY <1>2, <1>6 DEF GiveUp, PlatformOK
<1>7. CASE PlatformCrash
  BY <1>2, <1>7 DEF PlatformCrash, PlatformOK
<1>8. CASE UNCHANGED pvars
  BY <1>8 DEF pvars, PlatformOK
<1> QED BY <1>4, <1>5, <1>6, <1>7, <1>8 DEF PlatformNext, allVars

-----------------------------------------------------------------------------
(* The owners of tasks.                                                    *)

HeapOwns == \A i \in ID, g \in Gen : Owns(i, heap[i][g].task)
FileOwns == \A i \in ID : Owns(i, disk[i].task)
TrackerOwns == \A i \in ID : Owns(i, tracker[i])
HandlerOwns(r) ==
  /\ h[r].id \in ID => Owns(h[r].id, h[r].task)
  /\ \A i \in ID : Owns(i, h[r].snap[i].task)
  /\ h[r].op = "status" => \A c \in h[r].todo : Owns(c[1], c[2])
  /\ h[r].op \in {"upgrade", "status"} /\ h[r].pc = "next" => h[r].task = 0
HandlersOwn == \A r \in Req : HandlerOwns(r)

\* Whatever the director did in a step, ownership of a task lasts.
OwnsLasts == \A i \in ID \cup {"none"}, t \in Nat : Owns(i, t) => Owns(i, t)'
-----------------------------------------------------------------------------
\* The director did nothing.
LEMMA DirectorIdle == ASSUME UNCHANGED directorVars PROVE OwnsLasts
BY DEF OwnsLasts, Owns, directorVars

\* A new task takes the next ID and touches no older one.
LEMMA IssueOwns ==
  ASSUME DirectorOK, NEW kind, NEW id, NEW man, Issue(kind, id, man)
  PROVE  OwnsLasts /\ Owns(id, last)'
<1>1. /\ last \in Nat /\ MaxTask \in Nat /\ last < MaxTask /\ last' = last + 1
      /\ last + 1 \in TaskId
  BY BoundFacts DEF Issue, DirectorOK, TaskId
<1>2. tasks' = [tasks EXCEPT ![last + 1] =
                  [kind |-> kind, id |-> id, man |-> man, status |-> "processing"]]
  BY DEF Issue
<1>3. tasks'[last + 1].id = id
  BY <1>1, <1>2 DEF DirectorOK
<1>4. \A t \in TaskId : t <= last => tasks'[t] = tasks[t]
  BY <1>1, <1>2 DEF DirectorOK, TaskId
<1>5. OwnsLasts
  <2> SUFFICES ASSUME NEW i \in ID \cup {"none"}, NEW t \in Nat, Owns(i, t), t # 0
               PROVE  t \in TaskId /\ t <= last' /\ tasks'[t].id = i
    BY DEF OwnsLasts, Owns
  <2>1. t \in TaskId /\ t <= last /\ tasks[t].id = i
    BY DEF Owns
  <2>2. t <= last'
    BY <1>1, <2>1
  <2> QED BY <1>4, <2>1, <2>2
<1>6. Owns(id, last)'
  BY <1>1, <1>3 DEF Owns, TaskId
<1> QED BY <1>5, <1>6

\* A call that fails, whether or not the director acted on it.
LEMMA CallFailsOwns ==
  ASSUME DirectorOK, NEW kind, NEW id, NEW man, CallFails(kind, id, man)
  PROVE  OwnsLasts
BY IssueOwns, DirectorIdle DEF CallFails

\* A task that ends stays the task of its deployment.
LEMMA RunOwns ==
  ASSUME DirectorOK, NEW t \in TaskId, Director(t) PROVE OwnsLasts
<1>1. \A u \in TaskId : tasks'[u].id = tasks[u].id
  <2>1. tasks[t] \in TaskRecord
    BY DEF DirectorOK
  <2>2. \E s : tasks' = [tasks EXCEPT ![t] = [tasks[t] EXCEPT !.status = s]]
    BY Zenon DEF Director, TaskEnds
  <2> QED BY <2>1, <2>2 DEF DirectorOK, TaskRecord
<1>2. last' = last
  BY DEF Director, TaskEnds
<1> QED BY <1>1, <1>2 DEF OwnsLasts, Owns
-----------------------------------------------------------------------------
\* 0 is no task, and everybody owns it.
LEMMA ZeroOwned == \A i : Owns(i, 0) /\ Owns(i, 0)'
BY DEF Owns

\* No object is written.
LEMMA HeapOwnsKept ==
  ASSUME TypeInv, HeapOwns, OwnsLasts, UNCHANGED heap PROVE HeapOwns'
<1>1. \A i \in ID, g \in Gen : heap[i][g].task \in Nat
  BY DEF TypeInv, BrokerOK, Heap, Instance
<1> QED BY <1>1 DEF HeapOwns, OwnsLasts

\* The state file is not written.
LEMMA FileOwnsKept ==
  ASSUME TypeInv, FileOwns, OwnsLasts, UNCHANGED disk PROVE FileOwns'
<1>1. \A i \in ID : disk[i].task \in Nat
  BY DEF TypeInv, BrokerOK, Instance
<1> QED BY <1>1 DEF FileOwns, OwnsLasts

\* The upgrade tracker is not written.
LEMMA TrackerOwnsKept ==
  ASSUME TypeInv, TrackerOwns, OwnsLasts, UNCHANGED tracker PROVE TrackerOwns'
BY DEF TypeInv, BrokerOK, TrackerOwns, OwnsLasts

\* An object that is written keeps its task, loses it, or gets one of its own.
LEMMA HeapOwnsPut ==
  ASSUME TypeInv, HeapOwns, OwnsLasts, NEW i, NEW g, NEW x,
         heap' = [heap EXCEPT ![i][g] = x],
         i \in ID /\ g \in Gen => \/ x.task = heap[i][g].task
                                  \/ Owns(i, x.task)'
  PROVE  HeapOwns'
<1>1. \A j \in ID, k \in Gen : heap[j][k].task \in Nat
  BY DEF TypeInv, BrokerOK, Heap, Instance
<1>2. \A j \in ID, k \in Gen : Owns(j, heap[j][k].task)'
  <2> TAKE j \in ID, k \in Gen
  <2>1. Owns(j, heap[j][k].task) /\ (Owns(j, heap[j][k].task) =>
          \A t : t = heap[j][k].task => (t # 0 => t \in TaskId /\ t <= last' /\ tasks'[t].id = j))
    BY <1>1 DEF HeapOwns, OwnsLasts, Owns
  <2>2. CASE j = i /\ k = g
    <3>1. heap'[j][k] = x
      BY <2>2 DEF TypeInv, BrokerOK, Heap
    <3> QED BY <2>1, <2>2, <3>1 DEF Owns
  <2>3. CASE ~(j = i /\ k = g)
    <3>1. heap'[j][k] = heap[j][k]
      BY <2>3 DEF TypeInv, BrokerOK, Heap
    <3> QED BY <2>1, <3>1 DEF Owns
  <2> QED BY <2>2, <2>3
<1> QED BY <1>2 DEF HeapOwns

\* The handlers that do not move keep what they own.
LEMMA HandlersOwnPut ==
  ASSUME TypeInv, HandlersOwn, OwnsLasts, NEW r \in Req, NEW x,
         h' = [h EXCEPT ![r] = x],
         x.id \in ID => Owns(x.id, x.task)',
         \A i \in ID : Owns(i, x.snap[i].task)',
         x.op = "status" => \A c \in x.todo : Owns(c[1], c[2])',
         x.op \in {"upgrade", "status"} /\ x.pc = "next" => x.task = 0
  PROVE  HandlersOwn'
<1>1. ASSUME NEW q \in Req, q # r PROVE HandlerOwns(q)'
  <2>1. h'[q] = h[q] /\ h[q] \in Handler
    BY <1>1 DEF TypeInv, GoodHandler
  <2>2. HandlerOwns(q)
    BY DEF HandlersOwn
  <2>3. /\ h[q].task \in Nat /\ \A i \in ID : h[q].snap[i].task \in Nat
        /\ \A c \in h[q].todo : c[1] \in ID /\ c[2] \in Nat
    BY <2>1 DEF Handler, Instance
  <2>a. PICK y : y = h[q]
    OBVIOUS
  <2>b. ASSUME NEW i \in ID, NEW t \in Nat, Owns(i, t) PROVE Owns(i, t)'
    BY Zenon, <2>b DEF OwnsLasts
  <2>4. h[q].id \in ID => Owns(h[q].id, h[q].task)'
    <3>1. y.id \in ID => Owns(y.id, y.task)
      BY <2>2, <2>a DEF HandlerOwns, Owns
    <3>2. y.id \in ID => Owns(y.id, y.task)'
      BY Zenon, <2>3, <2>a, <2>b, <3>1
    <3> QED BY <2>1, <2>a, <3>2 DEF Owns
  <2>5. \A i \in ID : Owns(i, h[q].snap[i].task)'
    <3>1. \A i \in ID : Owns(i, y.snap[i].task)
      BY <2>2, <2>a DEF HandlerOwns, Owns
    <3>2. \A i \in ID : Owns(i, y.snap[i].task)'
      BY Zenon, <2>3, <2>a, <2>b, <3>1
    <3> QED BY <2>1, <2>a, <3>2 DEF Owns
  <2>6. h'[q].op = "status" => \A c \in h'[q].todo : Owns(c[1], c[2])'
    BY <2>1, <2>2, <2>3 DEF HandlerOwns, OwnsLasts
  <2> QED BY <2>1, <2>2, <2>4, <2>5, <2>6 DEF HandlerOwns
<1>2. h'[r] = x
  BY DEF TypeInv
<1>3. HandlerOwns(r)'
  BY <1>2 DEF HandlerOwns, Owns
<1> QED BY <1>1, <1>3 DEF HandlersOwn
-----------------------------------------------------------------------------
(* The ways a handler moves on.                                            *)

\* A handler that carries no task and no snapshot owns nothing wrong.
LEMMA EmptyHanded ==
  ASSUME TypeInv, HandlersOwn, OwnsLasts, NEW r \in Req, NEW x,
         h' = [h EXCEPT ![r] = x], x.task = 0, x.snap = EmptyMap,
         x.op = "status" => x.todo = {}
  PROVE  HandlersOwn'
<1>1. \A i \in ID : x.snap[i].task = 0
  BY DEF EmptyMap, NoInstance
<1> QED BY Zenon, <1>1, HandlersOwnPut, ZeroOwned

\* An answer,
LEMMA ReplyOwns ==
  ASSUME TypeInv, HandlersOwn, OwnsLasts, NEW r \in Req, NEW resp, Reply(r, resp)
  PROVE  HandlersOwn'
<1> DEFINE x == [Idle EXCEPT !.op = h[r].op, !.id = h[r].id, !.count = h[r].count,
                             !.pc = "replied", !.resp = resp]
<1>1. x.task = 0 /\ x.snap = EmptyMap /\ x.todo = {}
  BY DEF Idle
<1>2. h' = [h EXCEPT ![r] = x]
  BY DEF Reply
<1> HIDE DEF x
<1> QED BY Zenon, <1>1, <1>2, EmptyHanded

\* the way to saveState,
LEMMA SaveOwns ==
  ASSUME TypeInv, HandlersOwn, OwnsLasts, NEW r \in Req, NEW resp, Save(r, resp)
  PROVE  HandlersOwn'
<1> DEFINE x == [Idle EXCEPT !.op = h[r].op, !.id = h[r].id, !.count = h[r].count,
                             !.pc = "marshal", !.resp = resp]
<1>1. x.task = 0 /\ x.snap = EmptyMap /\ x.todo = {}
  BY DEF Idle
<1>2. h' = [h EXCEPT ![r] = x]
  BY DEF Save
<1> HIDE DEF x
<1> QED BY Zenon, <1>1, <1>2, EmptyHanded

\* and an answer at once leave the handler without a task.
LEMMA AnswerOwns ==
  ASSUME TypeInv, HandlersOwn, OwnsLasts, NEW r \in Req, NEW op, NEW id, NEW resp,
         Answer(r, op, id, resp)
  PROVE  HandlersOwn'
<1> DEFINE x == [Idle EXCEPT !.op = op, !.id = id, !.pc = "replied", !.resp = resp]
<1>1. x.task = 0 /\ x.snap = EmptyMap /\ x.todo = {}
  BY DEF Idle
<1>2. h' = [h EXCEPT ![r] = x]
  BY DEF Answer
<1> HIDE DEF x
<1> QED BY Zenon, <1>1, <1>2, EmptyHanded

\* What a handler owns, after the director's part of the step.
LEMMA HandlerLasts ==
  ASSUME TypeInv, HandlersOwn, OwnsLasts, NEW r \in Req
  PROVE  /\ h[r].id \in ID =>
              (h[r].task # 0 => /\ h[r].task \in TaskId /\ h[r].task <= last'
                                /\ tasks'[h[r].task].id = h[r].id)
         /\ \A i \in ID : h[r].snap[i].task # 0 =>
              /\ h[r].snap[i].task \in TaskId /\ h[r].snap[i].task <= last'
              /\ tasks'[h[r].snap[i].task].id = i
         /\ h[r].op = "status" => \A c \in h[r].todo : Owns(c[1], c[2])'
         /\ h[r].op \in {"upgrade", "status"} /\ h[r].pc = "next" => h[r].task = 0
<1>1. h[r] \in Handler /\ HandlerOwns(r)
  BY DEF TypeInv, GoodHandler, HandlersOwn
<1>2. /\ h[r].task \in Nat /\ \A i \in ID : h[r].snap[i].task \in Nat
      /\ \A c \in h[r].todo : c[1] \in ID /\ c[2] \in Nat
  BY <1>1 DEF Handler, Instance
<1>3. h[r].op = "status" => \A c \in h[r].todo : Owns(c[1], c[2])'
  BY <1>1, <1>2 DEF HandlerOwns, OwnsLasts
<1>4. \A i \in ID : Owns(i, h[r].snap[i].task)
  BY <1>1 DEF HandlerOwns
<1>5. \A i \in ID : h[r].snap[i].task # 0 =>
              /\ h[r].snap[i].task \in TaskId /\ h[r].snap[i].task <= last'
              /\ tasks'[h[r].snap[i].task].id = i
  BY <1>4, <1>2 DEF OwnsLasts, Owns
<1>6. h[r].id \in ID =>
              (h[r].task # 0 => /\ h[r].task \in TaskId /\ h[r].task <= last'
                                /\ tasks'[h[r].task].id = h[r].id)
  BY <1>1, <1>2 DEF OwnsLasts, Owns, HandlerOwns
<1> QED BY <1>1, <1>3, <1>5, <1>6 DEF HandlerOwns

\* The snapshot it carries does, too, in whatever record it is put.
LEMMA SnapLasts ==
  ASSUME TypeInv, HandlersOwn, OwnsLasts, NEW r \in Req, NEW x, x.snap = h[r].snap
  PROVE  \A i \in ID : Owns(i, x.snap[i].task)'
<1> SUFFICES ASSUME NEW i \in ID PROVE Owns(i, x.snap[i].task)'
  OBVIOUS
<1>1. PICK t : t = h[r].snap[i].task
  OBVIOUS
<1>2. t # 0 => t \in TaskId /\ t <= last' /\ tasks'[t].id = i
  BY Zenon, <1>1, HandlerLasts
<1>3. x.snap[i].task = t
  BY <1>1
<1> QED BY <1>2, <1>3 DEF Owns

\* No handler moves.
LEMMA HandlersKept ==
  ASSUME TypeInv, HandlersOwn, OwnsLasts, UNCHANGED h PROVE HandlersOwn'
<1> SUFFICES ASSUME NEW r \in Req PROVE HandlerOwns(r)'
  BY DEF HandlersOwn
<1>1. h'[r] = h[r]
  OBVIOUS
<1>2. (h[r].id \in ID => Owns(h[r].id, h[r].task))'
  BY <1>1, HandlerLasts DEF Owns
<1>3. (\A i \in ID : Owns(i, h[r].snap[i].task))'
  BY <1>1, HandlerLasts DEF Owns
<1>4. (h[r].op = "status" => \A c \in h[r].todo : Owns(c[1], c[2]))'
  BY <1>1, HandlerLasts
<1> QED BY <1>1, <1>2, <1>3, <1>4, HandlerLasts DEF HandlerOwns

\* A handler that moves on keeps the task it has.
LEMMA GotoOwns ==
  ASSUME TypeInv, HandlersOwn, OwnsLasts, NEW r \in Req, NEW pc, pc # "next", Goto(r, pc)
  PROVE  HandlersOwn'
<1>0. PICK x : x = [h[r] EXCEPT !.pc = pc]
  BY ZenonT(60)
<1>1. /\ x.id = h[r].id /\ x.task = h[r].task /\ x.snap = h[r].snap
      /\ x.op = h[r].op /\ x.todo = h[r].todo /\ x.pc = pc
  BY <1>0 DEF TypeInv, GoodHandler, Handler
<1>2. h' = [h EXCEPT ![r] = x]
  BY <1>0 DEF Goto
<1>3. x.id \in ID => Owns(x.id, x.task)'
  BY Zenon, <1>1, HandlerLasts DEF Owns
<1>4. \A i \in ID : Owns(i, x.snap[i].task)'
  BY <1>1, SnapLasts
<1>5. x.op = "status" => \A c \in x.todo : Owns(c[1], c[2])'
  BY Zenon, <1>1, HandlerLasts
<1> QED BY Zenon, <1>1, <1>2, <1>3, <1>4, <1>5, HandlersOwnPut

\* The director gave the handler a task for the instance it works for.
LEMMA GivenOwns ==
  ASSUME TypeInv, HandlersOwn, NEW r \in Req, NEW kind, NEW man,
         Issue(kind, h[r].id, man),
         h' = [h EXCEPT ![r].pc = "record", ![r].task = last + 1]
  PROVE  HandlersOwn'
<1>0. PICK x : x = [h[r] EXCEPT !.pc = "record", !.task = last + 1]
  OBVIOUS
<1>1. /\ x.id = h[r].id /\ x.task = last + 1 /\ x.snap = h[r].snap
      /\ x.op = h[r].op /\ x.todo = h[r].todo /\ x.pc = "record"
  BY <1>0 DEF TypeInv, GoodHandler, Handler
<1>2. h' = [h EXCEPT ![r] = x] /\ last' = last + 1
  BY Zenon, <1>0 DEF Issue, TypeInv
<1>3. OwnsLasts
  BY IssueOwns DEF TypeInv
<1>4. x.id \in ID => Owns(x.id, x.task)'
  <2>1. Issue(kind, x.id, man)
    BY <1>1
  <2>2. Owns(x.id, last)'
    BY <2>1, IssueOwns DEF TypeInv
  <2> QED BY <1>1, <1>2, <2>2 DEF Owns
<1>5. \A i \in ID : Owns(i, x.snap[i].task)'
  BY <1>1, <1>3, SnapLasts
<1>6. x.op = "status" => \A c \in x.todo : Owns(c[1], c[2])'
  BY Zenon, <1>1, <1>3, HandlerLasts
<1> QED BY Zenon, <1>1, <1>2, <1>3, <1>4, <1>5, <1>6, HandlersOwnPut

\* An admin handler drops the task at the head of its loop.
LEMMA LoopOwns ==
  ASSUME TypeInv, HandlersOwn, OwnsLasts, NEW r \in Req, NEW n, Loop(r, n)
  PROVE  HandlersOwn'
<1>0. PICK x : x = [h[r] EXCEPT !.pc = "next", !.id = "none", !.gen = 0, !.task = 0,
                             !.resp = "none", !.man = NoManifest,
                             !.count = h[r].count + n]
  OBVIOUS
<1>1. /\ x.task = 0 /\ x.snap = h[r].snap /\ x.op = h[r].op /\ x.todo = h[r].todo
  BY <1>0 DEF TypeInv, GoodHandler, Handler
<1>2. h' = [h EXCEPT ![r] = x]
  BY <1>0 DEF Loop
<1>3. x.id \in ID => Owns(x.id, x.task)'
  BY <1>1 DEF Owns
<1>4. \A i \in ID : Owns(i, x.snap[i].task)'
  BY <1>1, SnapLasts
<1>5. x.op = "status" => \A c \in x.todo : Owns(c[1], c[2])'
  BY Zenon, <1>1, HandlerLasts
<1> QED BY Zenon, <1>1, <1>2, <1>3, <1>4, <1>5, HandlersOwnPut
-----------------------------------------------------------------------------
(* The ways an object is written.                                          *)

\* inst.State = v leaves the task.
LEMMA HeapStateOwns ==
  ASSUME TypeInv, HeapOwns, OwnsLasts, NEW i, NEW g, NEW v,
         heap' = [heap EXCEPT ![i][g].state = v]
  PROVE  HeapOwns'
<1>1. ASSUME i \in ID, g \in Gen
      PROVE  [heap[i][g] EXCEPT !.state = v].task = heap[i][g].task
  <2>1. heap[i][g] \in Instance
    BY <1>1 DEF TypeInv, BrokerOK, Heap
  <2> QED BY <2>1 DEF Instance
<1> QED BY Zenon, <1>1, HeapOwnsPut

\* inst.SSOEnabled = v leaves the task.
LEMMA HeapSsoOwns ==
  ASSUME TypeInv, HeapOwns, OwnsLasts, NEW i, NEW g, NEW v,
         heap' = [heap EXCEPT ![i][g].sso = v]
  PROVE  HeapOwns'
<1>1. ASSUME i \in ID, g \in Gen
      PROVE  [heap[i][g] EXCEPT !.sso = v].task = heap[i][g].task
  <2>1. heap[i][g] \in Instance
    BY <1>1 DEF TypeInv, BrokerOK, Heap
  <2> QED BY <2>1 DEF Instance
<1> QED BY Zenon, <1>1, HeapOwnsPut

\* The handler's own task goes to the object it holds, in the handler's slot.
LEMMA HeapTaskOwns ==
  ASSUME TypeInv, HeapOwns, HandlersOwn, UNCHANGED directorVars, NEW r \in Req, NEW x,
         heap' = [heap EXCEPT ![h[r].id][h[r].gen] = x],
         h[r].id \in ID /\ h[r].gen \in Gen => x.task = h[r].task
  PROVE  HeapOwns'
<1>1. OwnsLasts
  BY DirectorIdle
<1>2. PICK i, g : i = h[r].id /\ g = h[r].gen
  OBVIOUS
<1>3. i \in ID /\ g \in Gen => Owns(i, x.task)'
  BY <1>1, <1>2, HandlerLasts DEF Owns
<1> QED BY Zenon, <1>1, <1>2, <1>3, HeapOwnsPut

\* instance.BoshTaskID = taskID.
LEMMA RecordTaskOwns ==
  ASSUME TypeInv, HeapOwns, HandlersOwn, UNCHANGED directorVars, NEW r \in Req,
         RecordTask(r)
  PROVE  HeapOwns'
<1>1. ASSUME h[r].id \in ID, h[r].gen \in Gen
      PROVE  [heap[h[r].id][h[r].gen] EXCEPT !.task = h[r].task].task = h[r].task
  <2>1. heap[h[r].id][h[r].gen] \in Instance
    BY <1>1 DEF TypeInv, BrokerOK, Heap
  <2> QED BY <2>1 DEF Instance
<1> QED BY Zenon, <1>1, HeapTaskOwns DEF RecordTask

\* A new object has no task.
LEMMA HeapNewOwns ==
  ASSUME TypeInv, HeapOwns, OwnsLasts, NEW i, NEW g, NEW x, x.task = 0,
         heap' = [heap EXCEPT ![i][g] = x]
  PROVE  HeapOwns'
BY Zenon, ZeroOwned, HeapOwnsPut
-----------------------------------------------------------------------------
(* The actions.                                                            *)

Owned == HeapOwns /\ FileOwns /\ TrackerOwns /\ HandlersOwn

\* A step that writes neither the file nor the tracker.
LEMMA MemoryStep ==
  ASSUME TypeInv, Owned, OwnsLasts, HeapOwns', HandlersOwn', UNCHANGED <<tracker, disk>>
  PROVE  Owned'
BY FileOwnsKept, TrackerOwnsKept DEF Owned

\* A step that writes only handlers, and perhaps calls the director.
LEMMA CallStep ==
  ASSUME TypeInv, Owned, OwnsLasts, HandlersOwn', UNCHANGED brokerVars PROVE Owned'
<1>1. UNCHANGED heap /\ UNCHANGED <<tracker, disk>>
  BY DEF brokerVars
<1> QED BY <1>1, HeapOwnsKept, MemoryStep DEF Owned

\* The answers given under the lock alone.
LEMMA QuietAnswers ==
  ASSUME TypeInv, Owned, NEW r \in Req, NEW id, NEW org, NEW plan,
         \/ ProvisionReject(r, id, org, plan) \/ DeprovisionAgain(r, id)
         \/ UpdateReject(r, id, plan) \/ LastOpAnswer(r, id) \/ Bind(r, id)
  PROVE  Owned'
<1>1. \E op, resp : Answer(r, op, id, resp)
  BY Zenon DEF ProvisionReject, DeprovisionAgain, UpdateReject, LastOpAnswer,
     Bind
<1>2. UNCHANGED brokerVars /\ UNCHANGED directorVars
  BY Zenon DEF ProvisionReject, DeprovisionAgain, UpdateReject, LastOpAnswer,
     Bind
<1>3. OwnsLasts
  BY <1>2, DirectorIdle
<1>4. HandlersOwn'
  BY <1>1, <1>3, AnswerOwns DEF Owned
<1> QED BY <1>2, <1>3, <1>4, CallStep

\* ProvisionReserve keeps every task with its instance.
LEMMA ProvisionReserveOwns ==
  ASSUME TypeInv, Owned, NEW r \in Req, NEW id, NEW org, NEW plan, NEW g,
         ProvisionReserve(r, id, org, plan, g)
  PROVE  Owned'
<1>1. OwnsLasts
  BY DirectorIdle DEF ProvisionReserve
<1>2. HeapOwns'
  <2> DEFINE x == [org |-> org, state |-> "provisioning", task |-> 0,
                   version |-> cfg.version, plan |-> plan, sso |-> FALSE]
  <2>1. x.task = 0
    OBVIOUS
  <2>2. heap' = [heap EXCEPT ![id][g] = x]
    BY DEF ProvisionReserve
  <2> HIDE DEF x
  <2> QED BY Zenon, <1>1, <2>1, <2>2, HeapNewOwns DEF Owned
<1>3. HandlersOwn'
  <2> DEFINE x == [Idle EXCEPT !.op = "provision", !.id = id, !.gen = g,
                               !.pc = IF cfg.sso THEN "uaa" ELSE "call"]
  <2>1. x.task = 0 /\ x.snap = EmptyMap /\ x.op = "provision"
    BY DEF Idle
  <2>2. h' = [h EXCEPT ![r] = x]
    BY DEF ProvisionReserve
  <2> HIDE DEF x
  <2> QED BY Zenon, <1>1, <2>1, <2>2, EmptyHanded DEF Owned
<1> QED BY <1>1, <1>2, <1>3, MemoryStep DEF ProvisionReserve

\* DeprovisionOrphan keeps every task with its instance.
LEMMA DeprovisionOrphanOwns ==
  ASSUME TypeInv, Owned, NEW r \in Req, NEW id, NEW g, DeprovisionOrphan(r, id, g)
  PROVE  Owned'
<1>1. OwnsLasts
  BY DirectorIdle DEF DeprovisionOrphan
<1>2. HeapOwns'
  <2> DEFINE x == [NoInstance EXCEPT !.state = "deprovisioning"]
  <2>1. x.task = 0
    BY DEF NoInstance
  <2>2. heap' = [heap EXCEPT ![id][g] = x]
    BY DEF DeprovisionOrphan
  <2> HIDE DEF x
  <2> QED BY Zenon, <1>1, <2>1, <2>2, HeapNewOwns DEF Owned
<1>3. HandlersOwn'
  <2> DEFINE x == [Idle EXCEPT !.op = "orphan", !.id = id, !.gen = g, !.pc = AfterMark]
  <2>1. x.task = 0 /\ x.snap = EmptyMap /\ x.op = "orphan"
    BY DEF Idle
  <2>2. h' = [h EXCEPT ![r] = x]
    BY DEF DeprovisionOrphan
  <2> HIDE DEF x
  <2> QED BY Zenon, <1>1, <2>1, <2>2, EmptyHanded DEF Owned
<1> QED BY <1>1, <1>2, <1>3, MemoryStep DEF DeprovisionOrphan

\* DeprovisionMark keeps every task with its instance.
LEMMA DeprovisionMarkOwns ==
  ASSUME TypeInv, Owned, NEW r \in Req, NEW id, DeprovisionMark(r, id) PROVE Owned'
<1>1. OwnsLasts
  BY DirectorIdle DEF DeprovisionMark
<1>2. HeapOwns'
  BY Zenon, <1>1, HeapStateOwns DEF DeprovisionMark, Owned
<1>3. HandlersOwn'
  <2> DEFINE x == [Idle EXCEPT !.op = "deprovision", !.id = id, !.gen = cur[id],
                               !.was = Inst(id).state, !.pc = AfterMark]
  <2>1. x.task = 0 /\ x.snap = EmptyMap /\ x.op = "deprovision"
    BY DEF Idle
  <2>2. h' = [h EXCEPT ![r] = x]
    BY DEF DeprovisionMark
  <2> HIDE DEF x
  <2> QED BY Zenon, <1>1, <2>1, <2>2, EmptyHanded DEF Owned
<1> QED BY <1>1, <1>2, <1>3, MemoryStep DEF DeprovisionMark

\* UpdateRecover keeps every task with its instance.
LEMMA UpdateRecoverOwns ==
  ASSUME TypeInv, Owned, NEW r \in Req, NEW id, NEW plan, NEW g,
         UpdateRecover(r, id, plan, g)
  PROVE  Owned'
<1>1. OwnsLasts
  BY DirectorIdle DEF UpdateRecover
<1>2. HeapOwns'
  <2> DEFINE x == [org |-> NoOrg, state |-> "provisioning", task |-> 0,
                   version |-> cfg.version, sso |-> FALSE,
                   plan |-> IF plan \in Plans THEN plan ELSE FirstPlan]
  <2>1. x.task = 0
    OBVIOUS
  <2>2. heap' = [heap EXCEPT ![id][g] = x]
    BY DEF UpdateRecover
  <2> HIDE DEF x
  <2> QED BY Zenon, <1>1, <2>1, <2>2, HeapNewOwns DEF Owned
<1>3. HandlersOwn'
  <2>1. \A man : /\ [Idle EXCEPT !.op = "update", !.pc = "call", !.id = id, !.gen = g,
                                 !.man = man].task = 0
                 /\ [Idle EXCEPT !.op = "update", !.pc = "call", !.id = id, !.gen = g,
                                 !.man = man].snap = EmptyMap
                 /\ [Idle EXCEPT !.op = "update", !.pc = "call", !.id = id, !.gen = g,
                                 !.man = man].op = "update"
    BY DEF Idle
  <2>2. \E man : h' = [h EXCEPT ![r] = [Idle EXCEPT !.op = "update", !.pc = "call",
                                          !.id = id, !.gen = g, !.man = man]]
    BY Zenon DEF UpdateRecover
  <2> QED BY Zenon, <1>1, <2>1, <2>2, EmptyHanded DEF Owned
<1> QED BY <1>1, <1>2, <1>3, MemoryStep DEF UpdateRecover

\* UpdateExisting keeps every task with its instance.
LEMMA UpdateExistingOwns ==
  ASSUME TypeInv, Owned, NEW r \in Req, NEW id \in ID, NEW plan,
         UpdateExisting(r, id, plan)
  PROVE  Owned'
<1>1. OwnsLasts
  BY DirectorIdle DEF UpdateExisting
<1>2. HeapOwns'
  <2> DEFINE x == [Inst(id) EXCEPT !.plan = IF plan = NoPlan THEN @ ELSE plan]
  <2>1. Inst(id) \in Instance
    BY InstType DEF UpdateExisting, Exists, TypeInv
  <2>2. x.task = heap[id][cur[id]].task
    BY <2>1 DEF Instance, Inst
  <2>3. heap' = [heap EXCEPT ![id][cur[id]] = x]
    BY DEF UpdateExisting
  <2> HIDE DEF x
  <2> QED BY Zenon, <1>1, <2>2, <2>3, HeapOwnsPut DEF Owned
<1>3. HandlersOwn'
  <2>1. \A man : /\ [Idle EXCEPT !.op = "update", !.pc = "call", !.id = id,
                                 !.gen = cur[id], !.man = man].task = 0
                 /\ [Idle EXCEPT !.op = "update", !.pc = "call", !.id = id,
                                 !.gen = cur[id], !.man = man].snap = EmptyMap
                 /\ [Idle EXCEPT !.op = "update", !.pc = "call", !.id = id,
                                 !.gen = cur[id], !.man = man].op = "update"
    BY DEF Idle
  <2>2. \E man : h' = [h EXCEPT ![r] = [Idle EXCEPT !.op = "update", !.pc = "call",
                                          !.id = id, !.gen = cur[id], !.man = man]]
    BY Zenon DEF UpdateExisting
  <2> QED BY Zenon, <1>1, <2>1, <2>2, EmptyHanded DEF Owned
<1> QED BY <1>1, <1>2, <1>3, MemoryStep DEF UpdateExisting
\* LastOperation takes over the task of the object it read.
LEMMA LastOpReadOwns ==
  ASSUME TypeInv, Owned, NEW r \in Req, NEW id \in ID, LastOpRead(r, id) PROVE Owned'
<1>1. OwnsLasts
  BY DirectorIdle DEF LastOpRead
<1>2. cur[id] \in Gen /\ Inst(id) \in Instance
  BY InstType DEF LastOpRead, Exists, TypeInv
<1>3. PICK x : x = [Idle EXCEPT !.op = "lastop", !.pc = "poll", !.id = id,
                      !.gen = cur[id], !.task = Inst(id).task, !.was = Inst(id).state]
  OBVIOUS
<1>4. /\ x.op = "lastop" /\ x.id = id /\ x.task = Inst(id).task
      /\ x.snap = EmptyMap
  BY <1>3 DEF Idle
<1>5. h' = [h EXCEPT ![r] = x]
  BY <1>3 DEF LastOpRead
<1>6. Owns(id, x.task)
  BY <1>2, <1>4 DEF Owned, HeapOwns, Inst
<1>7. Owns(id, x.task)'
  BY <1>1, <1>2, <1>4, <1>6 DEF OwnsLasts, Instance
<1>8. \A i \in ID : x.snap[i].task = 0
  BY <1>4 DEF EmptyMap, NoInstance
<1>9. HandlersOwn'
  BY Zenon, <1>1, <1>4, <1>5, <1>7, <1>8, HandlersOwnPut, ZeroOwned DEF Owned
<1> QED BY <1>1, <1>9, CallStep DEF LastOpRead

\* UpgradeCollect keeps every task with its instance.
LEMMA UpgradeCollectOwns ==
  ASSUME TypeInv, Owned, NEW r \in Req, NEW count, NEW todo,
         UpgradeCollect(r, count, todo)
  PROVE  Owned'
<1>1. OwnsLasts
  BY DirectorIdle DEF UpgradeCollect
<1>2. ASSUME NEW x, h' = [h EXCEPT ![r] = x],
             x.op = "upgrade", x.task = 0, x.snap = EmptyMap
      PROVE  Owned'
  BY Zenon, <1>1, <1>2, EmptyHanded, CallStep DEF Owned, UpgradeCollect
<1>3. \/ h' = [h EXCEPT ![r] = [Idle EXCEPT !.op = "upgrade", !.pc = "replied",
                                             !.resp = "rejected"]]
      \/ h' = [h EXCEPT ![r] = [Idle EXCEPT !.op = "upgrade", !.pc = "next",
                                             !.todo = todo]]
  BY DEF UpgradeCollect
<1>4. \A x : /\ x = [Idle EXCEPT !.op = "upgrade", !.pc = "replied", !.resp = "rejected"]
                 \/ x = [Idle EXCEPT !.op = "upgrade", !.pc = "next", !.todo = todo]
              => x.op = "upgrade" /\ x.task = 0 /\ x.snap = EmptyMap
  BY Zenon DEF Idle
<1> QED BY <1>2, <1>3, <1>4

\* AdminUpgradeStatus copies the tracker, whose tasks belong where they are.
LEMMA StatusCopyOwns ==
  ASSUME TypeInv, Owned, NEW r \in Req, StatusCopy(r) PROVE Owned'
<1>1. OwnsLasts
  BY DirectorIdle DEF StatusCopy
<1>2. PICK todo : todo = {<<i, tracker[i]>> : i \in {j \in ID : tracker[j] # 0}}
  BY ZenonT(60)
<1>3. PICK x : x = [Idle EXCEPT !.op = "status", !.pc = "next", !.todo = todo]
  OBVIOUS
<1>4. x.op = "status" /\ x.task = 0 /\ x.snap = EmptyMap /\ x.todo = todo
  BY <1>3 DEF Idle
<1>5. h' = [h EXCEPT ![r] = x]
  BY <1>2, <1>3 DEF StatusCopy
<1>6. \A c \in x.todo : Owns(c[1], c[2])'
  <2> TAKE c \in x.todo
  <2>1. PICK i \in ID : c = <<i, tracker[i]>>
    BY <1>2, <1>4
  <2>2. Owns(c[1], c[2]) /\ c[1] \in ID /\ c[2] \in Nat
    BY <2>1 DEF Owned, TrackerOwns, TypeInv, BrokerOK
  <2> QED BY <1>1, <2>2 DEF OwnsLasts
<1>7. \A i \in ID : x.snap[i].task = 0
  BY <1>4 DEF EmptyMap, NoInstance
<1>8. HandlersOwn'
  BY Zenon, <1>1, <1>4, <1>5, <1>6, <1>7, HandlersOwnPut, ZeroOwned DEF Owned
<1> QED BY <1>1, <1>8, CallStep DEF StatusCopy

\* ProvisionUaa keeps every task with its instance.
LEMMA ProvisionUaaOwns ==
  ASSUME TypeInv, Owned, NEW r \in Req, ProvisionUaa(r) PROVE Owned'
<1>1. OwnsLasts
  BY DirectorIdle DEF ProvisionUaa
<1>2. HeapOwns'
  <2>1. CASE UNCHANGED heap
    BY <1>1, <2>1, HeapOwnsKept DEF Owned
  <2>2. CASE heap' = [heap EXCEPT ![h[r].id][h[r].gen].sso = TRUE]
    BY Zenon, <1>1, <2>2, HeapSsoOwns DEF Owned
  <2> QED BY Zenon, <2>1, <2>2 DEF ProvisionUaa
<1>3. HandlersOwn'
  BY <1>1, GotoOwns DEF ProvisionUaa, Owned
<1> QED BY <1>1, <1>2, <1>3, MemoryStep DEF ProvisionUaa

\* CreateDeployment and DeleteDeployment, answered or not.
LEMMA CallsOwn ==
  ASSUME TypeInv, Owned, NEW r \in Req,
         \/ ProvisionCall(r) \/ DeprovisionCall(r) \/ UpdateCall(r) \/ UpgradeCall(r)
  PROVE  Owned'
<1>1. UNCHANGED brokerVars
  BY DEF ProvisionCall, DeprovisionCall, UpdateCall, UpgradeCall
<1>2. ASSUME NEW kind, NEW man, Issue(kind, h[r].id, man),
             h' = [h EXCEPT ![r].pc = "record", ![r].task = last + 1]
      PROVE  Owned'
  <2>1. OwnsLasts
    BY <1>2, IssueOwns DEF TypeInv
  <2>2. HandlersOwn'
    BY Zenon, <1>2, GivenOwns DEF Owned
  <2> QED BY <1>1, <2>1, <2>2, CallStep
<1>3. ASSUME NEW kind, NEW man,
             CallFails(kind, h[r].id, man) \/ UNCHANGED directorVars,
             Goto(r, "undo") \/ Reply(r, "error") \/ Loop(r, 0)
      PROVE  Owned'
  <2>1. OwnsLasts
    BY <1>3, CallFailsOwns, DirectorIdle DEF TypeInv
  <2>2. HandlersOwn'
    BY <1>3, <2>1, GotoOwns, ReplyOwns, LoopOwns DEF Owned
  <2> QED BY <1>1, <2>1, <2>2, CallStep
<1> QED BY <1>2, <1>3 DEF ProvisionCall, DeprovisionCall, UpdateCall,
           UpgradeCall

\* The error paths of Provision and Deprovision.
LEMMA UndoesOwn ==
  ASSUME TypeInv, Owned, NEW r \in Req, ProvisionUndo(r) \/ DeprovisionUndo(r)
  PROVE  Owned'
<1>1. OwnsLasts
  BY DirectorIdle DEF ProvisionUndo, DeprovisionUndo
<1>2. HeapOwns'
  <2>1. CASE UNCHANGED heap
    BY <1>1, <2>1, HeapOwnsKept DEF Owned
  <2>2. CASE heap' = [heap EXCEPT ![h[r].id][h[r].gen].state = h[r].was]
    BY Zenon, <1>1, <2>2, HeapStateOwns DEF Owned
  <2> QED BY <2>1, <2>2 DEF ProvisionUndo, DeprovisionUndo
<1>3. HandlersOwn'
  BY <1>1, ReplyOwns DEF ProvisionUndo, DeprovisionUndo, Owned
<1> QED BY <1>1, <1>2, <1>3, MemoryStep DEF ProvisionUndo, DeprovisionUndo

\* The ends of Provision and Deprovision.
LEMMA RecordsOwn ==
  ASSUME TypeInv, Owned, NEW r \in Req, ProvisionRecord(r) \/ DeprovisionRecord(r)
  PROVE  Owned'
<1>1. OwnsLasts
  BY DirectorIdle DEF ProvisionRecord, DeprovisionRecord
<1>2. HeapOwns'
  BY RecordTaskOwns DEF ProvisionRecord, DeprovisionRecord, Owned
<1>3. HandlersOwn'
  BY <1>1, SaveOwns DEF ProvisionRecord, DeprovisionRecord, Owned
<1> QED BY <1>1, <1>2, <1>3, MemoryStep DEF ProvisionRecord, DeprovisionRecord

\* The ends of Update and of one round of AdminUpgrade.
LEMMA UpdateRecordOwns ==
  ASSUME TypeInv, Owned, NEW r \in Req, UpdateRecord(r) \/ UpgradeRecord(r)
  PROVE  Owned'
<1>1. OwnsLasts /\ UNCHANGED directorVars
  BY DirectorIdle DEF UpdateRecord, UpgradeRecord
<1>2. HeapOwns'
  <2> DEFINE o == heap[h[r].id][h[r].gen]
             x == [o EXCEPT !.state = "provisioning", !.task = h[r].task]
             y == [o EXCEPT !.state = "provisioning", !.task = h[r].task,
                            !.version = cfg.version]
  <2>1. h[r].id \in ID /\ h[r].gen \in Gen => o \in Instance
    BY DEF TypeInv, BrokerOK, Heap
  <2>2. o \in Instance => x.task = h[r].task /\ y.task = h[r].task
    BY DEF Instance
  <2>3. \/ heap' = [heap EXCEPT ![h[r].id][h[r].gen] = x]
        \/ heap' = [heap EXCEPT ![h[r].id][h[r].gen] = y]
    BY DEF UpdateRecord, UpgradeRecord
  <2> HIDE DEF o, x, y
  <2> QED BY <1>1, <2>1, <2>2, <2>3, HeapTaskOwns DEF Owned
<1>3. HandlersOwn'
  BY <1>1, SaveOwns, GotoOwns DEF UpdateRecord, UpgradeRecord, Owned
<1> QED BY <1>1, <1>2, <1>3, MemoryStep DEF UpdateRecord, UpgradeRecord
\* deleteUAAClient keeps every task with its instance.
LEMMA deleteUAAClientOwns ==
  ASSUME TypeInv, Owned, NEW r \in Req, deleteUAAClient(r) PROVE Owned'
<1>1. OwnsLasts
  BY DirectorIdle DEF deleteUAAClient
<1>2. HandlersOwn'
  BY <1>1, GotoOwns DEF deleteUAAClient, Owned
<1> QED BY <1>1, <1>2, CallStep DEF deleteUAAClient

\* LastOpPoll keeps every task with its instance.
LEMMA LastOpPollOwns ==
  ASSUME TypeInv, Owned, NEW r \in Req, LastOpPoll(r) PROVE Owned'
<1>1. OwnsLasts
  BY Zenon, DirectorIdle DEF LastOpPoll
<1>2. \/ \E resp : h' = [h EXCEPT ![r].pc = "apply", ![r].resp = resp]
      \/ \E resp : Reply(r, resp)
  BY Zenon DEF LastOpPoll
<1>3. ASSUME NEW resp, h' = [h EXCEPT ![r].pc = "apply", ![r].resp = resp]
      PROVE  HandlersOwn'
  <2>1. PICK x : x = [h[r] EXCEPT !.pc = "apply", !.resp = resp]
    OBVIOUS
  <2>2. /\ x.id = h[r].id /\ x.task = h[r].task /\ x.snap = h[r].snap
        /\ x.op = h[r].op /\ x.todo = h[r].todo /\ x.pc = "apply"
    BY <2>1 DEF TypeInv, GoodHandler, Handler
  <2>3. h' = [h EXCEPT ![r] = x]
    BY Zenon, <1>3, <2>1 DEF TypeInv
  <2>4. x.id \in ID => Owns(x.id, x.task)'
    BY <1>1, <2>2, HandlerLasts DEF Owned, Owns
  <2>5. \A i \in ID : Owns(i, x.snap[i].task)'
    BY <1>1, <2>2, HandlerLasts DEF Owned, Owns
  <2>6. x.op = "status" => \A c \in x.todo : Owns(c[1], c[2])'
    BY Zenon, <1>1, <2>2, HandlerLasts DEF Owned
  <2> QED BY Zenon, <1>1, <2>2, <2>3, <2>4, <2>5, <2>6, HandlersOwnPut DEF Owned
<1>4. HandlersOwn'
  BY <1>1, <1>2, <1>3, ReplyOwns DEF Owned
<1> QED BY Zenon, <1>1, <1>4, CallStep DEF LastOpPoll

\* The verdicts of LastOperation and AdminUpgradeStatus.
LEMMA AppliesOwn ==
  ASSUME TypeInv, Owned, NEW r \in Req, LastOpApply(r) \/ StatusApply(r)
  PROVE  Owned'
<1>1. OwnsLasts
  BY DirectorIdle DEF LastOpApply, StatusApply
<1>2. HeapOwns'
  <2>1. CASE UNCHANGED heap
    BY <1>1, <2>1, HeapOwnsKept DEF Owned
  <2>2. ASSUME NEW i, NEW g, NEW s, heap' = [heap EXCEPT ![i][g].state = s]
        PROVE  HeapOwns'
    BY Zenon, <1>1, <2>2, HeapStateOwns DEF Owned
  <2> QED BY Zenon, <2>1, <2>2 DEF LastOpApply, StatusApply
<1>3. HandlersOwn'
  BY <1>1, SaveOwns, LoopOwns DEF LastOpApply, StatusApply, Owned
<1> QED BY <1>1, <1>2, <1>3, MemoryStep DEF LastOpApply, StatusApply

\* The next instance of an admin loop starts without the last one's task.
LEMMA UpgradeParamsOwns ==
  ASSUME TypeInv, Owned, NEW r \in Req, UpgradeParams(r) PROVE Owned'
<1>1. OwnsLasts
  BY DirectorIdle DEF UpgradeParams
<1>2. PICK c \in h[r].todo : \E m :
        h' = [h EXCEPT ![r] = [h[r] EXCEPT !.pc = "call", !.id = c[1], !.gen = c[2],
                                           !.man = m, !.todo = h[r].todo \ {c}]]
  BY Zenon DEF UpgradeParams
<1>3. PICK m :
        h' = [h EXCEPT ![r] = [h[r] EXCEPT !.pc = "call", !.id = c[1], !.gen = c[2],
                                           !.man = m, !.todo = h[r].todo \ {c}]]
  BY Zenon, <1>2
<1>4. PICK x : x = [h[r] EXCEPT !.pc = "call", !.id = c[1], !.gen = c[2],
                                !.man = m, !.todo = h[r].todo \ {c}]
  OBVIOUS
<1>5. x.op = "upgrade" /\ x.pc = "call" /\ x.task = h[r].task /\ x.snap = h[r].snap
  BY <1>4 DEF TypeInv, GoodHandler, Handler, UpgradeParams, Running
<1>6. x.task = 0
  BY <1>1, <1>5, HandlerLasts DEF UpgradeParams, Running, Owned
<1>7. \A i \in ID : Owns(i, x.snap[i].task)'
  BY <1>1, <1>5, HandlerLasts DEF Owned, Owns
<1>8. HandlersOwn'
  BY Zenon, <1>1, <1>3, <1>4, <1>5, <1>6, <1>7, ZeroOwned, HandlersOwnPut
     DEF Owned
<1> QED BY <1>1, <1>8, CallStep DEF UpgradeParams

\* StatusPoll keeps every task with its instance.
LEMMA StatusPollOwns ==
  ASSUME TypeInv, Owned, NEW r \in Req, StatusPoll(r) PROVE Owned'
<1>1. OwnsLasts
  BY DirectorIdle DEF StatusPoll
<1>2. PICK c \in h[r].todo : \E s \in TaskStatus(c[2]) :
        h' = [h EXCEPT ![r] =
               [h[r] EXCEPT !.todo = h[r].todo \ {c},
                         !.pc = IF s \in {"done", "error"} THEN "apply" ELSE "next",
                         !.id = IF s \in {"done", "error"} THEN c[1] ELSE "none",
                         !.resp = PollOutcome(s)]]
  BY Zenon DEF StatusPoll
<1>3. PICK pc, id, resp :
        h' = [h EXCEPT ![r] = [h[r] EXCEPT !.todo = h[r].todo \ {c}, !.pc = pc,
                                           !.id = id, !.resp = resp]]
  BY Zenon, <1>2
<1>4. PICK x : x = [h[r] EXCEPT !.todo = h[r].todo \ {c}, !.pc = pc,
                                !.id = id, !.resp = resp]
  OBVIOUS
<1>5. /\ x.op = "status" /\ x.task = h[r].task /\ x.snap = h[r].snap
      /\ x.todo = h[r].todo \ {c}
  BY <1>4 DEF TypeInv, GoodHandler, Handler, StatusPoll, Running
<1>6. x.task = 0
  BY <1>1, <1>5, HandlerLasts DEF StatusPoll, Running, Owned
<1>7. \A i \in ID : Owns(i, x.snap[i].task)'
  BY <1>1, <1>5, SnapLasts DEF Owned
<1>8. \A d \in x.todo : Owns(d[1], d[2])'
  BY <1>1, <1>5, HandlerLasts DEF Owned, StatusPoll, Running
<1>9. HandlersOwn'
  BY Zenon, <1>1, <1>3, <1>4, <1>5, <1>6, <1>7, <1>8, ZeroOwned,
     HandlersOwnPut DEF Owned
<1> QED BY <1>1, <1>9, CallStep DEF StatusPoll

\* UpgradeTrack keeps every task with its instance.
LEMMA UpgradeTrackOwns ==
  ASSUME TypeInv, Owned, NEW r \in Req, UpgradeTrack(r) PROVE Owned'
<1>1. OwnsLasts
  BY DirectorIdle DEF UpgradeTrack
<1>2. HeapOwns' /\ FileOwns'
  BY <1>1, HeapOwnsKept, FileOwnsKept DEF UpgradeTrack, Owned
<1>3. HandlersOwn'
  BY <1>1, LoopOwns DEF UpgradeTrack, Owned
<1>4. TrackerOwns'
  <2>1. \A i \in ID : tracker'[i] = IF i = h[r].id THEN h[r].task ELSE tracker[i]
    BY DEF UpgradeTrack, TypeInv, BrokerOK
  <2>2. \A i \in ID : tracker[i] \in Nat /\ Owns(i, tracker[i])
    BY DEF TypeInv, BrokerOK, Owned, TrackerOwns
  <2>3. \A i \in ID, t \in Nat : Owns(i, t) => (t # 0 => t \in TaskId /\ t <= last'
                                                   /\ tasks'[t].id = i)
    BY <1>1 DEF OwnsLasts, Owns
  <2>4. \A i \in ID : tracker'[i] # 0 => tracker'[i] \in TaskId /\ tracker'[i] <= last'
                                      /\ tasks'[tracker'[i]].id = i
    <3> SUFFICES ASSUME NEW i \in ID, tracker'[i] # 0
                 PROVE  /\ tracker'[i] \in TaskId /\ tracker'[i] <= last'
                        /\ tasks'[tracker'[i]].id = i
      OBVIOUS
    <3>1. CASE i = h[r].id
      <4>1. h[r].task # 0 => /\ h[r].task \in TaskId /\ h[r].task <= last'
                             /\ tasks'[h[r].task].id = i
        BY Zenon, <1>1, <3>1, HandlerLasts DEF Owned
      <4>2. tracker'[i] = h[r].task
        BY Zenon, <2>1, <3>1
      <4> QED BY Zenon, <4>1, <4>2
    <3>2. CASE i # h[r].id
      <4>1. tracker'[i] = tracker[i]
        BY Zenon, <2>1, <3>2
      <4> QED BY Zenon, <2>2, <2>3, <4>1
    <3> QED BY <3>1, <3>2
  <2> QED BY <2>4 DEF TrackerOwns, Owns
<1> QED BY <1>2, <1>3, <1>4 DEF Owned

\* AdminEnd keeps every task with its instance.
LEMMA AdminEndOwns ==
  ASSUME TypeInv, Owned, NEW r \in Req, AdminEnd(r) PROVE Owned'
BY DirectorIdle, SaveOwns, CallStep DEF AdminEnd, Owned
\* saveState marshals records whose tasks are their own, writes them, and a
\* restart reads them back.
LEMMA SaveMarshalOwns ==
  ASSUME TypeInv, Owned, NEW r \in Req, SaveMarshal(r) PROVE Owned'
<1>1. OwnsLasts
  BY DirectorIdle DEF SaveMarshal
<1>2. PICK snap : snap = Snapshot
  OBVIOUS
<1>3. PICK x : x = [h[r] EXCEPT !.pc = "write", !.snap = snap]
  OBVIOUS
<1>4. /\ x.id = h[r].id /\ x.task = h[r].task /\ x.snap = snap
      /\ x.op = h[r].op /\ x.todo = h[r].todo /\ x.pc = "write"
  BY <1>3 DEF TypeInv, GoodHandler, Handler
<1>5. h' = [h EXCEPT ![r] = x]
  BY Zenon, <1>2, <1>3 DEF SaveMarshal, TypeInv
<1>6. \A i \in ID : snap[i].task \in Nat /\ Owns(i, snap[i].task)
  <2> TAKE i \in ID
  <2>1. CASE Exists(i)
    <3>1. cur[i] \in Gen /\ Inst(i) \in Instance /\ snap[i] = Inst(i)
      BY <1>2, <2>1, InstType DEF Exists, Snapshot, TypeInv
    <3> QED BY <3>1 DEF Owned, HeapOwns, Inst, Instance
  <2>2. CASE ~Exists(i)
    <3>1. snap[i].task = 0
      BY <1>2, <2>2 DEF Snapshot, NoInstance
    <3> QED BY <3>1, ZeroOwned
  <2> QED BY <2>1, <2>2
<1>7. \A i \in ID : Owns(i, x.snap[i].task)'
  BY <1>1, <1>4, <1>6 DEF OwnsLasts
<1>8. x.id \in ID => Owns(x.id, x.task)'
  BY <1>1, <1>4, HandlerLasts DEF Owned, Owns
<1>9. x.op = "status" => \A c \in x.todo : Owns(c[1], c[2])'
  BY Zenon, <1>1, <1>4, HandlerLasts DEF Owned
<1>10. HandlersOwn'
  BY Zenon, <1>1, <1>4, <1>5, <1>7, <1>8, <1>9, HandlersOwnPut DEF Owned
<1> QED BY <1>1, <1>10, CallStep DEF SaveMarshal

\* SaveWrite keeps every task with its instance.
LEMMA SaveWriteOwns ==
  ASSUME TypeInv, Owned, NEW r \in Req, SaveWrite(r) PROVE Owned'
<1>1. OwnsLasts
  BY DirectorIdle DEF SaveWrite
<1>2. HeapOwns' /\ TrackerOwns'
  BY <1>1, HeapOwnsKept, TrackerOwnsKept DEF SaveWrite, Owned
<1>3. HandlersOwn'
  BY <1>1, ReplyOwns DEF SaveWrite, Owned
<1>4. FileOwns'
  <2>1. CASE UNCHANGED disk
    BY <1>1, <2>1, FileOwnsKept DEF Owned
  <2>2. CASE disk' = h[r].snap
    <3>1. \A i \in ID : disk'[i].task # 0 =>
            /\ disk'[i].task \in TaskId /\ disk'[i].task <= last'
            /\ tasks'[disk'[i].task].id = i
      BY <1>1, <2>2, HandlerLasts DEF Owned
    <3> QED BY <3>1 DEF FileOwns, Owns
  <2> QED BY <2>1, <2>2 DEF SaveWrite
<1> QED BY <1>2, <1>3, <1>4 DEF Owned

\* Return keeps every task with its instance.
LEMMA ReturnOwns ==
  ASSUME TypeInv, Owned, NEW r \in Req, Return(r) PROVE Owned'
<1>1. OwnsLasts
  BY DirectorIdle DEF Return
<1>2. Idle.task = 0 /\ Idle.snap = EmptyMap /\ Idle.op = "none"
  BY DEF Idle
<1>3. HandlersOwn'
  BY Zenon, <1>1, <1>2, EmptyHanded DEF Return, Owned
<1> QED BY <1>1, <1>3, CallStep DEF Return

\* Crash keeps every task with its instance.
LEMMA CrashOwns == ASSUME TypeInv, Owned, Crash PROVE Owned'
<1>1. OwnsLasts
  BY DirectorIdle DEF Crash
<1>2. FileOwns'
  BY <1>1, FileOwnsKept DEF Crash, Owned
<1>3. \A i \in ID : disk'[i] = disk[i]
  BY DEF Crash
<1>4. HeapOwns'
  <2>1. \A i \in ID, g \in Gen : heap'[i][g] = disk'[i] \/ heap'[i][g].task = 0
    BY <1>3 DEF Crash, NoInstance
  <2> QED BY <1>2, <2>1 DEF HeapOwns, FileOwns, Owns
<1>5. TrackerOwns'
  BY DEF Crash, TrackerOwns, Owns
<1>6. HandlersOwn'
  <2>1. \A r \in Req : h'[r] = Idle
    BY DEF Crash
  <2>2. Idle.task = 0 /\ Idle.op = "none" /\ \A i \in ID : Idle.snap[i].task = 0
    BY DEF Idle, EmptyMap, NoInstance
  <2> QED BY <2>1, <2>2 DEF HandlersOwn, HandlerOwns, Owns
<1> QED BY <1>2, <1>4, <1>5, <1>6 DEF Owned

\* A step of the director touches nothing of the broker's.
LEMMA DirectorOwns ==
  ASSUME TypeInv, Owned, NEW t \in TaskId, Director(t) PROVE Owned'
<1>1. OwnsLasts
  BY RunOwns DEF TypeInv
<1>2. UNCHANGED brokerVars /\ UNCHANGED h
  BY DEF Director, TaskEnds
<1>3. HandlersOwn'
  BY <1>1, <1>2, HandlersKept DEF Owned
<1> QED BY <1>1, <1>2, <1>3, CallStep

\* Every first stretch of a handler keeps Owned,
LEMMA ArriveOwns ==
  ASSUME TypeInv, Owned, NEW r \in Req, Arrive(r) PROVE Owned'
BY QuietAnswers, ProvisionReserveOwns, DeprovisionOrphanOwns,
   DeprovisionMarkOwns,
   UpdateRecoverOwns, UpdateExistingOwns, LastOpReadOwns, UpgradeCollectOwns,
   StatusCopyOwns
   DEF Arrive

\* every later one does,
LEMMA StepOwns ==
  ASSUME TypeInv, Owned, NEW r \in Req, Step(r) PROVE Owned'
BY ProvisionUaaOwns, CallsOwn, UndoesOwn, RecordsOwn, UpdateRecordOwns,
   deleteUAAClientOwns, LastOpPollOwns, AppliesOwn, UpgradeParamsOwns,
   StatusPollOwns, UpgradeTrackOwns, AdminEndOwns, SaveMarshalOwns, SaveWriteOwns
   DEF Step

\* and so does a step in which nothing happens.
LEMMA StutterOwns == ASSUME TypeInv, Owned, UNCHANGED vars PROVE Owned'
<1>1. UNCHANGED brokerVars /\ UNCHANGED directorVars /\ UNCHANGED h
  BY DEF vars, brokerVars, directorVars
<1>2. OwnsLasts
  BY <1>1, DirectorIdle
<1> QED BY <1>1, <1>2, HandlersKept, CallStep DEF Owned

\* At the start there is no task to own.
LEMMA OwnedInit == Init => Owned
<1> SUFFICES ASSUME Init PROVE Owned
  OBVIOUS
<1>1. HeapOwns /\ FileOwns /\ TrackerOwns
  BY ZeroOwned DEF Init, HeapOwns, FileOwns, TrackerOwns, EmptyMap, NoInstance
<1>2. Idle.task = 0 /\ Idle.op = "none" /\ \A i \in ID : Idle.snap[i].task = 0
  BY DEF Idle, EmptyMap, NoInstance
<1>3. HandlersOwn
  BY <1>2 DEF Init, HandlersOwn, HandlerOwns, Owns
<1> QED BY <1>1, <1>3 DEF Owned

\* Owned is inductive relative to the type invariant.
LEMMA OwnedStep == TypeInv /\ Owned /\ [Next]_vars => Owned'
BY ArriveOwns, StepOwns, ReturnOwns, DirectorOwns, CrashOwns, StutterOwns
   DEF Next, Rest

\* Task IDs never cross instances: whatever LastOperation or AdminUpgradeStatus
\* polls, whatever a record, the state file or a handler names, was issued by
\* the director for that same instance, for any number of instances, handlers
\* and restarts and under every fault of the model.
THEOREM TasksNeverCross == Spec => []TaskOwner
<1>1. Owned => TaskOwner
  BY DEF Owned, HeapOwns, FileOwns, TrackerOwns, HandlersOwn, HandlerOwns,
     TaskOwner
<1>2. Spec => []Owned
  BY OwnedInit, OwnedStep, TypeInvariant, PTL DEF Spec
<1> QED BY <1>1, <1>2, PTL

-----------------------------------------------------------------------------
(* What a step leaves alone.                                               *)

\* A task that is done stays done.
DoneLasts == \A t \in TaskId :
               t <= last /\ tasks[t].status = "done" => tasks'[t].status = "done"

\* A new task takes a new number.
LEMMA IssueKeepsDone ==
  ASSUME DirectorOK, NEW kind, NEW id, NEW man, Issue(kind, id, man)
  PROVE  DoneLasts
<1>1. last \in Nat /\ tasks \in [TaskId -> TaskRecord] /\ TaskId \subseteq Nat
  BY BoundFacts DEF DirectorOK, TaskId
<1>2. \A t \in TaskId : t <= last => tasks'[t] = tasks[t]
  BY <1>1 DEF Issue
<1> QED BY <1>2 DEF DoneLasts

\* Neither broker nor director takes back a verdict.
LEMMA DoneStays == ASSUME TypeInv, [Next]_vars PROVE DoneLasts
<1>1. ASSUME UNCHANGED tasks PROVE DoneLasts
  BY <1>1 DEF DoneLasts
<1>2. ASSUME NEW kind, NEW id, NEW man,
             Issue(kind, id, man) \/ CallFails(kind, id, man)
      PROVE  DoneLasts
  BY <1>1, <1>2, IssueKeepsDone DEF CallFails, TypeInv, directorVars
<1>3. ASSUME NEW r \in Req, Arrive(r) PROVE UNCHANGED tasks
  <2>1. ASSUME NEW id, NEW org, NEW plan, NEW g,
               \/ ProvisionReject(r, id, org, plan)
               \/ ProvisionReserve(r, id, org, plan, g)
               \/ UpdateReject(r, id, plan) \/ UpdateRecover(r, id, plan, g)
               \/ UpdateExisting(r, id, plan)
        PROVE  UNCHANGED tasks
    BY Zenon, <2>1 DEF ProvisionReject, ProvisionReserve, UpdateReject,
       UpdateRecover, UpdateExisting, directorVars
  <2>2. ASSUME NEW id, NEW g,
               \/ DeprovisionOrphan(r, id, g) \/ DeprovisionAgain(r, id)
               \/ DeprovisionMark(r, id) \/ LastOpAnswer(r, id)
               \/ LastOpRead(r, id) \/ Bind(r, id)
        PROVE  UNCHANGED tasks
    BY Zenon, <2>2 DEF DeprovisionOrphan, DeprovisionAgain, DeprovisionMark,
       LastOpAnswer, LastOpRead, Bind, directorVars
  <2>3. ASSUME NEW count, NEW todo, UpgradeCollect(r, count, todo) \/ StatusCopy(r)
        PROVE  UNCHANGED tasks
    BY Zenon, <2>3 DEF UpgradeCollect, StatusCopy, directorVars
  <2> QED BY Zenon, <1>3, <2>1, <2>2, <2>3 DEF Arrive
<1>4. ASSUME NEW r \in Req, Step(r) PROVE DoneLasts
  <2>1. CASE \/ ProvisionCall(r) \/ DeprovisionCall(r) \/ UpdateCall(r)
             \/ UpgradeCall(r)
    BY Zenon, <1>1, <1>2, <2>1 DEF ProvisionCall, DeprovisionCall, UpdateCall,
       UpgradeCall, directorVars
  <2>2. ASSUME Step(r), ~ProvisionCall(r), ~DeprovisionCall(r), ~UpdateCall(r),
               ~UpgradeCall(r)
        PROVE  UNCHANGED tasks
    BY Zenon, <2>2 DEF Step, ProvisionUaa, ProvisionUndo,
       ProvisionRecord, deleteUAAClient, DeprovisionUndo, DeprovisionRecord,
       UpdateRecord, LastOpPoll, LastOpApply, UpgradeParams, UpgradeRecord,
       UpgradeTrack, StatusPoll, StatusApply, AdminEnd, SaveMarshal, SaveWrite,
       directorVars
  <2> QED BY <1>1, <1>4, <2>1, <2>2
<1>5. ASSUME NEW t \in TaskId, Director(t) PROVE DoneLasts
  <2>1. PICK status \in {"done", "error"} : TaskEnds(t, status)
    BY <1>5 DEF Director
  <2>2. /\ tasks \in [TaskId -> TaskRecord] /\ tasks[t].status = "processing"
        /\ tasks' = [tasks EXCEPT ![t].status = status]
    BY <2>1 DEF TaskEnds, Runnable, TypeInv, DirectorOK
  <2>3. \A u \in TaskId \ {t} : tasks'[u] = tasks[u]
    BY <2>2
  <2> QED BY <2>2, <2>3 DEF DoneLasts
<1>6. (\E r \in Req : Return(r)) \/ Crash \/ Rest \/ UNCHANGED vars => UNCHANGED tasks
  BY DEF Return, Crash, Rest, vars, directorVars
<1> QED BY <1>1, <1>3, <1>4, <1>5, <1>6 DEF Next

\* A handler keeps its operation.
LEMMA StepOp == ASSUME TypeInv, NEW r \in Req, Step(r) PROVE h'[r].op = h[r].op
<1>1. h[r] \in Handler /\ h \in [Req -> GoodHandler]
  BY DEF TypeInv, GoodHandler
<1>2. ASSUME NEW x, h' = [h EXCEPT ![r] = x], x.op = h[r].op PROVE h'[r].op = h[r].op
  BY <1>1, <1>2
<1>3. ASSUME NEW resp, Reply(r, resp) \/ Save(r, resp) PROVE h'[r].op = h[r].op
  BY Zenon, <1>2, <1>3 DEF Reply, Save, Idle
<1>4. ASSUME NEW pc, Goto(r, pc) PROVE h'[r].op = h[r].op
  BY Zenon, <1>1, <1>2, <1>4 DEF Goto, Handler
<1>5. ASSUME NEW n, Loop(r, n) PROVE h'[r].op = h[r].op
  BY Zenon, <1>1, <1>2, <1>5 DEF Loop, Handler
<1>6. ASSUME NEW pc, NEW t, h' = [h EXCEPT ![r].pc = pc, ![r].task = t]
      PROVE  h'[r].op = h[r].op
  BY <1>1, <1>6 DEF Handler
<1>7. LastOpPoll(r) \/ SaveMarshal(r) => h'[r].op = h[r].op
  BY <1>1, <1>3 DEF LastOpPoll, SaveMarshal, Handler
<1>8. UpgradeParams(r) \/ StatusPoll(r) => h'[r].op = h[r].op
  BY Zenon, <1>1, <1>2 DEF UpgradeParams, StatusPoll, Handler
<1>9. ProvisionCall(r) \/ DeprovisionCall(r) \/ UpdateCall(r) \/ UpgradeCall(r)
      => h'[r].op = h[r].op
  BY Zenon, <1>3, <1>4, <1>5, <1>6 DEF ProvisionCall, DeprovisionCall, UpdateCall,
     UpgradeCall
<1> QED BY Zenon, <1>3, <1>4, <1>5, <1>7, <1>8, <1>9 DEF Step, ProvisionUaa,
           ProvisionUndo, ProvisionRecord, deleteUAAClient, DeprovisionUndo,
           DeprovisionRecord, UpdateRecord, LastOpApply, UpgradeRecord, UpgradeTrack,
           StatusApply, AdminEnd, SaveWrite

\* Only an upgrade writes the tracker.
LEMMA TrackerQuiet ==
  ASSUME NEW r \in Req, Step(r), h[r].op # "upgrade" PROVE UNCHANGED tracker
BY Zenon DEF Step, Running, ProvisionUaa, ProvisionCall, ProvisionUndo,
   ProvisionRecord, deleteUAAClient, DeprovisionCall, DeprovisionUndo,
   DeprovisionRecord, UpdateCall, UpdateRecord, LastOpPoll, LastOpApply,
   UpgradeParams, UpgradeCall, UpgradeRecord, UpgradeTrack, StatusPoll,
   StatusApply, AdminEnd, SaveMarshal, SaveWrite, brokerVars

\* The platform's requests are not upgrades.
LEMMA SendQuiet ==
  ASSUME TypeInv, NEW r \in Req, NEW id \in ID, Send1(r, id)
  PROVE  /\ UNCHANGED tracker /\ h[r] = Idle /\ h'[r].op # "upgrade"
         /\ \A q \in Req \ {r} : h'[q] = h[q]
<1>1. \A q \in Req \ {r} : h'[q] = h[q]
  BY SendArrives, OthersStay
<1>2. UNCHANGED tracker /\ h[r] = Idle
  <2>1. SendCreate(r, id) \/ SendUpdate(r, id) => UNCHANGED tracker /\ h[r] = Idle
    BY Zenon DEF SendCreate, SendUpdate, ProvisionReject, ProvisionReserve,
       UpdateReject, UpdateRecover, UpdateExisting, Begin, brokerVars
  <2>2. SendDelete(r, id) => UNCHANGED tracker /\ h[r] = Idle
    BY Zenon DEF SendDelete, DeprovisionAgain, DeprovisionMark, DeprovisionOrphan,
       Begin, brokerVars
  <2>3. SendPoll(r, id) \/ SendBind(r, id) => UNCHANGED tracker /\ h[r] = Idle
    BY Zenon DEF SendPoll, SendBind, LastOpAnswer, LastOpRead, Bind, Begin, brokerVars
  <2> QED BY <2>1, <2>2, <2>3 DEF Send1
<1>3. h'[r].op # "upgrade"
  <2>1. h \in [Req -> GoodHandler] /\ "upgrade" \notin OsbOps
    BY DEF TypeInv, OsbOps
  <2>2. ASSUME NEW op \in OsbOps, NEW resp, Answer(r, op, id, resp)
        PROVE  h'[r].op # "upgrade"
    BY <2>1, <2>2 DEF Answer, Idle
  <2>3. ASSUME NEW org, NEW plan, NEW g,
               \/ ProvisionReject(r, id, org, plan)
               \/ ProvisionReserve(r, id, org, plan, g)
        PROVE  h'[r].op # "upgrade"
    <3>1. ProvisionReject(r, id, org, plan) => h'[r].op # "upgrade"
      BY Zenon, <2>2 DEF ProvisionReject, OsbOps
    <3>2. ASSUME NEW c,
                 h' = [h EXCEPT ![r] = [Idle EXCEPT !.op = "provision", !.id = id,
                                          !.gen = g, !.pc = c]]
          PROVE  h'[r].op # "upgrade"
      BY <2>1, <3>2 DEF Idle
    <3> QED BY Zenon, <2>3, <3>1, <3>2 DEF ProvisionReserve
  <2>4. ASSUME NEW plan, NEW g,
               \/ UpdateReject(r, id, plan) \/ UpdateRecover(r, id, plan, g)
               \/ UpdateExisting(r, id, plan)
        PROVE  h'[r].op # "upgrade"
    <3>1. ASSUME NEW c, NEW m,
                 h' = [h EXCEPT ![r] = [Idle EXCEPT !.op = "update", !.pc = "call",
                                          !.id = id, !.gen = c, !.man = m]]
          PROVE  h'[r].op # "upgrade"
      BY <2>1, <3>1 DEF Idle
    <3>2. UpdateReject(r, id, plan) => h'[r].op # "upgrade"
      BY <2>2 DEF UpdateReject, OsbOps
    <3> QED BY Zenon, <2>4, <3>1, <3>2 DEF UpdateRecover, UpdateExisting
  <2>5. ASSUME NEW g,
               \/ DeprovisionAgain(r, id) \/ DeprovisionMark(r, id)
               \/ DeprovisionOrphan(r, id, g)
        PROVE  h'[r].op # "upgrade"
    BY <2>1, <2>2, <2>5 DEF DeprovisionAgain, DeprovisionMark,
       DeprovisionOrphan, Idle, OsbOps
  <2>6. LastOpAnswer(r, id) \/ LastOpRead(r, id) \/ Bind(r, id)
        => h'[r].op # "upgrade"
    BY <2>1, <2>2 DEF LastOpAnswer, LastOpRead, Bind, Idle, OsbOps
  <2> QED BY Zenon, <2>3, <2>4, <2>5, <2>6 DEF Send1, SendCreate, SendUpdate,
             SendDelete, SendPoll, SendBind
<1> QED BY <1>1, <1>2, <1>3

\* The loop of an admin handler keeps its list and adds to its count.
LEMMA LoopFields ==
  ASSUME TypeInv, NEW r \in Req, NEW n, Loop(r, n)
  PROVE  /\ h'[r].pc = "next" /\ h'[r].todo = h[r].todo /\ h'[r].resp = "none"
         /\ h'[r].count = h[r].count + n
<1>1. h[r] \in Handler /\ h \in [Req -> GoodHandler]
  BY DEF TypeInv, GoodHandler
<1> DEFINE x == [h[r] EXCEPT !.pc = "next", !.id = "none", !.gen = 0, !.task = 0,
                             !.resp = "none", !.man = NoManifest,
                             !.count = h[r].count + n]
<1>2. /\ x.pc = "next" /\ x.todo = h[r].todo /\ x.resp = "none"
      /\ x.count = h[r].count + n
  BY Zenon, <1>1 DEF Handler
<1>3. h' = [h EXCEPT ![r] = x]
  BY Zenon DEF Loop
<1> HIDE DEF x
<1> QED BY <1>1, <1>2, <1>3

\* The end of an admin handler and its save keep the count and add nothing to
\* the list.
LEMMA EndFields ==
  ASSUME TypeInv, NEW r \in Req, AdminEnd(r) \/ SaveMarshal(r) \/ SaveWrite(r)
  PROVE  /\ h'[r].pc \in {"marshal", "write", "replied"}
         /\ h'[r].todo = {} \/ h'[r].todo = h[r].todo
         /\ h'[r].count = h[r].count
         /\ h[r].pc \in {"next", "marshal", "write"}
<1>1. h[r] \in Handler /\ h \in [Req -> GoodHandler]
  BY DEF TypeInv, GoodHandler
<1>2. CASE AdminEnd(r)
  BY <1>1, <1>2 DEF AdminEnd, Save, Idle
<1>3. CASE SaveMarshal(r)
  BY <1>1, <1>3 DEF SaveMarshal, Handler
<1>4. CASE SaveWrite(r)
  BY <1>1, <1>4 DEF SaveWrite, Reply, Idle
<1> QED BY <1>2, <1>3, <1>4
=============================================================================
