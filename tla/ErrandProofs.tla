---------------------------- MODULE ErrandProofs ----------------------------
(***************************************************************************)
(* The errand only chooses which requests reach the broker and when: it    *)
(* implements Broker's specification, so what is proved of the broker      *)
(* under arbitrary clients holds beside it.  And the rest of the fleet is  *)
(* upgraded only after every redeploy of the canary phase is done.         *)
(* Broker, platform and errand together keep their types.                  *)
(***************************************************************************)
EXTENDS BrokerProofs, UpgradeErrand, FiniteSetTheorems

-----------------------------------------------------------------------------
(* The errand asks for no more instances than there are.                   *)

ErrandInv == /\ errand \in Script
             /\ errand.canary <= Cardinality(errand.listed)

\* The canary count is at least one and at most all.
LEMMA CanaryInRange ==
  ASSUME NEW n \in Nat, n # 0
  PROVE  CanaryCount(n) \in 1..n
<1> DEFINE k == (n * CanaryPct + 99) \div 100
<1>1. n * CanaryPct \in Nat /\ n * CanaryPct <= n * 100
  BY ErrandAssumption
<1>2. k \in Nat /\ k <= n
  BY <1>1
<1> HIDE DEF k
<1>3. Max({1, k}) \in {1, k}
  <2>1. CASE k >= 1
    BY <1>2, <2>1 DEF Max
  <2>2. CASE k < 1
    BY <1>2, <2>2 DEF Max
  <2>3. QED BY <1>2, <2>1, <2>2
<1>4. Max({1, k}) >= 1
  <2>1. CASE k >= 1
    BY <1>2, <2>1 DEF Max
  <2>2. CASE k < 1
    BY <1>2, <2>2 DEF Max
  <2>3. QED BY <1>2, <2>1, <2>2
<1>5. QED BY <1>2, <1>3, <1>4 DEF CanaryCount, k

\* Sets of instances are finite, and none is larger than all of them.
LEMMA Counted ==
  ASSUME NEW S \in SUBSET ID
  PROVE  Cardinality(S) \in Nat /\ Cardinality(S) <= Cardinality(ID)
         /\ Cardinality(ID) \in Nat
BY ErrandAssumption, FS_Subset, FS_CardinalityType

\* The script's counters may start at zero.
LEMMA Zeros == 0 \in 0..HealthTimeout /\ 0 \in 0..MaxRuns
BY ErrandAssumption

\* The script at rest is typed, and has listed nothing.
LEMMA OffTyped == Off \in Script /\ Off.canary = 0 /\ Off.listed = {}
BY Zeros DEF Off, Script

\* The script's steps that leave listed and canary alone.
LEMMA ExitInv ==
  ASSUME ErrandInv, NEW msg \in {"already", "complete", "failed"}, Exit(msg)
  PROVE  ErrandInv'
<1> DEFINE e == [Off EXCEPT !.exit = msg, !.runs = errand.runs, !.listed = errand.listed]
<1>1. errand.listed \in SUBSET ID /\ errand.runs \in 0..MaxRuns
  BY DEF ErrandInv, Script
<1>2. e \in Script /\ e.canary = 0 /\ e.listed = errand.listed
  BY Zenon, <1>1, OffTyped DEF Script
<1>3. QED BY <1>1, <1>2, Counted DEF Exit, ErrandInv

\* Waiting stays within the time allowed.
LEMMA WaitInv ==
  ASSUME ErrandInv, Wait
  PROVE  ErrandInv'
<1>1. CASE errand.elapsed + 1 < HealthTimeout
  <2> DEFINE e == [errand EXCEPT !.pc = "poll", !.req = "none", !.elapsed = @ + 1]
  <2>1. errand.elapsed + 1 \in 0..HealthTimeout
    BY <1>1, ErrandAssumption DEF ErrandInv, Script
  <2>2. e \in Script /\ e.canary = errand.canary /\ e.listed = errand.listed
    BY Zenon, <2>1 DEF ErrandInv, Script
  <2>3. QED BY Zenon, <1>1, <2>2 DEF Wait, ErrandInv
<1>2. CASE ~(errand.elapsed + 1 < HealthTimeout)
  BY <1>2, ExitInv DEF Wait
<1>3. QED BY <1>1, <1>2

\* A failed request ends the script or counts as a poll.
LEMMA UnreachedInv ==
  ASSUME ErrandInv, Unreached
  PROVE  ErrandInv'
BY ExitInv, WaitInv DEF Unreached

\* The list is taken: the canary share is counted from it.
LEMMA ListInv ==
  ASSUME ErrandInv, ErrandList
  PROVE  ErrandInv'
<1> DEFINE L == AdminListInstances
           n == Cardinality(L)
<1>1. L \in SUBSET ID
  BY DEF AdminListInstances
<1> HIDE DEF L
<1>2. n \in Nat /\ errand.runs + 1 \in 0..MaxRuns
  BY <1>1, Counted, ErrandAssumption DEF ErrandList, ErrandInv, Script
<1>3. CASE n = 0
  <2> DEFINE e == [Off EXCEPT !.exit = "nothing", !.runs = errand.runs + 1]
  <2>1. e \in Script /\ e.canary = 0 /\ e.listed = {}
    BY Zenon, <1>2, OffTyped DEF Script
  <2>2. errand' = e
    BY <1>3 DEF ErrandList, L
  <2>3. QED BY <2>1, <2>2, FS_EmptySet DEF ErrandInv
<1>4. CASE n # 0
  <2> DEFINE e == [Off EXCEPT !.pc = "upgrade", !.runs = errand.runs + 1,
                              !.listed = L, !.canary = CanaryCount(n)]
  <2>1. CanaryCount(n) \in 1..n
    BY <1>2, <1>4, CanaryInRange
  <2>2. errand' = e
    BY <1>4 DEF ErrandList, L
  <2> HIDE DEF n
  <2>3. CanaryCount(n) \in Nat
    BY <1>2, <2>1
  <2>4. e \in Script /\ e.canary = CanaryCount(n) /\ e.listed = L
    BY Zenon, <1>1, <1>2, <2>3, OffTyped DEF Script
  <2>5. QED BY <1>2, <2>1, <2>2, <2>4 DEF ErrandInv, n
<1>5. QED BY <1>3, <1>4

\* No list is to be had.
LEMMA UnlistedInv ==
  ASSUME ErrandInv, ErrandUnlisted
  PROVE  ErrandInv'
<1> DEFINE e == [Off EXCEPT !.exit = "failed", !.runs = errand.runs + 1]
<1>1. errand.runs + 1 \in 0..MaxRuns
  BY ErrandAssumption DEF ErrandUnlisted, ErrandInv, Script
<1>2. e \in Script /\ e.canary = 0 /\ e.listed = {}
  BY Zenon, <1>1, OffTyped DEF Script
<1>3. errand' = e
  BY DEF ErrandUnlisted
<1> QED BY <1>2, <1>3, FS_EmptySet DEF ErrandInv

\* The script's own steps.
LEMMA ScriptInv ==
  ASSUME ErrandInv, NEW r \in Req, ErrandStep(r)
  PROVE  ErrandInv'
<1>1. ASSUME NEW e, errand' = e, e \in Script,
             e.canary = errand.canary, e.listed = errand.listed
      PROVE  ErrandInv'
  BY <1>1 DEF ErrandInv
<1>2. CASE ErrandUpgrade(r)
  <2> DEFINE e == [errand EXCEPT !.pc = "answer", !.req = r]
  <2>1. e \in Script /\ e.canary = errand.canary /\ e.listed = errand.listed
    BY Zenon DEF ErrandInv, Script
  <2>2. QED BY Zenon, <1>1, <1>2, <2>1 DEF ErrandUpgrade
<1>3. CASE ErrandPoll(r)
  <2> DEFINE e == [errand EXCEPT !.pc = "status", !.req = r]
  <2>1. e \in Script /\ e.canary = errand.canary /\ e.listed = errand.listed
    BY Zenon DEF ErrandInv, Script
  <2>2. QED BY Zenon, <1>1, <1>3, <2>1 DEF ErrandPoll
<1>4. CASE ErrandUpgraded(r)
  <2> DEFINE e == [errand EXCEPT !.pc = "poll", !.req = "none", !.elapsed = 0]
  <2>1. e \in Script /\ e.canary = errand.canary /\ e.listed = errand.listed
    BY Zenon, Zeros DEF ErrandInv, Script
  <2>2. Exit("already") \/ errand' = e
    BY <1>4 DEF ErrandUpgraded
  <2>3. QED BY Zenon, <1>1, <2>1, <2>2, ExitInv
<1>5. CASE ErrandPolled(r)
  <2> DEFINE e == [errand EXCEPT !.pc = "upgrade", !.req = "none", !.phase = 2]
  <2>1. e \in Script /\ e.canary = errand.canary /\ e.listed = errand.listed
    BY Zenon DEF ErrandInv, Script
  <2>2. Wait \/ Exit("complete") \/ errand' = e
    BY <1>5 DEF ErrandPolled, Proceed
  <2>3. QED BY Zenon, <1>1, <2>1, <2>2, ExitInv, WaitInv
<1>6. QED BY <1>2, <1>3, <1>4, <1>5 DEF ErrandStep

\* The bound on the errand's counts is an invariant of the composition.
LEMMA ErrandInvariant == ErrandSpec => []ErrandInv
<1>1. ErrandInit => ErrandInv
  BY OffTyped, FS_EmptySet DEF ErrandInit, ErrandInv
<1>2. ErrandInv /\ [ErrandNext]_evars => ErrandInv'
  <2> SUFFICES ASSUME ErrandInv, [ErrandNext]_evars PROVE ErrandInv'
    OBVIOUS
  <2>1. ASSUME UNCHANGED errand PROVE ErrandInv'
    BY <2>1 DEF ErrandInv
  <2>2. CASE ErrandList
    BY <2>2, ListInv
  <2>3. ASSUME NEW r \in Req, ErrandStep(r) PROVE ErrandInv'
    BY <2>3, ScriptInv
  <2>4. CASE ErrandGivesUp
    BY <2>4, UnreachedInv DEF ErrandGivesUp
  <2>5. CASE ErrandCrash
    <3> DEFINE e == [errand EXCEPT !.runs = 0]
    <3>1. e \in Script /\ e.canary = errand.canary /\ e.listed = errand.listed
      BY ErrandAssumption DEF ErrandInv, Script
    <3>2. errand' = e \/ UNCHANGED errand \/ Unreached
      BY <2>5 DEF ErrandCrash
    <3>3. ASSUME errand' = e PROVE ErrandInv'
      BY <3>1, <3>3 DEF ErrandInv
    <3>4. QED BY <2>1, <3>2, <3>3, UnreachedInv
  <2>6. CASE UNCHANGED evars
    BY <2>1, <2>6 DEF evars
  <2>7. CASE ErrandUnlisted
    BY <2>7, UnlistedInv
  <2>8. QED BY <2>1, <2>2, <2>3, <2>4, <2>5, <2>6, <2>7
            DEF ErrandNext, PlatformReceive, PlatformSend
<1>3. QED BY <1>1, <1>2, PTL DEF ErrandSpec

\* Nor does the errand reach the broker with anything but requests it may
\* receive at any time: the whole composition implements the broker.
THEOREM ErrandIsBroker == ErrandSpec => Spec
<1>1. ErrandInit => Init
  BY DEF ErrandInit, PlatformInit
<1>2. ErrandInv /\ [ErrandNext]_evars => [Next]_vars
  <2> SUFFICES ASSUME ErrandInv, [ErrandNext]_evars PROVE [Next]_vars
    OBVIOUS
  <2>1. ASSUME NEW r \in Req, ErrandUpgrade(r) PROVE Arrive(r)
    <3>1. errand.listed \in SUBSET ID /\ errand.canary \in Nat
      BY DEF ErrandInv, Script
    <3>2. Count \in 0..Cardinality(ID)
      BY <3>1, Counted DEF ErrandInv, Count, Total
    <3>3. QED BY <2>1, <3>2 DEF ErrandUpgrade, Arrive
  <2>2. ASSUME NEW r \in Req, ErrandStep(r) PROVE Next
    BY <2>1, <2>2 DEF ErrandStep, ErrandUpgraded, ErrandPoll, ErrandPolled,
       Next, Arrive
  <2>3. ASSUME NEW r \in Req, PlatformReceive(r) \/ Step(r) PROVE Next
    BY <2>3 DEF Next, PlatformReceive, Receive
  <2>4. ASSUME NEW r \in Req, NEW id \in ID, PlatformSend(r, id) PROVE Next
    BY <2>4, SendArrives DEF PlatformSend, Next
  <2>5. ASSUME NEW t \in TaskId, Director(t) PROVE Next
    BY <2>5 DEF Next
  <2>6. ASSUME ErrandCrash \/ Rest PROVE Next
    BY <2>6 DEF Next, ErrandCrash, PlatformCrash
  <2>7. ASSUME \/ ErrandList \/ ErrandUnlisted \/ ErrandGivesUp
               \/ \E id \in ID : GiveUp(id)
        PROVE  UNCHANGED vars
    BY <2>7 DEF ErrandList, ErrandUnlisted, ErrandGivesUp, GiveUp, allVars
  <2>8. CASE UNCHANGED evars
    BY <2>8 DEF evars, allVars
  <2>9. QED BY <2>2, <2>3, <2>4, <2>5, <2>6, <2>7, <2>8 DEF ErrandNext
<1>3. QED BY <1>1, <1>2, ErrandInvariant, PTL DEF ErrandSpec, Spec

\* With the platform and the errand at work, no task ID crosses instances: not
\* in a record, a handler, the state file or the tracker the errand polls.
THEOREM ErrandTasksNeverCross == ErrandSpec => []TaskOwner
BY ErrandIsBroker, TasksNeverCross, PTL

-----------------------------------------------------------------------------
(* The canary goes first.                                                  *)

\* The instances the tracker names, those whose redeploy is done, and those of
\* them a status request has been through.
Tracked == {i \in ID : tracker[i] # 0}
Finished == {i \in Tracked : tasks[tracker[i]].status = "done"}
Healthy(r) == {i \in Finished : <<i, tracker[i]>> \notin h[r].todo}
\* The instance an upgrade has in hand, and the one a status request has just
\* found healthy.
InHand(r) == IF h[r].pc \in {"call", "record", "track"} THEN 1 ELSE 0
Found(r) == IF h[r].pc = "apply" /\ h[r].resp = "succeeded" THEN 1 ELSE 0

\* Where the script is: before its first upgrade, waiting for that one's
\* answer, and polling until the canary is healthy.
Untouched == \/ errand.pc = "off" /\ errand.runs = 0
             \/ errand.pc = "upgrade" /\ errand.phase = 1
Asks(r) == errand.pc = "answer" /\ errand.phase = 1 /\ errand.req = r
Watching == errand.pc \in {"poll", "status"} /\ errand.phase = 1
Polls(r) == errand.pc = "status" /\ errand.phase = 1 /\ errand.req = r

NoUpgrade == \A q \in Req : h[q].op # "upgrade"
\* The canary's upgrade is the only one, and what it has tracked, has in hand
\* and has to do is the canary.
Upgrading(r) ==
  /\ \A q \in Req : h[q].op = "upgrade" <=> q = r
  /\ IsFiniteSet(h[r].todo)
  /\ Cardinality(Tracked) + Cardinality(h[r].todo) + InHand(r) <= errand.canary
\* The status request counts no instance whose redeploy is not done.
Polling(r) ==
  /\ h[r].op = "status"
  /\ h[r].todo \subseteq {<<i, tracker[i]>> : i \in Tracked}
  /\ h[r].count + Found(r) <= Cardinality(Healthy(r))

CanaryInv ==
  /\ errand.pc # "off" => errand.runs # 0
  /\ Untouched => NoUpgrade /\ Tracked = {}
  /\ Watching => NoUpgrade /\ Cardinality(Tracked) <= errand.canary
  /\ \A r \in Req : /\ Asks(r) => Upgrading(r)
                    /\ Polls(r) => Polling(r)

\* The instances tracked, finished and healthy are finitely many.
LEMMA CanaryFinite ==
  /\ IsFiniteSet(Tracked) /\ Cardinality(Tracked) \in Nat
  /\ \A S \in SUBSET Tracked : /\ IsFiniteSet(S) /\ Cardinality(S) \in Nat
                               /\ Cardinality(S) <= Cardinality(Tracked)
                               /\ Cardinality(S) = Cardinality(Tracked) => S = Tracked
<1>1. IsFiniteSet(Tracked)
  BY ErrandAssumption, FS_Subset DEF Tracked
<1> QED BY <1>1, FS_Subset, FS_CardinalityType

\* What a status request has found healthy stays so.
LEMMA HealthyGrows ==
  ASSUME TaskOwner, DoneLasts, UNCHANGED tracker, NEW r \in Req,
         h'[r].todo \subseteq h[r].todo
  PROVE  Cardinality(Healthy(r)) <= Cardinality(Healthy(r)')
<1>1. Healthy(r) \subseteq Healthy(r)'
  BY DEF Healthy, Finished, Tracked, DoneLasts, TaskOwner, Owns
<1>2. Healthy(r)' \subseteq Tracked
  BY DEF Healthy, Finished, Tracked
<1>3. IsFiniteSet(Healthy(r)')
  BY <1>2, CanaryFinite
<1> QED BY <1>1, <1>3, FS_Subset

\* A step of neither the script nor the request it waits for.
LEMMA CanaryFrame ==
  ASSUME TypeInv, CanaryInv, TaskOwner, DoneLasts, UNCHANGED <<tracker, errand>>,
         \A q \in Req : h'[q].op = "upgrade" => h[q].op = "upgrade",
         \A q \in Req : errand.req = q => h'[q] = h[q]
  PROVE  CanaryInv'
<1>1. /\ UNCHANGED Tracked /\ (Untouched' <=> Untouched) /\ (Watching' <=> Watching)
      /\ (NoUpgrade => NoUpgrade') /\ errand' = errand
      /\ \A q \in Req : (Asks(q)' <=> Asks(q)) /\ (Polls(q)' <=> Polls(q))
  BY DEF Tracked, Untouched, Watching, NoUpgrade, Asks, Polls
<1>2. ASSUME NEW r \in Req, Asks(r) PROVE Upgrading(r)'
  <2>1. Upgrading(r) /\ h'[r] = h[r]
    BY <1>2 DEF CanaryInv, Asks
  <2> QED BY <1>1, <2>1 DEF Upgrading, InHand
<1>3. ASSUME NEW r \in Req, Polls(r) PROVE Polling(r)'
  <2>1. Polling(r) /\ h'[r] = h[r]
    BY <1>3 DEF CanaryInv, Polls
  <2>2. Cardinality(Healthy(r)) <= Cardinality(Healthy(r)')
    BY <2>1, HealthyGrows
  <2>3. Cardinality(Healthy(r)) \in Nat
    BY Zenon, CanaryFinite DEF Healthy, Finished
  <2>4. Cardinality(Healthy(r)') \in Nat
    BY Zenon, <1>1, CanaryFinite DEF Healthy, Finished
  <2>5. h[r].count \in Nat /\ Found(r) \in Nat /\ Found(r)' = Found(r)
    BY <2>1 DEF TypeInv, GoodHandler, Handler, Found
  <2>6. h[r].count + Found(r) <= Cardinality(Healthy(r))
    BY <2>1 DEF Polling
  <2>7. (h[r].count + Found(r))' <= Cardinality(Healthy(r)')
    BY <2>1, <2>2, <2>3, <2>4, <2>5, <2>6
  <2> QED BY <1>1, <2>1, <2>7 DEF Polling
<1> QED BY <1>1, <1>2, <1>3 DEF CanaryInv

\* The script's moves.
LEMMA ExitMove ==
  ASSUME errand \in Script, NEW msg, Exit(msg)
  PROVE  errand'.pc = "off" /\ errand'.phase = 1 /\ errand'.runs = errand.runs
BY DEF Exit, Off

\* Waiting ends the script or polls again in the same phase.
LEMMA WaitMove ==
  ASSUME errand \in Script, Wait
  PROVE  /\ errand'.runs = errand.runs
         /\ \/ errand'.pc = "off" /\ errand'.phase = 1
            \/ /\ errand'.pc = "poll" /\ errand'.phase = errand.phase
               /\ errand'.canary = errand.canary
<1>1. CASE Exit("failed")
  BY <1>1, ExitMove
<1>2. CASE errand' = [errand EXCEPT !.pc = "poll", !.req = "none",
                                    !.elapsed = @ + 1]
  BY <1>2 DEF Script
<1> QED BY <1>1, <1>2 DEF Wait

\* Off the canary's road, nothing is claimed.
LEMMA CanaryOver ==
  ASSUME errand'.pc = "off" \/ errand'.phase = 2, errand'.runs # 0
  PROVE  CanaryInv'
BY DEF CanaryInv, Untouched, Watching, Asks, Polls

\* The list is taken before anything is tracked: the script runs once in a
\* broker's life.
LEMMA ListCanary ==
  ASSUME MaxRuns <= 1, ErrandInv, CanaryInv, ErrandList PROVE CanaryInv'
<1>1. errand.pc = "off" /\ errand.runs = 0 /\ UNCHANGED <<h, tracker>>
  BY ErrandAssumption DEF ErrandList, ErrandInv, Script, allVars, vars, brokerVars
<1>2. NoUpgrade' /\ Tracked' = {}
  BY <1>1 DEF CanaryInv, Untouched, NoUpgrade, Tracked
<1>3. errand'.pc \in {"off", "upgrade"} /\ errand'.runs = 1
  <2> DEFINE n == Cardinality(AdminListInstances)
  <2> HIDE DEF n
  <2>1. \/ errand' = [Off EXCEPT !.exit = "nothing", !.runs = errand.runs + 1]
        \/ errand' = [Off EXCEPT !.pc = "upgrade", !.runs = errand.runs + 1,
                                 !.listed = AdminListInstances, !.canary = CanaryCount(n)]
    BY DEF ErrandList, n
  <2>2. errand'.pc \in {"off", "upgrade"} /\ errand'.runs = errand.runs + 1
    BY Zenon, <2>1 DEF Off
  <2> QED BY <1>1, <2>2
<1> QED BY <1>2, <1>3 DEF CanaryInv, Untouched, Watching, Asks, Polls

\* Without a list the script's one run is over.
LEMMA UnlistedCanary ==
  ASSUME ErrandInv, ErrandUnlisted PROVE CanaryInv'
<1>1. errand.runs \in Nat
  BY ErrandAssumption DEF ErrandInv, Script
<1>2. errand' = [Off EXCEPT !.exit = "failed", !.runs = errand.runs + 1]
  BY DEF ErrandUnlisted
<1>3. errand'.pc = "off" /\ errand'.runs = errand.runs + 1
  BY Zenon, <1>2 DEF Off
<1> QED BY <1>1, <1>3, CanaryOver

\* The first upgrade asks for the canary, and no more.
LEMMA UpgradeCanary ==
  ASSUME TypeInv, ErrandInv, CanaryInv, NEW r \in Req, ErrandUpgrade(r)
  PROVE  CanaryInv'
<1>1. /\ errand'.pc = "answer" /\ errand'.phase = errand.phase /\ errand'.req = r
      /\ errand'.canary = errand.canary /\ errand'.runs = errand.runs
  BY DEF ErrandUpgrade, ErrandInv, Script
<1>2. errand.pc = "upgrade" /\ errand.runs # 0 /\ errand.phase \in {1, 2}
      /\ errand.canary \in Nat
  BY DEF ErrandUpgrade, CanaryInv, ErrandInv, Script
<1>3. CASE errand.phase = 2
  BY <1>1, <1>2, <1>3, CanaryOver
<1>4. CASE errand.phase = 1
  <2>1. NoUpgrade /\ Tracked = {} /\ Count = errand.canary
    BY <1>2, <1>4 DEF CanaryInv, Untouched, Count
  <2>2. PICK todo \in SUBSET Outdated : UpgradeCollect(r, errand.canary, todo)
    BY <2>1 DEF ErrandUpgrade
  <2>3. UNCHANGED tracker /\ \A q \in Req \ {r} : h'[q] = h[q]
    BY <2>2 DEF UpgradeCollect, brokerVars, TypeInv
  <2>4. IsFiniteSet(todo)
    <3>1. IsFiniteSet(ID \X Gen)
      <4>1. IsFiniteSet(Gen)
        BY BoundFacts, FS_Interval DEF Gen
      <4> QED BY Zenon, <4>1, ErrandAssumption, FS_Product
    <3> QED BY <2>2, <3>1, OutdatedType, FS_Subset DEF TypeInv
  <2>5. /\ h'[r].op = "upgrade" /\ InHand(r)' = 0 /\ IsFiniteSet(h'[r].todo)
        /\ Cardinality(h'[r].todo) <= errand.canary /\ Cardinality(h'[r].todo) \in Nat
    <3>1. CASE h' = [h EXCEPT ![r] = [Idle EXCEPT !.op = "upgrade", !.pc = "replied",
                                                    !.resp = "rejected"]]
      <4>1. h'[r].op = "upgrade" /\ h'[r].pc = "replied" /\ h'[r].todo = {}
        BY <3>1 DEF TypeInv, Idle
      <4> QED BY <1>2, <4>1, FS_EmptySet DEF InHand
    <3>2. CASE /\ h' = [h EXCEPT ![r] = [Idle EXCEPT !.op = "upgrade", !.pc = "next",
                                                       !.todo = todo]]
               /\ \/ Cardinality(todo) = errand.canary
                  \/ Cardinality(todo) < errand.canary
      <4>1. h'[r].op = "upgrade" /\ h'[r].pc = "next" /\ h'[r].todo = todo
        BY <3>2 DEF TypeInv, Idle
      <4> QED BY <1>2, <2>4, <3>2, <4>1, FS_CardinalityType DEF InHand
    <3> QED BY <2>2, <3>1, <3>2 DEF UpgradeCollect
  <2>6. Cardinality(Tracked') = 0
    BY <2>1, <2>3, FS_EmptySet DEF Tracked
  <2>7. \A q \in Req : h'[q].op = "upgrade" <=> q = r
    BY <2>1, <2>3, <2>5 DEF NoUpgrade
  <2>8. Upgrading(r)'
    BY <1>1, <1>2, <2>5, <2>6, <2>7 DEF Upgrading
  <2> QED BY <1>1, <1>2, <2>8 DEF CanaryInv, Untouched, Watching, Asks, Polls
<1> QED BY <1>2, <1>3, <1>4

\* It is answered when its last candidate is tracked.
LEMMA UpgradedCanary ==
  ASSUME TypeInv, ErrandInv, CanaryInv, NEW r \in Req, ErrandUpgraded(r)
  PROVE  CanaryInv'
<1>1. /\ errand.pc = "answer" /\ errand.req = r /\ errand.runs # 0
      /\ errand.phase \in {1, 2} /\ errand.canary \in Nat /\ errand \in Script
  BY DEF ErrandUpgraded, CanaryInv, ErrandInv, Script
<1>2. CASE Exit("already")
  BY <1>1, <1>2, ExitMove, CanaryOver
<1>3. CASE errand' = [errand EXCEPT !.pc = "poll", !.req = "none", !.elapsed = 0]
  <2>1. /\ errand'.pc = "poll" /\ errand'.phase = errand.phase
        /\ errand'.canary = errand.canary /\ errand'.runs = errand.runs
    BY <1>1, <1>3 DEF Script
  <2>2. CASE errand.phase = 2
    BY <1>1, <2>1, <2>2, CanaryOver
  <2>3. CASE errand.phase = 1
    <3>1. Upgrading(r)
      BY <1>1, <2>3 DEF CanaryInv, Asks
    <3>2. NoUpgrade' /\ Tracked' = Tracked
      BY <3>1 DEF ErrandUpgraded, Return, brokerVars, TypeInv, Idle, NoUpgrade,
         Upgrading, Tracked
    <3>3. Cardinality(Tracked) <= errand.canary
      <4>1. Cardinality(h[r].todo) \in Nat /\ InHand(r) \in Nat
        BY <3>1, FS_CardinalityType DEF Upgrading, InHand
      <4> QED BY <1>1, <3>1, <4>1, CanaryFinite DEF Upgrading
    <3> QED BY <1>1, <2>1, <3>2, <3>3 DEF CanaryInv, Untouched, Watching, Asks, Polls
  <2> QED BY <1>1, <2>2, <2>3
<1> QED BY <1>2, <1>3 DEF ErrandUpgraded

\* A status request starts with every tracked task to ask about.
LEMMA PollCanary ==
  ASSUME TypeInv, ErrandInv, CanaryInv, NEW r \in Req, ErrandPoll(r)
  PROVE  CanaryInv'
<1>1. /\ errand'.pc = "status" /\ errand'.phase = errand.phase /\ errand'.req = r
      /\ errand'.canary = errand.canary /\ errand'.runs = errand.runs
  BY DEF ErrandPoll, ErrandInv, Script
<1>2. errand.pc = "poll" /\ errand.runs # 0 /\ errand.phase \in {1, 2}
  BY DEF ErrandPoll, CanaryInv, ErrandInv, Script
<1>3. CASE errand.phase = 2
  BY <1>1, <1>2, <1>3, CanaryOver
<1>4. CASE errand.phase = 1
  <2>1. NoUpgrade /\ Cardinality(Tracked) <= errand.canary
    BY <1>2, <1>4 DEF CanaryInv, Watching
  <2> DEFINE todo == {<<i, tracker[i]>> : i \in {j \in ID : tracker[j] # 0}}
  <2>2. h' = [h EXCEPT ![r] = [Idle EXCEPT !.op = "status", !.pc = "next",
                                           !.todo = todo]]
        /\ UNCHANGED tracker
    BY DEF ErrandPoll, StatusCopy, brokerVars
  <2> HIDE DEF todo
  <2>3. /\ h'[r].op = "status" /\ h'[r].pc = "next" /\ h'[r].todo = todo
        /\ h'[r].count = 0 /\ \A q \in Req \ {r} : h'[q] = h[q]
    BY <2>2 DEF TypeInv, Idle
  <2>4. Tracked' = Tracked /\ NoUpgrade'
    BY <2>1, <2>2, <2>3 DEF Tracked, NoUpgrade
  <2>5. h'[r].todo = {<<i, tracker'[i]>> : i \in Tracked'}
    BY <2>2, <2>3 DEF Tracked, todo
  <2>6. Healthy(r)' = {}
    BY <2>5 DEF Healthy, Finished
  <2>7. Found(r)' = 0
    BY <2>3 DEF Found
  <2>8. Polling(r)'
    BY <2>3, <2>5, <2>6, <2>7, FS_EmptySet DEF Polling
  <2> QED BY <1>1, <1>2, <2>1, <2>4, <2>8 DEF CanaryInv, Untouched, Watching, Asks, Polls
<1> QED BY <1>2, <1>3, <1>4

\* The script polls on: what the canary has tracked is still all there is.
LEMMA WaitCanary ==
  ASSUME ErrandInv, CanaryInv, Wait, errand.pc \in {"poll", "status"},
         NoUpgrade => NoUpgrade', UNCHANGED tracker
  PROVE  CanaryInv'
<1>1. errand \in Script /\ errand.runs # 0 /\ errand.phase \in {1, 2}
  BY DEF CanaryInv, ErrandInv, Script
<1>2. /\ errand'.runs = errand.runs
      /\ \/ errand'.pc = "off" /\ errand'.phase = 1
         \/ /\ errand'.pc = "poll" /\ errand'.phase = errand.phase
            /\ errand'.canary = errand.canary
  BY <1>1, WaitMove
<1>3. CASE errand'.pc = "off" \/ errand'.phase = 2
  BY <1>1, <1>2, <1>3, CanaryOver
<1>4. CASE errand'.pc = "poll" /\ errand'.phase = 1
  <2>1. errand.phase = 1 /\ errand'.canary = errand.canary
    BY <1>2, <1>4
  <2>2. NoUpgrade /\ Cardinality(Tracked) <= errand.canary /\ Tracked' = Tracked
    BY <2>1 DEF CanaryInv, Watching, Tracked
  <2> QED BY <1>1, <1>2, <1>4, <2>1, <2>2 DEF CanaryInv, Untouched, Watching, Asks, Polls
<1> QED BY <1>1, <1>2, <1>3, <1>4

\* The answer to a poll.
LEMMA PolledCanary ==
  ASSUME TypeInv, ErrandInv, CanaryInv, NEW r \in Req, ErrandPolled(r)
  PROVE  CanaryInv'
<1>1. errand.pc = "status" /\ errand.runs # 0 /\ errand \in Script
  BY DEF ErrandPolled, CanaryInv, ErrandInv
<1>2. UNCHANGED tracker /\ (NoUpgrade => NoUpgrade')
  BY DEF ErrandPolled, Return, brokerVars, TypeInv, Idle, NoUpgrade
<1>3. CASE Wait
  BY <1>1, <1>2, <1>3, WaitCanary
<1>4. CASE Exit("complete")
  BY <1>1, <1>4, ExitMove, CanaryOver
<1>5. CASE errand' = [errand EXCEPT !.pc = "upgrade", !.req = "none", !.phase = 2]
  <2>1. errand'.phase = 2 /\ errand'.runs = errand.runs
    BY <1>1, <1>5 DEF Script
  <2> QED BY <1>1, <2>1, CanaryOver
<1> QED BY <1>3, <1>4, <1>5 DEF ErrandPolled, Proceed

\* A request given up.
LEMMA GivesUpCanary ==
  ASSUME ErrandInv, CanaryInv, ErrandGivesUp, errand.pc \in {"answer", "poll", "status"}
  PROVE  CanaryInv'
<1>1. errand.runs # 0 /\ errand \in Script
  BY DEF CanaryInv, ErrandInv
<1>2. UNCHANGED tracker /\ (NoUpgrade => NoUpgrade')
  BY DEF ErrandGivesUp, allVars, vars, brokerVars, NoUpgrade
<1>3. CASE errand.pc = "answer"
  <2>1. Exit("failed")
    BY <1>3 DEF ErrandGivesUp, Unreached
  <2> QED BY <1>1, <2>1, ExitMove, CanaryOver
<1>4. CASE errand.pc # "answer"
  <2>1. Wait
    BY <1>4 DEF ErrandGivesUp, Unreached
  <2> QED BY <1>2, <1>4, <2>1, WaitCanary
<1> QED BY <1>3, <1>4

\* A crash forgets the tracker and every request.
LEMMA CrashCanary ==
  ASSUME ErrandInv, CanaryInv, ErrandCrash PROVE CanaryInv'
<1>1. NoUpgrade' /\ Tracked' = {}
  BY DEF ErrandCrash, PlatformCrash, Crash, NoUpgrade, Tracked, Idle
<1>2. Cardinality(Tracked') = 0
  BY <1>1, FS_EmptySet
<1>3. errand \in Script /\ errand.canary \in Nat
  BY DEF ErrandInv, Script
<1>4. ASSUME errand'.pc \in {"off", "upgrade", "poll"}, errand'.canary \in Nat,
             errand'.pc # "off" => errand'.runs # 0
      PROVE  CanaryInv'
  BY <1>1, <1>2, <1>4 DEF CanaryInv, Untouched, Watching, Asks, Polls
<1>5. CASE errand.pc = "off" /\ errand' = [errand EXCEPT !.runs = 0]
  <2>1. errand'.pc = "off" /\ errand'.canary = errand.canary
    BY <1>3, <1>5 DEF Script
  <2> QED BY <1>3, <1>4, <2>1
<1>6. CASE errand.pc \in {"upgrade", "poll"} /\ UNCHANGED errand
  BY <1>3, <1>4, <1>6 DEF CanaryInv
<1>7. CASE errand.pc = "answer" /\ Exit("failed")
  <2>1. errand.runs # 0
    BY <1>7 DEF CanaryInv
  <2> QED BY <1>3, <1>7, <2>1, ExitMove, CanaryOver
<1>8. CASE errand.pc = "status" /\ Wait
  <2>1. errand.runs # 0
    BY <1>8 DEF CanaryInv
  <2>2. CASE errand'.pc = "off"
    BY <1>3, <1>8, <2>1, <2>2, WaitMove, CanaryOver
  <2>3. CASE errand'.pc # "off"
    <3>1. /\ errand'.pc = "poll" /\ errand'.canary = errand.canary
          /\ errand'.runs = errand.runs
      BY <1>3, <1>8, <2>3, WaitMove
    <3> QED BY <1>3, <1>4, <2>1, <3>1
  <2> QED BY <2>2, <2>3
<1> QED BY <1>5, <1>6, <1>7, <1>8 DEF ErrandCrash, Unreached

\* The canary's upgrade at work: a candidate goes from the list to the hand to
\* the tracker, or is dropped.
LEMMA UpgradeWorks ==
  ASSUME TypeInv, ErrandInv, UNCHANGED errand, NEW r \in Req, Upgrading(r), Step(r)
  PROVE  Upgrading(r)'
<1>1. h[r].op = "upgrade" /\ errand.canary \in Nat /\ errand'.canary = errand.canary
  BY DEF Upgrading, ErrandInv, Script
<1>2. \A q \in Req : h'[q].op = "upgrade" <=> q = r
  BY <1>1, OthersStay, StepOp DEF Upgrading
<1> DEFINE n == Cardinality(h[r].todo)
           k == Cardinality(Tracked)
<1>3. IsFiniteSet(h[r].todo) /\ n \in Nat /\ k \in Nat /\ k + n + InHand(r) <= errand.canary
  BY CanaryFinite, FS_CardinalityType DEF Upgrading
<1>4. ASSUME IsFiniteSet(h'[r].todo), Cardinality(h'[r].todo) \in Nat,
             Cardinality(Tracked') \in Nat,
             Cardinality(Tracked') + Cardinality(h'[r].todo) + InHand(r)'
               <= k + n + InHand(r)
      PROVE  Upgrading(r)'
  <2>1. InHand(r) \in Nat /\ InHand(r)' \in Nat
    BY DEF InHand
  <2> HIDE DEF n, k
  <2>2. Cardinality(Tracked') + Cardinality(h'[r].todo) + InHand(r)' <= errand'.canary
    BY <1>1, <1>3, <1>4, <2>1
  <2> QED BY <1>2, <1>4, <2>2 DEF Upgrading
<1>5. ASSUME UNCHANGED tracker, h'[r].todo = h[r].todo, InHand(r)' <= InHand(r)
      PROVE  Upgrading(r)'
  <2>1. Tracked' = Tracked /\ InHand(r) \in Nat /\ InHand(r)' \in Nat
    BY <1>5 DEF Tracked, InHand
  <2>2. Cardinality(h'[r].todo) = n /\ Cardinality(Tracked') = k
    BY <1>5, <2>1
  <2> HIDE DEF n, k
  <2>3. Cardinality(Tracked') + Cardinality(h'[r].todo) + InHand(r)'
          <= k + n + InHand(r)
    BY <1>3, <1>5, <2>1, <2>2
  <2> QED BY <1>3, <1>4, <1>5, <2>2, <2>3
<1>6. h[r] \in Handler /\ h \in [Req -> GoodHandler]
  BY DEF TypeInv, GoodHandler
<1>7. CASE UpgradeParams(r)
  <2>1. PICK c \in h[r].todo :
          h' = [h EXCEPT ![r] = [h[r] EXCEPT !.pc = "call", !.id = c[1], !.gen = c[2],
                                   !.man = buildManifestParams(heap[c[1]][c[2]]),
                                   !.todo = h[r].todo \ {c}]]
    BY Zenon, <1>7 DEF UpgradeParams
  <2> DEFINE m == buildManifestParams(heap[c[1]][c[2]])
             x == [h[r] EXCEPT !.pc = "call", !.id = c[1], !.gen = c[2], !.man = m,
                               !.todo = h[r].todo \ {c}]
  <2>2. x.pc = "call" /\ x.todo = h[r].todo \ {c}
    BY Zenon, <1>6 DEF Handler
  <2>3. h'[r] = x
    BY <1>6, <2>1
  <2> HIDE DEF x, m
  <2>4. h[r].pc = "next" /\ UNCHANGED tracker
    BY <1>7 DEF UpgradeParams, Running, brokerVars
  <2>5. Tracked' = Tracked /\ InHand(r) = 0 /\ InHand(r)' = 1
    BY <2>2, <2>3, <2>4 DEF Tracked, InHand
  <2>6. IsFiniteSet(h'[r].todo) /\ Cardinality(h'[r].todo) = n - 1
    BY <1>3, <2>2, <2>3, FS_RemoveElement
  <2>7. Cardinality(h'[r].todo) \in Nat /\ Cardinality(Tracked') = k
    BY <2>5, <2>6, FS_CardinalityType
  <2> HIDE DEF n, k
  <2>8. Cardinality(Tracked') + Cardinality(h'[r].todo) + InHand(r)' <= k + n + InHand(r)
    BY <1>3, <2>5, <2>6, <2>7
  <2> QED BY <1>3, <1>4, <2>6, <2>7, <2>8
<1>8. CASE UpgradeCall(r)
  <2>1. UNCHANGED tracker /\ h[r].pc = "call"
    BY <1>8 DEF UpgradeCall, Running, brokerVars
  <2>2. h'[r].todo = h[r].todo /\ h'[r].pc \in {"record", "next"}
    <3>1. CASE h' = [h EXCEPT ![r].pc = "record", ![r].task = last + 1]
      BY <1>6, <3>1 DEF Handler
    <3>2. CASE Loop(r, 0)
      BY <3>2, LoopFields
    <3> QED BY <1>8, <3>1, <3>2 DEF UpgradeCall
  <2> QED BY <1>5, <2>1, <2>2 DEF InHand
<1>9. CASE UpgradeRecord(r)
  <2>1. UNCHANGED tracker /\ h[r].pc = "record" /\ Goto(r, "track")
    BY <1>9 DEF UpgradeRecord, Running
  <2>2. h'[r].todo = h[r].todo /\ h'[r].pc = "track"
    BY <1>6, <2>1 DEF Goto, Handler
  <2> QED BY <1>5, <2>1, <2>2 DEF InHand
<1>10. CASE UpgradeTrack(r)
  <2>1. /\ h[r].pc = "track" /\ Loop(r, 1)
        /\ tracker' = [tracker EXCEPT ![h[r].id] = h[r].task]
    BY <1>10 DEF UpgradeTrack, Running
  <2>2. h'[r].todo = h[r].todo /\ InHand(r) = 1 /\ InHand(r)' = 0
    BY <2>1, LoopFields DEF InHand
  <2>3. Tracked' \subseteq Tracked \cup {h[r].id}
    BY <2>1 DEF Tracked, TypeInv, BrokerOK
  <2>4. /\ IsFiniteSet(Tracked \cup {h[r].id})
        /\ Cardinality(Tracked \cup {h[r].id}) \in Nat
        /\ Cardinality(Tracked \cup {h[r].id}) <= k + 1
    <3> DEFINE T == Tracked
               i == h[r].id
    <3>1. IsFiniteSet(T)
      BY CanaryFinite
    <3> HIDE DEF T, i
    <3>2. /\ IsFiniteSet(T \cup {i})
          /\ Cardinality(T \cup {i}) = IF i \in T THEN Cardinality(T) ELSE Cardinality(T) + 1
      BY Zenon, <3>1, FS_AddElement
    <3>3. Cardinality(T) = k /\ k \in Nat
      BY <1>3 DEF T
    <3> HIDE DEF k
    <3>4. Cardinality(T \cup {i}) \in Nat /\ Cardinality(T \cup {i}) <= k + 1
      BY <3>2, <3>3
    <3> QED BY <3>2, <3>4 DEF T, i
  <2>5. Cardinality(Tracked') \in Nat
        /\ Cardinality(Tracked') <= Cardinality(Tracked \cup {h[r].id})
    BY <2>3, <2>4, FS_Subset, FS_CardinalityType
  <2>6. Cardinality(h'[r].todo) = n
    BY <2>2
  <2> HIDE DEF n, k
  <2>7. Cardinality(Tracked') + Cardinality(h'[r].todo) + InHand(r)' <= k + n + InHand(r)
    BY <1>3, <2>2, <2>4, <2>5, <2>6
  <2> QED BY <1>3, <1>4, <2>2, <2>5, <2>6, <2>7
<1>11. CASE AdminEnd(r) \/ SaveMarshal(r) \/ SaveWrite(r)
  <2>1. UNCHANGED tracker
    BY <1>11 DEF AdminEnd, SaveMarshal, SaveWrite, brokerVars
  <2>2. InHand(r) = 0 /\ InHand(r)' = 0
    BY <1>11, EndFields DEF InHand
  <2>3. CASE h'[r].todo = h[r].todo
    BY <1>5, <2>1, <2>2, <2>3
  <2>4. CASE h'[r].todo = {}
    <3>1. Cardinality(h'[r].todo) = 0 /\ IsFiniteSet(h'[r].todo)
      BY <2>4, FS_EmptySet
    <3>2. Cardinality(Tracked') = k
      BY <2>1 DEF Tracked
    <3> HIDE DEF n, k
    <3> QED BY <1>3, <1>4, <2>2, <3>1, <3>2
  <2> QED BY <1>11, <2>3, <2>4, EndFields
<1> QED BY Zenon, <1>1, <1>7, <1>8, <1>9, <1>10, <1>11 DEF Step, Running, Deprovisioning,
           ProvisionUaa, ProvisionCall, ProvisionUndo, ProvisionRecord, deleteUAAClient,
           DeprovisionCall, DeprovisionUndo, DeprovisionRecord, UpdateCall, UpdateRecord,
           LastOpPoll, LastOpApply, StatusPoll, StatusApply

\* The status request at work: it counts what it has found done, once.
LEMMA StatusWorks ==
  ASSUME TypeInv, TaskOwner, DoneLasts, NEW r \in Req, Polling(r), Step(r)
  PROVE  Polling(r)'
<1>1. h[r].op = "status" /\ h'[r].op = "status" /\ UNCHANGED tracker
  BY StepOp, TrackerQuiet DEF Polling
<1>2. h[r] \in Handler /\ h \in [Req -> GoodHandler] /\ h[r].count \in Nat
  BY DEF TypeInv, GoodHandler, Handler
<1>3. Tracked' = Tracked
  BY <1>1 DEF Tracked
<1> DEFINE n == Cardinality(Healthy(r))
           m == Cardinality(Healthy(r)')
<1>4. n \in Nat /\ m \in Nat /\ Found(r) \in Nat /\ h[r].count + Found(r) <= n
  <2>1. Healthy(r) \subseteq Tracked /\ Healthy(r)' \subseteq Tracked
    BY <1>3 DEF Healthy, Finished
  <2> QED BY <2>1, CanaryFinite DEF Found, Polling
<1>5. ASSUME h'[r].todo \subseteq h[r].todo, h'[r].count + Found(r)' <= m
      PROVE  Polling(r)'
  BY <1>1, <1>3, <1>5 DEF Polling
<1>6. ASSUME h'[r].todo \subseteq h[r].todo PROVE n <= m
  BY <1>6, <1>1, HealthyGrows
<1>7. CASE StatusPoll(r)
  <2>1. PICK c \in h[r].todo : \E s \in TaskStatus(c[2]) :
          h' = [h EXCEPT ![r] =
                  [h[r] EXCEPT !.todo = h[r].todo \ {c},
                            !.pc = IF s \in {"done", "error"} THEN "apply" ELSE "next",
                            !.id = IF s \in {"done", "error"} THEN c[1] ELSE "none",
                            !.resp = PollOutcome(s)]]
    BY Zenon, <1>7 DEF StatusPoll
  <2>2. PICK s \in TaskStatus(c[2]) :
          h' = [h EXCEPT ![r] =
                  [h[r] EXCEPT !.todo = h[r].todo \ {c},
                            !.pc = IF s \in {"done", "error"} THEN "apply" ELSE "next",
                            !.id = IF s \in {"done", "error"} THEN c[1] ELSE "none",
                            !.resp = PollOutcome(s)]]
    BY Zenon, <2>1
  <2> DEFINE x == [h[r] EXCEPT !.todo = h[r].todo \ {c},
                            !.pc = IF s \in {"done", "error"} THEN "apply" ELSE "next",
                            !.id = IF s \in {"done", "error"} THEN c[1] ELSE "none",
                            !.resp = PollOutcome(s)]
  <2>3. x.todo = h[r].todo \ {c} /\ x.resp = PollOutcome(s) /\ x.count = h[r].count
    BY Zenon, <1>2 DEF Handler
  <2>4. h'[r] = x
    BY <1>2, <2>2
  <2> HIDE DEF x
  <2>5. h[r].pc = "next" /\ UNCHANGED tasks
    BY <1>7 DEF StatusPoll, Running, directorVars
  <2>6. n <= m
    BY <1>6, <2>3, <2>4
  <2>7. CASE PollOutcome(s) # "succeeded"
    <3>1. Found(r)' = 0 /\ Found(r) = 0
      BY <2>3, <2>4, <2>5, <2>7 DEF Found
    <3> HIDE DEF n, m
    <3>2. h'[r].count + Found(r)' <= m
      BY <1>2, <1>4, <2>3, <2>4, <2>6, <3>1
    <3> QED BY <1>5, <2>3, <2>4, <3>2
  <2>8. CASE PollOutcome(s) = "succeeded"
    <3>1. s = "done"
      BY <2>8 DEF PollOutcome
    <3>2. tasks[c[2]].status = "done"
      BY <3>1 DEF TaskStatus
    <3>3. PICK i \in Tracked : c = <<i, tracker[i]>>
      BY DEF Polling
    <3>4. i \in Healthy(r)' /\ i \notin Healthy(r)
      BY <1>1, <1>3, <2>3, <2>4, <2>5, <3>2, <3>3 DEF Healthy, Finished
    <3>5. Healthy(r) \subseteq Healthy(r)'
      BY <1>1, <1>3, <2>3, <2>4, <2>5 DEF Healthy, Finished
    <3>6. IsFiniteSet(Healthy(r)')
      BY Zenon, <1>3, CanaryFinite DEF Healthy, Finished
    <3>7. n < m
      <4> DEFINE A == Healthy(r)
                 B == Healthy(r)'
      <4>1. A \subseteq B /\ A # B /\ IsFiniteSet(B)
        BY <3>4, <3>5, <3>6
      <4>2. n = Cardinality(A) /\ m = Cardinality(B)
        OBVIOUS
      <4> HIDE DEF A, B
      <4>3. Cardinality(A) <= Cardinality(B) /\ Cardinality(A) # Cardinality(B)
        BY Zenon, <4>1, FS_Subset
      <4> HIDE DEF n, m
      <4> QED BY <1>4, <4>2, <4>3
    <3>8. Found(r) = 0 /\ Found(r)' \in {0, 1}
      BY <2>5 DEF Found
    <3> HIDE DEF n, m
    <3>9. h'[r].count + Found(r)' <= m
      BY <1>2, <1>4, <2>3, <2>4, <3>7, <3>8
    <3> QED BY <1>5, <2>3, <2>4, <3>9
  <2> QED BY <2>7, <2>8
<1>8. CASE StatusApply(r)
  <2>1. h[r].pc = "apply" /\ Loop(r, IF h[r].resp = "succeeded" THEN 1 ELSE 0)
    BY <1>8 DEF StatusApply, Running
  <2>2. Loop(r, Found(r))
    BY <2>1 DEF Found
  <2>3. h'[r].todo = h[r].todo /\ h'[r].count = h[r].count + Found(r) /\ Found(r)' = 0
    BY <2>2, LoopFields DEF Found
  <2>4. n <= m
    BY <1>6, <2>3
  <2> HIDE DEF n, m
  <2>5. h'[r].count + Found(r)' <= m
    BY <1>2, <1>4, <2>3, <2>4
  <2> QED BY <1>5, <2>3, <2>5
<1>9. CASE AdminEnd(r) \/ SaveMarshal(r) \/ SaveWrite(r)
  <2>1. h'[r].todo \subseteq h[r].todo /\ h'[r].count = h[r].count
        /\ Found(r) = 0 /\ Found(r)' = 0
    BY <1>9, EndFields DEF Found
  <2>2. n <= m
    BY <1>6, <2>1
  <2> HIDE DEF n, m
  <2>3. h'[r].count + Found(r)' <= m
    BY <1>2, <1>4, <2>1, <2>2
  <2> QED BY <1>5, <2>1, <2>3
<1> QED BY Zenon, <1>1, <1>7, <1>8, <1>9 DEF Step, Running, Deprovisioning,
           ProvisionUaa, ProvisionCall, ProvisionUndo, ProvisionRecord, deleteUAAClient,
           DeprovisionCall, DeprovisionUndo, DeprovisionRecord, UpdateCall, UpdateRecord,
           LastOpPoll, LastOpApply, UpgradeParams, UpgradeCall, UpgradeRecord, UpgradeTrack

\* A handler's step.
LEMMA StepCanary ==
  ASSUME TypeInv, ErrandInv, TaskOwner, CanaryInv, DoneLasts, UNCHANGED errand,
         NEW r \in Req, Step(r)
  PROVE  CanaryInv'
<1>1. /\ \A q \in Req \ {r} : h'[q] = h[q]
      /\ h'[r].op = h[r].op
  BY OthersStay, StepOp
<1>2. /\ (Untouched' <=> Untouched) /\ (Watching' <=> Watching)
      /\ errand' = errand /\ (NoUpgrade' <=> NoUpgrade)
      /\ \A q \in Req : (Asks(q)' <=> Asks(q)) /\ (Polls(q)' <=> Polls(q))
  BY <1>1 DEF Untouched, Watching, Asks, Polls, NoUpgrade
<1>3. CASE h[r].op = "upgrade"
  <2>1. ~Untouched /\ ~Watching
    BY <1>3 DEF CanaryInv, NoUpgrade
  <2>2. \A q \in Req : ~Polls(q) /\ (Asks(q) => q = r)
    BY <1>3, <2>1 DEF CanaryInv, Watching, Polls, Upgrading
  <2>3. Asks(r) => Upgrading(r)'
    BY UpgradeWorks DEF CanaryInv
  <2> QED BY <1>2, <2>1, <2>2, <2>3 DEF CanaryInv
<1>4. CASE h[r].op # "upgrade"
  <2>1. UNCHANGED tracker
    BY <1>4, TrackerQuiet
  <2>2. CASE errand.req # r
    BY <1>1, <1>4, <2>1, <2>2, CanaryFrame
  <2>3. CASE errand.req = r
    <3>1. \A q \in Req : ~Asks(q) /\ (Polls(q) => q = r)
      BY <1>4, <2>3 DEF CanaryInv, Asks, Polls, Upgrading
    <3>2. Polls(r) => Polling(r)'
      BY StatusWorks DEF CanaryInv
    <3>3. Tracked' = Tracked
      BY <2>1 DEF Tracked
    <3> QED BY <1>2, <3>1, <3>2, <3>3 DEF CanaryInv
  <2> QED BY <2>2, <2>3
<1> QED BY <1>3, <1>4

\* The script waits for a request only while it expects an answer.
ReqInv == errand.req # "none" => errand.pc \in {"answer", "status"}

\* ReqInv is inductive.
LEMMA ReqStep ==
  ASSUME ErrandInv, ReqInv, [ErrandNext]_evars PROVE ReqInv'
<1>1. errand \in Script
  BY DEF ErrandInv
<1>2. ASSUME UNCHANGED errand PROVE ReqInv'
  BY <1>2 DEF ReqInv
<1>3. ASSUME NEW msg, Exit(msg) PROVE ReqInv'
  BY <1>3 DEF Exit, Off, ReqInv
<1>4. ASSUME Wait PROVE ReqInv'
  BY Zenon, <1>1, <1>3, <1>4 DEF Wait, ReqInv, Script
<1>5. ErrandList => ReqInv'
  <2> SUFFICES ASSUME ErrandList PROVE ReqInv'
    OBVIOUS
  <2> DEFINE k == CanaryCount(Cardinality(AdminListInstances))
  <2>1. \/ errand' = [Off EXCEPT !.exit = "nothing", !.runs = errand.runs + 1]
        \/ errand' = [Off EXCEPT !.pc = "upgrade", !.runs = errand.runs + 1,
                                 !.listed = AdminListInstances, !.canary = k]
    BY Zenon DEF ErrandList
  <2> HIDE DEF k
  <2>2. errand'.req = "none"
    BY Zenon, <2>1 DEF Off
  <2> QED BY <2>2 DEF ReqInv
<1>6. ASSUME NEW r \in Req, ErrandStep(r) PROVE ReqInv'
  <2>1. ErrandUpgrade(r) \/ ErrandPoll(r) => ReqInv'
    BY Zenon, <1>1 DEF ErrandUpgrade, ErrandPoll, Script, ReqInv
  <2>2. ErrandUpgraded(r) => ReqInv'
    BY Zenon, <1>1, <1>3 DEF ErrandUpgraded, Script, ReqInv
  <2>3. ErrandPolled(r) => ReqInv'
    BY Zenon, <1>1, <1>3, <1>4 DEF ErrandPolled, Proceed, Script, ReqInv
  <2> QED BY <1>6, <2>1, <2>2, <2>3 DEF ErrandStep
<1>7. ErrandGivesUp => ReqInv'
  BY <1>3, <1>4 DEF ErrandGivesUp, Unreached
<1>8. ErrandCrash => ReqInv'
  <2>1. errand' = [errand EXCEPT !.runs = 0] => ReqInv'
    BY <1>1 DEF ReqInv, Script
  <2> QED BY <1>2, <1>3, <1>4, <2>1 DEF ErrandCrash, Unreached
<1>9. UNCHANGED evars => UNCHANGED errand
  BY DEF evars
<1>10. ErrandUnlisted => ReqInv'
  BY Zenon DEF ErrandUnlisted, Off, ReqInv
<1> QED BY <1>2, <1>5, <1>6, <1>7, <1>8, <1>9, <1>10 DEF ErrandNext, PlatformReceive,
           PlatformSend

\* The canary's invariant survives every step.
LEMMA CanaryStep ==
  ASSUME MaxRuns <= 1, TypeInv, TaskOwner, ErrandInv, ReqInv, CanaryInv,
         [ErrandNext]_evars, [Next]_vars
  PROVE  CanaryInv'
<1>1. DoneLasts
  BY DoneStays
<1>2. ASSUME UNCHANGED <<h, tracker, errand>> PROVE CanaryInv'
  BY <1>1, <1>2, CanaryFrame
<1>3. ErrandList => CanaryInv'
  BY ListCanary
<1>4. ASSUME NEW r \in Req, ErrandStep(r) PROVE CanaryInv'
  BY <1>4, UpgradeCanary, UpgradedCanary, PollCanary, PolledCanary DEF ErrandStep
<1>5. ASSUME NEW r \in Req, PlatformReceive(r) PROVE CanaryInv'
  <2>1. errand.req # r /\ UNCHANGED <<tracker, errand>> /\ h' = [h EXCEPT ![r] = Idle]
    BY <1>5 DEF PlatformReceive, Receive, Return, brokerVars
  <2>2. h'[r].op = "none" /\ \A q \in Req \ {r} : h'[q] = h[q]
    BY <2>1 DEF TypeInv, Idle
  <2> QED BY <1>1, <2>1, <2>2, CanaryFrame
<1>6. ErrandGivesUp => CanaryInv'
  BY GivesUpCanary DEF ReqInv, ErrandGivesUp
<1>7. ErrandCrash => CanaryInv'
  BY CrashCanary
<1>8. ASSUME NEW r \in Req, NEW id \in ID, PlatformSend(r, id) PROVE CanaryInv'
  <2>1. /\ UNCHANGED errand /\ UNCHANGED tracker /\ h[r] = Idle /\ h'[r].op # "upgrade"
        /\ \A q \in Req \ {r} : h'[q] = h[q]
    BY <1>8, SendQuiet DEF PlatformSend
  <2>2. ~Asks(r) /\ ~Polls(r)
    <3>1. h[r].op = "none"
      BY <2>1 DEF Idle
    <3> QED BY <3>1 DEF CanaryInv, Upgrading, Polling
  <2>3. CASE errand.req # r
    BY <1>1, <2>1, <2>3, CanaryFrame
  <2>4. CASE errand.req = r
    BY <1>1, <2>1, <2>2, <2>4 DEF CanaryInv, Untouched, Watching, NoUpgrade, Tracked,
       Asks, Polls
  <2> QED BY <2>3, <2>4
<1>9. ASSUME NEW r \in Req, Step(r), UNCHANGED errand PROVE CanaryInv'
  BY <1>1, <1>9, StepCanary
<1>10. ASSUME NEW id \in ID, GiveUp(id) PROVE UNCHANGED <<h, tracker>>
  BY <1>10 DEF GiveUp, vars, brokerVars
<1>11. ASSUME NEW t \in TaskId, Director(t) PROVE UNCHANGED <<h, tracker>>
  BY <1>11 DEF Director, TaskEnds, brokerVars
<1>12. Rest \/ UNCHANGED evars => UNCHANGED <<h, tracker>>
  BY Zenon DEF Rest, evars, allVars, vars, brokerVars
<1>13. UNCHANGED evars => UNCHANGED errand
  BY DEF evars
<1>14. ErrandUnlisted => CanaryInv'
  BY UnlistedCanary
<1> QED BY <1>2, <1>3, <1>4, <1>5, <1>6, <1>7, <1>8, <1>9, <1>10, <1>11, <1>12, <1>13,
           <1>14 DEF ErrandNext

\* The script turns to the rest of the fleet only on a status answer that
\* counts the whole canary.
LEMMA PhaseTurns ==
  ASSUME TypeInv, ErrandInv, CanaryInv, [ErrandNext]_evars,
         errand.phase = 1, errand'.phase = 2
  PROVE  \A i \in ID : tracker[i] # 0 => tasks[tracker[i]].status = "done"
<1>1. errand \in Script
  BY DEF ErrandInv
<1>2. ASSUME NEW msg PROVE ~Exit(msg)
  BY <1>1, ExitMove
<1>3. ~Wait
  BY <1>1, WaitMove
<1>4. errand' # errand
  OBVIOUS
<1>5. ~ErrandList
  <2> SUFFICES ASSUME ErrandList PROVE errand'.phase = 1
    OBVIOUS
  <2> DEFINE k == CanaryCount(Cardinality(AdminListInstances))
  <2>1. \/ errand' = [Off EXCEPT !.exit = "nothing", !.runs = errand.runs + 1]
        \/ errand' = [Off EXCEPT !.pc = "upgrade", !.runs = errand.runs + 1,
                                 !.listed = AdminListInstances, !.canary = k]
    BY Zenon DEF ErrandList
  <2> HIDE DEF k
  <2> QED BY Zenon, <2>1 DEF Off
<1>6. ~ErrandGivesUp /\ ~ErrandUnlisted
  <2>1. ErrandUnlisted => errand'.phase = 1
    BY Zenon DEF ErrandUnlisted, Off
  <2> QED BY <1>2, <1>3, <2>1 DEF ErrandGivesUp, Unreached
<1>7. ~ErrandCrash
  <2>1. errand' # [errand EXCEPT !.runs = 0]
    BY <1>1 DEF Script
  <2> QED BY <1>2, <1>3, <1>4, <2>1 DEF ErrandCrash, Unreached
<1>8. ASSUME NEW r \in Req PROVE ~ErrandUpgrade(r) /\ ~ErrandUpgraded(r) /\ ~ErrandPoll(r)
  <2> DEFINE a == [errand EXCEPT !.pc = "answer", !.req = r]
             b == [errand EXCEPT !.pc = "poll", !.req = "none", !.elapsed = 0]
             c == [errand EXCEPT !.pc = "status", !.req = r]
  <2>1. a.phase = errand.phase /\ b.phase = errand.phase /\ c.phase = errand.phase
    BY Zenon, <1>1 DEF Script
  <2> HIDE DEF a, b, c
  <2>2. errand' \notin {a, b, c}
    BY <2>1
  <2> QED BY Zenon, <1>2, <2>2 DEF a, b, c, ErrandUpgrade, ErrandUpgraded, ErrandPoll
<1>9. UNCHANGED evars => errand' = errand
  BY DEF evars
<1>10. PICK r \in Req : ErrandPolled(r)
  BY <1>4, <1>5, <1>6, <1>7, <1>8, <1>9 DEF ErrandNext, ErrandStep, PlatformReceive,
     PlatformSend
<1>11. /\ errand.pc = "status" /\ errand.req = r /\ h[r].count >= errand.canary
       /\ errand.canary \in Nat
  BY <1>1, <1>3, <1>10 DEF ErrandPolled, Wanted, Script
<1>12. Polling(r) /\ Cardinality(Tracked) <= errand.canary
  BY <1>11 DEF CanaryInv, Polls, Watching
<1>13. Healthy(r) = Tracked
  <2> DEFINE n == Cardinality(Healthy(r))
             k == Cardinality(Tracked)
  <2>1. /\ n \in Nat /\ k \in Nat /\ n <= k /\ (n = k => Healthy(r) = Tracked)
    BY Zenon, CanaryFinite DEF Healthy, Finished
  <2>2. h[r].count \in Nat /\ Found(r) \in Nat /\ h[r].count + Found(r) <= n
    BY <1>12 DEF Polling, Found, TypeInv, GoodHandler, Handler
  <2>3. k <= errand.canary
    BY <1>12
  <2> HIDE DEF n, k
  <2> QED BY <1>11, <2>1, <2>2, <2>3
<1> QED BY Zenon, <1>13 DEF Healthy, Finished, Tracked

\* Where the errand runs at most once in a broker's life, the rest of the fleet
\* is touched only after every redeploy of the canary phase is done, whatever
\* the platform, the director and the network do and whenever the broker
\* crashes.
THEOREM CanaryGoesFirst ==
  ASSUME MaxRuns <= 1 PROVE ErrandSpec => CanaryFirst
<1>1. ErrandInit => CanaryInv /\ ReqInv
  BY DEF ErrandInit, PlatformInit, Init, Off, Idle, CanaryInv, Untouched, Watching,
     Asks, Polls, NoUpgrade, Tracked, ReqInv
<1>2. ErrandInv /\ ReqInv /\ [ErrandNext]_evars => ReqInv'
  BY ReqStep
<1>3. TypeInv /\ TaskOwner /\ ErrandInv /\ ReqInv /\ CanaryInv /\ [ErrandNext]_evars
      /\ [Next]_vars => CanaryInv'
  BY CanaryStep
<1>4. TypeInv /\ ErrandInv /\ CanaryInv /\ [ErrandNext]_evars =>
        [errand.phase = 1 /\ errand'.phase = 2 =>
           \A i \in ID : tracker[i] # 0 => tasks[tracker[i]].status = "done"]_evars
  BY PhaseTurns
<1> QED BY <1>1, <1>2, <1>3, <1>4, ErrandInvariant, ErrandTasksNeverCross,
           ErrandIsBroker, TypeInvariant, PTL DEF ErrandSpec, Spec, CanaryFirst

-----------------------------------------------------------------------------
(* The types of the composition.                                           *)

\* The errand's own steps leave the platform's belief alone; every other step
\* is one of the platform's.
LEMMA ErrandKeepsPlatform == ASSUME PlatformOK, [ErrandNext]_evars PROVE PlatformOK'
<1>1. CASE UNCHANGED pvars
  BY <1>1 DEF pvars, PlatformOK
<1>2. CASE PlatformNext
  BY <1>2, PlatformTyped
<1>3. ASSUME NEW r \in Req, ErrandStep(r) PROVE UNCHANGED pvars
  BY <1>3 DEF ErrandStep, ErrandUpgrade, ErrandUpgraded, ErrandPoll, ErrandPolled
<1>4. ErrandList \/ ErrandUnlisted \/ ErrandGivesUp \/ UNCHANGED evars => UNCHANGED pvars
  BY DEF ErrandList, ErrandUnlisted, ErrandGivesUp, evars, allVars
<1>5. ASSUME NEW r \in Req, PlatformReceive(r) PROVE PlatformNext
  BY <1>5 DEF PlatformReceive, PlatformNext
<1>6. ASSUME NEW r \in Req, NEW id \in ID, PlatformSend(r, id) PROVE PlatformNext
  BY <1>6 DEF PlatformSend, PlatformNext
<1>7. ASSUME NEW id \in ID, GiveUp(id) PROVE PlatformNext
  BY <1>7 DEF PlatformNext
<1>8. ErrandCrash => PlatformNext
  BY DEF ErrandCrash, PlatformNext
<1> QED BY <1>1, <1>2, <1>3, <1>4, <1>5, <1>6, <1>7, <1>8 DEF ErrandNext

\* Beside the errand too, broker, director, platform and script keep their
\* types: the script's counts are those of a run over existing instances.
THEOREM ErrandTypeCorrect == ErrandSpec => []ErrandTypeOK
<1>1. ErrandInit => PlatformOK
  BY DEF ErrandInit, PlatformInit, PlatformOK, CfStates
<1>2. PlatformOK /\ [ErrandNext]_evars => PlatformOK'
  BY ErrandKeepsPlatform
<1>3. TypeOK /\ PlatformOK /\ ErrandInv => ErrandTypeOK
  BY DEF PlatformOK, PlatformTypeOK, ErrandInv, ErrandTypeOK
<1> QED BY <1>1, <1>2, <1>3, ErrandInvariant, ErrandIsBroker, TypeCorrect, PTL
       DEF ErrandSpec
=============================================================================
