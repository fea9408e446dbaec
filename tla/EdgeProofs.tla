----------------------------- MODULE EdgeProofs -----------------------------
(***************************************************************************)
(* The broker's edges.  The Director client, for any number of callers,    *)
(* any token lifetimes and any margin no shorter than the timeout: the     *)
(* cache hands out no dead token, and a change call makes at most one task *)
(* and returns it.  The state file: saveState calls that do not overlap    *)
(* write it atomically, for every map, file size and failure.              *)
(***************************************************************************)
EXTENDS BoshClient, StateFile, TLAPS

-----------------------------------------------------------------------------
(* The Director client.                                                    *)

\* A call of one caller that keeps its own record sound keeps them all.
LEMMA SetSound ==
  ASSUME ClientInv, NEW c \in Callers, NEW r \in CallRecord, Sound(r), Set(c, r)
  PROVE  /\ calls' \in [Callers -> CallRecord]
         /\ \A d \in Callers : Sound(calls'[d])
<1>1. calls \in [Callers -> CallRecord] /\ calls' = [calls EXCEPT ![c] = r]
  BY DEF ClientInv, ClientTypeOK, Set
<1>2. calls' \in [Callers -> CallRecord]
  BY <1>1
<1>3. ASSUME NEW d \in Callers PROVE Sound(calls'[d])
  <2>1. CASE d = c
    BY <2>1, <1>1
  <2>2. CASE d # c
    BY <2>2, <1>1 DEF ClientInv
  <2>3. QED BY <2>1, <2>2
<1>4. QED BY <1>2, <1>3

\* A caller's record as the type invariant gives it.
LEMMA RecordTyped ==
  ASSUME ClientInv, NEW c \in Callers
  PROVE  calls[c] \in CallRecord /\ Sound(calls[c])
BY DEF ClientInv, ClientTypeOK

\* Finishing a call leaves a sound record.
LEMMA FinishSound ==
  ASSUME ClientInv, NEW c \in Callers, NEW pc \in {"ok", "failed"}, NEW id \in Nat,
         Finish(c, pc, id)
  PROVE  /\ calls' \in [Callers -> CallRecord]
         /\ \A d \in Callers : Sound(calls'[d])
<1> DEFINE r == [Ready EXCEPT !.pc = pc, !.kind = calls[c].kind,
                              !.task = calls[c].task, !.got = id]
<1>1. Ready \in CallRecord
  BY ClientAssumption DEF Ready, CallRecord, PCs, Kinds, Responses, NoResponse, NoId
<1>2. r \in CallRecord
  BY <1>1, RecordTyped DEF CallRecord, PCs
<1>3. r.pc = pc
  BY <1>1 DEF CallRecord
<1>4. Sound(r)
  BY <1>3 DEF Sound, Early
<1>5. Set(c, r)
  BY DEF Finish
<1>6. QED BY <1>2, <1>4, <1>5, SetSound

\* A call may begin at age zero.
LEMMA ZeroAge == 0 \in 0..Timeout
BY ClientAssumption

\* The resting record is typed and sound.
LEMMA ReadySound == Ready \in CallRecord /\ Sound(Ready)
BY ClientAssumption DEF Ready, CallRecord, PCs, Kinds, Responses, NoResponse, NoId, Sound, Early

\* The initial state satisfies the invariant.
LEMMA InitInv == ClientInit => ClientInv
BY ReadySound, ClientAssumption DEF ClientInit, ClientInv, ClientTypeOK

\* A call begins.
LEMMA CallInv ==
  ASSUME ClientInv, NEW c \in Callers, NEW kind \in Kinds, Call(c, kind)
  PROVE  ClientInv'
<1> DEFINE r == [Ready EXCEPT !.kind = kind, !.pc = IF uaaURL THEN "lock" ELSE "send"]
<1>1. r \in CallRecord
  BY ReadySound DEF CallRecord, PCs, Kinds
<1>2. r.pc \in {"lock", "send"} /\ r.task = 0 /\ r.got = 0
  BY DEF Ready
<1>3. Sound(r)
  BY <1>2 DEF Sound
<1>4. Set(c, r)
  BY DEF Call
<1>5. QED BY <1>1, <1>3, <1>4, SetSound DEF ClientInv, ClientTypeOK, Call

\* The token is looked up in the cache.
LEMMA LockInv ==
  ASSUME ClientInv, NEW c \in Callers, Lock(c)
  PROVE  ClientInv'
<1> USE RecordTyped
<1>1. CASE /\ Set(c, [calls[c] EXCEPT !.pc = "send", !.good = token.good])
           /\ UNCHANGED mu
  <2> DEFINE r == [calls[c] EXCEPT !.pc = "send", !.good = token.good]
  <2>1. r \in CallRecord
    BY DEF CallRecord, PCs, ClientInv, ClientTypeOK
  <2>2. r.pc = "send" /\ r.task = calls[c].task /\ r.got = calls[c].got
    BY DEF CallRecord
  <2>3. Sound(r)
    BY <2>2 DEF Lock, At, Sound, Early
  <2>4. QED BY <1>1, <2>1, <2>3, SetSound DEF ClientInv, ClientTypeOK, Lock
<1>2. CASE /\ mu' = c
           /\ Set(c, [calls[c] EXCEPT !.pc = "uaa", !.age = 0])
  <2> DEFINE r == [calls[c] EXCEPT !.pc = "uaa", !.age = 0]
  <2>1. r \in CallRecord
    BY ZeroAge DEF CallRecord, PCs
  <2>2. r.pc = "uaa" /\ r.task = calls[c].task /\ r.got = calls[c].got
    BY DEF CallRecord
  <2>3. Sound(r)
    BY <2>2 DEF Lock, At, Sound, Early
  <2>4. QED BY <1>2, <2>1, <2>3, SetSound DEF ClientInv, ClientTypeOK, Lock
<1>3. QED BY <1>1, <1>2 DEF Lock

\* UAA makes a token: it has lost nothing yet.
LEMMA IssueInv ==
  ASSUME ClientInv, NEW c \in Callers, NEW life \in Lifetimes, UaaIssue(c, life)
  PROVE  ClientInv'
<1> DEFINE r == [calls[c] EXCEPT !.pc = "issued", !.life = life, !.good = life]
<1> USE RecordTyped
<1>1. life \in Nat
  BY ClientAssumption
<1>2. r \in CallRecord
  BY <1>1 DEF CallRecord, PCs
<1>3. /\ r.pc = "issued" /\ r.task = calls[c].task /\ r.got = calls[c].got
      /\ r.good = life /\ r.life = life /\ r.age \in Nat
  BY ClientAssumption DEF CallRecord
<1>4. Sound(r)
  BY <1>1, <1>3 DEF UaaIssue, At, Sound, Early
<1>5. QED BY <1>2, <1>4, SetSound DEF ClientInv, ClientTypeOK, UaaIssue

\* The answer arrives: what the delay took is within the margin.
LEMMA GotTokenInv ==
  ASSUME ClientInv, NEW c \in Callers, GotToken(c)
  PROVE  ClientInv'
<1> DEFINE r == [calls[c] EXCEPT !.pc = "send", !.life = 0, !.age = 0]
<1> USE RecordTyped
<1>1. r \in CallRecord
  BY ZeroAge DEF CallRecord, PCs
<1>2. r.pc = "send" /\ r.task = calls[c].task /\ r.got = calls[c].got
  BY DEF CallRecord
<1>3. Sound(r)
  BY <1>2 DEF GotToken, At, Sound, Early
<1>4. /\ calls[c].life \in Nat /\ calls[c].good \in Nat /\ calls[c].age \in 0..Timeout
      /\ calls[c].good + calls[c].age >= calls[c].life
  BY DEF CallRecord, GotToken, At, Sound
<1>5. token' \in [keep: Nat, good: Nat] /\ token'.good >= token'.keep
  BY <1>4, ClientAssumption DEF GotToken, margin
<1>6. QED BY <1>1, <1>3, <1>5, SetSound DEF ClientInv, ClientTypeOK, GotToken

\* UAA fails.
LEMMA UaaFailsInv ==
  ASSUME ClientInv, NEW c \in Callers, UaaFails(c)
  PROVE  ClientInv'
BY FinishSound DEF UaaFails, ClientInv, ClientTypeOK

\* The request goes out.
LEMMA SendInv ==
  ASSUME ClientInv, NEW c \in Callers, Send(c)
  PROVE  ClientInv'
<1> DEFINE r == [calls[c] EXCEPT !.pc = "sent", !.age = 0]
<1> USE RecordTyped
<1>1. r \in CallRecord
  BY ZeroAge DEF CallRecord, PCs
<1>2. r.pc = "sent" /\ r.task = calls[c].task /\ r.got = calls[c].got
  BY DEF CallRecord
<1>3. Sound(r)
  BY <1>2 DEF Send, At, Sound, Early
<1>4. QED BY <1>1, <1>3, SetSound DEF ClientInv, ClientTypeOK, Send

\* The Director makes a task and names it in its answer.
LEMMA AcceptsInv ==
  ASSUME ClientInv, NEW c \in Callers, NEW code \in {302, 200}, DirectorAccepts(c, code)
  PROVE  ClientInv'
<1> DEFINE resp == [code |-> code, id |-> issued + 1]
           r == [calls[c] EXCEPT !.pc = "answer", !.task = issued + 1,
                                 !.good = 0, !.resp = resp]
<1> USE RecordTyped
<1>1. issued + 1 \in 0..MaxTask /\ issued + 1 \in Nat /\ issued + 1 # 0
  BY ClientAssumption DEF DirectorAccepts, ClientInv, ClientTypeOK
<1>2. resp \in Responses
  BY <1>1 DEF Responses
<1>3. r \in CallRecord
  <2> DEFINE a == [calls[c] EXCEPT !.pc = "answer", !.task = issued + 1]
  <2>1. a \in CallRecord
    <3>1. calls[c] \in CallRecord /\ issued + 1 \in Nat
      BY <1>1
    <3> HIDE RecordTyped
    <3>2. QED BY <3>1 DEF CallRecord, PCs
  <2>2. r = [a EXCEPT !.good = 0, !.resp = resp]
    OBVIOUS
  <2> HIDE DEF a, resp, r
  <2>3. QED BY <1>2, <2>1, <2>2 DEF CallRecord
<1>4. r.pc = "answer" /\ r.task = issued + 1 /\ r.got = calls[c].got /\ r.resp = resp
  BY DEF CallRecord
<1>5. extractTaskID(resp) = issued + 1
  BY <1>1 DEF extractTaskID, NoId
<1>6. calls[c].got = 0
  BY DEF DirectorAccepts, At, Sound, Early
<1>7. Sound(r)
  BY <1>1, <1>4, <1>5, <1>6 DEF Sound, Early
<1>8. Set(c, r) /\ issued' = issued + 1 /\ UNCHANGED <<uaaURL, token, mu>>
  BY DEF DirectorAccepts
<1>9. QED BY <1>1, <1>3, <1>7, <1>8, SetSound DEF ClientInv, ClientTypeOK

\* The Director answers without a task: no change call reads one from it.
LEMMA AnswersInv ==
  ASSUME ClientInv, NEW c \in Callers, NEW resp \in Bodies, DirectorAnswers(c, resp)
  PROVE  ClientInv'
<1> DEFINE r == [calls[c] EXCEPT !.pc = "answer", !.good = 0, !.resp = resp]
<1> USE RecordTyped
<1>1. resp \in Responses
  BY DEF Bodies, Responses, NoId
<1>2. r \in CallRecord
  BY <1>1 DEF CallRecord, PCs
<1>3. /\ r.pc = "answer" /\ r.got = calls[c].got /\ r.resp = resp
      /\ r.kind = calls[c].kind
  BY DEF CallRecord
<1>4. r.got = 0
  BY <1>3 DEF DirectorAnswers, At, Sound, Early
<1>5. r.kind = "change" => extractTaskID(resp) = NoId
  BY <1>3 DEF DirectorAnswers, extractTaskID, Bodies, NoId
<1>6. Sound(r)
  BY <1>3, <1>4, <1>5 DEF Sound, Early
<1>7. QED BY <1>2, <1>6, SetSound DEF ClientInv, ClientTypeOK, DirectorAnswers

\* The transport fails.
LEMMA LostInv ==
  ASSUME ClientInv, NEW c \in Callers, DirectorLost(c)
  PROVE  ClientInv'
BY FinishSound DEF DirectorLost, ClientInv, ClientTypeOK

\* The answer is read.
LEMMA ReadInv ==
  ASSUME ClientInv, NEW c \in Callers, Read(c)
  PROVE  ClientInv'
<1> DEFINE id == IF calls[c].kind = "status" THEN TaskState(calls[c].resp)
                 ELSE extractTaskID(calls[c].resp)
<1>1. calls[c].resp \in Responses
  BY RecordTyped DEF CallRecord
<1>2. id # NoId => id \in Nat
  BY <1>1 DEF Responses, TaskState, extractTaskID
<1>3. (\A d \in Callers : Sound(calls'[d])) /\ calls' \in [Callers -> CallRecord]
  <2>1. CASE id = NoId
    BY <2>1, FinishSound DEF Read
  <2>2. CASE id # NoId
    BY <2>2, <1>2, FinishSound DEF Read
  <2>3. QED BY <2>1, <2>2
<1>4. QED BY <1>3 DEF ClientInv, ClientTypeOK, Read

\* The caller goes on.
LEMMA ReturnInv ==
  ASSUME ClientInv, NEW c \in Callers, Return(c)
  PROVE  ClientInv'
BY ReadySound, SetSound DEF Return, ClientInv, ClientTypeOK

\* Time passes: the cache loses its margin no later than the token its life.
LEMMA TickInv ==
  ASSUME ClientInv, Tick
  PROVE  ClientInv'
<1>1. token \in [keep: Nat, good: Nat] /\ token.good >= token.keep
  BY DEF ClientInv, ClientTypeOK
<1>2. token' \in [keep: Nat, good: Nat] /\ token'.good >= token'.keep
  <2>1. token.keep \in Nat /\ token.good \in Nat
    BY <1>1
  <2>2. /\ Less(token.keep) \in Nat /\ Less(token.good) \in Nat
        /\ Less(token.good) >= Less(token.keep)
    BY <1>1, <2>1 DEF Less
  <2>3. token' = [keep |-> Less(token.keep), good |-> Less(token.good)]
    BY DEF Tick
  <2>4. QED BY <2>2, <2>3
<1>3. ASSUME NEW c \in Callers
      PROVE  calls'[c] \in CallRecord /\ Sound(calls'[c])
  <2> DEFINE r == [calls[c] EXCEPT !.good = Less(@),
                                   !.age = IF OnWire(c) THEN @ + 1 ELSE @]
  <2>1. calls[c] \in CallRecord /\ Sound(calls[c]) /\ calls'[c] = r
    BY RecordTyped DEF Tick
  <2>2. /\ calls[c].good \in Nat /\ calls[c].age \in 0..Timeout
        /\ calls[c].life \in Nat
    BY <2>1 DEF CallRecord
  <2>3. Less(calls[c].good) \in Nat /\ Less(calls[c].good) + 1 >= calls[c].good
    BY <2>2 DEF Less
  <2>4. (IF OnWire(c) THEN calls[c].age + 1 ELSE calls[c].age) \in 0..Timeout
    <3>1. OnWire(c) => calls[c].age < Timeout
      BY DEF Tick
    <3>2. QED BY <2>2, <3>1, ClientAssumption
  <2>5. r \in CallRecord
    BY <2>1, <2>3, <2>4 DEF CallRecord
  <2>6. /\ r.pc = calls[c].pc /\ r.task = calls[c].task /\ r.got = calls[c].got
        /\ r.resp = calls[c].resp /\ r.kind = calls[c].kind /\ r.life = calls[c].life
        /\ r.good = Less(calls[c].good)
        /\ r.age = (IF OnWire(c) THEN calls[c].age + 1 ELSE calls[c].age)
    BY <2>1 DEF CallRecord
  <2>7. r.pc = "issued" => r.good + r.age >= r.life
    BY <2>1, <2>2, <2>3, <2>6 DEF OnWire, Sound
  <2>8. Sound(r)
    BY <2>1, <2>6, <2>7 DEF Sound
  <2>9. QED BY <2>1, <2>5, <2>8
<1>4. calls' \in [Callers -> CallRecord]
  BY <1>3 DEF Tick
<1>5. QED BY <1>2, <1>3, <1>4 DEF ClientInv, ClientTypeOK, Tick

\* Every step keeps the invariant.
LEMMA StepInv == ClientInv /\ [ClientNext]_vars => ClientInv'
<1> SUFFICES ASSUME ClientInv, [ClientNext]_vars PROVE ClientInv'
  OBVIOUS
<1>1. ASSUME NEW c \in Callers, NEW kind \in Kinds, Call(c, kind) PROVE ClientInv'
  BY <1>1, CallInv
<1>2. ASSUME NEW c \in Callers, Lock(c) PROVE ClientInv'
  BY <1>2, LockInv
<1>3. ASSUME NEW c \in Callers, Local(c) PROVE ClientInv'
  BY <1>3, SendInv, GotTokenInv, ReadInv, ReturnInv DEF Local
<1>4. ASSUME NEW c \in Callers, Remote(c) PROVE ClientInv'
  BY <1>4, IssueInv, AcceptsInv, AnswersInv DEF Remote
<1>5. ASSUME NEW c \in Callers, Fails(c) PROVE ClientInv'
  BY <1>5, UaaFailsInv, LostInv DEF Fails
<1>6. CASE Tick
  BY <1>6, TickInv
<1>7. CASE UNCHANGED vars
  BY <1>7 DEF vars, ClientInv, ClientTypeOK
<1>8. QED BY <1>1, <1>2, <1>3, <1>4, <1>5, <1>6, <1>7 DEF ClientNext

\* The invariant holds throughout.
LEMMA AlwaysInv == ClientSpec => []ClientInv
BY InitInv, StepInv, PTL DEF ClientSpec

\* The cache never hands out a token UAA has dropped, however long UAA's
\* answers take, for every lifetime and every margin no shorter than the
\* timeout (getToken).
THEOREM CacheNeverStale == ClientSpec => []CachedIsLive
<1>1. ClientInv => CachedIsLive
  BY DEF ClientInv, ClientTypeOK, CachedIsLive
<1>2. QED BY <1>1, AlwaysInv, PTL

\* The client keeps its types: the mutex has a holder or none, and no call is
\* older than the timeout of its request.
THEOREM ClientTypeCorrect == ClientSpec => []ClientTypeOK
<1>1. ClientInv => ClientTypeOK
  BY DEF ClientInv
<1>2. QED BY <1>1, AlwaysInv, PTL

-----------------------------------------------------------------------------
(* Refinement: every step of the client is a step of DirectorCalls or none. *)

\* A step of one call changes what is seen of that call only.
LEMMA SeenStep ==
  ASSUME ClientInv, NEW c \in Callers, NEW r, Set(c, r)
  PROVE  /\ Calls' = [Calls EXCEPT ![c] = Seen(r)]
         /\ Seen(r) = Seen(calls[c]) => Calls' = Calls
<1>1. calls' = [calls EXCEPT ![c] = r] /\ calls \in [Callers -> CallRecord]
  BY DEF Set, ClientInv, ClientTypeOK
<1>2. Calls' = [d \in Callers |-> Seen(calls'[d])]
  BY DEF Calls
<1>3. Calls = [d \in Callers |-> Seen(calls[d])]
  BY DEF Calls
<1>4. ASSUME NEW d \in Callers
      PROVE  Seen(calls'[d]) = IF d = c THEN Seen(r) ELSE Seen(calls[d])
  BY <1>1
<1>5. QED BY <1>2, <1>3, <1>4

\* A call begins.
LEMMA CallRefines ==
  ASSUME ClientInv, NEW c \in Callers, NEW kind \in Kinds, Call(c, kind)
  PROVE  [Abstract!Next]_(Abstract!vars)
<1> DEFINE r == [Ready EXCEPT !.kind = kind, !.pc = IF uaaURL THEN "lock" ELSE "send"]
<1>1. r \in CallRecord
  BY ReadySound DEF CallRecord, PCs, Kinds
<1>2. r.pc \in {"lock", "send"} /\ r.task = 0 /\ r.got = 0 /\ r.kind = kind
  BY DEF Ready
<1>3. Seen(calls[c]) = [pc |-> "idle", task |-> 0, got |-> 0]
  BY RecordTyped DEF Call, At, Seen
<1>4. Calls[c] = Seen(calls[c]) /\ Calls \in [Callers -> {Seen(calls[d]) : d \in Callers}]
  BY DEF Calls
<1>5. Set(c, r) /\ UNCHANGED issued
  BY DEF Call
<1> HIDE DEF r
<1>6. CASE kind = "status"
  <2>1. Seen(r) = Seen(calls[c])
    BY <1>2, <1>3, <1>6 DEF Seen
  <2>2. QED BY <2>1, <1>5, SeenStep DEF Abstract!vars
<1>7. CASE kind = "change"
  <2>1. Seen(r) = [pc |-> "running", task |-> 0, got |-> 0]
    BY <1>2, <1>7 DEF Seen
  <2>2. Calls' = [Calls EXCEPT ![c].pc = "running"]
    BY <2>1, <1>3, <1>4, <1>5, SeenStep
  <2>3. Abstract!Start(c)
    BY <2>2, <1>3, <1>4, <1>5 DEF Abstract!Start
  <2>4. QED BY <2>3 DEF Abstract!Next
<1>8. QED BY <1>6, <1>7 DEF Kinds

\* A call that fails.
LEMMA FailRefines ==
  ASSUME ClientInv, NEW c \in Callers, Finish(c, "failed", 0), UNCHANGED issued,
         calls[c].pc \in {"uaa", "issued", "sent", "answer"}
  PROVE  [Abstract!Next]_(Abstract!vars)
<1> DEFINE r == [Ready EXCEPT !.pc = "failed", !.kind = calls[c].kind,
                              !.task = calls[c].task, !.got = 0]
<1>1. Set(c, r)
  BY DEF Finish
<1>2. r.pc = "failed" /\ r.kind = calls[c].kind /\ r.task = calls[c].task /\ r.got = 0
  BY DEF Ready
<1>3. calls[c].got = 0
  BY RecordTyped DEF Sound, Early
<1>4. Calls[c] = Seen(calls[c])
  BY DEF Calls
<1> HIDE DEF r
<1>5. CASE calls[c].kind = "status"
  <2>1. Seen(r) = Seen(calls[c])
    BY <1>2, <1>5 DEF Seen
  <2>2. QED BY <2>1, <1>1, SeenStep DEF Abstract!vars
<1>6. CASE calls[c].kind # "status"
  <2>1. Seen(r) = [pc |-> "failed", task |-> calls[c].task, got |-> 0]
    BY <1>2, <1>6 DEF Seen
  <2>2. Seen(calls[c]) = [pc |-> "running", task |-> calls[c].task, got |-> 0]
    BY <1>3, <1>6 DEF Seen
  <2>3. Calls' = [Calls EXCEPT ![c].pc = "failed"]
    BY <2>1, <2>2, <1>1, <1>4, SeenStep
  <2>4. Abstract!Fail(c)
    BY <2>2, <2>3, <1>4 DEF Abstract!Fail
  <2>5. QED BY <2>4 DEF Abstract!Next
<1>7. QED BY <1>5, <1>6

\* The Director makes the call's one task.
LEMMA AcceptRefines ==
  ASSUME ClientInv, NEW c \in Callers, NEW code \in {302, 200}, DirectorAccepts(c, code)
  PROVE  [Abstract!Next]_(Abstract!vars)
<1> DEFINE r == [calls[c] EXCEPT !.pc = "answer", !.task = issued + 1, !.good = 0,
                                 !.resp = [code |-> code, id |-> issued + 1]]
<1>1. Set(c, r) /\ issued' = issued + 1 /\ calls[c].pc = "sent" /\ calls[c].kind # "status"
  BY DEF DirectorAccepts, At
<1>2. /\ r.pc = "answer" /\ r.kind = calls[c].kind /\ r.task = issued + 1
      /\ r.got = calls[c].got
  BY RecordTyped DEF CallRecord
<1>3. calls[c].got = 0 /\ calls[c].task = 0
  BY <1>1, RecordTyped DEF Sound, Early
<1>4. Calls[c] = Seen(calls[c])
  BY DEF Calls
<1> HIDE DEF r
<1>5. Seen(r) = [pc |-> "running", task |-> issued + 1, got |-> 0]
  BY <1>1, <1>2, <1>3 DEF Seen
<1>6. Seen(calls[c]) = [pc |-> "running", task |-> 0, got |-> 0]
  BY <1>1, <1>3 DEF Seen
<1>7. Calls' = [Calls EXCEPT ![c].task = issued + 1]
  BY <1>1, <1>4, <1>5, <1>6, SeenStep
<1>8. Calls[c].pc = "running" /\ Calls[c].task = 0
  BY <1>4, <1>6
<1>9. Abstract!Issue(c)
  BY <1>1, <1>7, <1>8, Zenon DEF Abstract!Issue
<1>10. QED BY <1>9 DEF Abstract!Next

\* A call that succeeds returns its own task.
LEMMA ReadRefines ==
  ASSUME ClientInv, NEW c \in Callers, Read(c)
  PROVE  [Abstract!Next]_(Abstract!vars)
<1> DEFINE id == IF calls[c].kind = "status" THEN TaskState(calls[c].resp)
                 ELSE extractTaskID(calls[c].resp)
           r == [Ready EXCEPT !.pc = "ok", !.kind = calls[c].kind,
                              !.task = calls[c].task, !.got = id]
<1>1. calls[c].pc = "answer" /\ UNCHANGED issued
  BY DEF Read, At
<1>2. Calls[c] = Seen(calls[c])
  BY DEF Calls
<1>3. CASE id = NoId
  BY <1>1, <1>3, FailRefines DEF Read
<1>4. CASE id # NoId
  <2>1. Set(c, r)
    BY <1>4 DEF Read, Finish
  <2>2. r.pc = "ok" /\ r.kind = calls[c].kind /\ r.task = calls[c].task /\ r.got = id
    BY DEF Ready
  <2> HIDE DEF r
  <2>3. CASE calls[c].kind = "status"
    <3>1. Seen(r) = Seen(calls[c])
      BY <2>2, <2>3 DEF Seen
    <3>2. QED BY <3>1, <1>1, <2>1, SeenStep DEF Abstract!vars
  <2>4. CASE calls[c].kind # "status"
    <3>1. id = calls[c].task /\ calls[c].task # 0 /\ calls[c].got = 0
      BY <1>1, <1>4, <2>4, RecordTyped DEF Sound, CallRecord, Kinds
    <3>2. Seen(r) = [pc |-> "ok", task |-> calls[c].task, got |-> calls[c].task]
      BY <2>2, <2>4, <3>1 DEF Seen
    <3>3. Seen(calls[c]) = [pc |-> "running", task |-> calls[c].task, got |-> 0]
      BY <1>1, <2>4, <3>1 DEF Seen
    <3>4. Calls' = [Calls EXCEPT ![c] = [pc |-> "ok", task |-> Calls[c].task,
                                          got |-> Calls[c].task]]
      BY <3>2, <3>3, <1>2, <2>1, SeenStep
    <3>5. Abstract!Succeed(c)
      BY <3>1, <3>3, <3>4, <1>1, <1>2 DEF Abstract!Succeed
    <3>6. QED BY <3>5 DEF Abstract!Next
  <2>5. QED BY <2>3, <2>4
<1>5. QED BY <1>3, <1>4

\* The caller goes on.
LEMMA ReturnRefines ==
  ASSUME ClientInv, NEW c \in Callers, Return(c)
  PROVE  [Abstract!Next]_(Abstract!vars)
<1>1. Set(c, Ready) /\ UNCHANGED issued /\ calls[c].pc \in {"ok", "failed"}
  BY DEF Return, At
<1>2. Seen(Ready) = Abstract!Ready
  BY DEF Seen, Ready, Abstract!Ready
<1>3. Calls[c] = Seen(calls[c])
  BY DEF Calls
<1>4. CASE calls[c].kind = "status"
  <2>1. Seen(calls[c]) = Abstract!Ready
    BY <1>4 DEF Seen, Abstract!Ready
  <2>2. QED BY <2>1, <1>1, <1>2, SeenStep DEF Abstract!vars
<1>5. CASE calls[c].kind # "status"
  <2>1. Calls[c].pc \in {"ok", "failed"}
    BY <1>1, <1>3, <1>5 DEF Seen
  <2>2. Calls' = [Calls EXCEPT ![c] = Abstract!Ready]
    BY <1>1, <1>2, SeenStep
  <2>3. Abstract!Return(c)
    BY <1>1, <2>1, <2>2 DEF Abstract!Return
  <2>4. QED BY <2>3 DEF Abstract!Next
<1>6. QED BY <1>4, <1>5

\* The steps that only move the token or the clock are not seen.
LEMMA QuietRefines ==
  ASSUME ClientInv, NEW c \in Callers,
         \/ Lock(c) \/ GotToken(c) \/ Send(c)
         \/ \E life \in Lifetimes : UaaIssue(c, life)
         \/ \E resp \in Bodies : DirectorAnswers(c, resp)
  PROVE  [Abstract!Next]_(Abstract!vars)
<1>1. calls[c] \in CallRecord /\ UNCHANGED issued
  BY RecordTyped DEF Lock, GotToken, Send, UaaIssue, DirectorAnswers
<1>2. PICK r : /\ Set(c, r) /\ Seen(r) = Seen(calls[c])
  <2>1. ASSUME Lock(c) PROVE \E r : Set(c, r) /\ Seen(r) = Seen(calls[c])
    <3>1. CASE Set(c, [calls[c] EXCEPT !.pc = "send", !.good = token.good])
      <4> DEFINE r == [calls[c] EXCEPT !.pc = "send", !.good = token.good]
      <4>1. r.pc = "send" /\ r.kind = calls[c].kind /\ r.task = calls[c].task
            /\ r.got = calls[c].got
        BY <1>1 DEF CallRecord
      <4> HIDE DEF r
      <4>2. Seen(r) = Seen(calls[c])
        BY <4>1, <2>1 DEF Lock, At, Seen
      <4>3. QED BY <3>1, <4>2 DEF r
    <3>2. CASE Set(c, [calls[c] EXCEPT !.pc = "uaa", !.age = 0])
      <4> DEFINE r == [calls[c] EXCEPT !.pc = "uaa", !.age = 0]
      <4>1. r.pc = "uaa" /\ r.kind = calls[c].kind /\ r.task = calls[c].task
            /\ r.got = calls[c].got
        BY <1>1 DEF CallRecord
      <4> HIDE DEF r
      <4>2. Seen(r) = Seen(calls[c])
        BY <4>1, <2>1 DEF Lock, At, Seen
      <4>3. QED BY <3>2, <4>2 DEF r
    <3>3. QED BY <2>1, <3>1, <3>2 DEF Lock
  <2>2. ASSUME GotToken(c) PROVE \E r : Set(c, r) /\ Seen(r) = Seen(calls[c])
    <3> DEFINE r == [calls[c] EXCEPT !.pc = "send", !.life = 0, !.age = 0]
    <3>1. r.pc = "send" /\ r.kind = calls[c].kind /\ r.task = calls[c].task
          /\ r.got = calls[c].got
      BY <1>1 DEF CallRecord
    <3>2. Set(c, r)
      BY <2>2 DEF GotToken
    <3> HIDE DEF r
    <3>3. QED BY <3>1, <3>2, <2>2 DEF GotToken, At, Seen
  <2>3. ASSUME Send(c) PROVE \E r : Set(c, r) /\ Seen(r) = Seen(calls[c])
    <3> DEFINE r == [calls[c] EXCEPT !.pc = "sent", !.age = 0]
    <3>1. r.pc = "sent" /\ r.kind = calls[c].kind /\ r.task = calls[c].task
          /\ r.got = calls[c].got
      BY <1>1 DEF CallRecord
    <3>2. Set(c, r)
      BY <2>3 DEF Send
    <3> HIDE DEF r
    <3>3. QED BY <3>1, <3>2, <2>3 DEF Send, At, Seen
  <2>4. ASSUME NEW life \in Lifetimes, UaaIssue(c, life)
        PROVE  \E r : Set(c, r) /\ Seen(r) = Seen(calls[c])
    <3> DEFINE r == [calls[c] EXCEPT !.pc = "issued", !.life = life, !.good = life]
    <3>1. r.pc = "issued" /\ r.kind = calls[c].kind /\ r.task = calls[c].task
          /\ r.got = calls[c].got
      BY <1>1 DEF CallRecord
    <3>2. Set(c, r)
      BY <2>4 DEF UaaIssue
    <3> HIDE DEF r
    <3>3. QED BY <3>1, <3>2, <2>4 DEF UaaIssue, At, Seen
  <2>5. ASSUME NEW resp \in Bodies, DirectorAnswers(c, resp)
        PROVE  \E r : Set(c, r) /\ Seen(r) = Seen(calls[c])
    <3> DEFINE r == [calls[c] EXCEPT !.pc = "answer", !.good = 0, !.resp = resp]
    <3>1. r.pc = "answer" /\ r.kind = calls[c].kind /\ r.task = calls[c].task
          /\ r.got = calls[c].got
      BY <1>1 DEF CallRecord
    <3>2. Set(c, r)
      BY <2>5 DEF DirectorAnswers
    <3> HIDE DEF r
    <3>3. QED BY <3>1, <3>2, <2>5 DEF DirectorAnswers, At, Seen
  <2>6. QED BY <2>1, <2>2, <2>3, <2>4, <2>5
<1>3. QED BY <1>1, <1>2, SeenStep DEF Abstract!vars

\* Nor is a tick.
LEMMA TickRefines ==
  ASSUME ClientInv, Tick
  PROVE  [Abstract!Next]_(Abstract!vars)
<1>1. ASSUME NEW c \in Callers PROVE Seen(calls'[c]) = Seen(calls[c])
  <2> DEFINE r == [calls[c] EXCEPT !.good = Less(@),
                                   !.age = IF OnWire(c) THEN @ + 1 ELSE @]
  <2>1. calls'[c] = r
    BY DEF Tick
  <2>2. /\ r.pc = calls[c].pc /\ r.kind = calls[c].kind
        /\ r.task = calls[c].task /\ r.got = calls[c].got
    BY RecordTyped DEF CallRecord
  <2> HIDE DEF r
  <2>3. QED BY <2>1, <2>2 DEF Seen
<1>2. Calls' = Calls
  BY <1>1 DEF Calls
<1>3. QED BY <1>2 DEF Tick, Abstract!vars

\* The client implements what the broker counts on: a deploy or delete makes at
\* most one task and returns exactly that task or fails, for any number of
\* concurrent callers (setAuth, Deploy, DeleteDeployment, extractTaskID).
THEOREM CallsAreAbstract == ClientSpec => OneTaskPerCall
<1>1. ClientInit => Abstract!Init
  BY DEF ClientInit, Abstract!Init, Calls, Seen, Ready, Abstract!Ready
<1>2. ClientInv /\ [ClientNext]_vars => [Abstract!Next]_(Abstract!vars)
  <2> SUFFICES ASSUME ClientInv, [ClientNext]_vars PROVE [Abstract!Next]_(Abstract!vars)
    OBVIOUS
  <2>1. ASSUME NEW c \in Callers, NEW kind \in Kinds, Call(c, kind)
        PROVE  [Abstract!Next]_(Abstract!vars)
    BY <2>1, CallRefines
  <2>2. ASSUME NEW c \in Callers, Lock(c) PROVE [Abstract!Next]_(Abstract!vars)
    BY <2>2, QuietRefines
  <2>3. ASSUME NEW c \in Callers, Local(c) PROVE [Abstract!Next]_(Abstract!vars)
    BY <2>3, QuietRefines, ReadRefines, ReturnRefines DEF Local
  <2>4. ASSUME NEW c \in Callers, Remote(c) PROVE [Abstract!Next]_(Abstract!vars)
    BY <2>4, QuietRefines, AcceptRefines DEF Remote
  <2>5. ASSUME NEW c \in Callers, Fails(c) PROVE [Abstract!Next]_(Abstract!vars)
    BY <2>5, FailRefines DEF Fails, UaaFails, DirectorLost, At
  <2>6. CASE Tick
    BY <2>6, TickRefines
  <2>7. CASE UNCHANGED vars
    BY <2>7 DEF vars, Abstract!vars, Calls
  <2>8. QED BY <2>1, <2>2, <2>3, <2>4, <2>5, <2>6, <2>7 DEF ClientNext
<1>3. QED BY <1>1, <1>2, AlwaysInv, PTL DEF ClientSpec, OneTaskPerCall, Abstract!Spec

-----------------------------------------------------------------------------
(* The state file.                                                         *)

\* At most one handler is inside saveState.
OneAtATime == \A x, y \in Writers : x = y

\* A save that has the temporary file open is the only one that does, and has
\* written the first off blocks of its map and nothing else into it.
Progress(x) ==
  IF w[x].pc \in {"write", "rename"}
  THEN /\ w[x].fd = tmp /\ tmp # NoInode
       /\ data[tmp] = [k \in 1..w[x].off |-> w[x].snap]
       /\ w[x].off <= Length[w[x].snap]
       /\ w[x].pc = "write" => w[x].off < Length[w[x].snap]
       /\ w[x].pc = "rename" => w[x].off = Length[w[x].snap]
  ELSE w[x].off = 0 /\ w[x].fd = NoInode


\* The inductive invariant of saves that do not overlap.
FileInv == /\ FileTypeOK
           /\ NeverTorn
           /\ path # NoInode => path # tmp
           /\ \A x \in Writers : Progress(x)
-----------------------------------------------------------------------------
\* A map is read back from its own text: different maps have different texts
\* (json.Unmarshal of what json.MarshalIndent wrote).
LEMMA DecodeEncode ==
  ASSUME NEW m \in Maps
  PROVE  Decode(Encode(m)) = m /\ Intact(Encode(m))
<1>1. ASSUME NEW n \in Maps, Encode(m) = Encode(n) PROVE n = m
  <2>1. 1 \in 1..Length[m] /\ 1 \in 1..Length[n]
    BY FileAssumption
  <2>2. Encode(m)[1] = m /\ Encode(n)[1] = n
    BY <2>1 DEF Encode
  <2> QED BY <2>2, <1>1
<1>2. Intact(Encode(m))
  BY DEF Intact
<1>3. (CHOOSE n \in Maps : Encode(m) = Encode(n)) = m
  BY <1>1
<1> QED BY <1>2, <1>3 DEF Decode

\* One more block after the first k of a map gives its first k + 1 blocks.
LEMMA WriteNext ==
  ASSUME NEW m \in Maps, NEW k \in Nat
  PROVE  WriteAt([j \in 1..k |-> m], k + 1, m) = [j \in 1..(k + 1) |-> m]
<1> DEFINE s == [j \in 1..k |-> m]
<1>1. Len(s) = k
  OBVIOUS
<1>2. k + 1 > Len(s)
  BY <1>1
<1>3. ASSUME NEW j \in 1..(k + 1)
      PROVE  (IF j = k + 1 THEN m ELSE IF j <= Len(s) THEN s[j] ELSE Hole) = m
  BY <1>1
<1> QED BY <1>2, <1>3 DEF WriteAt

\* The first k blocks of a map are a file's contents.
LEMMA PrefixType ==
  ASSUME NEW m \in Maps, NEW k \in Nat
  PROVE  [j \in 1..k |-> m] \in Seq(Blocks)
BY DEF Blocks

\* A fresh broker has no file and no save under way.
LEMMA FileInitInv == FileInit => FileInv
BY FileAssumption DEF FileInit, FileInv, FileTypeOK, NeverTorn, Progress, NoSave,
                      Save, Blocks
-----------------------------------------------------------------------------
(* Each step preserves the invariant when saves do not overlap.            *)

\* A handler that changes the map and has not marshalled it touches no file.
LEMMA ChangeInv ==
  ASSUME FileInv, NEW x \in Writers, Change(x) PROVE FileInv'
BY DEF FileInv, FileTypeOK, NeverTorn, Progress, Change, Save

\* Marshalling copies the map and touches no file.
LEMMA MarshalInv ==
  ASSUME FileInv, NEW x \in Writers, Marshal(x) PROVE FileInv'
<1>1. w[x] \in Save /\ w[x].off = 0 /\ w[x].fd = NoInode /\ mem \in Maps
  BY DEF FileInv, FileTypeOK, Progress, Marshal
<1>2. w' = [w EXCEPT ![x] = [w[x] EXCEPT !.pc = "open", !.snap = mem]]
  BY <1>1 DEF Marshal, FileInv, FileTypeOK, Save
<1>3. /\ [w[x] EXCEPT !.pc = "open", !.snap = mem] \in Save
      /\ w'[x].off = 0 /\ w'[x].fd = NoInode /\ w'[x].pc = "open"
      /\ w'[x].snap = mem
  BY <1>1, <1>2 DEF Save, FileInv, FileTypeOK
<1>4. FileTypeOK'
  BY <1>1, <1>2, <1>3, FileAssumption DEF FileInv, FileTypeOK, Marshal
<1>5. ASSUME NEW y \in Writers PROVE Progress(y)'
  <2>1. CASE y = x
    BY <2>1, <1>3 DEF Progress
  <2>2. CASE y # x
    <3>1. w'[y] = w[y] /\ UNCHANGED <<tmp, data>>
      BY <2>2, <1>2 DEF FileInv, FileTypeOK, Marshal
    <3> QED BY <3>1 DEF FileInv, Progress
  <2> QED BY <2>1, <2>2
<1> QED BY <1>4, <1>5 DEF FileInv, NeverTorn, Marshal

\* A save that ends without touching a file keeps the invariant.
LEMMA SaveReturnsInv ==
  ASSUME FileInv, NEW x \in Writers, SaveReturns(x), UNCHANGED <<mem, path, tmp, data>>
  PROVE  FileInv'
BY FileAssumption DEF FileInv, FileTypeOK, NeverTorn, Progress, SaveReturns, NoSave, Save

\* Truncating the temporary file never touches instances.json.
LEMMA OpenInv ==
  ASSUME FileInv, OneAtATime, NEW x \in Writers, OpenTmp(x) PROVE FileInv'
<1>1. CASE SysCallFails(x)
  BY <1>1, SaveReturnsInv DEF OpenTmp, SysCallFails
<1>2. ASSUME NEW i \in Inodes,
             i = tmp \/ (tmp = NoInode /\ Unused(i)),
             tmp' = i, data' = [data EXCEPT ![i] = <<>>],
             w' = [w EXCEPT ![x].pc = "write", ![x].fd = i],
             UNCHANGED <<path, mem>>
      PROVE  FileInv'
  <2>1. w[x] \in Save /\ w[x].pc = "open" /\ w[x].off = 0
    BY DEF OpenTmp, FileInv, FileTypeOK, Progress
  <2>2. FileTypeOK'
    <3>1. data' \in [Inodes -> Seq(Blocks)]
      <4>1. <<>> \in Seq(Blocks)
        OBVIOUS
      <4> QED BY <1>2, <4>1 DEF FileInv, FileTypeOK
    <3>2. w' \in [Writers -> Save] /\ w'[x].off = 0 /\ w'[x].snap = w[x].snap
      BY <1>2, <2>1 DEF FileInv, FileTypeOK, Save
    <3>3. w[x].snap \in Maps
      BY <2>1 DEF Save
    <3>4. ASSUME NEW y \in Writers PROVE w'[y].off <= Length[w'[y].snap]
      BY <3>2, <3>3, FileAssumption DEF OneAtATime
    <3> QED BY <1>2, <3>1, <3>2, <3>4 DEF FileInv, FileTypeOK
  <2>3. i # path \/ path = NoInode
    BY <1>2, FileAssumption DEF FileInv, Unused
  <2>4. NeverTorn' /\ (path # NoInode => path # tmp)'
    BY <1>2, <2>3, FileAssumption DEF FileInv, FileTypeOK, NeverTorn
  <2>5. ASSUME NEW y \in Writers PROVE Progress(y)'
    <3>1. y = x
      BY DEF OneAtATime
    <3>2. /\ w'[x].pc = "write" /\ w'[x].fd = i /\ w'[x].off = 0
          /\ w'[x].snap = w[x].snap /\ w[x].snap \in Maps
      BY <1>2, <2>1 DEF FileInv, FileTypeOK, Save
    <3>3. data'[i] = [k \in 1..0 |-> w[x].snap]
      BY <1>2 DEF FileInv, FileTypeOK
    <3> QED BY <3>1, <3>2, <3>3, <1>2, FileAssumption DEF Progress
  <2> QED BY <2>2, <2>4, <2>5 DEF FileInv
<1> QED BY <1>1, <1>2 DEF OpenTmp

\* A block written goes to the temporary file, right after the last one.
LEMMA WriteInv ==
  ASSUME FileInv, OneAtATime, NEW x \in Writers, WriteBlock(x) PROVE FileInv'
<1>1. CASE SysCallFails(x)
  BY <1>1, SaveReturnsInv DEF WriteBlock, SysCallFails
<1>2. CASE ~SysCallFails(x)
  <2> DEFINE n == w[x].off
             m == w[x].snap
  <2>1. /\ w[x] \in Save /\ n \in Nat /\ m \in Maps /\ Length[m] \in Nat
        /\ w[x].fd = tmp /\ tmp \in Inodes /\ n < Length[m]
        /\ data[tmp] = [k \in 1..n |-> m]
    BY FileAssumption DEF WriteBlock, FileInv, FileTypeOK, Progress, Save
  <2>2. /\ data' = [data EXCEPT ![tmp] = WriteAt(data[tmp], n + 1, m)]
        /\ w' = [w EXCEPT ![x].off = n + 1,
                          ![x].pc = IF n + 1 = Length[m] THEN "rename" ELSE "write"]
        /\ UNCHANGED <<path, tmp, mem>>
    BY <1>2, <2>1 DEF WriteBlock
  <2>3. WriteAt(data[tmp], n + 1, m) = [k \in 1..(n + 1) |-> m]
    BY <2>1, WriteNext
  <2>4. /\ data'[tmp] = [k \in 1..(n + 1) |-> m]
        /\ data' \in [Inodes -> Seq(Blocks)]
        /\ \A j \in Inodes : j # tmp => data'[j] = data[j]
    <3> HIDE DEF n, m
    <3>0. n + 1 \in Nat
      BY <2>1
    <3>1. [k \in 1..(n + 1) |-> m] \in Seq(Blocks)
      BY <2>1, <3>0, PrefixType
    <3> QED BY <2>1, <2>2, <2>3, <3>1 DEF FileInv, FileTypeOK
  <2>5. /\ w' \in [Writers -> Save] /\ w'[x].off = n + 1 /\ w'[x].snap = m
        /\ w'[x].fd = tmp
        /\ w'[x].pc = IF n + 1 = Length[m] THEN "rename" ELSE "write"
    <3> DEFINE p == IF n + 1 = Length[m] THEN "rename" ELSE "write"
    <3>1. p \in {"rename", "write"} /\ n + 1 \in Nat
      BY <2>1
    <3>2. w' = [w EXCEPT ![x] = [w[x] EXCEPT !.off = n + 1, !.pc = p]]
      BY <2>1, <2>2 DEF FileInv, FileTypeOK
    <3> HIDE DEF p
    <3>3. [w[x] EXCEPT !.off = n + 1, !.pc = p] \in Save
      BY <2>1, <3>1 DEF Save
    <3>4. w' \in [Writers -> Save]
      BY <3>2, <3>3 DEF FileInv, FileTypeOK
    <3>5. w'[x] = [w[x] EXCEPT !.off = n + 1, !.pc = p]
      BY <3>2 DEF FileInv, FileTypeOK
    <3> QED BY <2>1, <3>4, <3>5 DEF Save, p
  <2>6. FileTypeOK'
    <3>1. ASSUME NEW y \in Writers PROVE w'[y].off <= Length[w'[y].snap]
      BY <2>1, <2>5 DEF OneAtATime
    <3> QED BY <2>2, <2>4, <2>5, <3>1 DEF FileInv, FileTypeOK
  <2>7. NeverTorn' /\ (path # NoInode => path # tmp)'
    BY <2>2, <2>4 DEF FileInv, FileTypeOK, NeverTorn
  <2>8. ASSUME NEW y \in Writers PROVE Progress(y)'
    <3>1. y = x
      BY DEF OneAtATime
    <3> QED BY <3>1, <2>1, <2>2, <2>4, <2>5, FileAssumption DEF Progress
  <2> QED BY <2>6, <2>7, <2>8 DEF FileInv
<1> QED BY <1>1, <1>2

\* What is renamed over instances.json is the whole text of a map.
LEMMA RenameInv ==
  ASSUME FileInv, OneAtATime, NEW x \in Writers, RenameTmp(x) PROVE FileInv'
<1>1. CASE SysCallFails(x)
  BY <1>1, SaveReturnsInv DEF RenameTmp, SysCallFails
<1>2. CASE ~SysCallFails(x)
  <2>1. /\ w[x] \in Save /\ tmp \in Inodes /\ w[x].snap \in Maps
        /\ data[tmp] = Encode(w[x].snap)
    BY DEF RenameTmp, FileInv, FileTypeOK, Progress, Save, Encode
  <2>2. path' = tmp /\ tmp' = NoInode /\ UNCHANGED <<data, mem>>
        /\ w' = [w EXCEPT ![x] = NoSave]
    BY <1>2, <2>1, FileAssumption DEF RenameTmp, SaveReturns
  <2>3. NeverTorn' /\ (path # NoInode => path # tmp)'
    BY <2>1, <2>2, DecodeEncode, FileAssumption DEF NeverTorn
  <2>4. FileTypeOK'
    BY <2>1, <2>2, FileAssumption DEF FileInv, FileTypeOK, NoSave, Save
  <2>5. ASSUME NEW y \in Writers PROVE Progress(y)'
    BY <2>2 DEF OneAtATime, Progress, NoSave, FileInv, FileTypeOK
  <2> QED BY <2>3, <2>4, <2>5 DEF FileInv
<1> QED BY <1>1, <1>2

\* A restart reads a whole map and forgets the saves under way.
LEMMA RestartInv ==
  ASSUME FileInv, Restart PROVE FileInv'
<1>1. Stored \in Maps
  BY FileAssumption DEF Stored, Decode, Intact
<1>2. FileTypeOK'
  BY <1>1, FileAssumption DEF Restart, FileInv, FileTypeOK, NoSave, Save
<1> QED BY <1>2 DEF Restart, FileInv, NeverTorn, Progress, NoSave

\* Whatever a step of the broker or a crash does to the files, the invariant
\* holds after it.
LEMMA FileNextInv ==
  ASSUME FileInv, OneAtATime, [FileNext]_fvars PROVE FileInv'
<1>1. CASE UNCHANGED fvars
  BY <1>1 DEF fvars, FileInv, FileTypeOK, NeverTorn, Progress
<1>2. CASE FileNext
  BY <1>2, ChangeInv, MarshalInv, OpenInv, WriteInv, RenameInv, RestartInv
     DEF FileNext, Saving
<1> QED BY <1>1, <1>2
-----------------------------------------------------------------------------
\* If saves do not overlap, instances.json always holds one whole map, however
\* large, wherever a call fails and whenever the broker dies.
THEOREM SerialNeverTorn == OneAtATime => (FileSpec => []NeverTorn)
<1> SUFFICES ASSUME OneAtATime PROVE FileSpec => []NeverTorn
  OBVIOUS
<1>1. FileInit => FileInv
  BY FileInitInv
<1>2. FileInv /\ [FileNext]_fvars => FileInv'
  BY FileNextInv
<1>3. FileInv => NeverTorn
  BY DEF FileInv
<1> QED BY <1>1, <1>2, <1>3, PTL DEF FileSpec
-----------------------------------------------------------------------------
(* Each step is a step of AtomicState, or changes nothing it can see.      *)

\* A save that fails leaves the stored map alone.
LEMMA FailsAtomic ==
  ASSUME FileInv, NEW x \in Writers, SysCallFails(x), UNCHANGED mem,
         w[x].pc \in {"open", "write", "rename"}
  PROVE  Atomic!Commit(x)
<1>1. /\ w' = [w EXCEPT ![x] = NoSave] /\ UNCHANGED <<path, tmp, data>>
  BY DEF SysCallFails, SaveReturns
<1>2. Stored' = Stored
  BY <1>1 DEF Stored
<1>3. Copies' = [Copies EXCEPT ![x] = {}]
  BY <1>1 DEF Copies, NoSave, FileInv, FileTypeOK
<1>4. w[x].snap \in Copies[x]
  BY DEF Copies
<1> QED BY <1>2, <1>3, <1>4 DEF Atomic!Commit, Copies

\* Until the rename, a save touches only the temporary file.
LEMMA WorkAtomic ==
  ASSUME FileInv, NEW x \in Writers, UNCHANGED <<mem, path>>,
         w[x].pc \in {"open", "write"},
         NEW s \in Save, w' = [w EXCEPT ![x] = s],
         s.snap = w[x].snap, s.pc \in {"write", "rename"},
         path # NoInode => data'[path] = data[path]
  PROVE  UNCHANGED <<mem, Stored, Copies>>
BY DEF Stored, Copies, FileInv, FileTypeOK

\* Renaming puts the copy that was taken in place of the stored map.
LEMMA RenameAtomic ==
  ASSUME FileInv, NEW x \in Writers, RenameTmp(x), ~SysCallFails(x)
  PROVE  Atomic!Commit(x)
<1>1. /\ tmp \in Inodes /\ w[x].snap \in Maps /\ w[x].pc = "rename"
      /\ data[tmp] = Encode(w[x].snap)
  BY DEF RenameTmp, FileInv, FileTypeOK, Progress, Save, Encode
<1>2. path' = tmp /\ UNCHANGED <<data, mem>> /\ w' = [w EXCEPT ![x] = NoSave]
  BY <1>1, FileAssumption DEF RenameTmp, SaveReturns
<1>3. Stored' = w[x].snap
  BY <1>1, <1>2, DecodeEncode, FileAssumption DEF Stored
<1>4. Copies' = [Copies EXCEPT ![x] = {}]
  BY <1>2 DEF Copies, NoSave, FileInv, FileTypeOK
<1>5. w[x].snap \in Copies[x]
  BY <1>1 DEF Copies
<1> QED BY <1>2, <1>3, <1>4, <1>5 DEF Atomic!Commit, Copies

\* Every step of a save, and a restart, is a step AtomicState allows.
LEMMA StepAtomic ==
  ASSUME FileInv, OneAtATime, FileNext
  PROVE  Atomic!Next \/ UNCHANGED <<mem, Stored, Copies>>
<1>1. ASSUME NEW x \in Writers, Change(x) PROVE Atomic!Change
  <2>1. Stored' = Stored /\ Copies' = Copies
    BY <1>1 DEF Change, Stored, Copies, FileInv, FileTypeOK, Save
  <2> QED BY <1>1, <2>1 DEF Change, Atomic!Change, Copies
<1>2. ASSUME NEW x \in Writers, Marshal(x) PROVE Atomic!Copy(x)
  <2>1. Stored' = Stored /\ Copies[x] = {} /\ UNCHANGED mem
    BY <1>2 DEF Marshal, Stored, Copies
  <2>2. Copies' = [Copies EXCEPT ![x] = {mem}]
    BY <1>2 DEF Marshal, Copies, FileInv, FileTypeOK, Save
  <2> QED BY <2>1, <2>2 DEF Atomic!Copy, Copies
<1>3. ASSUME NEW x \in Writers, OpenTmp(x)
      PROVE  Atomic!Commit(x) \/ UNCHANGED <<mem, Stored, Copies>>
  <2>1. CASE SysCallFails(x)
    BY <1>3, <2>1, FailsAtomic DEF OpenTmp
  <2>2. ASSUME NEW i \in Inodes,
               i = tmp \/ (tmp = NoInode /\ Unused(i)),
               data' = [data EXCEPT ![i] = <<>>],
               w' = [w EXCEPT ![x].pc = "write", ![x].fd = i],
               UNCHANGED <<path, mem>>
        PROVE  UNCHANGED <<mem, Stored, Copies>>
    <3>1. path # NoInode => path # i
      BY <2>2, FileAssumption DEF FileInv, Unused
    <3>2. PICK s : s = [w[x] EXCEPT !.pc = "write", !.fd = i]
      OBVIOUS
    <3>3. /\ s \in Save /\ s.snap = w[x].snap /\ s.pc = "write"
          /\ w' = [w EXCEPT ![x] = s] /\ w[x].pc = "open"
      <4>1. w[x] \in Save /\ w[x].pc = "open"
        BY <1>3 DEF OpenTmp, FileInv, FileTypeOK
      <4>2. s \in Save /\ s.snap = w[x].snap /\ s.pc = "write"
        BY <3>2, <4>1 DEF Save
      <4>3. w' = [w EXCEPT ![x] = s]
        BY <2>2, <3>2 DEF FileInv, FileTypeOK
      <4> QED BY <4>1, <4>2, <4>3
    <3>4. path # NoInode => data'[path] = data[path]
      BY <2>2, <3>1 DEF FileInv, FileTypeOK
    <3> QED BY <2>2, <3>3, <3>4, WorkAtomic
  <2> QED BY <1>3, <2>1, <2>2 DEF OpenTmp
<1>4. ASSUME NEW x \in Writers, WriteBlock(x)
      PROVE  Atomic!Commit(x) \/ UNCHANGED <<mem, Stored, Copies>>
  <2>1. CASE SysCallFails(x)
    BY <1>4, <2>1, FailsAtomic DEF WriteBlock
  <2>2. CASE ~SysCallFails(x)
    <3>1. w[x] \in Save /\ w[x].pc = "write" /\ w[x].fd = tmp /\ tmp # NoInode
      BY <1>4 DEF WriteBlock, FileInv, FileTypeOK, Progress
    <3>2. PICK s : s = [w[x] EXCEPT !.off = w[x].off + 1,
                          !.pc = IF w[x].off + 1 = Length[w[x].snap]
                                 THEN "rename" ELSE "write"]
      OBVIOUS
    <3>3. /\ s \in Save /\ s.snap = w[x].snap /\ s.pc \in {"write", "rename"}
      <4>1. PICK p : p = IF w[x].off + 1 = Length[w[x].snap]
                         THEN "rename" ELSE "write"
        OBVIOUS
      <4>2. p \in {"write", "rename"} /\ w[x].off + 1 \in Nat
        BY <3>1, <4>1 DEF Save
      <4>3. s = [w[x] EXCEPT !.off = w[x].off + 1, !.pc = p]
        BY <3>2, <4>1
      <4> QED BY <3>1, <4>2, <4>3 DEF Save
    <3>4. w' = [w EXCEPT ![x] = s] /\ UNCHANGED <<path, mem>>
      BY <1>4, <2>2, <3>2 DEF WriteBlock, FileInv, FileTypeOK
    <3>5. path # NoInode => data'[path] = data[path]
      BY <1>4, <2>2, <3>1 DEF WriteBlock, FileInv, FileTypeOK
    <3> QED BY <3>1, <3>3, <3>4, <3>5, WorkAtomic
  <2> QED BY <2>1, <2>2
<1>5. ASSUME NEW x \in Writers, RenameTmp(x) PROVE Atomic!Commit(x)
  BY <1>5, FailsAtomic, RenameAtomic DEF RenameTmp
<1>6. ASSUME Restart PROVE Atomic!Restart
  <2>1. Stored' = Stored /\ Copies' = [x \in Writers |-> {}] /\ mem' = Stored
    BY <1>6 DEF Restart, Stored, Copies, NoSave
  <2> QED BY <2>1 DEF Atomic!Restart, Copies
<1> QED BY <1>1, <1>2, <1>3, <1>4, <1>5, <1>6 DEF FileNext, Saving, Atomic!Next

\* saveState and loadState implement AtomicState when saves do not overlap:
\* the step in which the broker's specification replaces the state file is
\* what the system calls amount to.
THEOREM SerialSaveIsAtomic == OneAtATime => (FileSpec => SaveIsAtomic)
<1> SUFFICES ASSUME OneAtATime PROVE FileSpec => SaveIsAtomic
  OBVIOUS
<1>1. FileInit => FileInv
  BY FileInitInv
<1>2. FileInv /\ [FileNext]_fvars => FileInv'
  BY FileNextInv
<1>3. FileInit => Atomic!Init
  <2> SUFFICES ASSUME FileInit PROVE Atomic!Init
    OBVIOUS
  <2>1. mem = EmptyMap /\ Stored = EmptyMap
    BY DEF FileInit, Stored
  <2>2. Copies = [x \in Writers |-> {}]
    BY DEF FileInit, NoSave, Copies
  <2> QED BY <2>1, <2>2 DEF Atomic!Init, Copies
<1>4. FileInv /\ [FileNext]_fvars => [Atomic!Next]_<<mem, Stored, Copies>>
  <2>1. UNCHANGED fvars => UNCHANGED <<mem, Stored, Copies>>
    BY DEF fvars, Stored, Copies
  <2> QED BY <2>1, StepAtomic
<1> QED BY <1>1, <1>2, <1>3, <1>4, PTL
    DEF FileSpec, SaveIsAtomic, Atomic!Spec, Copies

-----------------------------------------------------------------------------
(* Any number of saves at once.                                            *)

\* How far a call is, whatever the others do to the file it writes.
Reached(x) ==
  /\ w[x].pc \in {"idle", "marshal", "open"} => w[x].off = 0
  /\ w[x].pc = "write" => w[x].fd \in Inodes /\ w[x].off < Length[w[x].snap]

\* The inductive invariant of any number of saves.
FileTyped == FileTypeOK /\ \A x \in Writers : Reached(x)

\* A call that goes on leaves the others where they are.
LEMMA OneGoesOn ==
  ASSUME FileTyped, NEW x \in Writers, NEW y \in Save, w' = [w EXCEPT ![x] = y],
         y.off <= Length[y.snap],
         y.pc \in {"idle", "marshal", "open"} => y.off = 0,
         y.pc = "write" => y.fd \in Inodes /\ y.off < Length[y.snap],
         mem' \in Maps, path' \in Inodes \cup {NoInode}, tmp' \in Inodes \cup {NoInode},
         data' \in [Inodes -> Seq(Blocks)]
  PROVE  FileTyped'
<1>1. w' \in [Writers -> Save] /\ w'[x] = y /\ \A z \in Writers \ {x} : w'[z] = w[z]
  BY DEF FileTyped, FileTypeOK
<1>2. ASSUME NEW z \in Writers PROVE w'[z].off <= Length[w'[z].snap] /\ Reached(z)'
  <2>1. CASE z = x
    BY <1>1, <2>1 DEF Reached
  <2>2. CASE z # x
    BY <1>1, <2>2 DEF FileTyped, FileTypeOK, Reached
  <2> QED BY <2>1, <2>2
<1> QED BY <1>1, <1>2 DEF FileTyped, FileTypeOK

\* What a write leaves in a file is made of blocks.
LEMMA WriteType ==
  ASSUME NEW s \in Seq(Blocks), NEW k \in Nat \ {0}, NEW b \in Maps
  PROVE  WriteAt(s, k, b) \in Seq(Blocks)
<1> DEFINE n == IF k > Len(s) THEN k ELSE Len(s)
<1>1. n \in Nat
  OBVIOUS
<1>2. \A j \in 1..n : (IF j = k THEN b ELSE IF j <= Len(s) THEN s[j] ELSE Hole) \in Blocks
  BY DEF Blocks
<1> QED BY <1>1, <1>2 DEF WriteAt

\* A failed call returns.
LEMMA FailsTyped ==
  ASSUME FileTyped, NEW x \in Writers, SaveReturns(x), mem' = mem,
         path' \in Inodes \cup {NoInode}, tmp' \in Inodes \cup {NoInode},
         UNCHANGED data
  PROVE  FileTyped'
<1>1. /\ NoSave \in Save /\ NoSave.off <= Length[NoSave.snap]
      /\ NoSave.pc = "idle" /\ NoSave.off = 0
  BY FileAssumption DEF NoSave, Save
<1>2. mem \in Maps /\ data \in [Inodes -> Seq(Blocks)]
  BY DEF FileTyped, FileTypeOK
<1> QED BY <1>1, <1>2, OneGoesOn DEF SaveReturns

\* A write.
LEMMA WriteTyped ==
  ASSUME FileTyped, NEW x \in Writers, WriteBlock(x) PROVE FileTyped'
<1>1. CASE SysCallFails(x)
  BY <1>1, FailsTyped DEF WriteBlock, SysCallFails, FileTyped, FileTypeOK
<1>2. CASE ~SysCallFails(x)
  <2> DEFINE n == w[x].off
             m == w[x].snap
             p == IF n + 1 = Length[m] THEN "rename" ELSE "write"
             y == [w[x] EXCEPT !.off = n + 1, !.pc = p]
  <2>1. /\ w[x] \in Save /\ n \in Nat /\ m \in Maps /\ Length[m] \in Nat
        /\ w[x].fd \in Inodes /\ n < Length[m]
    BY FileAssumption DEF WriteBlock, FileTyped, FileTypeOK, Reached, Save
  <2>2. /\ data' = [data EXCEPT ![w[x].fd] = WriteAt(data[w[x].fd], n + 1, m)]
        /\ w' = [w EXCEPT ![x].off = n + 1, ![x].pc = p]
        /\ UNCHANGED <<path, tmp, mem>>
    BY <1>2, <2>1 DEF WriteBlock
  <2>3. WriteAt(data[w[x].fd], n + 1, m) \in Seq(Blocks)
    <3>1. data[w[x].fd] \in Seq(Blocks) /\ n + 1 \in Nat \ {0}
      BY <2>1 DEF FileTyped, FileTypeOK
    <3> QED BY <2>1, <3>1, WriteType
  <2>4. data' \in [Inodes -> Seq(Blocks)]
    BY <2>2, <2>3 DEF FileTyped, FileTypeOK
  <2>5. p \in {"rename", "write"} /\ (p = "write" => n + 1 < Length[m]) /\ n + 1 \in Nat
    BY <2>1
  <2>6. w' = [w EXCEPT ![x] = y]
    BY <2>1, <2>2 DEF FileTyped, FileTypeOK
  <2> HIDE DEF p
  <2>7. y \in Save /\ y.pc = p /\ y.off = n + 1 /\ y.snap = m /\ y.fd = w[x].fd
    BY <2>1, <2>5 DEF Save
  <2> HIDE DEF n, m, y
  <2>8. y.off <= Length[y.snap]
    BY <2>1, <2>7
  <2>9. mem' \in Maps /\ path' \in Inodes \cup {NoInode} /\ tmp' \in Inodes \cup {NoInode}
    BY <2>2 DEF FileTyped, FileTypeOK
  <2> QED BY <2>1, <2>4, <2>5, <2>6, <2>7, <2>8, <2>9, OneGoesOn
<1> QED BY <1>1, <1>2

\* Every other step.
LEMMA FileTypedNext == ASSUME FileTyped, [FileNext]_fvars PROVE FileTyped'
<1>1. ASSUME NEW x \in Writers, Change(x) PROVE FileTyped'
  <2>1. w[x] \in Save /\ w[x].off = 0 /\ w[x].off <= Length[w[x].snap]
    BY <1>1 DEF Change, FileTyped, FileTypeOK, Reached
  <2> DEFINE y == [w[x] EXCEPT !.pc = "marshal"]
  <2>2. y \in Save /\ y.pc = "marshal" /\ y.off = 0 /\ y.snap = w[x].snap
    BY <2>1 DEF Save
  <2>3. w' = [w EXCEPT ![x] = y]
    BY <1>1 DEF Change
  <2> HIDE DEF y
  <2>4. /\ path' \in Inodes \cup {NoInode} /\ tmp' \in Inodes \cup {NoInode}
        /\ data' \in [Inodes -> Seq(Blocks)] /\ mem' \in Maps
    BY <1>1 DEF Change, FileTyped, FileTypeOK
  <2>5. y.off <= Length[y.snap]
    BY <2>1, <2>2
  <2> QED BY <2>2, <2>3, <2>4, <2>5, OneGoesOn
<1>2. ASSUME NEW x \in Writers, Marshal(x) PROVE FileTyped'
  <2>1. w[x] \in Save /\ w[x].off = 0 /\ mem \in Maps
    BY <1>2 DEF Marshal, FileTyped, FileTypeOK, Reached
  <2> DEFINE y == [w[x] EXCEPT !.pc = "open", !.snap = mem]
  <2>2. y \in Save /\ y.pc = "open" /\ y.off = 0 /\ y.snap = mem
    BY <2>1 DEF Save
  <2>3. w' = [w EXCEPT ![x] = y]
    BY <1>2, <2>1 DEF Marshal, FileTyped, FileTypeOK
  <2> HIDE DEF y
  <2>4. y.off <= Length[y.snap]
    BY <2>1, <2>2, FileAssumption
  <2>5. /\ path' \in Inodes \cup {NoInode} /\ tmp' \in Inodes \cup {NoInode}
        /\ data' \in [Inodes -> Seq(Blocks)] /\ mem' \in Maps
    BY <1>2 DEF Marshal, FileTyped, FileTypeOK
  <2> QED BY <2>2, <2>3, <2>4, <2>5, OneGoesOn
<1>3. ASSUME NEW x \in Writers, OpenTmp(x) PROVE FileTyped'
  <2>1. CASE SysCallFails(x)
    BY <1>3, <2>1, FailsTyped DEF OpenTmp, SysCallFails, FileTyped, FileTypeOK
  <2>2. ASSUME NEW i \in Inodes, tmp' = i, data' = [data EXCEPT ![i] = <<>>],
               w' = [w EXCEPT ![x].pc = "write", ![x].fd = i], UNCHANGED <<path, mem>>
        PROVE  FileTyped'
    <3>1. w[x] \in Save /\ w[x].off = 0 /\ w[x].snap \in Maps
      BY <1>3 DEF OpenTmp, FileTyped, FileTypeOK, Reached, Save
    <3> DEFINE y == [w[x] EXCEPT !.pc = "write", !.fd = i]
    <3>2. y \in Save /\ y.pc = "write" /\ y.off = 0 /\ y.snap = w[x].snap /\ y.fd = i
      BY <3>1 DEF Save
    <3>3. w' = [w EXCEPT ![x] = y]
      BY <2>2, <3>1 DEF FileTyped, FileTypeOK
    <3> HIDE DEF y
    <3>4. y.off <= Length[y.snap] /\ y.off < Length[y.snap]
      BY <3>1, <3>2, FileAssumption
    <3>5. data' \in [Inodes -> Seq(Blocks)]
      <4>1. <<>> \in Seq(Blocks)
        OBVIOUS
      <4> QED BY <2>2, <4>1 DEF FileTyped, FileTypeOK
    <3> QED BY <2>2, <3>2, <3>3, <3>4, <3>5, OneGoesOn DEF FileTyped, FileTypeOK
  <2> QED BY <1>3, <2>1, <2>2 DEF OpenTmp
<1>4. ASSUME NEW x \in Writers, RenameTmp(x) PROVE FileTyped'
  BY <1>4, FailsTyped DEF RenameTmp, SysCallFails, FileTyped, FileTypeOK
<1>5. CASE Restart
  <2>1. Stored \in Maps
    BY FileAssumption DEF Stored, Decode, Intact
  <2> QED BY <1>5, <2>1, FileAssumption DEF Restart, FileTyped, FileTypeOK, Reached,
                                            NoSave, Save
<1>6. CASE UNCHANGED fvars
  BY <1>6 DEF fvars, FileTyped, FileTypeOK, Reached
<1> QED BY <1>1, <1>2, <1>3, <1>4, <1>5, <1>6, WriteTyped DEF FileNext, Saving

\* However many saves overlap and wherever calls fail, files hold blocks, names
\* refer to files, and no saveState writes past the end of its own map.
THEOREM FileTypeCorrect == FileSpec => []FileTypeOK
<1>1. FileInit => FileTyped
  BY FileAssumption DEF FileInit, FileTyped, FileTypeOK, Reached, NoSave, Save, Blocks
<1>2. FileTyped /\ [FileNext]_fvars => FileTyped'
  BY FileTypedNext
<1>3. FileTyped => FileTypeOK
  BY DEF FileTyped
<1> QED BY <1>1, <1>2, <1>3, PTL DEF FileSpec
=============================================================================
