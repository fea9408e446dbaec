--------------------------- MODULE DirectorCalls ---------------------------
(***************************************************************************)
(* What the broker may count on when it calls the Director: a deploy or    *)
(* delete makes at most one task, and a call that succeeds returns exactly *)
(* that task.  A call that fails may have made one all the same.  This is  *)
(* how Broker's Issue and CallFails use the client.                        *)
(***************************************************************************)
EXTENDS Naturals

CONSTANT Callers

VARIABLES issued, \* the number of tasks the Director has made
          call    \* the calls: the task made for each, and the task returned

vars == <<issued, call>>

Ready == [pc |-> "idle", task |-> 0, got |-> 0]
Init == issued = 0 /\ call = [c \in Callers |-> Ready]

Start(c) ==
  /\ call[c].pc = "idle"
  /\ call' = [call EXCEPT ![c].pc = "running"]
  /\ UNCHANGED issued

Issue(c) ==
  /\ call[c].pc = "running" /\ call[c].task = 0
  /\ issued' = issued + 1
  /\ call' = [call EXCEPT ![c].task = issued + 1]

Succeed(c) ==
  /\ call[c].pc = "running" /\ call[c].task # 0
  /\ call' = [call EXCEPT ![c] = [pc |-> "ok", task |-> call[c].task,
                                  got |-> call[c].task]]
  /\ UNCHANGED issued

Fail(c) ==
  /\ call[c].pc = "running"
  /\ call' = [call EXCEPT ![c].pc = "failed"]
  /\ UNCHANGED issued

Return(c) ==
  /\ call[c].pc \in {"ok", "failed"}
  /\ call' = [call EXCEPT ![c] = Ready]
  /\ UNCHANGED issued

Next == \E c \in Callers : \/ Start(c) \/ Issue(c) \/ Succeed(c)
                           \/ Fail(c) \/ Return(c)
Spec == Init /\ [][Next]_vars
=============================================================================
