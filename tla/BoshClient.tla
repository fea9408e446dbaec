----------------------------- MODULE BoshClient -----------------------------
(***************************************************************************)
(* The BOSH Director client: concurrent Deploy, DeleteDeployment and       *)
(* TaskStatus calls share one cached UAA token behind a mutex that is held *)
(* across the request for a new one.  Time passes in ticks; what is kept   *)
(* of it is how long tokens still last and how long each call has taken.   *)
(***************************************************************************)
EXTENDS Integers

CONSTANTS
  Callers,   \* goroutines that call the Director
  Lifetimes, \* the expires_in values UAA may answer, in ticks
  Margin,    \* the safety margin, 60s
  Timeout,   \* httpClient.Timeout, 60s
  MaxTask    \* bound: tasks the Director ever makes

ASSUME ClientAssumption ==
  /\ Lifetimes \subseteq Nat
  /\ Margin \in Nat /\ Timeout \in Nat /\ MaxTask \in Nat
  /\ Timeout <= Margin

VARIABLES
  uaaURL, \* whether uaa_url is configured
  token,  \* c.token: ticks until expiresAt, and until UAA really drops it
  mu,     \* tokenMu: its holder, or "none"
  calls,  \* the calls
  issued  \* the number of tasks the Director has made

vars == <<uaaURL, token, mu, calls, issued>>
-----------------------------------------------------------------------------
\* A response as far as it is read: the status code, and the task number in
\* its Location or body, NoId when there is none.
NoId == -1
Responses == [code: {302, 200, 500}, id: {NoId} \cup Nat]
NoResponse == [code |-> 500, id |-> NoId]

\* Deploy and DeleteDeployment differ in the request only.
Kinds == {"change", "status"}
PCs == {"idle", "lock", "uaa", "issued", "send", "sent", "answer", "ok", "failed"}
\* age: ticks of the HTTP call under way; life and good: ExpiresIn of the token
\* in hand and its ticks left; task: what the Director made for this call; got:
\* what the call returns.
CallRecord == [pc: PCs, kind: Kinds, age: 0..Timeout, life: Nat, good: Nat,
               task: Nat, resp: Responses, got: Nat]
Ready == [pc |-> "idle", kind |-> "change", age |-> 0, life |-> 0, good |-> 0,
          task |-> 0, resp |-> NoResponse, got |-> 0]

ClientTypeOK ==
  /\ uaaURL \in BOOLEAN
  /\ token \in [keep: Nat, good: Nat]
  /\ mu \in Callers \cup {"none"}
  /\ calls \in [Callers -> CallRecord]
  /\ issued \in 0..MaxTask

ClientInit ==
  /\ uaaURL \in BOOLEAN
  /\ token = [keep |-> 0, good |-> 0]
  /\ mu = "none"
  /\ calls = [c \in Callers |-> Ready]
  /\ issued = 0

At(c, pc) == calls[c].pc = pc
Set(c, r) == calls' = [calls EXCEPT ![c] = r]
\* The call is over; only what it made and what it returns is left.
Finish(c, pc, id) == Set(c, [Ready EXCEPT !.pc = pc, !.kind = calls[c].kind,
                                          !.task = calls[c].task, !.got = id])
-----------------------------------------------------------------------------
(* setAuth and getToken.                                                   *)

\* A call begins; without a UAA it sends basic credentials.
Call(c, kind) ==
  /\ At(c, "idle")
  /\ Set(c, [Ready EXCEPT !.kind = kind, !.pc = IF uaaURL THEN "lock" ELSE "send"])
  /\ UNCHANGED <<uaaURL, token, mu, issued>>

\* The cached token is good enough, or UAA is asked with the mutex held.
Lock(c) ==
  /\ At(c, "lock") /\ mu = "none"
  /\ \/ /\ token.keep > 0
        /\ Set(c, [calls[c] EXCEPT !.pc = "send", !.good = token.good])
        /\ UNCHANGED mu
     \/ /\ token.keep = 0
        /\ mu' = c
        /\ Set(c, [calls[c] EXCEPT !.pc = "uaa", !.age = 0])
  /\ UNCHANGED <<uaaURL, token, issued>>

\* UAA makes a token; the answer takes its time.
UaaIssue(c, life) ==
  /\ At(c, "uaa")
  /\ Set(c, [calls[c] EXCEPT !.pc = "issued", !.life = life, !.good = life])
  /\ UNCHANGED <<uaaURL, token, mu, issued>>

\* Mutants: no margin; no clamp.
MarginNone(life) == life
MarginUnclamped(life) == life - Margin
\* How long from now on the token is handed out.
margin(life) == IF life < Margin THEN 0 ELSE life - Margin

GotToken(c) ==
  /\ At(c, "issued")
  /\ token' = [keep |-> margin(calls[c].life), good |-> calls[c].good]
  /\ mu' = "none"
  /\ Set(c, [calls[c] EXCEPT !.pc = "send", !.life = 0, !.age = 0])
  /\ UNCHANGED <<uaaURL, issued>>

\* Mutant: the error returns leave the mutex locked.
UaaFailsLocked(c) ==
  /\ At(c, "uaa") \/ At(c, "issued")
  /\ Finish(c, "failed", 0)
  /\ UNCHANGED <<uaaURL, token, mu, issued>>
\* Refused, timed out, or an answer that cannot be read.
UaaFails(c) ==
  /\ At(c, "uaa") \/ At(c, "issued")
  /\ mu' = "none"
  /\ Finish(c, "failed", 0)
  /\ UNCHANGED <<uaaURL, token, issued>>
-----------------------------------------------------------------------------
(* Deploy, DeleteDeployment and TaskStatus.                                *)

Send(c) ==
  /\ At(c, "send")
  /\ Set(c, [calls[c] EXCEPT !.pc = "sent", !.age = 0])
  /\ UNCHANGED <<uaaURL, token, mu, issued>>

\* The Director takes no token that has run out.
Honoured(c) == uaaURL => calls[c].good > 0

\* It makes a task, and says so with a redirect or, in some versions, a body.
DirectorAccepts(c, code) ==
  /\ At(c, "sent") /\ Honoured(c) /\ calls[c].kind # "status"
  /\ issued < MaxTask
  /\ issued' = issued + 1
  /\ Set(c, [calls[c] EXCEPT !.pc = "answer", !.task = issued + 1,
                             !.good = 0, !.resp = [code |-> code, id |-> issued + 1]])
  /\ UNCHANGED <<uaaURL, token, mu>>

\* It answers without making one: an error, a redirect elsewhere, a body with
\* no task in it; for a status call a body with a state (id 1) or without.
DirectorAnswers(c, resp) ==
  /\ At(c, "sent")
  /\ resp.id > 0 => calls[c].kind = "status" /\ Honoured(c)
  /\ Set(c, [calls[c] EXCEPT !.pc = "answer", !.good = 0, !.resp = resp])
  /\ UNCHANGED <<uaaURL, token, mu, issued>>

\* The transport fails or the timeout expires, before or after the Director acts.
DirectorLost(c) ==
  /\ At(c, "sent") \/ At(c, "answer")
  /\ Finish(c, "failed", 0)
  /\ UNCHANGED <<uaaURL, token, mu, issued>>

\* Mutant: the Location is not checked for a task.
TaskIDUnchecked(resp) ==
  IF resp.code = 302 THEN (IF resp.id = NoId THEN 0 ELSE resp.id)
  ELSE IF resp.code = 200 /\ resp.id > 0 THEN resp.id ELSE NoId
extractTaskID(resp) ==
  IF \/ resp.code = 302 /\ resp.id # NoId
     \/ resp.code = 200 /\ resp.id > 0
  THEN resp.id ELSE NoId

\* A status that is empty or not answered with 200 is an error.
TaskState(resp) == IF resp.code = 200 /\ resp.id > 0 THEN resp.id ELSE NoId

Read(c) ==
  /\ At(c, "answer")
  /\ LET id == IF calls[c].kind = "status" THEN TaskState(calls[c].resp)
               ELSE extractTaskID(calls[c].resp)
     IN IF id = NoId THEN Finish(c, "failed", 0)
        ELSE Finish(c, "ok", id)
  /\ UNCHANGED <<uaaURL, token, mu, issued>>

Return(c) ==
  /\ At(c, "ok") \/ At(c, "failed")
  /\ Set(c, Ready)
  /\ UNCHANGED <<uaaURL, token, mu, issued>>
-----------------------------------------------------------------------------
Less(n) == IF n = 0 THEN 0 ELSE n - 1
OnWire(c) == calls[c].pc \in {"uaa", "issued", "sent", "answer"}

\* One tick; no HTTP call outlasts its timeout.
Tick ==
  /\ \A c \in Callers : OnWire(c) => calls[c].age < Timeout
  /\ token' = [keep |-> Less(token.keep), good |-> Less(token.good)]
  /\ calls' = [c \in Callers |->
                 [calls[c] EXCEPT !.good = Less(@),
                                  !.age = IF OnWire(c) THEN @ + 1 ELSE @]]
  /\ UNCHANGED <<uaaURL, mu, issued>>

Bodies == [code: {302, 200, 500}, id: {NoId}] \cup [code: {200}, id: {0, 1}]

Local(c) == Send(c) \/ GotToken(c) \/ Read(c) \/ Return(c)
Fails(c) == UaaFails(c) \/ DirectorLost(c)
Remote(c) == \/ \E life \in Lifetimes : UaaIssue(c, life)
             \/ \E code \in {302, 200} : DirectorAccepts(c, code)
             \/ \E resp \in Bodies : DirectorAnswers(c, resp)

ClientNext ==
  \/ \E c \in Callers : \/ \E kind \in Kinds : Call(c, kind)
                        \/ Lock(c) \/ Local(c) \/ Remote(c) \/ Fails(c)
  \/ Tick

ClientSpec == ClientInit /\ [][ClientNext]_vars

\* Goroutines run on; a call that gets no answer times out; sync.Mutex hands
\* over to a waiter it has kept waiting.
ClientFairness == \A c \in Callers : /\ WF_vars(Local(c)) /\ WF_vars(Fails(c))
                                     /\ SF_vars(Lock(c))
FairClientSpec == ClientSpec /\ ClientFairness
-----------------------------------------------------------------------------
(* Properties.                                                             *)

\* A token the cache still hands out is one UAA still honours, however long
\* UAA's answer took to arrive ("Cache token with 60s safety margin before
\* expiry"): the margin pays for the answer's delay, and a token that lives
\* shorter than the margin is never handed out twice.
CachedIsLive == token.keep > 0 => token.good > 0

\* Why: the delay of UAA's answer is at most what a new token has lost, and it
\* is bounded by the timeout, which is no longer than the margin.  Before the
\* Director answers there is no task, and an answer names no other.
Early == {"idle", "lock", "uaa", "issued", "send", "sent"}
Sound(r) ==
  /\ r.pc = "issued" => r.good + r.age >= r.life
  /\ r.pc \in Early => r.task = 0 /\ r.got = 0
  /\ r.pc = "answer" => r.got = 0
  /\ r.pc = "answer" /\ r.kind = "change" /\ extractTaskID(r.resp) # NoId
       => r.task = extractTaskID(r.resp) /\ r.task # 0
ClientInv ==
  /\ ClientTypeOK
  /\ token.good >= token.keep
  /\ \A c \in Callers : Sound(calls[c])

\* A deploy or delete makes at most one task and returns it or fails, as the
\* broker's handlers count on; a status call is no call in this sense.
Seen(r) ==
  IF r.kind = "status" \/ r.pc = "idle"
  THEN [pc |-> "idle", task |-> 0, got |-> 0]
  ELSE [pc |-> IF r.pc \in {"ok", "failed"} THEN r.pc ELSE "running",
        task |-> r.task, got |-> r.got]
Calls == [c \in Callers |-> Seen(calls[c])]
Abstract == INSTANCE DirectorCalls WITH call <- Calls
OneTaskPerCall == Abstract!Spec

\* Every call returns, whatever UAA and the Director do, and no caller is
\* kept out of the token by another: every return of getToken unlocks.
CallsReturn == \A c \in Callers : ~At(c, "idle") ~> At(c, "idle")
=============================================================================
