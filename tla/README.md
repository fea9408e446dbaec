# OpenClaw for BOSH: a TLA+ verification project

The repository packages OpenClaw agents as a BOSH release and Ops Manager tile.
Its moving part is the **service broker** (`src/openclaw-broker`, Go): an Open
Service Broker API server that keeps one in-memory record per service instance,
has the BOSH Director deploy or delete one VM per instance, creates OAuth
clients in UAA, and writes its map to `instances.json`. Every handler releases
the broker's one lock around its calls to the director and to UAA. What can go
wrong there needs several requests, a lost answer or a crash at the wrong
moment, so that is where most of the project is. The second part is the **agent's
gateway** (`src/openclaw-gateway-custom`, JavaScript), where a chat page, the
gateway and an LLM provider meet in callbacks; it is in the tree, but nothing in
`packages/` or the build files names it, so what ChatStream says is about this
source and not about what a deployed agent runs. The third is the **upgrade-agents
errand** (`jobs/upgrade-agents`, shell), which drives the broker's admin handlers
while Cloud Foundry goes on using the others.

## The system's parts

| Part | Source | Module | Status |
|---|---|---|---|
| Instance map and OSB handlers | `broker/{broker,provision,deprovision,update,last_operation,binding}.go` | Broker | modelled |
| Admin upgrade handlers and tracker | `broker/admin.go` | Broker | modelled |
| State file, reload | `broker/broker.go` | StateFile, AtomicState; one step in Broker | modelled |
| BOSH client | `bosh/client.go` | BoshClient, DirectorCalls; as the handlers see it in Broker | modelled |
| BOSH director | external | Broker | modelled |
| UAA client | `uaa/client.go` | Broker | as the handlers see it |
| Cloud Foundry platform | routes and timeouts in `main.go` (external) | Platform | modelled |
| upgrade-agents errand | `jobs/upgrade-agents` | UpgradeErrand | modelled |
| Agent manifest | `bosh/manifest.go`, `provision.go`, `openclaw.json.erb` | AgentManifest, Startup | hostnames, quoting, lists, ports, llm block |
| Start-up: configuration, service key, plans, version gate | `main.go`, `broker.go`, `catalog.go`, `security/policy.go` | Startup | what reaches the broker and the agents |
| Agent gateway: chat | `src/openclaw-gateway-custom/dist/{cli,llm}.js` | ChatStream | modelled |
| Agent gateway: Control UI, login, rendering | `src/openclaw-gateway-custom/dist/{cli,control}.js` | - | not modelled |
| Agent, broker, proxy job scripts, other errands | `jobs/` | - | not modelled |

`PROJECT.json` has the complete list under `components`, with reasons, and the
hazards of the code with their lines under `hazards`.

## Modules

**Broker** is the broker with its surroundings at arm's length.

* `cur[id]` and `heap[id][g]` are Go's map of pointers: `cur` is the object the
  map holds for an instance ID (0: no entry), `heap` the fields of every object
  some handler may still write to. A handler keeps writing to the object it
  looked up before an unlock, also when the map has moved on, and some handlers
  remove by ID; the split is there to keep the two apart. A new object takes the
  lowest generation nothing refers to (Go's garbage collector reuses it).
* `h[r]` is a handler goroutine: its operation, program counter, the object it
  holds, the task it was given or polls, and what it read before the unlock.
* `tracker`, `disk`, `cfg` are `upgradeTracker.tasks`, `instances.json` and the
  configuration. A crash drops handlers and tracker and reloads the file, perhaps
  with another configuration.
* `tasks`, `last`, `deployed`, `uaa` are the director's tasks and deployments
  and UAA's clients. Tasks of one deployment run in the order issued and finish
  or error; the director refuses to delete a deployment it does not know.
* An action is the stretch of a handler between two points where it holds no
  lock: `ProvisionReserve` (all checks and the slot), `ProvisionUaa`,
  `ProvisionCall`, `ProvisionUndo` or `ProvisionRecord`, then `SaveMarshal`,
  `SaveWrite` and `Return`; the other handlers likewise. A handler reaches
  `saveState` exactly where the code calls it: error paths do not.
* `Faults` selects what may fail: a call refused (`deploy`, `delete`) or accepted
  with its answer lost (`deployLost`, `deleteLost`), UAA and task status calls,
  state file writes, tasks, and the broker itself, which crashes at any point
  (`crash`) or restarts between requests (`restart`).

**Platform** adds the client: Cloud Foundry sends one operation at a time per
instance, polls `last_operation` to the end, and deletes after a create that
failed with an error (orphan mitigation). `Impatience` makes it give up on
requests whose handler still runs (`main.go` closes answers after 30 s, a
director call may take 60 s) or delete an instance whose create is being polled.

**UpgradeErrand** composes Platform with the errand's script. `errand` is the
script: where it is, its phase, the request it waits for, the instances it
listed, the canary's share, the polls so far and what its last line said. Each
`curl` is a request to the broker like the platform's, served by a handler of
Broker step by step: `ErrandList` (or `ErrandUnlisted`, where the list is not to
be had), `ErrandUpgrade` and its answer, `ErrandPoll` and its answer; `Wait` and
`Proceed` are the ends of the polling loop; `ErrandGivesUp` is `--max-time`. The broker may crash under the errand but is not
reconfigured, since an errand holds the deployment's lock.

**StateFile** is `saveState` with one action per system call: marshal under the
read lock, open with truncation, write block by block, rename. Names refer to
inodes, so a descriptor keeps its file when the name moves on, and the temporary
name is one for all callers. Every call may fail; the process may die anywhere
(`FileSpec`), or never (`SteadySpec`).
**AtomicState** is what the rest of the broker relies on, and what Broker's
`SaveMarshal` and `SaveWrite` use: a copy is taken, and later replaces the stored
map in one step or not at all.

**BoshClient** is the director client: concurrent calls, one cached token behind
a mutex that is held while UAA is asked. Time passes in ticks; `token.keep` is
the time until `expiresAt`, `token.good` the time until UAA really drops the
token, and a call on the wire ages until its timeout. UAA and the director may
answer anything the code distinguishes, late or never. **DirectorCalls** is the
call as Broker's `Issue` and `CallFails` use it.

**AgentManifest** and **Startup** are pure functions of what is being built
(`building`) and of what the process is started with (`starting`), each checked
against a reference definition over bounded inputs: hostnames, quoting for YAML, the list
of blocked commands, ports; the version gate, plans, and the credentials of the
GenAI service key. There a value is named after the place it comes from: the
wrapped credentials, the ones at the top, the endpoint below either, or the
configuration. A string is a sequence of the characters the code tells
apart, an unset value is "" as in the code. Texts and lists are put together by
loops that append as they go; **Sieve** has the three forms of them that the
modules use (`Spread`, `Sift`, `Substitute`), as recursive functions about which
the proofs can do induction.

**ChatStream** is one page, the gateway it talks to and the provider behind.

* `ui` and `messages` are the page's variables: stream mode, where `send` and
  `pump` are (`phase`), the text so far, and the conversation that is sent with
  every message. `gw[c]` is the closure of one `handleChat` with its `done` flag,
  the parser's buffer, the events written and the state of the request to the
  provider; `sent[c]` remembers what the provider sent, for the properties.
* Every callback is an action: `handleChat`, `Status`, `Data`, `End`,
  `RefusalEnd`, `StreamError`, `Close` in the gateway; `send`, `fetched`, `pump`
  and `Leave` (Stop, or a broken connection) in the page. A response that the
  browser has left goes on to be fed by its provider beside the next chat.
* A provider's text is a sequence of payloads and line ends, cut into chunks
  anywhere; each parser is given by the lines it takes and the ones it stops at.

**MCBroker**, **MCPlatform**, **MCErrand**, **MCStateFile**, **MCDirector** give
the constants small values; MCDirector also puts the functions before the calls,
as main and Provision do: a behaviour starts with one configuration or one
manifest and goes on to the calls to the director. `View` leaves out the fields of objects that neither the map nor a handler refers to: nothing can
read them. `Symmetry` permutes instance IDs and handlers, which the
specifications use only as names; the liveness runs use neither.

**BrokerProofs** (types, map slots, instances.json, task IDs), **StoryProofs** and
**PlatformProofs** (the broker beside the platform), **ErrandProofs** (the errand
beside the broker, the canary), **EdgeProofs** (the Director client and the state
file), **ChatProofs** (the chat), **FunctionProofs** (the pure functions) and
**SieveProofs** (induction over sequences, for the two before it) hold the TLAPS
proofs.

Abstracted data: in Broker an instance is its organization, state, task, version, plan and
whether SSO is on; a manifest is version, release, plan and SSO; a configuration is a version, a
release, the outcome of the version gate, whether the infrastructure settings are complete,
and SSO. Version and release are two settings of the broker. The version goes to
the record and from there to the job property `openclaw.version`, which no
template of the agent job reads; the release (`openclaw_release_version`) is taken
from the configuration whenever a manifest is built, and decides what an agent
runs. AdminUpgrade compares versions: a new release under an unchanged version is
not rolled out by the errand, and reaches an agent with its next update.

Requests that are turned down before the lock is taken (an instance ID that is
not valid, no `accepts_incomplete`, a body that does not parse) change nothing and
are left out. A manifest that fails to render (`provision.go:201`) takes the path
of a refused deploy, which is the same from there on. The gateway's 400 for a body
that is not JSON is left out: the page never sends one.

## Runs

| Run | Shows |
|---|---|
| `broker` | all handlers of one instance, two at a time in any order, lost deploy answers, restarts that switch version and SSO: `TypeOK`; `SlotStable`, no live map entry is replaced |
| `platform_serial` | a patient platform, failing and lost deletes, failing task status, errored tasks: `NoOrphan` (what the platform holds for gone has no record, deployment or pending task), `PolledTask` (polls ask about the latest task, of the right kind), `BoundIsUp` (bindings only to what runs, as recorded) |
| `platform_quota` | two handlers race for the last slot of both quotas: `QuotaHolds` |
| `platform_crash` | one handler at a time, a platform that gives up on slow ones, refused and lost deploys, a crash between any two steps: `NoOrphan`; `SavedWhenIdle`, the file equals the map whenever no handler runs |
| `platform_live` | all OSB handlers, one after the other, refused deploys and deletes, lost deletes, errored tasks: `NoOrphanClient` (no OAuth client outlives its instance); under fairness `CreateSettles`, `DeleteSettles`, and `RequestsAnswered`, every handler that begins answers |
| `upgrade_errand` | two instances, the errand beside the platform, errored tasks, restarts with another version: `TaskOwner`, no task ID ever crosses instances; `CanaryFirst`, the second phase begins only when every redeploy of the first is done; `SuccessIsReal`, an errand that reports success has every listed instance recorded at the new version; `CompleteRunsRelease`, when both phases are over every listed instance is deployed from the new release |
| `errand_ends` | one instance that the platform creates beside the errand, impatient clients, failing writes and crashes: `ErrandEnds` under fairness, the script ends |
| `fleet_ends` | a fleet of two agents, each old or up to date, refused redeploys, failing task status, crashes and an errand that gives up on slow requests while their handlers go on: `ErrandEnds`, through both phases, and `RequestsAnswered`, the loops over two candidates included |
| `chat_stream` | two chats: `OneVerdict` (one verdict, last in the response), `DoneIsComplete` (a completed response has every token, however chunks were cut), `AnswersWhole` (the conversation holds only whole answers, after their questions), `StreamModeEnds` |
| `state_file` | one save at a time, failing calls, crashes anywhere: `NeverTorn`, the file parses at every moment; `SaveIsAtomic`, it implements AtomicState |
| `bosh_client` | two callers: `CachedIsLive`, the cache hands out no token UAA has dropped; `OneTaskPerCall`, the client implements DirectorCalls; `CallsReturn`, every call returns and none keeps the mutex. In the same run the pure functions: `HostnameIsLabel`, `HostnamesDiffer`, `QuotedReadsBack` (a quoted value reads back as what was put in), `BlockedAsListed` (every separator the tile may send), `PortsServed` (route, proxy and agent agree on ports), `GateIsDateOrder`, `PlansOffered` (catalog and Provision agree on plans and IDs), `OneSetOfCredentials` (base and key both come from the wrapped credentials or both from the top, each from their endpoint where they lack it) |

One run, `torn_state`, ends in a counterexample to what a comment of the code says
(`findings` in `PROJECT.json` quotes it). Two saves of a broker that is not killed
share the temporary file: the second to open it empties it, each writes at its own
offset, and after both have returned `instances.json` does not parse. The
counterexample is of `SteadySpec`, so no save in it is cut short.

**What the passing runs leave out.** Each of these changes of a configuration
makes TLC report a violation; they mark the edge of what the code keeps.

* `platform_serial` has no crash and no impatience. With
  `Impatience = {"timeout"}` NoOrphan fails: a create that outlives the
  platform's patience records its task over the delete's (`provision.go:221`),
  and the delete is reported done early. With `{"overlap"}` it fails too: the
  verdict of a poll that read its task before the delete (`last_operation.go:48`)
  makes the record ready again while the delete is queued, and the poll of the
  delete is told that it succeeded. It has no lost deploy beside its failing
  deletes: after one the platform deletes an instance the broker has no record
  of, and a delete that fails then is answered 410 Gone (`deprovision.go:52`):
  NoOrphan fails. It has no refused deploy either: an update that the director
  refuses has already changed the record, and BoundIsUp fails.
* `platform_crash` has no failing delete call, for the same reason. It has one
  handler: with two, snapshots are written in the other order (`broker.go:136`)
  and SavedWhenIdle fails.
* `platform_quota` has no failing delete call, no errored task and no
  impatience: a refused delete restores the state the record had
  (`deprovision.go:96`) after its slot may have been given away, and QuotaHolds
  fails.
* `platform_live` has no crash: a create whose task was never saved is polled as
  in progress for ever.
* `upgrade_errand` has one errand per broker process, no deletes and no refused
  deploys. A second errand (`MaxRuns = 2`, with five tasks) meets the tracker of
  the first, whose finished tasks count as healthy canaries, and CanaryFirst
  fails. With deletes the count is right and the instances are not
  (`run.erb:126`), and with refused deploys an upgrade of nobody is taken for a
  fleet that is up to date (`run.erb:67`): SuccessIsReal fails. With deletes
  NoOrphan would fail as well: AdminUpgradeStatus sets an instance that is being
  deleted to ready (`admin.go:147`).

**Bounds.** Two handlers are the least at which requests for one instance
overlap, and two instances the least at which they can be confused; one more
instance is needed to fill a quota of two, and two are a canary and a rest.
`SlotStable` speaks of one slot, and one instance is enough for it. `MaxGen`
objects per ID: one in the map and one per handler that may hold an older one.
`MaxTask` bounds the tasks ever issued; three are a deploy, an update or second
deploy and a delete, four are two instances deployed and upgraded. Requests are
only admitted while the tasks they may need remain (`Room`, `ErrandOwed`), so
neither a handler nor the script is cut off by the bound, and `Rest` marks the
end of a bounded history. `HealthTimeout` of two polls is one that goes round and
one that gives up. `fleet_ends` starts with the fleet in place, every
mixture of old and current agents, rather than with the creates that lead there. Deadlock is checked in every run of the broker. A state file
takes one to three blocks, so that a longer map is overwritten by a shorter one
and the reverse. Token lifetimes lie below and above the margin, which equals the
timeout as in the code (60 s and 60 s). Hostname labels are eight characters
long rather than 63, so that IDs and owners around every cut are enumerated.
In ChatStream two chats let an abandoned response run beside the next one, and four characters are two lines in chunks of up to three:
a token before, after or without a stop marker, split from its line end or not.
A page that sends no more messages stops, so deadlock is not checked there.

**Fairness.** Weak fairness of every handler step (each request runs in a
goroutine of its own and all its calls have timeouts), of task completion (the
director works off its queue), of the delivery of an answer, and of the
platform's polls and mitigation deletes. Arrivals, faults, crashes and user
deletes are not fair. A crash answers nobody, but it ends the
requests RequestsAnswered is about. The broker's lock is not a variable: a
stretch under it is one step, so RequestsAnswered says nothing about the wait for
it. `Req` bounds the number of handlers, which the code does not; so no client of
a fair run can keep every handler busy for ever (`fleet_ends` has no platform
requests beside the errand's). The errand's script runs on, as a shell does.
In BoshClient a call that gets no answer times out, and the mutex is strongly
fair: Go's `sync.Mutex` hands over to a waiter it has kept waiting. In ChatStream the callbacks of gateway and
page are fair (their event loops run what is ready), and a provider's answer ends
or fails at some time, which is an assumption: the code sets no timeout.
`StreamModeEnds` excepts a page whose read was rejected: nothing catches that
(`cli.js:413`), and the page stays in stream mode.

## Proofs

For every value of the constants, from the named assumptions in Broker (bounds
are naturals, configurations are typed, pseudo plans are not plans, "none" is
neither an instance nor a handler):

* `TypeCorrect`: `Spec => []TypeOK`. TypeOK alone is not inductive, since a
  handler writes to an object it looked up before an unlock. The inductive form
  `TypeInv` adds `HandlerInv`: a handler of an OSB operation names an instance
  and, between its lookup and its last write, holds a generation of it; an
  upgrade's remaining candidates are objects.
* `SlotsNeverStolen`: `Spec => SlotStable`. Only `ProvisionReserve`,
  `DeprovisionOrphan` and `UpdateRecover` fill a slot, each under the lock that
  found it empty; everything else empties one or leaves the map alone.
* `TasksNeverCross`: `Spec => []TaskOwner`. The inductive form `Owned` adds that
  an admin handler at the head of its loop carries no task from the instance
  before. A new task takes a fresh ID, so old ownership lasts (`OwnsLasts`);
  every write of a task ID copies one from the same instance's handler, record,
  tracker entry or file entry.
* `PlatformIsBroker`, `ErrandIsBroker`: `PlatformSpec => Spec` and
  `ErrandSpec => Spec`. Platform and errand only choose which requests arrive and
  when, so the three theorems above hold in the compositions;
  `ErrandTasksNeverCross` says so for TaskOwner. For the errand an invariant is
  needed (`ErrandInv`): the canary's share is at most what was listed, so the
  count of the second phase is a number of instances. It rests on a canary
  percentage of at most 100 and finitely many instances.
* `CanaryGoesFirst`: `ErrandSpec => CanaryFirst` where `MaxRuns <= 1`, under every
  fault, with restarts and impatient clients. See "The canary" below.
* `PlatformTypeCorrect`: `PlatformSpec => []PlatformTypeOK`, and
  `ErrandTypeCorrect`: `ErrandSpec => []ErrandTypeOK`, under every fault.
* `NothingOrphaned` (NoOrphan), `PollsLatestTask` (PolledTask),
  `NoClientOrphaned` (NoOrphanClient), `BoundAgentIsUp` (BoundIsUp) and
  `QuotasHold` (QuotaHolds): `PlatformSpec` keeps them for any number of
  instances, handlers, tasks and objects, under the conditions below.
* `SavedUnlessOverlapping`: `Spec /\ []OneAtATime => []SavedWhenIdle`, with
  crashes and restarts.
* `SerialNeverTorn`, `SerialSaveIsAtomic`: with at most one `saveState` at a time
  (`OneAtATime`), any map sizes, failing calls and crashes, StateFile keeps
  NeverTorn and implements AtomicState. The invariant says how far the temporary
  file has got and that it is not the file under the final name. `torn_state`
  shows that the hypothesis is needed. `FileTypeCorrect`
  (`FileSpec => []FileTypeOK`) holds without it: saves that overlap may tear the
  file, but none writes past its own map, because a save's offset counts only
  what it has written itself.
* `CacheNeverStale`: the client keeps CachedIsLive for any number of callers and
  any lifetimes, from one assumption on the constants, `Timeout <= Margin`. The
  invariant is that a new token has lost no more of its life than its answer took.
* `CallsAreAbstract`: `ClientSpec => OneTaskPerCall`, the refinement of
  DirectorCalls, from the same invariant (before the director answers there is no
  task; an answer that parses names the call's own). `ClientTypeCorrect` is its
  type part.
* `ChatTypeCorrect`, `VerdictIsLast` (OneVerdict), `DoneMeansComplete`
  (DoneIsComplete) and `ConversationHoldsWholeAnswers` (AnswersWhole): `ChatSpec`
  keeps them for any number of chats, texts and chunks of any size and every
  provider. See "The chat" below.
* `HostnamesAreLabels` (HostnameIsLabel) and `HostnamesAllDiffer`
  (HostnamesDiffer): for every label size above five, all owners, and all
  instance IDs that begin as `validInstanceID` asks (a letter or a digit),
  whatever characters follow. Both rest on `Trimmed`, what `strings.TrimRight`
  leaves of a label that was cut; the second on `UniqueHostnames`, that the cut
  falls on the owner and never on an ID that leaves five characters.
* `QuotedValuesReadBack` (QuotedReadsBack): for every value, of any length and
  characters. The invariant of the reader is that after each character of the
  value it is within no escape and has read what can be printed of it.
* `BlockedAlwaysAsListed` (BlockedAsListed): for all commands without a comma, a
  line end or a blank at their ends, every separator and every end of the list.
  Splitting and filtering distribute over a comma (`SplitAt`, `CmdsAt`), and what
  follows the comma of a separator holds no command (`CmdsRest`).
* `PortsAgree` (PortsServed), `PlansAlwaysOffered` (PlansOffered),
  `CredentialsOfOnePlace` (OneSetOfCredentials) and `GateForEveryDate`
  (GateIsDateOrder): for every manifest, every configuration of plans, every
  service key and model list, and all sets of years, months and days.

The theorems about pure functions are about every state in which what is built
or started with is one of the inputs the model describes (`building \subseteq
Agents`, `starting \subseteq Configurations`); `PortsAgree` needs no such premise.

**The platform's story.** The properties of Platform are not inductive, together
or apart: that nothing is left when a delete is reported done rests on what the
delete's handler left in the record, which rests on what it found. `StoryInv`
(StoryProofs) says it point by point. `ViewOf(i)` is what instance `i` depends
on: its generation and record, its deployment, its tasks in the director and its
OAuth client. `AtRest(v, c)` says what the view is while the platform believes
`c` and waits for nothing (`Gone`, `Deploying`, `Settled`, `Doomed`);
`Served(v, c, x)` says the same at every point of the handler `x` it waits for
(`Creating`, `Updating`, `Deleting`, `DeployPoll`, `DeletePoll`, `Binding`).
`Serial` makes handler and waiting platform each other's, `Ordered` says that
the tasks of an instance end in the order they were taken, so that the last
one's end is the state of the deployment. A step of one handler leaves all
views but one alone (`Elsewhere`), so each lemma is about one view. TLC has
checked StoryInv under four sets of faults before it was proved. The conditions:

* `Calm`: the platform waits for answers (`Impatience = {}`), the broker neither
  crashes nor restarts, and not both lost deploys and failing or lost deletes
  occur. The bullets on `platform_serial` show what goes wrong otherwise; all
  other faults (refused deploys, status errors, errored tasks, UAA and save
  failures) are allowed.
* `NoClientOrphaned` adds that UAA does not fail: a client whose deletion failed
  is left to the operator. `BoundAgentIsUp` adds `DeploysWork` (no refused or
  lost deploy). `QuotasHold` adds `NoRefund` (deletes are accepted and tasks do
  not fail, so that a deprovision is never undone) and finitely many instances.
* `SavedUnlessOverlapping` needs no handler to run beside another
  (`OneAtATime`), saves that succeed and `UpdatesWork`: an update refused by the
  director changes the record and saves nothing (`update.go:114`), so either there
  are no updates or no deploy is refused. Its invariant `SavedInv` says by how
  much memory is ahead of the file at each point of the one running handler.

**The canary.** CanaryFirst says that when the script goes to its second phase,
every task the tracker names is done. The script knows only a number: how many
instances AdminUpgradeStatus counted as healthy. The number proves something
only if the tracker names no more instances than were asked for, and if no
instance is counted whose task is not done. `CanaryInv` (ErrandProofs) follows
both through the script. Before the first upgrade no handler upgrades and the
tracker is empty (`Untouched`). While the upgrade runs (`Asks`), it is the only
one, and what is tracked, what it has in hand and what is left of its list add
up to at most the canary's share (`Upgrading`): each candidate goes from list to
hand to tracker, or is dropped. While the script polls (`Watching`, `Polls`),
nobody upgrades, and a status request has counted at most the instances it has
been through and whose task is done (`Polling`); a task once done stays done
(`DoneStays`), and by TaskOwner the task it asks about is that instance's. So a
count that reaches the share is the whole tracker (`PhaseTurns`). A crash empties
the tracker, ends the handlers and gives the new process a new run. `MaxRuns <= 1`
(one errand per broker process) is needed: a second errand meets the tracker of
the first, see `upgrade_errand` above. TLC has checked CanaryInv with crashes,
restarts, failing deploys, tasks and status calls and an impatient platform
before it was proved.

**The chat.** The gateway sees the provider's text in chunks and keeps the
incomplete line in a buffer, so that what it has written is right can only be
said by how far into the whole text it has got. `StreamOK` (ChatProofs) says it
of one request: its buffer is what follows the last complete line, and it has
written the tokens of the first `n` characters, perhaps with a verdict at the
end. Without a verdict, and unless the browser has left, `n` is where the last
complete line ends and no line before it ends an answer (`Unended`); with `done`,
either the stop marker follows at `n` or the provider has ended (`Completed`).
The step that matters is a chunk (`DataOK`): the parser reads old buffer and
chunk from where it left off, which is the same as reading the text from its
beginning (`ReadChunk`). `PageInv` is about the page: while it reads, its text is
what it has read of the request, all tokens, and its last message is the question;
a chat not yet sent is untouched. A request only ever adds to what it has written
(`Grows`), so what the page has read stays read; that carries PageInv and
AnswersWhole over the gateway's steps.

**Induction.** The provers do not take an operator as an argument, so the
library's induction schemes cannot be used. `Least` (a set of naturals has a least
element, from the well-foundedness of `<`) and `AllSequences` (a set of sequences
that has the empty one and is closed under `Append` has them all) are stated with
sets instead, and a proof puts the set of the cases that hold in their place. A
recursive function is a CHOOSE: the lists of its intermediate results are shown to
exist and to be unique (`SpreadsExist`, `SpreadsUnique`), from which what it
does to the empty sequence, to one more element and to two parts follows
(`SpreadNil`, `SpreadAppend`, `SpreadConcat`).

The argument has one lemma per action; what a handler's move or an object's
write does in general (`ReplyGood`, `HeapPut`, `HandlersOwnPut`, ...) is proved
once.

Only model-checked: NoOrphan with crashes (`platform_crash`), where the record
may fall back to what was saved; SuccessIsReal and CompleteRunsRelease, whose
invariant must follow every record, snapshot and deployment through crashes in two
phases; and everything about liveness,
which is out of the prover's reach.

## Not modelled

* Start, stop and drain scripts of the agent, broker and proxy jobs, and the
  register, deregister and smoke-test errands: straight-line shell whose effects
  lie in the operating system or in Cloud Controller. A broker stopped at any
  moment is Broker's `Crash`.
* The Control UI, login page and markdown rendering of the gateway, which keep
  no state between requests.
* Reading `config.json`, TLS settings, basic authentication, random tokens, icon
  and catalog texts, the parts of the manifest template that copy a value, and
  packaging, tile metadata and CI. `ValidateWebSocketOrigin` and
  `DefaultSecurityPolicy` in `security/policy.go` have no caller but their tests.
* What a power failure does to a file that was renamed without a sync, secrets
  (which one UAA keeps when a client exists already), and a director that rejects
  a token early: the cache would hand it out until it expires.
* oauth2-proxy, which is third-party code.
