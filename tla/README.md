# A TLA+ development of CFM

CFM is two control planes and their agents. The **Tenant Manager** (TM) keeps
tenants, cells, dataspaces and participant profiles. The **Provision Manager**
(PM) runs *orchestrations*: plans of activities, step by step, the activities of
one step in parallel. **Agents** run the activities. They meet over NATS
JetStream: a KV entry holds the state of an orchestration, durable streams carry
the manifests, the activity messages and the responses.

    TM  --event.cfm-orchestration-->  PM handler --> ProvisionManager.Start --> NatsOrchestrator.Execute
                                                             KV entry + messages event.<activity type>
    agents: NatsActivityExecutor  <-- fetch -- event.<type>
            --UpdateOrchestration--> KV entry;  publish the next step's messages
            --event.cfm-orchestration-response-->  TM callbacks
    KV stream --> OrchestrationIndexWatcher --> index (SQL), compensation

Nobody coordinates these steps: the engine is a set of stateless replicas that
read and write one KV entry by compare-and-set and settle messages that
JetStream may deliver again. That is the core of the system, what is hard to
test in it, and where this development starts. Around it are the activities that
the agents run against remote systems, the agent that follows key events, the
requests that change what refers to each other in the managers' databases, and the
algorithms (sorting, merging of subjects, queries) that these rest on.

## Inventory

| Part | State | Operations | Correct when |
|---|---|---|---|
| Orchestration engine (`pmanager/natsorchestration`) | KV entry (State, Completed, Retries, ProcessingData), messages of the activities | `Execute`, `start`, `processMessage` and the handlers it calls | steps run in order; no step is lost or skipped; success means all completed; every orchestration is decided |
| `UpdateOrchestration` (`client.go`) | the KV entry and its revision | read, compare-and-set, reread | acts like one atomic update; gives up only under real contention; returns |
| Index watcher (`watcher.go`) | index rows, compensation orchestrations | `onMessage` | the index ends with the final state; each failure is compensated, nothing else is |
| JetStream helpers (`common/natsclient`) | deliveries, consumers, subjects of the stream | fetch loop, heartbeats, ack/NAK/TERM, stream set-up | a message is settled once handled; no agent's subjects are lost |
| Provision manager (`pmanager/core/provision.go`, `natsprovision`) | definitions, orchestrations | `Start`, manifest handler, cancel, queries | one orchestration for each manifest ID, a different manifest refused |
| Definition manager | activity and orchestration definitions | create, delete | no definition refers to one that is gone |
| TM participants (`service_participant.go`, `natsprovision`) | profiles, VPAs, the pending orchestration | deploy, dispose, callbacks | a profile shows the result of its last orchestration; no cell with live VPAs is deleted |
| TM tenants, cells, dataspaces | rows that reference each other | create, patch, delete, deploy to dataspace | no dangling reference, no lost deployment |
| Orchestration agents (`agent/orchestration`) and clients | what exists in the remote systems, keys in ProcessingData | `ProcessDeploy`, `ProcessDispose` of seven agents | a deployment that completed has left all it is to create; a disposal leaves nothing but what it logged; both can be repeated |
| Key management agent, token cache | key mappings; cached tokens | key events; get and refresh | Siglet and the control plane use one key; no call is made with a token that expired |
| Dependency graph, assembler | vertices and edges; the assemblies' life cycle | sorts; assemble and shutdown | the sort is one, a cycle is reported exactly if there is one; nothing starts before what it requires |
| Query language and stores (`query`, `sqlstore`, `memorystore`) | rows | parse, match, build SQL; reads, locks, commits | both stores select the same rows; isolation as the services assume |
| HTTP APIs, auth | - | checks, listing, pages, statuses | pages are complete; nobody sees another's tenants |
| Generated code, fixtures | - | - | not modelled |

What is hard here: activities of one step that complete at once; a worker whose
message is given to another one while it works; crashes between the KV update
and the publish that follows it; calls that fail after they took effect;
duplicated, late and final deliveries; replicas that handle updates of one row
out of order; a compensation that is no part of the transaction it belongs to.
In the agents: an activity that is repeated after it was carried out in part. In
the databases: reads without a lock, and locks taken in different orders.
`PROJECT.json` lists each such place with its line under "hazards".

## Modules

### OrchestrationLifecycle, Orchestration, OrchestrationProofs

`OrchestrationLifecycle` says what anyone who reads the KV entry or a response
may rely on: activities complete step by step, the entry leaves "Initialized"
once, it is Completed and reported successful only if every activity completed.

`Orchestration` is the engine. `state`, `completed` and `retries` are the KV
entry; `stream`, `deliveries` and `window` are JetStream: what became of each
message, its NumDelivered, the message IDs within the duplicate window. `spc`
is where each delivery of the manifest is in `Execute` and `start`; `pc`,
`held`, `snapshot` and `verdict` are a worker's place in `processMessage`, its
message, its copy of the retry counts and the response it is to publish. An
activity may have several messages ("copies"), since the same ID is accepted
again after the duplicate window.

One action is one call that leaves the process, so that others act between any
two of them: `Store`, `EnqueueInitial`, `MarkRunning` (`Execute` and `start`),
`Fetch` (with `ReadOrchestration` and the branches on what it returned),
`RunActivity`, `PersistAndNak`, `PersistAndWait`, `HandleFatalError`,
`CompleteActivity` (`processOnActivityCompletion` up to the decision how to go
on, which it takes from the entry its own update returned), `EnqueueNext`,
`Finish`, `PublishResponse`, `AckMessage`. Each has the ways it fails: a failing
update may have been made or not, a failing publish of several messages leaves
any part of them. `Abandon` is a crash, and a handler that returns without
settling its message; `AckWaitExpires` redelivers what it held.
`HeartbeatsLost` gives a message to a second worker while the first goes on.

Decisions: `UpdateOrchestration` is one atomic step, which `KVUpdate` justifies
(an update that times out is made at once or never here; one that arrives late
is in `KVUpdate`). Reads of the entry are current. `Wait` leaves the message
"parked": nothing in this repository completes the activity afterwards. A panic
terminates the message. `ProcessingData`, `OutputData` and messages or entries
that cannot be decoded are left out.

### AtomicUpdate, KVUpdate, KVUpdateProofs

`AtomicUpdate` is the promise: each call takes effect once or not at all, in one
step while it lasts (or, if it failed, at some later time), and returns the
entry as its own update left it. `KVUpdate` is the loop of `client.go` request
by request, with any number of clients. The value of the entry is the sequence
of updates it is made of, which shows a lost or a repeated one.
`BeginFromResult` is the caller that updates what its previous update returned,
without reading again. A write may be delayed until long after its caller gave
up.

### IndexWatcher, IndexWatcherProofs

`kv` and `revision` are the entry as the engine writes it, `pending` whether its
last revision is still to be delivered: the bucket keeps one revision per key, so
an older one that was not delivered, or is to be delivered again, is gone.
`index` is the committed row, `locked` the transaction that has written it,
`compensation` the orchestration that undoes this one. `Fetch`, `FindByID`,
`Create`, `UpdateEntry`, `StartCompensation`, `Commit` and `Ack` are the calls of
`onMessage`; transactions read committed rows and lock what they write. The
guard of the code compares states and timestamps; the timestamp changes only
with the state, so the model compares states. `compensable` stands for the
look-up of a dispose definition. Without a database (`NoOpTransactionContext`)
there is no rollback; that mode is not modelled.

### ParticipantSaga, ParticipantSagaProofs

One participant profile from `DeployProfile` to `DisposeProfile`, across both
managers. `profile` is the committed row (the state of its VPAs, which always
change together, the pending orchestration, `Error`, whether it has state data);
`call` is where each call of the service is; `manifests` and `responses` are the
two streams; `orch` is the state of the deployment, of its compensation and of
one disposal for each call; `hpc`, `held` and `copy` are the callback handlers.

`DisposeProfile`, `revertDispose` and the callbacks read the row without a lock
and overwrite it, so their read and their write are two actions
(`FindActive`/`CommitDispose`, `RevertDispose`/`CommitRevert`,
`Handle`/`CommitResponse`), and whatever another transaction committed in between
is lost. The manifest is sent after the commit (`Send`); `SendFails` covers a
publish that was stored all the same. `Start` starts an orchestration once;
`Refuse` is the handler's failure response to an error that is not retried,
`GiveUp` the last delivery of one that is. `ReadFails`, `CommitResponse` and
`HandleFails` are the ways a callback ends: acked, delivered again, terminated.

An orchestration is reduced to what the Tenant Manager can see of it: `Finish`,
`Stall` (an orchestration that `EventuallyDecided` excuses), `PublishResponse`,
`PublishAgain` and `LoseResponse` stand for behaviours of `Orchestration`. That a
completed orchestration stays completed is its `VerdictIsFinal`, which holds
while no heartbeat is lost. `lost` remembers what nobody will hear of any more,
for `Settles`. The tenant, cells and dataspace profiles of a deployment are in
`References`.

### AgentActivities, AgentActivitiesProofs

The deployment of one participant and its disposal, as the remote calls that the
seven agents make. An activity is a sequence of calls (`EdcvDeploy` and its like);
`Call` names a resource, a method and the answers that the client takes for
success. `remote` is what exists in the remote systems, which are external:
`Answer` and `Effect` say of them only what the clients rely on (a POST of what
exists is a conflict, a DELETE of what does not is not found; without the agent's
mapping no token is issued). `data` are the keys of ProcessingData that activities
hand on, `pc` is the next call of each attempt.

`Begin` delivers the message, to a second worker too; `Reply` and `CallFails` are
one call, the latter with or without its effect; `customCheckRetry` is the HTTP
client, which sends a request again when the answer is lost; `Crash` is between any
two calls; `Settle` is what the executor makes of the result, `Issue` the
credential service, `Dispose` the compensation or the disposal, which does not wait
for attempts of the deployment that are still at work. `jwtlet` comes first in a
deployment and last in a disposal: every other activity reads the ID that it stores,
and calls with tokens that its mappings allow. The definitions are data of an
installation; the order of the other activities is left open.

### StreamSubjects, LifecycleAgent, LifecycleAgentProofs

`StreamSubjects` has `subjectCovers`, `subjectsCollide` and `mergeStreamSubjects`
on subjects as sequences of tokens, and as a reference the set of concrete subjects
that a pattern matches (`Language`). A stream's subjects are a set: nothing depends on
their order but the text of the update.

`LifecycleAgent` is the key management agent from its start: `LookUp`,
`createStream`, `ReadSubjects`, `UpdateSubjects`, `SetupConsumer` are the calls that
set up its consumer, beside another agent doing the same. `Delete` removes the
consumer or the stream under it; `Fetch`, `FetchGone`, `FetchFails`, `Backoff` are
the loop; `GetToken`, `TokenArrives`, `Tick` the token cache, whose tokens have the
life they were recorded with and their real one; `Call`, `NotProvisioned`,
`CallFails`, `Done` the handling of one event (`op` is the call it is at). A event is delivered again behind later ones.

### Dag, Assembly, AssemblyProofs

`Dag` is `common/dag` step by step: `Root`, `Descend`, `Ascend` are the search for a
cycle, `BeginSort`, `Dequeue`, `EndSort` Kahn's sort, `Level` the grouping. Each
choice that the code leaves to the iteration of a map is a choice of the model. The
reference definitions are `Reaches`, the least set that has a vertex's edges and theirs,
and `Cyclic`.

`Assembly` puts it to its two uses. `InitSystem` is the service assembler: the
assemblies, reversed (`CallOrder`), go through `CallNext` for init, prepare and start
and, once the process is told to stop, finalize and shutdown; `CallFails` is a call
that returns an error. `InitDefinition` is an orchestration definition that is
validated (`validateActivitySchema`), and `Instantiate` the plan made of it.

### References, Query, Api, Stores, ApiProofs

`References` has the transactions of the Tenant Manager's and the Provision
Manager's services, one statement an action. `db` are the committed rows; a
transaction (`trx`) has the rows it locked FOR SHARE or FOR UPDATE, what it read, and
what it is to write. Statements see what is committed, writes wait for locks, the
last statement of a transaction commits with it. `tainted` and `kept` are history:
the code reads some rows without a lock and overwrites them as a whole, and what is
written from a read that was out of date is told from the rest. `TableOf` says which
table an id belongs to: the code looks an id up in one table only. `ReferencesAssumption`
says what the initial rows and the requests are: rows that refer to rows that are there,
requests that name ids of the right tables, and new ids (`uuid.New`) for what is created.

A template's deletion is one transaction of several statements: `FindTemplate` finds the
definitions, in any order, since the SELECT has no ORDER BY (sqlstore.go:464);
`LookUpOrchestration` and `DeleteNext` look at the index and delete, one definition after
the other; `CommitDeletions` commits. A DELETE locks its row until then, and other writes
of the row wait (`CanExclude`). Two such deletions that found the rows in different orders
wait for each other, which PostgreSQL ends by failing one of them (`Abort`): its client
gets status 500 and the other deletion goes on. Nothing in the repository says that this cannot
happen. `TransactionsEnd` says that nothing else can: a request that was served ends, or
waits in such a cycle of deletions (`InDeadlock`), or for a definition that one in it
has deleted.

What is merged: the look-ups of activity definitions and of the definition itself
(`FindDefinitions`), and the SELECTs for what uses a row (`CheckUse`), which run while the
row is locked; the read and the write of `revertDispose` and of a response (`Respond`),
which `ParticipantSaga` has apart. A failure of a transaction's first statement, which tells
the client no more than a failed later one, is left out of `Abort`.

`Query` has the parser's predicate builder and the SQL that the PostgreSQL stores build
of one predicate; `Eval` is what PostgreSQL, which is external, makes of the SQL, with
NULLs and errors. The code builds the SQL recursively; here it is unrolled to a compound
of compounds of atoms, since the grammar nests one deep and `TenantAccess.Restrict` adds
one.

`Api` composes the two under the HTTP handlers: `Admitted` are the checks a request
passes (token, tenant access, scope, payload), `CountRows` and `ReadRows` the two
statements of a page, of which a client asks for one after the other by the "next"
link, `Truncate` an error after the status was sent, `Status` what a request ends
with. Writing requests are those of `References`. `ApiAssumption` says that a client
that pages gives a limit: a listing without one links to itself, and is below under the
disagreements; negative limits are left out.

`Stores` adds how the in-memory stores match a predicate by reflection, as recursive
operators; `Portable` are the predicates that the SQL builder supports for the type of a
field. It is the module that the run checks.

### MC modules

The `MC` modules define plans, scenarios and symmetry sets; the `.cfg` files give
the constants.

## Runs

All runs but `assembly` say `CHECK_DEADLOCK FALSE`: an orchestration ends, a bounded
number of calls, requests or revisions is used up. In `api` a deadlock between
transactions violates `TransactionsEnd`, but for the one it names. Bounds are
constants: faults, copies, deliveries, calls, revisions. Each is a guard of the actions that count.

| Run | Instance | Shows |
|---|---|---|
| `orchestration` | two parallel activities, then one; two workers; two copies of each message; two deliveries; one fault; all outcomes | `StepOrder`, `SuccessMeansAllCompleted`, `NoLostHandoff`, and that `OrchestrationLifecycle` is implemented, when messages are duplicated, heartbeats lost, any one call fails or process dies |
| `orchestration_live` | one activity, then two parallel; two deliveries of the manifest; one copy; one fault; four deliveries, so that they never run out | `NoRerun`, `VerdictIsFinal`, and under fairness `EventuallyDecided` |
| `kv_update` | three clients, five calls, limit 2, one fault | the loop implements `AtomicUpdate`; `LaterSeesEarlier`; it gives up only after as many updates by others as the limit; `CallsReturn` |
| `index_watcher` | one replica, five revisions, three faults | `IndexCatchesUp`, `KnownErrorIsCompensated` |
| `index_replicas` | two replicas, five revisions, two faults | `CompensationIsJustified`, `ErrorIsIndexedAfterCompensation` |
| `participant` | two disposals that may overlap, one handler, three faults | `ActiveMeansDeployed`, `NotForgotten`, `LateResponseIsIgnored`, and under fairness `Settles` |
| `activities` | jwtlet with one of six other activities, or two; two workers; two faults; four kinds of input | `DeployedIsComplete`, `RepeatsAreSafe`, `DisposedIsClean`, and under fairness `EveryRunEnds` |
| `lifecycle_agent` | two agents; streams that are missing, narrower, broader or overlapping; up to three key events; two deliveries; one fault; two ticks | `StreamIsSound`, `KeysAgree`, `TokenIsValid`, and under fairness `EventsSettle` |
| `assembly` | four assemblies that require any of each other, or two providers of one service, or a missing one; definitions of three activities with any dependencies | `SortIsRight`, `CalledInOrder`, `PlanIsSound` |
| `api` | any three of thirteen writing requests, any three requests on definitions, two deletions of a template with two definitions beside a third, each read beside each write, pages beside two writes, one query of each operator and type of field | `NoDangling`, `UpdatesKept`, `TransactionsEnd`, `StoresAgree`, `PagesComplete`, `OthersAreInvisible` |
| `lost_response`, `uncompensated` | small instances | disagreements, below |

Why the bounds are enough: the races of the engine are between two workers (the
last two of a step, or two holders of one message), and a second fault needs no
other state than the first leaves. Two copies of a message are one more than the
code wants. The last delivery is met in `orchestration` (`MaxDeliver` is 2) and
kept out of reach in `orchestration_live`, like the code's 1000. Three clients
overtake each other in every order with a limit of 2. Two replicas are what a
stale read needs. Five revisions reach a terminal state and updates after it.
Two disposals are what a stale read of the profile needs; three faults allow a
refused manifest, a repeated response and a failing undo in one behaviour.
`NotForgotten` and `LateResponseIsIgnored` are about one callback handler, as one
replica of the Tenant Manager runs it; two would overwrite each other's profile.
`NoRerun` and `VerdictIsFinal` are about the undisturbed case (one copy, one
holder): with lost heartbeats an activity can run again after it completed, and
a Completed entry can become Errored; what still holds then is what
`orchestration` checks.

In `activities`, two faults are a crash or a lost answer in the deployment and one
in the disposal, or a repeated attempt that is itself interrupted; the activities
touch different resources and meet only in the mapping and the ID, so plans of one
beside jwtlet show all of each, and two that they do not disturb each other. In
`lifecycle_agent` one fault is a deletion, a failing call or a crash at any place;
a token lives for two ticks. In `assembly`, three vertices are the least with a
vertex that is reached twice and a cycle that is not through the root, four the
least with two such paths. In `api`, three transactions are one more than a lost
update or a stale read needs, and what a cycle of three locks does. Two deletions of a
template with two definitions are the least that wait for each other, and the third
request is one that moves a row between their scans, or waits with them.

`Symmetric` (workers) and `ReplicaSymmetry` are used in safety runs only.

### Fairness

`Orchestration`: a delivered manifest is handled to its end, a worker goes on
with the message it holds, each queued message is fetched by some worker, an
unsettled message is redelivered after AckWait. These are the dispatcher, the
fetch loops (`FetchLoop.Run` runs until shutdown) and JetStream's promise.
`KVUpdate`: a caller waits for `UpdateOrchestration`. `IndexWatcher`: some
replica fetches, and each goes on in `onMessage`. `ParticipantSaga`: a call that
began goes on, the Provision Manager handles manifests and decides
orchestrations, responses are dispatched; each as a whole, since none of the
three can go on for ever; `StartCompensation` is not assumed. `AgentActivities`: an
activity's message is delivered until it is settled, and the credential service
decides a request in the end. `LifecycleAgent`: the agent sets up its consumer,
fetches, and handles what it holds. `Api`: a goroutine that can go on does, and a
client follows the links; that requests end is claimed once they were served.
`Assembly` has no liveness property. All are weak; faults are bounded and never
forced.

### Disagreements between code and documentation

* `lost_response` (activity.go:409). The entry is Completed before the response
  is published. If publishing fails, the redelivered message finds a terminal
  entry and is acked, so the Tenant Manager never hears of the success.
* `uncompensated` (watcher.go:77). If the first update the watcher sees is the
  failure, the entry is created and no compensation is started.

Met while modelling, in the models as the code has them, without a run of their own:

* `Merge` (types.go:93) says it keeps counts of other activities; a worker's copy
  holds them as of its read and sets newer ones back (types.go:109).
* The comment at watcher.go:84 says a terminal entry is not updated; of two replicas
  the one that read the row before overwrites the terminal state with an older one
  (watcher.go:92). `IndexCatchesUp` is therefore about one replica.
* The comment at service_participant.go:338 says only a response for the
  orchestration started last is applied; with two overlapping disposals a response
  to the first that was checked before the second became pending is written after
  it (service_participant.go:482). If the second one's send then fails, the profile
  is active again though the first disposal was carried out.
* Activities other than jwtlet's take the conflict with what an earlier attempt of
  their own created for a fatal error (certo/activity/activity.go:119), also when the
  HTTP client itself sent the request twice (httpclient/client.go:115).
* A rotated key is not acted on, though the comment on `handleKeyDecommissioned` names
  rotation; a redelivered older activation wins over a later one.
* `parser.go:205`: one AND among the connectives makes all of them AND, so
  `a AND b OR c` is `a AND b AND c`; the query language's documentation shows
  nested compounds.
* The SQL of `!=`, IN and NOT IN on an array of scalars compares for equality, or with
  the quoted text (query.go:620, 471, 508); STARTS_WITH, ENDS_WITH, CONTAINS and LIKE
  on columns or paths are an SQL error or mean something else than in memory; an
  empty IN is an SQL error. `Portable` leaves these out of `StoresAgree`.
* `RecordExternalDeployment` with an external ID fails on the SQL store, which has no
  such column (service_cell.go:35).
* An error while rows are written leaves an array cut short under status 200
  (handler.go:348). A listing without a limit links to itself (handler.go:267).
* Deployments of one dataspace profile, patches of one tenant, and definitions and
  their references are read without a lock: an overlapping request can be lost, or
  leave a reference to a definition that is gone. The properties name exactly these.
* `Unknown`: a `dependsOn` that names no activity makes validation panic; cycles are
  found only when a definition is instantiated.
* Finalize and Shutdown run in the order of the start (assembler.go:226), and a start
  that fails finalizes nothing.

## Proofs

For every plan, scenario, number of workers, starters, copies, clients, replicas,
handlers and requests, and every bound, from the named assumptions on the constants:
`StepsAssumption` and `BoundsAssumption` (steps are numbered without a gap, a message
has a copy), `KVAssumption`, `WatcherAssumption`, `SagaAssumption` (bounds are natural
numbers, names of different things differ), `ActivitiesAssumption`, `AgentAssumption`
(events are a sequence of known kinds, each with a key), `SubjectAssumption` (what NATS
sees to: no stream has overlapping subjects, and a consumer's are carried),
`AssemblyAssumption` (assemblies are a finite list, a definition has finitely many
activities), `ReferencesAssumption` and `ApiAssumption` (above).
TLC evaluates each of them in a run. Every invariant below was first checked by TLC on
the instance of the run.

### The engine

`TypeCorrect`, then `StepsInvariant`. `StepOrder` is not inductive by itself: that a
worker has a message says nothing unless every message that exists was put there after
the earlier steps completed, and a worker at "enqueue" or "finish" must know that its own
step is complete. The strengthening `StepsInv` says so of messages, workers and verdicts;
`StepOrderHolds` and `SuccessHolds` follow, and with them each step maps to a step of
`OrchestrationLifecycle` or a stutter (`Implements`).

`NoLostHandoffHolds` is about the moment between two writes: the KV entry says that a
step is complete, the next step's messages are not published yet. `HandInv` says who owes
them (`Handoff`): as long as a step is complete and its successor is not (`Open`), an
activity of that step has a message that no worker is about to ack (`Carried`), for a
worker that acks has decided from the entry that *another* activity was not complete,
and the one that completes it decides later. `WindowOK` relates the duplicate window
to the messages: what JetStream drops as a duplicate was published. `NoLostHandoff`
excuses orchestrations that were given up, and `GivenUp` can end again, which an
invariant cannot use; `Over` replaces it, which does not end.

`NoRerunHolds` and `VerdictIsFinalHolds` have the hypothesis `Undisturbed`: heartbeats get
through, and an activity has one message. It is the instance of `orchestration_live`; the
code's comment means this case, and without it both are false. `OnceInv` says that a
message has one holder (`HeldOnce`), so that nobody else completes its activity, and that
whoever runs it or reports it is in time for it (`NotTooLate`). `VerdictIsFinal` needs
`[]~Late` besides: no message reaches its last delivery, which the code puts at 1000; on
it `HandleFails` may fail an orchestration that is completed.

### Optimistic updates

`KInv` relates each client's copy to the entry. A copy read at the current revision *is*
the entry; an older one is a prefix of it; a delayed write at the current revision extends
the current value by its caller; and the revision has moved on by at least the number of
conflicts counted. From it follow `GivesUpHolds`, `LaterSeesEarlierHolds` and `Implements`.

### Index watcher

`WInv` adds to the types that a terminal state in a handler's message is the entry's, and
that a transaction which is about to commit the error of a compensable orchestration has
started its compensation. From it follow `CompensationJustified` and
`ErrorIndexedAfterCompensation`.

### The profile's saga

`ActiveMeansDeployed` speaks of the stored profile, which any transaction may overwrite
with what it read long ago. `DeployInv` therefore says the same of every copy, of what a
disposal is about to write or to revert to, and of the deployment's success on its way in
a response or a handler; a profile that waits for a disposal counts as one that was
active. It needs no bound on handlers: that the row is overwritten does not hurt this
property.

`NotForgottenHolds` and `LateResponseIsIgnoredHolds` have the hypothesis `OneHandler`, as
the properties say; with two, one overwrites what the other wrote. `HeardInv` adds to
`NotForgotten` that a call which has not committed has neither manifest nor orchestration
(`StartedInOrder`: the commit precedes the publish, so that no response comes too early),
and the same for the copy of a handler that is applying a *failure*
(`FailureKeepsWaiting`), since what it writes waits on. `WaitingInv` says that no disposal
has begun while the row waits for its deployment, so that the calls cannot change the row
between the handler's check and its write.

### Requests, references and what a caller sees

`NoDanglingHolds` and `UpdatesKeptHolds`, of `References!Spec` and of `ApiSpec`. A request
finds out that nothing refers to a row, and deletes it some statements later; another finds
the row, and refers to it some statements later. What excludes the two is a row lock of
which only one statement knows, or nothing. `RInv` has
the locks (`LocksOK`: locked rows are there, an exclusive lock is alone), for each kind of
request what it has found so far and which lock or which unlocked read that rests on
(`TrxOK`, with a part for each: `DeployOK`, `DisposeOK`, `PatchOK`, `DeployProfileOK`,
`DeleteOK`, `DefinitionOK`), that new ids stay new (`Fresh`), and that what a transaction
added is kept (`KeptOK`). Where a read is unlocked, `stale` tells whether what was read
has changed since, and each part says what holds as long as it has not. The proof has one
lemma for what a commit by one transaction leaves of another's part (`Sound`), which is
where the locks are used, and one for each statement. `ApiNextKeeps` adds the requests
that read.

`OthersAreInvisibleHolds`. A response is about the rows as they were when it was read, the
property about the rows as they are. What connects the two is that no step gives a row
another owner and that an id is never used again (`Tame`, which each of the writing
requests is shown to be), so that who was allowed to see a row stays allowed. `VisibleOK`
says of every row in a response, and of the one that the request names once it was found,
that the caller may know of it, now or when it is created (`MayKnow`). That a query finds
no others is `RestrictedIsOwn`: whatever SQL is built of a predicate, the conjunct that
`Restrict` adds is built to a test of the column `owner`, and is true of the caller's rows
only; an empty subject, for which this is false, does not get past `tenantAccess`
(`AdmittedOK`).

`PagesCompleteHolds`. `PagesOK` relates what a client has so far to the *current*
selection. Each row that stayed selected is shown or has a place from the next offset on
(`StaysOK`): a row that is added moves others to later pages, one that is removed moves
them to earlier ones, where the client does not look any more. What is shown is shown once and
has a place before the offset (`OnceOK`), and as long as nothing changed the items are the
first of the sorted rows and the offset is a multiple of the limit (`SameOK`), which the
"last" link counts in. `CountedOK` says that between a page's count and its SELECT the
total is the selection's size unless it is noted that it changed: "next" is decided from it.
`ReadsPage` is one page, `RowsChange` one change of the rows; both are about any
selection, any size of pages and any change.

### Activities

`DeployedIsCompleteHolds`, `RepeatsAreSafeHolds` and `DisposedIsCleanHolds`. `AInv` says of
each attempt, by the call it is at, what exists in the remote systems then (`Deploying`,
`Behind`) or is gone or logged (`Disposing`, `Gone`): for any number of attempts of one
activity at once, since attempts of a deployment only add and those of a disposal only
remove, as long as no attempt of the deployment outlives its beginning (`~overlap`).
`OwnedOK` and `Resources` say whose a remote resource is, so that a disposal of the plan
finds all; `ContextFirst` that the context's config and profiles are deleted with it;
`IDHandedOn` that the participant's ID, by which a disposal finds the mappings, is known
from the first completion on; `EngineOK` what the engine of `Orchestration` promises.
A step of an attempt is reduced to its call, once for all activities, by lemmas about the
call that follows (`Following`); per activity there are only facts about its calls.

### The graph, the assembler and plans

`AInv`. The search for a cycle is a stack of vertices with the edges that are left of
each. Its invariant (`SearchOK`) is that the stack is a path without a repetition
(`StackOK`), that an edge that was worked off leads to a visited vertex or to the next one
on the stack (`LeftOK`), and that visited vertices depend on visited ones only and none on
itself (`VisitedOK`): so an edge back into the stack closes a cycle, and if there is none
until the end there is none. Kahn's sort (`KahnOK`) counts for each vertex its edges from vertices that
are not sorted; a graph without a cycle has in every set of vertices one without an edge
from the set (`HasSource`: one that is reached from the fewest), so the queue runs empty
only when all are sorted. The levels are sets of vertices that have their dependents in
earlier levels, and reversed they are the plan. `SortIsRightHolds` and `PlanIsSoundHolds`
follow; for the latter, validation has compared what activities require with what the
activities output that they depend on. For `CalledInOrderHolds`, `CallsOK` says that
the assemblies that went through a call are the first of the call order, and through every
earlier call all of them. The library's induction theorems cannot be used, so that a least
counterexample takes their place (`Least`), and `Reaches` is defined as a least closed set.

### Key events, tokens, subjects

`TokenIsValidHolds`: `TokenOK` says that a token is recorded as living no longer than it
does, and that a call which took its token from the cache has it for one more tick.
`KeysAgreeHolds`: `QueueOK` says that first deliveries are in order, so that without
redeliveries the last decisive event is the last to be handled (`LastCounts`); with
redeliveries, that Siglet and the control plane disagree only while a decisive event that
was begun is not acked (`MappedOK`).

Of subjects of any length, over any tokens, it is proved what the comments
in `stream.go` say of the loops over tokens: `subjectCovers` is inclusion
(`CoversIsInclusion`, given a token that the broader subject does not name, for otherwise
`*` may be no broader than the names), and `subjectsCollide` is overlap
(`CollideIsOverlap`). A subject ends with `>` if it has one, as NATS demands. From them,
`MergeIsSound`: the subjects that a merge leaves out are covered by the one that it adds,
and those it keeps do not overlap with it. `StreamIsSoundHolds` adds the other agent
(`StreamInv`): also what each agent has read, and will write back, has no overlap, and an
agent that creates its consumer finds its subjects carried or is refused.

### Only model-checked

* Liveness (`EventuallyDecided`, `CallsReturn`, `IndexCatchesUp`, `KnownErrorIsCompensated`,
  `Settles`, `EveryRunEnds`, `EventsSettle`, `TransactionsEnd`), which is out of the prover's
  reach.
* `StoresAgree`: how the in-memory stores match is recursive on the predicate and on the
  entity, and compares texts character by character. It is checked for one query of each
  operator on each type of field, restricted and not.

## Plan

Modelled: the engine, its optimistic updates, the index watcher, the profile's saga,
the agents' activities, the key management agent, the dependency graph and its uses,
the services' transactions, queries and the HTTP APIs. Proved: every safety property of
the runs but `StoresAgree`. Left:

1. `StoresAgree` by cases of the operators for predicates as deep as `Query` unrolls them,
   with the texts as an ordered set.
2. The merge of `ProcessingData` by workers with copies of different age (types.go:109),
   which is listed as a hazard and in no model.

## Not modelled

* ProcessingData and OutputData beyond the keys of `AgentActivities`: values are
  passed through, and their write-back is listed as a hazard.
* Messages and entries that cannot be decoded; a manifest that reuses another's ID;
  `Cancel`, which the code does not implement.
* The in-memory stores' maps under their mutex, and with them running without a
  database, where nothing is rolled back: for tests and development.
* The generated lexer and parser of the query language; text processing.
* Health checks, telemetry, logging, configuration, routing by path: pure I/O.
* Queries of orchestrations by the Provision Manager's API: the same code as the
  queries of `Api`, on rows that only the watcher writes.
* Mocks, fixtures and end-to-end tests.
