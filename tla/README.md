# SkyOps: specification, model checking and proofs

SkyOps watches Kubernetes clusters, turns what it sees into incidents and repairs
them. A Node.js backend (`server.ts`, `server/`) keeps the state of every cluster;
a Go agent (`agent/`) inside each cluster uploads telemetry, fetches remediation
actions, executes them and reports how they went; a React console (`src/`) is a
client of the backend's HTTP interface.

The hard part of the system is the loop *telemetry → incident → action → agent →
report → telemetry*. It crosses a network that loses, repeats and reorders, two
processes that restart, several goroutines of the agent and several timers of the
backend. This project specifies that loop in TLA+, model-checks it with TLC and
proves its main safety properties with TLAPS.

Paths below are relative to the root of the repository. `PROJECT.json` maps every
definition to its lines.

## 1. Inventory

### Backend

| Component | State | Operations | Modelled |
|---|---|---|---|
| Remediation action store (`server/store.ts`, `server/engine/policy.ts`) | map `remediationActions`: status and timestamps of each action | create, claim (poll or stream), report, cancel, pause auto-healing, expire and reap (15 s timer), verify from telemetry | `ActionRecord`, `ActionStore`, `RemediationEngine` |
| Proposals, approval and target locks | `remediations`, locks derived from action statuses, failure counts of the policy | AI analysis, approve, reject, roll back, manual heal, auto-heal, image replacement, resource operation, autonomous policy | `RemediationEngine` |
| Incident engine (`server/engine/detector.ts`, `fingerprint.ts`) | `incidents` | open, reopen, recover, auto-clean; operator updates and deletion | effects of a batch in `SnapshotReconciliation`, operators in `RemediationEngine`; detection rules not |
| Telemetry ingestion and reconciliation (`syncClusterResources`) | `resources` (the view), incidents, verification of actions | one call per telemetry batch | `SnapshotReconciliation`; its closed loop over proposals in `RemediationEngine` |
| Registration, pairing, connection state | `clusters`, `clusterTokens`, `activeAgentTokens`, heartbeats | create, pair, authenticate, heartbeat, monitor, disconnect, rotate, revoke, delete | `ClusterConnection` |
| Organisations, members, invitations | `orgs`, `orgMembers`, `invitations`, `deletedOrgIds` | invite, accept, decline, resend, revoke, change role or status, remove, leave, delete; repair of the creator's membership | `OrgMembership` |
| Authentication and sessions (`server/auth.ts`) | caches of the two parts above | `requireOrgMembership`, `authenticateAgentTokenAsync` | in `OrgMembership` and `ClusterConnection`; sessions of users not |
| Persistence (`server/persistence*`) | debounced JSON snapshot, Firestore documents | save, load | Firestore writes and hydration in `ClusterConnection` and `OrgMembership`; the snapshot planned: `DurableActionStore` |
| Pod log requests | `pendingLogRequests`, `pendingLogResolvers`, `podLogsCache` | queue, claim, store, wait | `PodLogRelay`; the cache not |
| Job queue and webhooks | sorted array of jobs, one worker | enqueue, process, retry | planned: `JobQueue` |
| Billing | subscriptions, invoices, processed event ids | checkout, confirm, provider events | planned: `Billing` |
| Audit ledger | list with a hash chain per organisation | record, verify | planned: `AuditLedger` |
| Notifications, time series, scoring, AI, cost, security, storage, log search | maps and ring buffers | sequential request handlers, pure computations, calls of external services | no, reasons in `PROJECT.json` |

Node.js runs each synchronous handler to its end, so a handler without `await` is
one atomic step. The races of the backend are between handlers: a claim, a report,
a cancellation, the reaper and a telemetry batch can come in any order. Where a handler
does `await` (a look-up of a token or of a user's organisations, the reading of
Firestore after a start), what it read before may be stale when it goes on.

### Agent

| Component | State | Operations | Modelled |
|---|---|---|---|
| Collector (`agent/internal/collector`) | loop on a ticker | scrape, flush, drain the spool | `TelemetrySpool` (what happens to the data), `SnapshotReconciliation` (what the batches say) |
| Bounded queue (`agent/internal/queue`) | ring of observations | push with eviction, pop all, requeue | `TelemetrySpool` |
| Disk spool (`agent/internal/spool`) | `.dat` files and an index in memory | write with pruning, read oldest, acknowledge, recover | `TelemetrySpool` |
| HTTP client and circuit breaker (`agent/internal/transport`) | breaker fields under a mutex | post with retries, poll, open stream | `CircuitBreaker` |
| Remediation manager (`agent/internal/remediation`) | action channel, idempotency map, queue of reports | stream and poll delivery, `ProcessAction`, `reportJobState`, `drainLocalQueue` | `RemediationSystem` |
| Log collector (`log_collector.go`) | checkpoints and restart counts per container, a queue of requests with four workers | a pass over all containers (current and crashed logs), a poll for requests | `LogScrape`, `PodLogRelay` |
| Policy and executors | none that survives a call | decide, patch the cluster, verify, restore | outcomes chosen freely in `RemediationSystem` |
| Inspectors, graph, correlation, configuration, metrics | none shared | pure computation, start-up, counters | no |

### How they interact

* The collector posts batches through the breaker; a failed post goes to the spool
  and is replayed after the next successful one. The backend reconciles each batch
  in the order of arrival.
* The manager learns of actions by two ways at once (stream and poll); both end in
  `claimPendingRemediationActions`, which marks what it hands out `DELIVERED` and
  hands it out again after a lease of two minutes.
* Every change of an action's phase is a report. Reports go through one queue that
  every caller of `reportJobState` and a ticker drain concurrently.
* Logs travel in two ways that meet in `storePodLogs`: the collector scrapes every
  container at an interval, and the console queues a request that the agent polls.
  Whoever waits for a log is woken by either.
* The backend concludes from the reports (`recordRemediationResult`), from time
  (`reconcileStalledActions`) and from telemetry (`syncClusterResources`), and the
  three write the same record.
* Proposals and actions refer to each other by incident. A report changes the proposal
  of the incident, whichever action of the incident it is about; the reaper changes
  only the action.
* The backend writes to Firestore without waiting: the handler answers, and the write
  lands later, in any order, or not at all. A new process accepts requests before it
  has read Firestore, so hydration and requests write the same maps.

### What makes each part correct

* **Actions:** whatever the order of events, what is withdrawn never runs, what is
  concluded stays concluded, what is shown as succeeded did succeed, nothing runs
  twice in one life of the agent, and nothing waits or hangs for ever.
* **Breaker:** it trips only on consecutive failures, lets no more probes through
  than its quota, and recovers.
* **Queue and spool:** no observation vanishes without one of the losses the code
  names; the spool drains once the backend is back, up to a batch it refuses.
* **Reconciliation:** an incident closes and a resource leaves the view only on
  evidence in the batch received; when all is quiet the view is the cluster.
* **Logs:** no line between two scrapes, or of a crashed container, is skipped without a
  mishap that explains it;
  nobody waits for a log that nobody works on.
* **Engine:** two actions that asked for the lock never work on one workload, or one
  container of another resource; a paused
  incident dispatches nothing by itself; a success is judged by telemetry in the end;
  the policy gives up after its attempts.
* **Connection:** a cluster is shown as connected only if an agent was heard; a
  disconnect holds until somebody connects; a credential that is gone stays gone; a
  healthy agent gets its cluster connected, whatever happened before.
* **Members:** the organisation keeps an active owner; whoever is out stays out; a
  deleted organisation stays deleted, whatever restarts and late writes do.

`PROJECT.json` lists the hazards behind these sentences, each at its line, with the
properties that cover it. Those without one name the planned module that will.

## 2. Modules

```
ActionRecord ─┬─ ActionStore ── MCActionStore                (run store)
     │        ├─ RemediationSystem ── MCRemediationSystem    (runs system, system_loss)
     │        └─ RemediationEngine ── MCRemediationEngine    (run engine)
     │           RemediationSystem and RemediationEngine each implement
     │           ActionStore (INSTANCE ... WITH)
ActionStoreProofs ─┬─ RemediationSystemProofs                (cite its lemmas on records)
                   └─ RemediationEngineProofs                (and its invariant)
CircuitBreaker ─┬─ MCCircuitBreaker                          (run breaker)
                └─ CircuitBreakerProofs
TelemetrySpool ─────────┬─ TelemetryProofs                   (run spool)
SnapshotReconciliation ─┤
                        └─ MCSnapshotReconciliation          (runs recon, recon_verify)
ClusterConnection ── ClusterConnectionProofs                 (run fleet)
OrgMembership ── OrgMembershipProofs                         (runs members, members_restart)
LogScrape ── PodLogRelay ─┬─ MCPodLogRelay                   (run logs)
                          └─ PodLogRelayProofs
```

A definition whose comment begins with "Mutant:" is not part of a specification: it
is a definition with a plausible mistake in it, kept to show that a property fails
when the code is wrong in that way. No action uses one.

### ActionRecord
Pure operators on one stored action: what a claim (`Claimed`), the reaper
(`Reaped`), a report (`Recorded`), a cancellation (`Cancelled`) and a telemetry
verdict (`Verified`) do to it. `Recorded` follows `recordRemediationResult` branch by
branch, including the last branch, which every state without a branch of its own
falls into (`ConcludedStatus`). `AllowedTransitions` is the table of `policy.ts`.

The code stores several timestamps, but each status is compared with one of them
only, and that is the one written last. So a record carries one `age`. Ages saturate
at `Horizon`, which is larger than every time-out: beyond it all comparisons have
the same outcome.

### ActionStore
The map of actions, with one action of the specification per handler. The agent is
the most general one: it may report anything about any action it *may* have received
(`handed` grows when a claim answers, whether or not the answer arrives). So
everything shown here holds for every agent, also a wrong one that is authenticated.
It may report for ever, so `InFlightResolves` has a condition: an action stays in flight
only if reports about it keep coming, because each `RUNNING` report restarts the time that
the reaper measures.

It is the abstract specification of the other two modules about actions. What it leaves
open is when an action comes into being and is judged (`RemediationEngine` says when) and
what an agent reports (`RemediationSystem` says what).

### RemediationEngine
Everything around the record that decides whether there is an action at all: the
incident, its proposal, the seven operations that create an action (`Path` keeps approval
and manual heal as one, since they ask for the same locks), the lock of the target, the reports as far as they change the proposal and the count of
failures, the reaper, and the closed loop of a telemetry batch with the reversal it
may order. The three variables of the record are those of `ActionStore`, and
`ImplementsStore` says that they behave as it says: `ActionStore` is the abstract
specification, which allows an action to come into being at any time and any
verdict at any time; the engine says when.

What the module shows about the lock is what the code gives: `approveRemediation`,
`triggerManualHeal` and the autonomous policy ask for it, while a resource operation
asks for less (a success that awaits its verification does not stop it) and
`rollbackRemediation`, `approvePodImageReplacement`, `executeAutoHeal` and the reversal
after a failed verification ask for nothing; `ROLLING_BACK` and `VERIFICATION_FAILED` do
not hold it. A Deployment, StatefulSet or DaemonSet is locked as a whole, any other target by
container: two actions `Contend` for it unless both name a container and the containers differ.
So `TargetLock` speaks of two contending actions of asking operations, neither of which has
given the lock up before (`lapsed`).

A telemetry batch first opens and closes incidents by what it shows of their resources
(`Openable`, `Closable`: recovered, or gone from a complete snapshot), then runs the closed
loop. The reversal of a failed verification calls `rollbackRemediation`, which refuses when the
incident is gone; the refusal is caught and the proposal stays `VERIFICATION_FAILED`.

A handler that a check of data refuses (target unknown, rate reached, value stale)
changes nothing and therefore simply does not occur. The mode of the policy may be
switched between any two handlers.

`PolicyGivesUp` is about a step, not a state: the policy dispatches nothing more for an
incident with `MaxAttempts` failed actions, until one was verified or rolled back. That an
incident never *has* more failed actions of the policy is not true: an agent that reports
`ROLLING_BACK` releases the lock, the policy dispatches the next action, and then both
fail. The limit in the code is a guard of the dispatch (`policy.ts:244`).

`saveAIAnalysis` comes after an `await` of the
model, so it may find the incident in any state. `disableIncidentAutoHealing`,
`enableIncidentAutoHealing` and `saveRemediation` are operations of the store that no
route of `server.ts` calls; the tests do. Simulated clusters and the idempotency key of
a created action are left out.

### RemediationSystem
`ActionRecord` composed with the agent's manager: delivery (`Poll` waits for room in
the channel; with `Stream` only some of the claimed actions arrive, since the stream
may break and what does not fit is dropped), the worker (`Take` … `RollbackEnds`,
one action per step of `ProcessAction` between two reports), the report queue
(`Buffered` drops the oldest), the drains (each with its own `batch` and `kept`, the
variables `batch` and `unacked` of `drainLocalQueue`) and a restart, which loses all
of it. Each post may be lost on the way there or back, and the plain fallback post
may follow a detailed one that did arrive: `SendAcknowledged` and `SendFails` choose
among all combinations. `executions` counts the calls of the executor, not their
effect on the cluster: a call is counted when it begins, so one that returns an error
or is interrupted by a restart counts too.

An action comes into being by `Create`, at any time. `ImplementsStore` says that the records
behave as `ActionStore` says. The refinement mapping is `HandedOut`: an action counts
as handed out unless its status is one of `Undelivered`. An update whose
detailed post and fallback both arrive is one report of the store.

Three simplifications: the server processes a post while its sender still waits for
the answer, or never (a report that arrives arbitrarily late is covered by
`ActionStore`, whose agent may report anything at any time; so the refinement says
nothing of such a network); the idempotency key is
the action's id (keys shared by two actions are planned), and stream and poll may
deliver at any time, although the poller pauses while the stream is connected. The
last one only adds behaviours, so the safety properties carry over; liveness of
delivery is not claimed.

### CircuitBreaker
`Allow`, `RecordSuccess` and `RecordFailure` hold the mutex, so each is atomic; what
lies between them (attempts, back-offs, other goroutines) interleaves. A poll is a
request that starts at its last attempt. The action stream records successes and
failures without asking `Allow` and is a component of its own. `probes` and
`failuresInARow` are history variables.

### TelemetrySpool
The collector's goroutine as a program counter over `collect → flush → (drain) →
spool`, with a kill possible at every step. A file is either indexed or only on
disk; a corrupt payload shows when the file is read, a corrupt header at the
restart. One number stands for all that a scrape observed, and a scrape may observe
nothing: with an empty queue `flushQueue` then returns at once, and nothing is drained
(`CollectNothing`). A batch larger than `MaxBody` is `Refused` by the backend (413, `server.ts:139`)
however often it is sent, so every drain ends at it. `dropped` is history: what was given up
in a place the code names, some of which (`Push`, the checksum in a drain) log nothing, or was
nowhere but in the memory of a killed agent. A batch that was read from disk is still there, so
a kill is no excuse for losing it.

### SnapshotReconciliation
The collector's loop again, now for what a batch *says*: `CollectFromKubernetes` lists
the cluster, some kinds failing; `SnapshotComplete` asks about the core kinds only; the spool
holds batches back. `SyncClusterResources` is the handler: `ViewAfter` (replace or
merge), `IncidentsAfter` (open, reopen, recover, clean) and `ActionsAfter` (the
verification loop). `present` and `predates` in a batch are history.

The checks against stale batches at the top of `syncClusterResources` (a comment
there says "to prevent out-of-order stale overwrites") are not in the model: the
telemetry endpoint passes only the `snapshotComplete` flag, so they compare nothing.

### ClusterConnection
One cluster with its credentials, in the memory of one process, in Firestore and in the
writes between the two; its agents are a set of tokens. `RequestCached` is a request
whose token is in `clusterTokens`; `RequestLookedUp`, `LookupReadsCluster` and
`LookupEnds` are the three parts of `authenticateAgentTokenAsync` and
`hydrateClusterFromFirestore` between their `await`s, so that a revocation, a deletion or
another look-up fits between them. `Reconcile` is the monitor's timer. The `Hydrate…` actions are
the start of a process: its reads, then the tokens (`HydrateSetsTokens`), and after further
`await`s the clusters (`HydrateEnds`). Time counts in units of 45 s, the smallest of the thresholds 45, 90
and 180 s; every running agent sends at least one heartbeat in each.

What the module makes visible, besides its properties:
* `disconnectCluster` keeps the token, so the next heartbeat connects the cluster again.
* A look-up that is suspended while its token is revoked stores the token in
  `clusterTokens` again, where it works until the process ends, although
  `docs/kubernetes/cluster-connection.md:129` says that after revocation "all subsequent
  calls … are immediately rejected". `GoneStaysGone` therefore speaks of a token that no
  look-up holds.
* `upsert` merges, and the fields that pairing clears are undefined and not written: a
  restart brings back the pairing code and the ciphertext of a former token, so a
  manifest may hand out a token that was revoked.
* A look-up that finds a token but no cluster caches the token and answers 404; from
  then on that process never asks Firestore for the cluster again. `Enrolled` excludes it.
* Pairing marks the cluster as simulated, and the monitor leaves simulated clusters
  alone, so they stay "connected" without any agent; `ConnectedIsHeard` exempts them.

The JSON snapshot is left out, because Cloud Run has no volume for it. The deployment
allows several instances; the module has one process at a time.

### OrgMembership
One organisation: its list of members, its invitations and its deletion, in the memory
of one process, in Firestore and in the writes between. A user is an identity with its
e-mail address and no other organisation. Each route of `server.ts` is an action with the
guards of the route and of the store; `RequestLooksUp` and the `Lookup…` actions are
`requireOrgMembership` of a user the maps do not know, which asks Firestore;
`CreatorAsks` is the branch that makes the creator an owner again, as the end of the
creator's own look-up does (`WithCreator`).

What the module makes visible, besides its properties:
* Invitations are written to Firestore but never read: a restart forgets the pending ones.
* `deletedOrgIds` is only in the snapshot. A merge of the organisation that lands after
  its deletion brings the document back, and hydration does not ask `deletedOrgIds`.
* The creator is made owner at every request, also when suspended or removed.
* Members may leave without the check that keeps the last owner, and resending revives
  an invitation that was revoked, declined or accepted.

The cascade that deletes the memberships is one step.

### LogScrape
The continuous collection for one container. Time is counted in ticks, so short that at most
one line is written in each, and `Lines` says in which: bursts and pauses are values of a
constant. The agent reads its clock in whole seconds (`time.Now().Unix()`), here
`WholeSecond`, and asks for a window by its length (`Since`) and by its number of lines
(`TailLines`); both are cut to what `Newest` and `Ends` say: the newest lines that fit, and of
these the ones before the byte limit or the end of the connection. `pass` is one call of
`collectContinuousLogs`: its two goroutines, one for the running container and one for
the crashed one, fetch and upload while lines are written, the container crashes, or
the agent ends. The steps are those of the goroutines between their calls of Kubernetes
and of the backend (the goroutine of the crashed container does its two calls in one step,
as nothing but the log of that container depends on the time between); any call may fail or
be late. There is one clock, which is not set back; between the agent and Kubernetes only
durations go, so that a difference of their clocks would not matter.

The comment on the overlap says "3-second grace overlap to avoid gaps". It does, under
conditions, and the module has them all in one variable: `atRisk` collects the lines
that a mishap may cost, and every place where it grows is a way to lose a line.
Each of them is needed: without it TLC finds a line that is skipped. Four of them
are decisions of the code rather than of the network:
* a failed upload moves the checkpoint all the same, and nothing sends the window again;
* the checkpoint is the time *after* the upload, while the next window is computed from
  it, so a slow fetch and a slow upload eat the overlap from both ends;
* the time of a pass is a whole second, which takes up to one more second of it. The assumption
  `2 * Prompt + Second - 2 <= Grace` is what is left: with ticks of 0.1 s a fetch and an upload of
  1.1 s each, instead of 1.5 s. With an overlap one tick smaller TLC finds a line that is
  skipped although nothing was late;
* a window holds 250 lines (100 the first time) and 256 KiB. The checkpoint moves on
  when a burst exceeds them, and what was cut off is not asked for again: the oldest lines in the
  first case, the newest in the second.

A log of a crashed container is fetched once, by the pass that sees the higher restart
count, and that count is remembered whether or not its log arrived.

What the backend records is a set of lines. In the code a line that falls into two windows
is recorded twice, because the id of a record contains its position in the upload; no
property depends on it.

### PodLogRelay
`LogScrape` composed with the requests: `GetPodLogs` (`queuePodLogRequest` and
`waitForPodLogs`), the agent's poll, its workers and `storePodLogs`. Every time-out is a
choice: a pending request may be young enough to be shared or not, a viewer may stop
waiting at any time. A viewer here is one call that waits. `unlucky` remembers
for whom a request was lost, on the way, with the agent's process or by the limit of
twenty; with it `WaiterIsServed` can say what sharing, claiming and waking must not do.

`docs/observability/logs.md` says that logs are only fetched on demand and that a request
stays open for 10 s; the code collects continuously and waits 3.5 s.

## 3. Runs

Passing runs. Every property has at least one mutant that breaks it under the run's
own configuration.

| Run | Properties | What it shows |
|---|---|---|
| `store` | `WithdrawnNeverHanded`, `FinalStatusesStay`, `SuccessRevisedOnlyByTelemetry`, `PendingResolves`, `InFlightResolves` | two actions of one incident under all handlers: withdrawn actions were never given out, final statuses and reported successes stay, and the monitor's timer alone releases what waits or is in flight |
| `engine` | `TargetLock`, `PausedHoldsBack`, `SuccessStaysInLoop`, `PolicyGivesUp`, `ImplementsStore` | every way to create an action, on two containers of one target: the lock among those who ask for it, the pause, the closed loop from success to verdict, the policy's limit; and the engine implements `ActionStore` |
| `system` | `ConclusionIsEarned`, `WithdrawnNeverRuns`, `OneRunPerLife`, `ImplementsStore` | the same record with a real agent, lossy posts, two concurrent drains and a restart; and the system implements `ActionStore` |
| `breaker` | `ProbeQuota`, `TripsOnConsecutiveFailures`, `ClosesOnceHealthy` | three goroutines and the stream share the breaker |
| `spool` | `Accounted`, `FilesLeaveSafely`, `SpoolDrains` | outages, kills, disk errors and corrupt files |
| `recon` | `DeletionOnlyIfGone`, `FailingIsReported`, `ViewConverges`, `RecoveryCloses` | partial scrapes, lost uploads and replays, with an action under way |
| `fleet` | `ConnectedIsHeard`, `GoneStaysGone`, `HealthyAgentConnects` | rotation, revocation and deletion around suspended look-ups, late and lost writes, a restart |
| `members` | `OwnerIsKept`, `OutStaysOut`, `VanishedForGood` | two users who invite, suspend, remove and leave, with late and failing writes and a restart |
| `logs` | `NothingSkipped`, `WaiterIsServed` | a container that crashes, an agent that scrapes it and restarts, two viewers with a list of one request |

Each but `store` also checks the type invariant of its module. That of `ActionStore` is
proved (`TypeCorrect`), and its part about records is checked in `engine`.

Runs that find the code at odds with what the repository says of it:

| Run | Statement | What happens |
|---|---|---|
| `system_loss` | "zero data loss guarantee" (`manager.go:931`), as `NoReportLost` | a drain sends a copy of the queue and then overwrites the queue; what was appended meanwhile is gone |
| `recon_verify` | verification "grounded in telemetry observed AFTER action completion" (`policy.ts:602`), as `VerifiedByFreshTelemetry` | the time compared is that of the receipt: an older batch received later verifies the action |
| `members_restart` | "Firestore is authoritative in production. The in-memory Maps … are only a process-local read cache" (`store.ts:212`), as `HydrationKnowsMembers` | a request of the creator that comes before hydration makes a list with the creator alone (`auth.ts:358`); because a list exists, hydration does not read the stored one (`store.ts:317`), and the other members are refused until the next restart |

Five more statements of the repository hold only under a condition. The property says
which, and with the condition dropped TLC shows the case:

| Statement | Condition | Where |
|---|---|---|
| "10 minutes max execution lease" (`store.ts:777`) | no agent keeps claiming: every claim writes `deliveredAt`, which is what the reaper measures | second conjunct of `InFlightResolves` |
| "reject subsequent requests until trial probe completes" (`circuit_breaker.go:116`), and then recover | every counted probe is still under way: one that ends with a 4xx answer or in a cancelled back-off records nothing and keeps its place for ever | `ClosesOnceHealthy` |
| "Never infer deletion from a partial/failed scrape" (`store.ts:3572`) | the kind is one of those `snapshotComplete` asks about, and the scrape fits into the agent's queue | `DeletionOnlyIfGone` |
| "The workload recovers … marked RESOLVED" (`docs/incidents/detection-engine.md:89`) | the incident has no action that did not succeed: after one, `canResolveFromTelemetry` refuses | `RecoveryCloses` |
| "3-second grace overlap to avoid gaps" (`log_collector.go:397`) | every upload arrives, fetches and uploads each take no more than half of what the overlap leaves beside the second that the clock may hide, what was written fits into the lines and bytes of a window, passes are no further apart than the largest window, and each crash is seen before the next | `NothingSkipped` |

`docs/agent/architecture.md:125` lets an action reach `FAILED` only from an execution. In
the code the agent's first report is `PENDING` (`manager.go:397`), for which
`recordRemediationResult` has no branch: it falls into the last one and concludes
`FAILED`, and the reports of the execution are then ignored. The modules follow the code
(`ConcludedStatus`); `ConclusionIsEarned` is therefore about successes and rollbacks.

### Bounds

* **store**: two actions of one incident. Two actions, because the
  only handlers that touch several actions at once (claim, reap, pause) treat them
  alike. The time-outs are 1, 2, 3 and 4 ticks: their order in the code (2, 3, 10,
  15 minutes) is what matters, and `Horizon` 5 lies beyond the last. Reports are not
  bounded.
* **system**: one action, since actions interact only through the queues; two
  drains, the least that race; `MaxPending` 2, so that the report queue overflows in
  every long job; one restart. All time-outs are 0, so every timer may fire after
  one tick: the safety properties must not depend on how long anything takes. The
  drains are interchangeable (symmetry), and `received`, which no property of this
  run reads, is left out of the fingerprint. The two violation runs keep the queue
  longer (6) and have one drain, so that overflow does not cause what they show.
  `CHECK_DEADLOCK FALSE`: after the last action has ended and the last report was
  sent nothing is left to do.
* **breaker**: three callers and a threshold of three, so that failures of different
  goroutines have to add up; one retry; cooldown of two ticks. Only success
  threshold 1 is checked: no caller of the code sets another.
* **spool**: queue of 2, quota of 3 observations, 3 scrapes, 2 faults, and a backend
  that refuses batches of 2. A batch of 2 and one of 1 fill the quota; the third write
  prunes, and the batch of 2 (written after a disk error) blocks the one behind it. Two faults allow a kill after
  an error. After the third scrape the collector goes on with equal observations, so
  liveness is not a matter of the bound.
* **engine**: a Pod with two containers, for each two actions of one incident with a
  rollback plan, and an operation on the Pod that names no container, so that every pair of
  creating operations meets, on one container and on two; at most two of the five actions
  are created in one behaviour, which is what a lock is about. Actions of one container are
  interchangeable, and so are the containers (symmetry). Workloads, on which
  any two actions contend, are left to the proof. One attempt of the policy and two reports: the policy gives up
  after the first failure, and a second action may still fail. All time-outs are 0, as for `system`.
* **fleet**: two credentials (a former and a current one, which is what every race is
  about), two events (commands of operators, restarts and failures together), two
  writes under way, the least that land in the wrong order. The thresholds are the
  code's, in units.
* **members**: the creator and one other user, two invitations, so that an older one is
  accepted after a newer one, four commands, one restart, one failing write or read, two
  writes under way. `CHECK_DEADLOCK FALSE`: the users stop when their commands are
  used up. Three users with three commands pass as well and take longer.
* **members_restart**: one invitation, two commands and one restart are enough for the
  counterexample.
* **recon**: a pod (core kind) and a stateful set (a kind `SnapshotComplete` ignores),
  a spool of two batches, three faults, so that the spool is pruned, two changes of
  the cluster, one action. The queue holds both observations: with a smaller one
  `ViewConverges` is false, because the oldest are evicted and the batch still
  claims to be complete.
* **logs**: nine ticks of half a second, a burst of three lines and a later one, and two
  events. The windows (one line or 2 ticks at first, then at most two lines or 4 ticks) are so
  small that each mishap happens within them: the burst exceeds two lines, the last line
  comes after a pause, and an answer is cut off anywhere. The assumption holds with equality
  (`Prompt` 1, overlap 2), so nothing is to spare. The events allow two crashes, or a
  crash and a restart of the agent, or a request and either. A list of one request
  overflows with the second viewer. `CHECK_DEADLOCK FALSE`: time is bounded and nobody
  has to ask. 9 million states, two to three minutes.

### Fairness

* `ActionStore.FairSpec`: time passes and the timer of `startHeartbeatMonitor` keeps
  firing. No agent has to do anything.
* `CircuitBreaker.FairSpec`: the agent's workers are loops on tickers, requests have
  time-outs and therefore end, back-offs end, `streamWorker` reconnects, time passes.
* `TelemetrySpool.FairSpec`: the collector's loop keeps running once it has something
  to do, and a killed agent is started again. Nothing makes a scrape observe anything:
  that flushes go on is a premise of `SpoolDrains`.
* `SnapshotReconciliation.FairRecon`: the collector's loop keeps running, and a
  dispatched action ends somehow (`PendingResolves` and `InFlightResolves` of the
  store are the reason). Upload failures are bounded by `MaxFailures`.
* `ClusterConnection.Spec`: agents keep sending requests (a loop on a ticker), Node.js
  resumes a suspended look-up and the steps of hydration (reads of Firestore end), time
  passes. Nothing is assumed of the writes. `HealthyAgentConnects` asks for the end of
  commands and faults (`budget = 0`) and for a stored token.
* `RemediationSystem`, `RemediationEngine`, `OrgMembership` and `PodLogRelay` have no fairness and only
  safety properties.

Weak fairness is enough throughout: what is asked for stays enabled until it is done.

## 4. Proofs

TLAPS proves the following for every value of the constants that satisfies the
named assumptions (`TimingAssumption`: every time-out is below the horizon;
`StoreAssumption`, `SystemAssumption`, `BreakerAssumption`, `EngineAssumption`,
`ConnectionAssumption`, `MembershipAssumption`, `ScrapeAssumption`, `RelayAssumption`,
`SpoolAssumption`, `ReconciliationAssumption`: types of the constants, finite sets of
actions, callers, resources and viewers, positive limits, ordered thresholds, the creator a
user, an overlap that holds two prompt delays and what whole seconds take). TLC evaluates those assumptions in the runs.

| Module | Theorem | Property |
|---|---|---|
| `ActionStoreProofs` | `TypeCorrect`, `WithdrawnSafe`, `FinalityTheorem`, `SuccessTheorem`, `ClockTheorem` | `TypeOK`, `WithdrawnNeverHanded`, `FinalStatusesStay`, `SuccessRevisedOnlyByTelemetry`; what may restart the time the reaper measures |
| `CircuitBreakerProofs` | `TypeCorrect`, `CountersTheorem`, `TripTheorem`, `QuotaTheorem` | `TypeOK`, `CountersFitState`, `TripsOnConsecutiveFailures`, `ProbeQuota` (for a success threshold of one) |
| `RemediationSystemProofs` | `TypeCorrect`, `WithdrawnTheorem`, `OneRunTheorem`, `EarnedTheorem`, `FinalityTheorem`, `ImplementsStoreTheorem` | `TypeOK`, `WithdrawnNeverRuns`, `OneRunPerLife`, `ConclusionIsEarned`; what has ended stays as it ended; `ImplementsStore` |
| `RemediationEngineProofs` | `TypeCorrect`, `ImplementsStoreTheorem`, `StorePromisesTheorem`, `TargetLockTheorem`, `PausedHoldsBackTheorem`, `SuccessStaysInLoopTheorem`, `PolicyGivesUpTheorem` | `TypeOK`, `ImplementsStore`, the three promises of `ActionStore`, `TargetLock`, `PausedHoldsBack`, `SuccessStaysInLoop`, `PolicyGivesUp` |
| `TelemetryProofs` | `TypeCorrect`, `AccountedTheorem`, `FilesLeaveSafelyTheorem`, `ReconTypeCorrect`, `DeletionOnlyIfGoneTheorem` | `TypeOK`, `Accounted`, `FilesLeaveSafely` of `TelemetrySpool`; `ReconTypeOK`, `DeletionOnlyIfGone` of `SnapshotReconciliation` |
| `ClusterConnectionProofs` | `TypeCorrect`, `ConnectedIsHeardTheorem`, `DisconnectHoldsTheorem`, `GoneStaysGoneTheorem` | `TypeOK`, `ConnectedIsHeard`, `DisconnectHolds`, `GoneStaysGone` |
| `OrgMembershipProofs` | `TypeCorrect`, `OwnerIsKeptTheorem`, `OutStaysOutTheorem`, `VanishedForGoodTheorem` | `TypeOK`, `OwnerIsKept`, `OutStaysOut`, `VanishedForGood` |
| `PodLogRelayProofs` | `TypeCorrect`, `NothingSkippedTheorem`, `WaiterIsServedTheorem` | `TypeOK`, `NothingSkipped`, `WaiterIsServed` |

`CountersFitState` and `DisconnectHolds` are proved and not checked by a run.

Every type invariant, safety invariant, action property and refinement of the passing
runs is a theorem. `TelemetryProofs` extends both halves of the way of telemetry, which is
why the names of `SnapshotReconciliation` differ from those of `TelemetrySpool`.

**ActionStore.** `ActionStoreProofs` begins with what each operator of `ActionRecord` does
to one record; the proofs about the system and the engine cite these lemmas (`SP!…`) and
need not expand the operators again.

`recordRemediationResult` guards five statuses against late reports, and `EXPIRED` and `CANCELLED` are not among them. They are final for another reason:
no agent can know of such an action. That is `HandoverInv`: an action that is absent,
waiting or withdrawn has been handed to nobody. `StepEffect` reduces every step to
what it does to one action, and the invariant and both action properties follow.

`ClockTheorem` is what TLAPS can say about the two liveness properties. They rest on a clock
per action that no handler may turn back without the exceptions they name: a claim for a
delivered action, a report for one in flight, nothing for one that waits. The theorem says so
of every step, that every tick moves the clock on up to a horizon beyond all limits, and that
beyond its limit the reaper releases the action. What remains is fairness: that time passes
and the reaper runs.

**RemediationEngine.** Its records are those of `ActionStore`, so `SameOperators` and
`SameStore` first say that the operators of the instance are the engine's own. Then
every step of the engine is one of `ActionStore`: a dispatch is `Create`, a telemetry
batch is one `SyncClusterResources` of the store with its verdicts and its reversals,
and what only concerns proposals and incidents is a stutter (`StepOK`, shown handler
by handler from `QuietStep` to `SyncStep`, collected in `EveryStep`). The inductive
invariant `IInv` has the store's `HandoverInv` as a part; `LapsedInv` says that every
action in a status that gave up the lock is in `lapsed`, without which `TargetLock` is
not inductive: a late report may give such an action the lock back. `ContendBoth` says that it
does not matter which of two actions comes first. `StorePromisesTheorem`
then reads the promises of `ActionStore` off the refinement: they hold in the engine too.

`SuccessStaysInLoop` speaks of successes only, so it says nothing about the actions that
may become one. `LoopInv` says it of every open action: unless somebody has taken its incident
over (`disturbed`), the action is the latest of its incident, and one that carries out a
proposal finds the proposal there. The handlers fall into four forms, each with a
lemma: those that replace a proposal (`ReplacedInLoop`), those that create actions, those
that change one record, and those that do nothing to the loop. For `PolicyGivesUp`, what
the dispatch compares with the limit is a counter and what the property counts is a set:
`FailureInv` says that the counter has counted every failed action, as long as it is below
the limit and no action was verified or rolled back, which resets it; `FailureStep` lists
what a step can do to the two.

**ClusterConnection.** `ConnectedIsHeard` rests on `AgeIsHonest`: outside simulation the
stored heartbeat is never younger than the last request of an agent. It is inductive
because only requests set the age to zero and a record read from Firestore carries
the heartbeat of an earlier request. `GoneStaysGone` is inductive as stated, since
`Gone` names every place from which a token can come back: the cache, the rows, what
hydration has read, the writes under way and the suspended look-ups; `GoneStep` goes
through them action by action.

**OrgMembership.** `Vanished` and `Out` are likewise closed under every step, with the
exceptions the property names; `WithCreatorKeeps`, `HealedKeeps` and `WithOwnerKeeps` say that the repair
of the creator's membership touches nobody else. For `OwnerIsKept`, `ManagedKeepsOwner`
shows that the check for another active owner before a demotion, suspension or removal
suffices, whatever list it reads.

**CircuitBreaker.** `CountersFitState` needs the types; tripping needs that the failure
count of a closed breaker never exceeds the failures in a row; the quota needs that
`halfOpenInFlight` covers the set of probes still on their way (`ProbesCounted`),
which is where the success threshold of one comes in: with a larger one a request of
an earlier period may give back a slot that it never took.

**RemediationSystem.** Type correctness is not inductive as it stands: a drain replaces
the queue of reports by what it could not send, and that this fits rests on
`DrainsFit` (what a drain has sent back and has still to send never exceeds the
limit). The safety properties have a strengthening each, each the property seen
from all the places where the thing it speaks of may be:
* `Withheld`: an action that is still waiting is not in the agent either;
* `RunBudget`: an action that this life of the agent may still execute (`Fresh`) has
  not used up the run of this life;
* `EarnedReports`: a report of an ending, in the queue or in any drain's hands, speaks
  of an attempt that ended so;
* `Silent`: no report, wherever it is queued, is about an action that was not delivered.

`Silent` closes a gap between the two sides. `recordRemediationResult` has no guard for
`CANCELLED` and `EXPIRED`, and `ActionStore` shows them final only for agents that report
what they were handed. `FinalityTheorem` shows that this agent is one of them, through
all its queues, drains, fallbacks and restarts. `ImplementsStoreTheorem` makes the whole of
it a refinement. A claim of the system is one of the store, because `HandedOut` grows by
exactly what is claimable; every other step of the server keeps a record on its side of
`Undelivered` (`NothingHandedOut`); the agent's steps are stutters. A send is the hard case:
`Silent` shows that its action was handed out, and `BothPostsAreOne` that the detailed post
and the fallback after it have the effect of one of them.

`WorkerShape`, `SendShape`, `DeliveryShape` and `RecordStep` bring the steps into the
few forms that the invariants distinguish.

**TelemetrySpool.** `Accounted` and `FilesLeaveSafely` are not inductive, because between
two steps the goroutine relies on what it holds. `InHand` says what that is: a batch that is
being sent or acknowledged is the one of the oldest indexed file, the acknowledgement comes
only after the backend applied it, and the queue is empty while its batch is elsewhere. There is
always an oldest file when the drain says so (`LeastExists`: a non-empty finite set of
numbers has a least element), and no operation between reading and acknowledging changes which
one it is. The order of the files after a restart (`InOrder`) matters for the same reason.
Then each step, one lemma each, keeps all that is known (`Kept`) and lets a file go only if
its observations were applied or given up.

The size of the spool is a fold over its files. The proofs use nothing about it: what is
pruned is always the oldest file, and goes to `dropped`, whatever the quota compares; nor do
they use what the backend refuses.

**SnapshotReconciliation.** A batch is `Honest` if, whenever it claims to be complete, it
lists every resource of the core kinds that was there at its scrape, unless the agent's
queue was too small for that scrape. The invariant says
so of the batch in hand and of every batch in the spool; `CollectInv` is the one place where
a batch comes into being. The exception is needed because a full queue evicts observations
and the batch still claims to be complete; `FullQueueEvicts` shows that only a full queue evicts.

**PodLogRelay.** The collection and the requests touch each other only in the lines that
arrive and in the uploads that wake, so `NextIsBoth` splits every step into a step of each
half (`ScrapeStep`, `RelayStep`), and the halves are proved apart. `NothingSkipped` is not
inductive: it speaks of the past scrapes only. `ScrapeInv` adds what makes the next one
sound: the checkpoint
lies near the scrape (`CheckpointNear`), the window reaches back beyond the checkpoint
(`WindowReaches`), what an answer leaves out before its end is safe (`FetchReaches`), and a pass that knows of
a crash sees to its log (`PreviousSeenTo`). `WindowSuffices` is the arithmetic of the
overlap: a prompt delay between the end of a scrape and its checkpoint, one between computing
and using a window, and at most `Second - 1` for the whole second in which the pass computed
it (`WholeSecondNear`); that of the checkpoint only makes the window longer. `TailSuffices` is the argument about lines: a
line of the window that does not fit among the newest lines asked for does not fit among the
newest unread ones either, because from that line on the two are the same.

### Model-checked only
Liveness under fairness (`PendingResolves`, `InFlightResolves` beyond `ClockTheorem`, `ClosesOnceHealthy`,
`SpoolDrains`, `FailingIsReported`, `ViewConverges`, `RecoveryCloses`,
`HealthyAgentConnects`), which is beyond TLAPS here, as are `ENABLED` and induction over
data: that the spool's size stays within its quota, for example, is a fact about a fold and
needs induction. The properties of the three runs that expect a violation are false.

## 5. Not modelled

* Data inside messages: manifests, diffs, log lines, metrics, severities, scores.
* The rules of detection and policy: a resource is failing or healthy, an action is
  refused or not.
* What a restart of the backend does to actions and proposals, which are only in the
  JSON snapshot: the subject of `DurableActionStore`. Clusters, credentials,
  organisations and members do go through restarts here.
* Several backend processes at a time, which the deployment allows.
* Sessions and passwords of users, and roles finer than owner, admin and member.
* Idempotency keys shared by two actions (`createCanonicalRemediationAction` hashes
  target and value, so scaling to a former value yields a former key), and the pause
  of the poller while a stream is open (an action created meanwhile waits for the
  stream to break). Both concern liveness of delivery: `ActionDelivery`.
* `recordAgentActionResult`, `RedirectToSpool`, `ExecuteWithSpoolFallback`, and
  `BufferBatch`, `Drain`, `Flush`, `Close` of the spool: nothing in the product calls
  them.
* The parts of the inventory without a module; `PROJECT.json` gives the reason for each.

## 6. Plan

In this order, the most important behaviour first. Done: 1 to 7, 11 and 12.

1. `ActionRecord`, `ActionStore` and proofs: the record every other part writes.
2. `RemediationSystem` and proofs: the record with the agent that acts on it.
3. `CircuitBreaker`, `TelemetrySpool` and proofs: the agent's way to the backend.
4. `SnapshotReconciliation` and proofs: what the backend concludes from telemetry.
5. `RemediationEngine` and proofs: every origin of an action, the lock, the closed loop,
   and the refinement of `ActionStore`.
6. `ClusterConnection`, `OrgMembership` and proofs: what Firestore, late writes, suspended
   look-ups and restarts do to credentials and members.
7. `LogScrape`, `PodLogRelay` and proofs: how logs reach the backend and the console.
8. `DurableActionStore`: the debounced snapshot and a restart; which acknowledged steps
   may be undone, and which of the properties above survive.
9. `ActionDelivery`: stream and poll with the pause and shared keys; liveness of
   delivery.
10. `JobQueue`, `Billing`, `AuditLedger`.
11. Proofs: `DeletionOnlyIfGone`, `Accounted` and `FilesLeaveSafely`, `SuccessStaysInLoop`
    and `PolicyGivesUp`.
12. The refinement of `ActionStore` by `RemediationSystem`, of which `FinalityTheorem` is the
    part about endings.

Related questions share a run, so that a new module replaces or joins the
runs of the part it extends instead of adding many.
