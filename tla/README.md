# Verification of rca-lab

rca-lab is a demonstration shop (a dozen small services) together with an
operator that injects failures into it and takes them back. Every failure is a
`MaintenanceJob` custom resource; the operator "restores the normal state when
the scenario ends, is disabled, or is deleted" (`src/README.md`), and does so
across restarts. This directory holds TLA+ modules that model the program as its
code reads, the TLC configurations that check them, and proofs that TLAPS checks.

Part 1 is the inventory of the system, part 2 the plan, part 3 what is modelled
and checked today, part 4 what is proved, part 5 what disagrees with the
repository's own words, part 6 what is left out.

## 1. Inventory

### 1.1 The operator (`src/operator`)

| Component | State it keeps | Operations | Talks to |
|---|---|---|---|
| MaintenanceJob reconciler (`internal/controller/maintenancejob_controller.go`, `helpers.go`) | none of its own: everything is in the object's spec and status (phase, currentRun, activeActions with their revert tokens, lastCompletedRunID, history, conditions) and its finalizer | `Reconcile`, `maybeStartRun`, `reconcileActivate`, `reconcileRevert`, `finishRun`, `reconcileDelete`, `leakState`, `patchStatus` | API server (writes), informer cache (reads), work queue (events, timers), the five actions |
| Actions (`internal/actions`: Scale, DeployImage, Workload, ChaosMesh, DBExec) | none; a revert token per action, kept by the reconciler; labels and annotations on their targets | `Plan`, `Ensure`, `Revert` | Deployments, Jobs, chaos resources, the database |
| Startup sweeper (`controller/sweeper.go`) | none | one `sweep` per start of the leader | list and delete of labelled objects; reads the scenarios' phase |
| HTTP API (`internal/api/server.go`) | none | enable, disable, run, reset of all scenarios, lists, the page | writes to the scenarios' spec |
| Process (`cmd/main.go`) | leader lease | start, leader change | |
| dbtool (`internal/dbtool`) | none | a loop of statements, `--once` | the database |

What is hard here. A pass of the reconciler is a sequence of API calls, each of
which can fail, conflict, or be the last one before the process dies. Reads are
served by a cache that follows the API server through a watch and may be behind,
also behind the operator's own writes. Users edit the same object at any moment,
the clock ends runs without an event, and two scenarios may share a target.
Correct means: nothing is injected that could not be reverted after a crash at
that very point; every token is kept until its target is back to normal; an
object cannot disappear under its tokens; the phase and the history say what
happened; whatever is unwanted, expired or deleted ends.

### 1.2 The shop (`src/services`)

| Component | State it keeps | Operations | What makes it correct |
|---|---|---|---|
| order-service (Java) | orders, items, status (Postgres) | `createOrder` (payment, save, publish), `updateOrderStatus`, the listener `onShipmentEvent` | nothing unpaid is announced; FULFILLED means shipped |
| payment-service (Rust) | payments (MySQL) | `process_payment`, `refund_payment` | one payment per order |
| fulfillment-service (Go) | Kafka offsets; shipments | `consumeLoop`, `processRecord`, `reserveInventory`, `createShipment`, `publishShipmentCreated` | each order shipped once, except that records are redelivered; no item left out of what ships; no record stops the partition |
| inventory-service (PHP) | quantity and reserved quantity per product, reservations | POST and PUT reserve, release, upsert | the reservations add up |
| cart-service (Python) | a Redis hash per user | get, add, remove, clear, `checkout` | no addition lost by requests that do not race, the size limit kept |
| load-generator (Go) | the scenario each worker is in | flows of requests, paced and drawn at random | its own carts never fill up for good |
| review-service (JS) | reviews (MongoDB) | list, create, aggregate | - |
| product-catalog, recommendation-service, api-gateway | none | reads, a proxy | - |
| data-seeder (Python) | the seeded rows themselves | batches that resume by counting | after any number of crashes the tables have what a single run gives them |

Orders flow through two Kafka topics: order-service publishes `OrderCreated`,
fulfillment-service consumes it, reserves stock over HTTP, stores a shipment and
publishes `ShipmentCreated`, which order-service consumes. What is hard: an
event sent before the transaction it reports commits, redelivery after a crash
or a rebalance, HTTP calls whose answer is lost, and partial reservations. In
cart-service every handler is several commands to Valkey, and 2 replicas of 4
processes with 4 threads each serve the same carts.

### 1.3 Around it

`src/scripts` (deploy, clean, status: the order in which CRD, operator, scenarios
and databases come and go matters because of the finalizers), `src/scenarios` (28
declarations), `src/deploy` (manifests; the CRD's defaults and validation),
`src/.github` (builds).

`PROJECT.json` lists each of these components with its status, and under
`hazards` each thing that could go wrong in a way a test would hardly reach, at
its line.

## 2. Plan

The operator's reconciler comes first because every failure in the lab passes
through it and its guarantees are the product's headline; then the actions it
calls, then the two protocols of the shop.

| # | Module(s) | Of | Composition | State |
|---|---|---|---|---|
| 1 | `MaintenanceController`, `DurableRevert` | reconciler, users, cache, clock | refines `DurableRevert`; proofs in `MaintenanceControllerProofs`, `DurableRevertProofs`, `ReconcilerProofs`, each extending the one before | done |
| 2 | `ScaleAction` | `actions/scale.go` | several scenarios on one Deployment; of the reconciler only what surrounds the three calls; proofs in `ScaleActionProofs` | done |
| 3 | `ScenarioRuns`, `DeployImageAction`, `OwnedObject`, `ExecJobs`, `ActionTargets` | the other four actions, `controller/sweeper.go`, `dbtool --once` | the three action modules extend `ScenarioRuns`; `ActionTargets` composes them with the sweeper; proofs in `ActionTargetsProofs` | done |
| 4 | `CartService`, `LoadGenerator` | `cart-service/app.py`, cart flows of `load-generator/main.go` | the generator's workers are the service's clients; proofs in `LoadGeneratorProofs` | done |
| 5 | `Inventory`, `OrderPipeline` | inventory, order and fulfillment services, Kafka, order flows of the generator | the consumer takes stock while others reserve, release and upsert it; proofs in `OrderPipelineProofs` | done |
| 6 | `ApiReset` | `handleReset` over several scenarios | two requests at once, beside the reconciler's promise | open |
| 7 | `LabLifecycle` | `scripts/*.sh` with the operator and the finalizers | uses the promise of `DurableRevert` only | open |
| 8 | `Seeder` | `data-seeder` | abstract: the set of rows of one uninterrupted run | open |
| 9 | pure helpers | `backoffFor`, `lowerRequeue`, `appendHistory`, weighted choice | compared with a reference definition over bounded inputs | open |

Every safety property of a passing run is a theorem by now (part 4), some under a
hypothesis that the part names. Theorems still worth having: that the actions of
`ActionTargets` keep what `MaintenanceController` assumes of any action (its token
is enough to restore, a call can be repeated), as a refinement.
No module uses a RECURSIVE operator.

## 3. What is modelled and checked

### 3.1 `MaintenanceController`

One MaintenanceJob object and everybody who touches it.

State. `job` is the object in the API server (spec, status, finalizer,
deletion). The informer cache is represented by `backlog`, the versions that the
cache has yet to move past: `Cached` is the version a pass would read. `queued`
is the key in the work queue, whether at once, rate-limited or after a timer.
A pass has a program counter `pc` (the API call it makes next), its copy of the
object `fs` (named as in the code) and the locals of the activation loop
(`loop`: the run captured at its start, index, length fixed by `range`, element,
`allApplied`). `injected[a]` is the truth in the namespace: the failure of
action `a` is in effect. `leaked` is the ConfigMap of `leakState`. `starts`,
`matured` and `expired` stand for the wall clock: the n-th run has its n-th
`startedAt`, and it is due, or over, when its number is in the set.

Actions. controller-runtime never runs two passes for one key at a time, so one
`pc` is enough; between two calls of a pass anything else may happen. `ReadJob`
takes the key, reads the cache and decides what the code decides before its
first call (`Dispatch` and its parts). Then:

| Code | Definitions |
|---|---|
| `Reconcile` 65-117 | `ReadJob`, `AddFinalizer`, `RejectInvalid`, `DisableExpired` |
| `maybeStartRun` | `SettleIdle`, `StartRun`, `DesiredRun` |
| `reconcileActivate` | `SkipDelayed`, `PlanFails`, `PersistToken`, `EnsureDone`, `EnsurePending`, `EnsureFails`, `MarkApplied`, `MarkEnsureFailed`, `SettlePhase`, `HoldSteady`, `ListShrank` |
| `reconcileRevert` | `RevertStep`, `MarkReverting`, `RevertDone`, `RevertUnfinished`, `DropToken`, `MarkActionReverting`, `MarkRevertFailed` |
| `finishRun`, `reconcileDelete`, `leakState` | `FinishRun`, `ReleaseFinalizer`, `LeakTokens` |
| `patchStatus` | `PatchStatus`, `Conflict` |
| the HTTP API and kubectl | `Enable`, `Disable`, `SwitchOff`, `RequestRun`, `EditActions`, `Delete`, `ForceRelease` |
| process death, failing calls, watch, clock, dead-man switches | `Abandon`, `Deliver`, `DelayElapses`, `RunExpires`, `EffectEnds` |

Two points of the translation deserve attention.

*`patchStatus` reads the cache, mutates, and sends an `Update` that carries the
version it read.* So it succeeds only when the cache has the stored version
(`backlog = <<>>`), and the mutation is applied to the stored status, not to the
pass's copy; afterwards the copy is the stored object. If all retries conflict
the pass fails and the key is queued again (`Conflict`). Two consequences follow.
Every status a pass writes is computed from the truth, even when the *decision*
to write it was taken from a stale copy. And a pass that patches refreshes its
copy in the middle, which a loop over that copy and an index into it do not
expect: `ListShrank` and `RevertPanics` are the two places where Go panics
(controller-runtime recovers and queues the key again).

*A pass can begin before the cache shows what the operator last wrote.* The code
has nothing that prevents it: `Requeue: true` and the watch event race. The
constant `ReadsOwnWrites` says whether such passes are considered. With TRUE,
`ReadJob` waits until the cached status is the stored one (what a cache that is
always a little faster than the work queue gives); users' edits may still be
missing from the copy. With FALSE a pass may read any version. What holds in
both cases is checked with FALSE; what needs the assumption is checked, and
proved, with TRUE, and the run `stale_injection` shows that it is needed. TLC refutes
four more properties with FALSE: `BooksClosedDrained`, and `DrainsNewestFirst`,
`RevertHasToken` and `SwitchedOffIsRestored`, of which 3.8 tells.

*A forced release may wait for ever.* `leakState` reads the ConfigMap through the
manager's caching client (`cmd/main.go:67-77` has no `DisableFor`), which has to
list and watch ConfigMaps for that. The Role grants get, create and update only
(`deploy/rca-operator/rbac.yaml:44-46`, and the marker at
`maintenancejob_controller.go:62`), so the informer never syncs and the read does
not return. The constant `WatchesConfigMaps` says whether the Role lets it: `LeakTokens` is
possible only with TRUE. The `liveness` run has FALSE, as deployed, and
`DeletionCompletes` says that a deleted object goes, or waits there (`LeakBlocked`).
The safety runs have TRUE, as a leak that completes has more behaviours.

What the actions do is represented by their contract (`actions/action.go`):
`Plan` only reads; `Ensure` and `Revert` can be repeated; done means in effect,
or back to normal; a call that reports pending or an error may or may not have
changed the target. Their own behaviour is the subject of 3.3 and 3.4.

Data. A run id is a model value (manual) or a number (the fresh UUID of an
enabled run). Attempts are counted up to `degradedAfterFailures`, the only
threshold that anything depends on besides the length of a backoff. Messages,
times and conditions other than Ready and RevertFailed are left out.

### 3.2 `DurableRevert`

What the operator promises about one scenario: a token is recorded before its
failure is injected, is forgotten only when the target is back to normal, and
the object goes only when it has no token that was not leaked. Its variables are
sets of actions. `MaintenanceController` instantiates it with the names in
`status.activeActions`, the injected actions, the ConfigMap and "the object is
gone" (`Durable`, `RefinesDurableRevert`).

### 3.3 `ScaleAction`

What Plan, Ensure and Revert of a Scale action do to a Deployment that several
scenarios scale. `dep` is the Deployment (count and `held-by`), `backlog` its
cache as in 3.1. Each scenario `s` has `wanted[s]` (`spec.enabled`), `run[s]`,
`token[s]` (the persisted `PreviousReplicas`) and a pass: `pc[s]`, and `seen[s]`,
the Deployment as that pass read it.

| Code | Definitions |
|---|---|
| `Scale.Plan` | `Plan`, then the reconciler's `PersistToken` |
| `Scale.Ensure` | `EnsureRead`, `EnsureRefused`, `EnsurePatch`; `Foreign`, `Live`, `Refused` for the hold check; `Merged` for `client.MergeFrom` |
| `Scale.Revert` | `RevertRead`, `RevertPatch`, then the reconciler's `DropToken` |
| `maybeStartRun`, `finishRun`, `reconcileDelete` with force-release | `StartRun`, `FinishRun`, `ForceRelease` |
| the HTTP API, `deploy.sh`, kubectl | `SwitchOn`, `SwitchOff`, `Redeploy`, `Undeploy` |

Reading and patching are separate actions, because the patch carries no resource
version: it changes the fields in which the copy differed from what was wanted,
and leaves the others as they are by then (`Merged`). The scenarios' own status
is read as stored: what a late status does is the subject of 3.1, and here it
would only blur what a late Deployment does. A pass decides and reads in one
step; as nobody but the pass itself reads `wanted`, a user's change between the
two is the same as one right after. `spec.scale.replicas` does not change during
a run, and `spec.replicas` is never nil since the API server defaults it.

The constant `Setups` is the set of circumstances a run looks at; `setup`, chosen
in `Init`, is the one of a behaviour: how far the cache may lag, whether users
let scenarios overlap (if not, a scenario is switched on only when no other one
is wanted or live on the target), and the bounds on requests and faults.

### 3.4 `ScenarioRuns` and the actions that use it

`ScenarioRuns` is what the reconciler does around the calls of an action, for
scenarios with one action each: `StartRun`, `FinishRun`, `Persists`, `Drops`, and
the users' `Switch` and `ForceRelease`. `setup.type[s]` says which action `s` has.

Here a call of an action is one step, and what was late about it is in its
*view*: `depView[s]`, `objectView[s]`, `jobsView[s]` is the target as `s` has last
read it, and a call decides by the view and writes to the target. A view catches
up in `DepSeen`, `ObjectSeen`, `JobsSeen`. `setup.lag` says how a view may be
late: "none"; "others", behind what others do but not behind what `s` did itself;
"any". A view that stays behind until the write stands at once for a cache that
lags and for a write between the read and the patch.

| Code | Definitions |
|---|---|
| `deployimage.go`: Plan, Ensure, Revert | `DeployPlan`, `DeployEnsure`, `DeployRevert`; `GoodImage`, `Deployed`, `NothingToRollBack`, `RolledBack`, and `Merged` for the merge patch |
| the pipeline, kubectl | `RealDeploy`, `Undeploy` |
| `workload.go`, `chaosmesh.go` | `ObjectPlan`, `ObjectEnsure`, `ObjectRevert`: an object under a fixed name, refused when another scenario has it, deleted and waited for |
| kubelet, Chaos Mesh, garbage collection | `Gone`, `DeadManSwitch`, `Collect` |
| `dbexec.go` | `ExecPlan`, `ExecEnsure`, `ExecRevert`, `RunJob` (a failed Job is deleted, an absent one created), `JobName` |
| `dbtool --once`, the Job controller and its TTL | `JobSucceeds`, `JobFails` (before or after the statements that matter), `JobExpires` |
| `sweeper.go` | `Restart` (the list), `SweepLookup` (one owner), `SweepDelete` (by name, whatever it has become; an application's Deployment, which the Role does not let it delete, stays, and the error is only logged) |

The database is one bit, `injected`: the ensure statements were executed last, or
the revert statements. `mixed` records how the Jobs of a run got into each
other's way: a revert Job created beside a running ensure Job ("overlapped"), or
an ensure Job created after a revert Job of the same run ("resumed").
`ForgottenIsUndone` promises nothing once either has happened, and `exec_resumed`
shows what happens after "resumed". `uid[s]` tells a MaintenanceJob that a user
created again from the one released before it, as the owner reference does.

`ForceRelease` takes the token away with the object: a release on request, where
the Role permits it (3.1), or the finalizer stripped by hand. The safety properties are the
stronger for it.

Scenarios of different types have nothing in common, so one setup has one type;
`setup.maxFaults` bounds its faults.
Two DeployImage scenarios are looked at with views that are up to date, one alone
with a view that lags behind others: with both, the patch of the second one leaves
out the markers that its copy already shows, and `RollbackMarked` fails, as it
must. One alone is refuted too, but only if its Deployment is deleted and created
again (part 5): `MarkedUnlessRecreated` is `RollbackMarked` with these conditions.

### 3.5 `CartService` and `LoadGenerator`

`CartService` is one user's cart and the requests in progress on it. Each command
to Valkey, and the call of order-service, is a step: `AddLookup` (HGET),
`AddChecksSize` (HLEN), `AddWrites` (HSET); `Remove`; `Clear`; `CheckoutScans`,
`CheckoutOrders` or `CheckoutFails` (refused, or stored and the answer lost),
`CheckoutDeletes`. `req[k]` is the request in slot `k`, a thread. `ledger` counts
what clients are owed; `raced` says that two requests that meet in the hash have
been in progress at once. The code keeps the books only until then: an addition
between scan and delete of a checkout is lost (`hazards`, `app.py`).

`LoadGenerator` is the generator's worker pool against that cart: `AddToCart`,
`RemoveFromCart` and `CheckoutCart` read the cart and decide, `Posts` and
`Receives` are the request and its answer, `GivesUp` the client's timeout, after
which the service works on for nobody. All workers act for the same user, the
worst case for one cart. `NeverFull` is the claim behind `cartCheckoutAt`: the
generator reads the size, decides, posts; the service reads it again, decides,
writes; and none of the readings is still true at the end. `RoomAssumption` says how
much room that takes: `MaxItems >= CheckoutAt + workers + slots - 1`. As deployed that
is 20 + 2 * 20 + 32 - 1 = 91 of 100. `RPS_OVERRIDES` of 25 for cart-service
exceeds it, and from 41 on the workers by themselves can. A request that its client gave
up while it was still in the socket's listen queue holds no slot and is left out.

### 3.6 `Inventory` and `OrderPipeline`

`Inventory` is the stock of each product and the reservations: `Reserve`,
`Release`, `Upsert`, and `Take` for `PUT /inventory/{sku}/reserve`. Each request
is one transaction or one statement in the code, and one step here.

`OrderPipeline` is an order from `POST /orders` to FULFILLED.

| Code | Definitions |
|---|---|
| `createOrder` | `CreateOrder` (payment answered, lost or refused; the row inside the open transaction; the send), `Commit`, `Publish` (before or after the commit) |
| `updateOrderStatus`, `onShipmentEvent` | `UpdateOrderStatus`, `OnShipmentEvent` (failures are swallowed, a record may come again) |
| `consumeLoop`, offsets | `PollFetches`, `CommitMarks`, `Rebalance`, `Shutdown`, `Crash`, `Assign` |
| `processRecord` | `SkipRecord` (does not decode, or is no `OrderCreated`), `ReserveInventory` (one attempt for one item), `Retry`, `NextItem`, `CreateShipment`, `PublishShipmentCreated`, `Finish` |
| `createOrderAndAwaitFulfillment` | `awaiting`, `AwaitEnds` |
| inventory flows of the generator | `StockChanges` |
| other producers; the database and Kafka | `StrayRecord`; `Outage`, `Recovers` |

`order-events` is one partition: records of different partitions share nothing
but the stock, which `StockChanges` changes at any moment anyhow. A replica that
lost the partition works its batch to the end beside the new owner, as the code
does. Two ghosts carry the properties: `reserved` and `refused` count per item
what inventory-service did and answered, and `redone` says that a record was
fetched twice or an answer of inventory-service lost.

`Stray` is a record that is not an order. `down` are the targets of
fulfillment-service that do not answer now: `CreateShipment` and
`PublishShipmentCreated` are not possible while theirs is down, because neither call
returns. The insert has no deadline (`fulfillment-service/main.go:93-101, 319-328`) and
`ProduceSync` retries without limit and without one (152-158, 330-348). A call that
fails does so at once, and the record is finished.

The load generator is the only client that sets statuses: CONFIRMED, SHIPPED or
DELIVERED (`load-generator/main.go:423`). order-service's PUT itself would take any of them
(`OrderController.java:60-70`), also FULFILLED, which nothing would then have shipped:
`FulfilledIsShipped` is a statement about the generator's requests.

### 3.7 The runs

| Run | Asks | Bounds |
|---|---|---|
| `own_writes` | With passes that see the operator's own writes: does the reconciler implement `DurableRevert`; is an Idle scenario drained, an Active one complete, no open run replaced, none closed with tokens, none entered twice in the history, are actions undone in reverse? | two actions, the second delayed; one manual trigger; enabled runs expire; two failures to Degraded; cache one version behind; 3 requests, 2 faults, 5 runs |
| `stale_cache` | What holds however late the cache is, while the list of actions is edited under a running pass (shortened, reordered, with a repeated name): the finalizer's guarantee, unique token names, and that a pass which panics on an empty list has nothing left to revert. | two actions, cache two versions behind; 4 requests, 1 fault, 1 enabled run |
| `liveness` | Is a scenario that is switched off restored (with passes that see the operator's own writes; 3.8 tells of the others), a deleted one released (or waiting, as deployed, for the ConfigMap of a forced release), an expired one ended? | one action whose name an edit may repeat; 3 requests, 1 fault, 5 runs; cache one version behind |
| `scale` | Is the count of the manifest restored when scenarios do not overlap, and does no lock outlive the token that will remove it? And when they do overlap, does the one that was refused get the target once the other is off, forced release included? | two scenarios; without overlap 6 requests, 3 faults and a cache that is never behind; with overlap 4 requests, 1 fault and a cache one version behind |
| `targets` | Can what is live be undone, and is it undone once the scenario is switched off, for each of the other four actions? | pairs of DeployImage, Workload, ChaosMesh scenarios, one DeployImage and one DBExec scenario alone; one of two DeployImage scenarios names its good image; 2 runs, 4 requests, 1 fault, and 3 for the DeployImage scenario alone, which take a Deployment away and bring it back |
| `cart` | Is no addition refused, a full cart drained, and nothing lost by requests that do not race? | one worker, two slots, four products, limit 3, check-out at 1, 2 faults; a product is in the cart at most once |
| `pipeline` | Is what ships paid for and taken from stock or refused by it, what is FULFILLED shipped, each order shipped once unless redone, and do reservations add up? | orders of two units and of one; two replicas (interchangeable, hence a symmetry); stock 1; 2 attempts, 2 reservations, 1 fault |
| `pipeline_liveness` | Does the consumer group get past every record? | one order of two units, and up to two records that are none; 2 faults |
| `stale_injection` | Is nothing injected without a token in the status when a pass may read an older version? No. | one action, 3 requests, no faults |
| `scale_inflated_plan` | Does the lock keep overlapping scenarios from restoring each other's count? No. | 4 requests, no faults |
| `rollback_unmarked` | Is a bad image never live without its rollback marker? Not when the Deployment is created again behind the view. | one DeployImage scenario, 4 requests, 3 faults |
| `exec_resumed` | Can a stale Job never be mistaken for this run's? No. | 4 requests, 1 fault |

Why the bounds are enough. Two actions are needed for an order of injection and
of drain, and for a pass that stops between them; a third repeats the second. The
longest chains of user requests that matter are "enable, disable, enable" and
"enable, edit, delete", three requests; each can fall between any two calls of a
pass. `stale_cache` has a fourth, since "enable, disable, enable, disable" is the
shortest way to `RevertPanics`, and one run, which is all that such requests
resume; manual triggers, delays and expiry are left to `own_writes`. Two faults
give a crash during the recovery from another one, and with
`DegradedAfter = 2` the way into Degraded and out of it. `MaxRuns` exceeds what the
requests of the other runs can start, so `StartRun` is not held back by its bound. A
cache two versions behind already shows both a user's and the operator's write
missing. `HistoryCap` is 2 instead of 10, so the cap is reached. Two scenarios are
needed for a lock or for a name in use; four requests switch both on and off, and
the fifth and sixth start one again or release it by force.

In `targets` the single fault is a restart with its sweep, a failing or an expiring
Job, or a deployment by the pipeline; a second one of another kind makes the run
too long, and a forced release counts as a request. The DeployImage scenario alone
has three, since that is what `rollback_unmarked` needs: the pipeline deploys over the
bad image, the Deployment is deleted, and created again. In `cart` the limit is the
least that `RoomAssumption` allows and one more product exists, so that a generator that
checks out one item later does fill the cart. With one worker the second slot is
used by a request that the worker gave up, or by somebody who clears the cart.
More workers are what the proof is for. In `pipeline` the larger order needs two
units where one is in stock, so one item is answered 409 unless stock is added;
one fault is enough to fetch a record again, to move the partition, to lose an answer, to take a
target down, or to put a foreign record between two orders, and with two attempts an item can fail once and succeed.

Deadlock is checked in the cart and the pipeline, where something can always
happen. `CHECK_DEADLOCK FALSE` in the operator's cfgs: an object that is gone, or a
scenario that is idle after the last request the bound allows, has nothing left
to do.

Fairness, and why the code justifies it.

* `MaintenanceController` (`FairSpec`): weak fairness of `Pass` (one worker or
  another takes a queued key and a pass goes on with its calls, except the one that
  waits in `leakState` as deployed, which `WatchesConfigMaps` takes out of `Pass`; leader election
  restarts a dead operator and its first list queues every object), of `Deliver`
  (a watch that breaks is re-established) and of `Clock`. Nothing is assumed of
  users, of faults (bounded by `MaxFaults`, the assumption that a revert does not
  fail for ever), or of failures ending by themselves. `Pass` is one disjunction:
  it does not assume that a particular call is ever retried, only that the
  operator does not stop. A free worker is presupposed: four other objects whose forced
  releases wait would hold all of them (`hazards`, line 433).
* `ScaleAction`, `ActionTargets`: the same of each scenario's pass, since every
  key is requeued and four workers serve the queue, and of the watch; for
  `ActionTargets` also that an object being deleted goes, and that a Job's pod
  ends: the deadline the code sets sees to that.
* `LoadGenerator`: weak fairness of an answered request being received and of
  each handler's next command; strong fairness of `AddToCart`, because a worker is
  idle again and again and draws from a list by weight for ever, and of `Posts`,
  because a slot becomes free again and again.
* `OrderPipeline`: weak fairness of a replica's poll, of its work on a record and of its
  commits. A call to inventory-service ends within its 10 s (`main.go:44-46`). The insert
  and the publish end only when their target answers, so they are not enabled while it
  is down, and `NoRecordWedges` promises something only if the outages end; without
  that condition TLC refutes it. Nothing is assumed of order-service or of clients.

The liveness properties of the reconciler name what can defeat them: a user
changes the spec again, deletes the object, or the spec is invalid.

Each property of a passing run has a variant of the code beside it in the module
("Variant: ..." - a dropped check, a swapped order, a missing wake-up) under which
TLC finds it violated; `PROJECT.json` pairs them under `mutants`.

### 3.8 What the bounds of the runs leave out, and was looked at

These are behaviours of the code that the properties of the passing runs exclude
by a hypothesis. Each was found while looking for the invariant of a proof and is
reproduced with the constants given.

* *Reverse order* ("drains activeActions in reverse order",
  `maintenancejob_controller.go:284`). `MCOwnWrites.cfg` with `ReadsOwnWrites = FALSE`,
  `MaxRuns = 1`, `MaxUserOps = 4`, `MaxFaults = 0` violates `DrainsNewestFirst`: a pass
  records the second action's token, applies it and ends on a conflict, because
  the scenario was deleted meanwhile. The next pass starts from the version before that token, finds the
  first action's token to be the newest, reverts it and drops it, while the second action is
  in effect.
* *An index out of range* (`maintenancejob_controller.go:302`). The same constants
  violate `RevertHasToken`: a pass drops the last token; the next one starts from the
  version before, with the list not empty and the phase not yet Reverting, patches
  the phase, thereby gets the stored status, and takes the last element of an
  empty list. `PanicIsDrained` says, for any cache, that such a pass passes over
  no token; the next one closes the run.
* *A failure that outlives its scenario* (`maintenancejob_controller.go:171`).
  `MCLiveness.cfg` with `ReadsOwnWrites = FALSE`, `ActionLists <- OneAction`,
  `TriggerId = {}`, `MaxRuns = 4`, `MaxUserOps = 3` and `MaxFaults = 0` violates the conclusion of
  `SwitchedOffIsRestored`: enable, disable, the revert is done, and the scenario is
  enabled again before its token is dropped. The next pass still sees the token in
  its copy and calls `Ensure`, with none stored; the run expires before the
  action is recorded again, the list is empty, and `finishRun` closes the books. The
  scenario is Idle and switched off, and the failure is in effect. The property has
  `ReadsOwnWrites` as its hypothesis, and the run that checks it has TRUE.

## 4. What is proved

The assumptions are the named ones of the modules (types and ranges of the
constants), which TLC evaluates on every run: `ConstantsAssumption`,
`ScaleAssumption` with `TargetAssumption`, `CartAssumption` with `FreeAssumption` and
`RoomAssumption` (3.5), `PipelineAssumption` with `InventoryAssumption`;
`RunsAssumption`, `ImageAssumption` and `ObjectAssumption` for the modules of 3.4. The
theorems hold for every value of the constants. Where a statement has a
hypothesis besides `Spec`, the table shows it; the paragraphs below say what it
stands for and what happens without it.

| Theorem | Module | Statement |
|---|---|---|
| `TypeCorrect` | `MaintenanceControllerProofs` | `Spec => []TypeOK` |
| `FinalizerGuards` | `DurableRevertProofs` | `Spec => []FinalizerGuardsTokens`, however late the cache |
| `InjectionsCovered` | `DurableRevertProofs` | `ReadsOwnWrites /\ Spec => []TokenCoversInjection` |
| `ImplementsDurableRevert` | `DurableRevertProofs` | `ReadsOwnWrites /\ Spec => RefinesDurableRevert` |
| `TokensUnique` | `ReconcilerProofs` | `Spec => []UniqueTokens`, however late the cache |
| `PanicDrained` | `ReconcilerProofs` | `Spec => []PanicIsDrained`, however late the cache |
| `RevertFindsToken` | `ReconcilerProofs` | `ReadsOwnWrites /\ Spec => []RevertHasToken` |
| `IdleDrained` | `ReconcilerProofs` | `ReadsOwnWrites /\ Spec => []IdleMeansDrained` |
| `HistoryOnce` | `ReconcilerProofs` | `ReadsOwnWrites /\ Spec => []HistoryHasRunOnce` |
| `RunKept` | `ReconcilerProofs` | `ReadsOwnWrites /\ Spec => RunNotReplaced` |
| `BooksDrained` | `ReconcilerProofs` | `ReadsOwnWrites /\ Spec => BooksClosedDrained` |
| `DrainedInReverse` | `ReconcilerProofs` | `ReadsOwnWrites /\ Spec => DrainsNewestFirst` |
| `ActiveComplete` | `ReconcilerProofs` | `ReadsOwnWrites /\ OneList /\ Spec => []ActiveIsComplete` |
| `NeverStranded` | `DurableRevert` | `Spec => []NothingStranded`: the abstract steps suffice for the promise |
| `ScaleTypeCorrect` | `ScaleActionProofs` | `Spec => []ScaleTypeOK`, for any number of scenarios and any cache lag |
| `LockCovered` | `ScaleActionProofs` | `Spec => []LockHasToken` (a promise about setups with `lag = 0`), for any number of scenarios |
| `QuietNormal` | `ScaleActionProofs` | `Spec => []QuietIsNormal` (a promise about setups with `lag = 0` and no overlap), for any number of scenarios |
| `TargetsTyped` | `ActionTargetsProofs` | `Spec => []TargetsTypeOK` |
| `OwnRunReported` | `ActionTargetsProofs` | `Spec => []ReportsOwnRun`, however late the views |
| `ForgottenUndone` | `ActionTargetsProofs` | `Spec => [](setup.lag # "any" => ForgottenIsUndone)` |
| `ObjectsTokened` | `ActionTargetsProofs` | `Spec => [](setup.lag # "any" => ObjectHasToken)` |
| `ImageMarked` | `ActionTargetsProofs` | `Spec => []MarkedUnlessRecreated` (a promise about views that are up to date, and about a single DeployImage scenario whose Deployment is not deleted) |
| `QuietGood` | `ActionTargetsProofs` | `BadDistinct /\ Spec => [](Watched => QuietIsGood)` |
| `LoadTypeCorrect` | `LoadGeneratorProofs` | `Spec => []LoadTypeOK` |
| `CartNeverFull` | `LoadGeneratorProofs` | `Spec => []NeverFull`, for any number of workers, slots and products with the room of `RoomAssumption` |
| `CartAccounted` | `LoadGeneratorProofs` | `Spec => []CartAccounts` |
| `PipelineTypes` | `OrderPipelineProofs` | `Spec => []PipelineTypeOK` |
| `ShippedPaid` | `OrderPipelineProofs` | `Spec => []ShippedIsPaid`, for any orders, replicas and failures |
| `FulfilledShipped` | `OrderPipelineProofs` | `Spec => []FulfilledIsShipped` |
| `ShippedReserved` | `OrderPipelineProofs` | `Spec => []ShippedIsReserved` |
| `ReservationsCounted` | `OrderPipelineProofs` | `Spec => []ReservationsAddUp` |
| `ShippedOnce` | `OrderPipelineProofs` | `Spec => []OnceUnlessRedone` |

*The reconciler.* `TypeOK` is not inductive: an action that closes a run writes a
history entry from the run in its copy, so that copy must have one when `pc` is
"finish", and a pass inside the activation loop must have the run it captured.
`TypeInv` adds what each value of `pc` says about the copy.

`GuardInv` carries `FinalizerGuards`. A finalizer is removed by an update that is
accepted only if the pass's copy is the stored object, and the step before it
either saw no token in that copy or has just leaked its tokens. The invariant
says that the same is true at every `pc` that leads to `release`, and that tokens
are only ever stored in an object that has the finalizer; the latter needs to
hold of every version a cache can still serve, since a pass that adds a token
starts from one of them.

`FreshInv` carries the next two and is where `ReadsOwnWrites` enters: between the
read and the first write of a pass its copy's status is the stored one, as users
change only the spec and no other pass writes. So a token seen is a token stored,
and an empty list seen is an empty list stored. With it each action is a step of
`DurableRevert` or a stutter: storing a token is `Record`, `Ensure` is `Inject`,
`Revert` and an effect that ends are `Restore`, dropping a token is `Forget`,
`leakState` is `AbandonTokens`, the finalizer's removal (and the deletion of an
object that never had one) is `Release`.

*The books of the reconciler.* `BooksWritten` says once what each status write makes of
run, history, phase and tokens; every proof of `ReconcilerProofs` goes through the
writes by it. `TokensUnique` needs no assumption: `PersistToken` looks for the name
in the status that it writes to. `PanicDrained` needs none either: `Chosen` says that
a step decided on the pass's copy leads to "revert" only with a token in that copy, and
the refresh that can empty the copy makes it the stored object.

The others rest on `OwnWritesInv`, which adds `Planned` to the invariants above: what a
pass has concluded about run and tokens (a new run is started from a copy without
one, books are closed from a copy without tokens, a token is being reverted from a
copy that has it) is true of its copy, hence by `FreshInv` of the stored status. On top of it,
`IdleInv` extends `IdleMeansDrained` to the phase of an object that nobody has looked at
yet. `HistoryInv` tells an open run from all runs in the
history by the number of its start, which only grows. `CompleteInv` with `LoopInv` says what
`allApplied` vouches for: each action that the loop has passed is applied in the stored status, as
nothing undoes it under a pass that is activating. `OneList`, a list of actions that
nobody edits, is needed there: an edit adds an action to the spec while the
phase is still Active, and the pass that follows injects it.

*Scale.* `Underway` adds to the types that a pass about to mutate the target has a
run and a token, and `LockInv` adds what a pass has concluded: at "drop", or at a
patch that leaves `held-by` alone because none was seen, the scenario has no lock,
and nobody else can set one in its name. Without these a `DropToken` step could
leave the lock behind. That the cache is never behind makes what was concluded true
of the Deployment itself. It is needed: with a cache one version behind, a
`Revert` whose copy predates `Ensure` takes the Deployment for never applied, and
the token goes while count and lock stay (`hazards` lists the line).

`QuietNormal` adds `Orderly`: of scenarios that do not overlap at most one is wanted or live
(`Alone`), the count that it plans with and persists is the manifest's (`Tidy`), and
whenever the count is another one, some scenario has the token, and is not past
the patch, that puts it back (`Restorable`).

*The other actions.* `TypeInv` adds to the types that a token is of the kind its action
plans and that views are versions of the target. `Moves` splits the next-state
relation by the target that a step touches, so that each invariant below is
examined against the steps of its own target and the four of `ScenarioRuns`.
`OwnRunReported` follows from `RanInv`: a Job of run r is seen as succeeded only if
it was, and it was only if r's statements were executed, however old the view. The
token names the run, so a run never asks for another one's Job.

`UndoneInv` is the argument for DBExec. As long as no Jobs have got into each other's way, a
running ensure Job and a change in the database are each *owed* by a scenario:
one that has that run's token and for which neither the truth nor its own view has
the revert Job succeeded. So nobody who owes drops the token. That a scenario sees
its own Jobs is needed, since a view in which its ensure Job has not begun would let
the revert Job be created beside it unnoticed. `KeptInv` says the same of a workload or chaos object: whoever owns it sees it
as its own, and has the token or has been released by force.

`MarkedInv` is `RollbackMarked` with the holder: a bad image comes with the rollback annotation and
with the name of the very scenario whose image it is. It needs views that are up to date.
`AloneInv` takes its place for the single scenario with a view that is late about others: the
annotations come and go by its own patches only, so its view always shows those that
the Deployment has, and a patch that leaves the marker out finds it there. That breaks
when the Deployment itself is replaced. `QuietInv` is about forgetting: whoever is named on the Deployment, or whose image
is live, has the token and sees that it is so, therefore its Revert does not report
"nothing to roll back". `Watched` are the setups in which this is true: views that
are up to date, or one DeployImage scenario with a view that is late only about
others. `BadDistinct` says that no two scenarios deploy the same image; two that do are
not told apart by what is live, and the property would blame the one for the
other's.

*The cart.* `NeverFull` is about an answer; what has to be bounded is the cart's
size at the moment a request checks it. `Room` says: as long as anything is
promised, the items in the cart, the workers that will post an addition, and the
slots with an addition in progress are together at most `Limit`. A worker decides
to add when the cart is below `CheckoutAt`, or after its check-out has emptied the
cart; from there the sum can gain at most one for each other worker and each slot.
An addition is counted with its worker until it is posted and with its slot from then on,
whether or not the client waits, so nothing is counted twice; `Flow` says which
request belongs to which worker. A cart that an earlier run has left full is no
exception: nothing is promised until it has been checked out. The steps are about
cardinalities of finite sets, with facts cited from `FiniteSetTheorems`.

*The pipeline.* `IInv` has four parts. `Types` includes where a replica is: at an item
that the record has, and at the start of a record that is no order. `Paid`: what is being sent or is in the topic is charged.
`Announced`: what is in `shipped`, or has been marked or reported FULFILLED, has a
shipment. `Done(r)` speaks of the record in work: all its items before the one in
hand have been taken or refused, all of them at the stages "ship" and "publish".
This is what a shipment by a replica that has already lost the
partition needs, since `reserved` and `refused` only grow and are shared by all
who work on that order. `ReservationsAddUp` is inductive with the types: a
reservation is added to or leaves the finite set that `Reserved` counts at the
step that changes the row.

`ShippedOnce` needs where a record can be. `SentOnce`: an order is unknown, being sent,
or in the topic at one place. `InOrder`: the owner's batch is exactly what lies between
what it has marked and what it has fetched, and nobody else has a batch.
`NothingAhead`: for a record not yet begun nothing was shipped or taken, and for the one
in work only what comes before the place where the owner is. The last two hold
until the first record is fetched twice or an answer is lost, which is when
`redone` is set and the promise ends.

*The cart's books.* `CartAccounted` is proved with `Apart`, `ReadHolds` and `DeleteIsOrdered`:
while no two requests have met in the hash, what a handler has read is still so
when it writes, and what a checkout is about to delete has been ordered, so that the
ledger owes nothing then.

Model-checked only: the liveness properties `SwitchedOffIsRestored`, `DeletionCompletes`,
`ExpiredRunEnds`, `WaiterGetsTarget`, `SwitchedOffReverts`, `FullCartDrains` and `NoRecordWedges`,
as the prover has neither fairness nor ENABLED. The four violation runs show
what does not hold, which is nothing to prove.

## 5. Disagreements with the repository's words

Each is a violation run; `PROJECT.json` quotes the line.

* `stale_injection`: "every mutation of the world is preceded by persisting a
  self-contained revert token". A pass that begins before the cache shows the
  operator's last write (the token was just dropped) and finds the scenario
  wanted again calls `Ensure` for a token that the status no longer has.
* `scale_inflated_plan`: "Restore previous replica count; `held-by` lock prevents
  two scenarios fighting over one target". `Plan` does not look at the lock, so a
  scenario that waits for it has already recorded the other one's count as the
  normal one.
* `rollback_unmarked`: "there is no window where the bad image is live without its
  rollback marker". The merge patch of Ensure holds the fields in which its copy
  differs from what is wanted, and no resource version. A copy that still shows the
  annotations of the scenario's earlier deployment, under an image that the pipeline has deployed
  since, yields a patch with the image alone; a Deployment that was deleted and created
  again meanwhile accepts it. The bad image is live without the way back, which only
  the token still has.
* `exec_resumed`: "a stale Job can never be mistaken for this run's". A scenario
  that is switched on again while its run is being reverted resumes that run, and
  with it the Jobs' names; the next revert finds the revert Job of before.

Further ways in which the code surprises are in the models and listed as hazards
with a note: a completed manual run starts again after an enabled run in between;
a spec that fails `validateSpec` but passes the CRD stops every pass before expiry
is looked at; two scenarios can pass the hold check of Scale together, since the
patch that takes the lock is unconditional; a merge patch computed from a late
copy can leave the rollback marker out.

## 6. What is not modelled

* Users: a write of the HTTP API (`mutate` retries on conflict) is one atomic
  change of the stored spec. `handleReset`, which makes such writes for one
  scenario after another, is planned (part 2). Action types that the registry does not know are left
  out; a finalizer stripped by hand, and an object that is created again under its
  name, are in `ScenarioRuns` and `ScaleAction` only (`ForceRelease`).
* Requests of `PUT /orders/{id}/status` other than the load generator's (3.6).
* Time: only the order of "due" and "over" relative to the steps of the program;
  expiry is read at its use rather than at the pass's `now`, so a run may expire
  in the middle of a pass. That a requeue after a time comes in time is not a
  question the model asks, only that it comes.
* Tokens' contents where 3.1 does not need them, image verification, the wait for
  a rollout and the retry schedule; the branch of `finishRun` for a run that is nil
  with an empty list, which `Reconcile` excludes before it is reached. A DBExec
  action without revert statements, whose Revert is done at once.
* Targets shared by scenarios of different types.
* The shop: quantities above one unit (a negative one is a hazard with a note),
  the expiry of reservations, the status CANCELLED (declared, set by nobody), several users' carts at
  once (they share nothing), requests abandoned in the listen queue (3.5),
  payment-service's own table and its refunds, reviews.
* Statistics, events, metrics, logging and listings.
* `data-seeder` and the deployment scripts are still open (part 2). Stateless
  services, telemetry and manifests stay out for good, as `PROJECT.json` says per
  component.
