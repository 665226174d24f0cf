# A TLA+ development for singbox-operator

singbox-operator is a Kubernetes operator that turns `SingBoxNode`, `User`,
`UserGroup`, `EgressPolicy` and `ExternalOutbound` resources into running
sing-box proxies, serves client configs for them, and collects their per-user
traffic into Elasticsearch. This directory holds TLA+ modules translated from
its source, TLC models that check them on small instances, and TLAPS proofs of
their main safety properties for all instances. `PROJECT.json` lists components,
runs, mutants, the line-by-line correspondence, findings, hazards and theorems.

## The parts of the system

| Part | Source | State it owns | Modelled by |
|---|---|---|---|
| SingBoxNode controller | `internal/controller/singboxnode_controller.go`, `node_health.go` | node finalizer and status, ConfigMap, Pod, relay Secret | `NodeReconciler` (one node's roll-out), `ControlPlane` (watches, config, status) |
| Config engine | `internal/configengine/engine.go` | none (pure) | `ConfigEngine` |
| EgressPolicy controller | `internal/controller/egresspolicy_*.go` | policy status, trigger annotation on nodes | `Cluster` (resolution), `ControlPlane` |
| ExternalOutbound controller | `internal/controller/externaloutbound_controller.go` | Accepted condition | `Admission` (verdict), `ControlPlane` |
| User, UserGroup controllers | `internal/controller/user*_controller.go` | user status, trigger annotations on users and nodes | `ControlPlane` |
| Client config API | `internal/apiserver` | none (pure, over caches) | `ClientConfig` |
| Admission webhooks | `internal/webhook` | none | `Admission` |
| Credentials | `internal/credmanager` | relay Secrets | `NodeReconciler`, `Cluster`, `ControlPlane` |
| Usage collector | `internal/usagecollector` | nothing durable; documents in Elasticsearch | `UsageCollector` |
| Manager, CLI, metrics, generated code | `cmd`, `internal/cli`, `internal/metrics`, `*.pb.go`, deepcopy | - | leader election only |

The controllers never call each other. They meet in the API server: every read
is from an informer cache, which lags behind for each kind of object
independently, every write is refused if it was made from an old version, and a
change reaches another controller only as a watch event that queues a key. The
config engine is a function of what the SingBoxNode controller lists; the client
config API computes its answer from the same resources on its own. The usage
collector runs on the replica that holds the leader-election lease, asks the
stats endpoint of every inbound node and writes to Elasticsearch.

## Modules

* `Informer` - one API object with the versions a watch has yet to deliver.
  `cache` is the version the operator sees, `Current` the API server's. External:
  modelled from how the controllers use client and cache.
* `NodeReconciler` - one node's key under `SingBoxNodeReconciler`.
* `Cluster` - the resources, and the rules several parts share: allow lists,
  selectors, policy resolution, credentials.
* `ConfigEngine` - `collectInput` and `Compute` as operators.
* `ClientConfig` - `handleClientConfig` as an operator.
* `Admission` - the webhooks' rules and the ExternalOutbound verdict.
* `Configs` - a cluster changed one object at a time; every node's and client's
  config recomputed from each state.
* `ControlPlane` - the five controllers, their watches and queues, over
  independently stale caches.
* `UsageCollector` - all replicas' collectors, the counters and the data stream.
* `Accounting`, `UsageLedger` - what accounting promises, and the refinement
  mapping from the collector.
* `MCNodeReconciler`, `MCConfigs`, `MCControlPlane`, `MCUsageCollector` -
  instances for TLC.
* `InformerProofs`, `NodeReconcilerProofs`, `EngineProofs`, `ControlPlaneProofs`,
  `ConfigLocalityProofs`, `StatusProofs`, `ConfigFlowProofs`, `UsageProofs` - the
  lemmas and theorems (see "What is proved").

### NodeReconciler and the code

`Reconcile` is split at its API calls, because anything may happen between two
of them: `pc` names the next call, `node` and `cfg` are the local variables it
carries along. Actions have the names of the Go methods: `handleDeletion`,
`AddFinalizer` (inline in `Reconcile`), `updateNodeReadyStatus`,
`ensureCredential`, `collectInput`, `reconcileConfigMap`, `reconcilePod`,
`reconcileServices`, `updateStatus`. `updateNodeReadyStatus` and `updateStatus`
read the node anew, as the code does, so they may write to a newer generation
than the one the config was computed from. Each call can be refused (`Accepts`)
or fail (`ApiError`); an error or a requeue puts the key back.

The watches of `SetupWithManager` are the `...Event` actions. All of them queue
the key except `SecretEvent`: the Secret watch maps only Secrets that an
ExternalOutbound refers to, so the relay credential is picked up by chance or by
`Resync`. Users, kubelet, garbage collector and operator crashes are the
environment.

What is abstracted: a config is identified with the inputs `Compute` read, and
with its hash (no sha256 collision). Everything `collectInput` reads apart from
the node and its own Secret is one value, `peers`, delivered as one cache; a
spec is the part that enters the config (`cfg`) and the part that only the pod
template reads (`host`). Back-off delays, metrics and events are left out, and
so is `setDegraded`, which is reached only if encoding a config as JSON fails.
`peers` stands for what the watches of `SetupWithManager` report; what those
inputs are, and who wakes the node for which of them, is `ControlPlane`'s subject.

### ConfigEngine, ClientConfig, Configs and the code

A cluster is a record of functions from names to objects. `collectInput(c, n)` is
what the node controller gathers for node `n`, `Compute(input)` the config,
builder by builder under the names of the Go functions. The tag `outbound-<name>`
is the name; lists whose order sing-box does not see are sets. The order of
policy rules is kept as a relation, the pairs of policies of which the first goes
first, and the client's rules as blocks in order, for a sequence made by sorting
cannot be reasoned about without induction. `DeriveAuth` is an injective pairing
of protocol, UUID and target: the client and the node must derive from the same
three, and no hash collision is assumed. `handleClientConfig(c, uuid, template)`
is the status and the content of the API's answer, a template being the kinds of
its rules, its rule sets and its DNS servers. `Input.Routes` is left out because
the controller never fills it.

In `Configs` a step is an edit of one field that the kind's webhook admits, a
creation, a deletion, or a write a controller makes (`nodeStatus`,
`EnsureNodeCredential`, `policyStatus`). Policy status is a write of its own, so
every state in which it lags behind the resources is there.

### ControlPlane and the code

Each controller has a workqueue (a set of names) and one worker, the manager's
default. `...Event` actions are the watches: the cache moves on, then the mappers
run on the caches as they are, for the old and the new object, behind the
predicates of each `SetupWithManager`. An update made from an outdated copy is
refused; one that changes nothing makes no event. The EgressPolicy and User
passes are split at their API calls (`policyPass`, `policyUpdateStatus`, one
`policyTrigger` for each node; likewise for users); the UserGroup and
ExternalOutbound passes have one read of the caches and are one step. A node
pass is one step here, its interior being `NodeReconciler`'s. The trigger
annotation is the clock in seconds. `Restart` gives up the passes under way,
lists every kind and queues every key.

Two ghosts record what the code has no way to notice. `seen` holds the inputs of
a node's config that wake nobody, as its last pass saw them: relay credentials,
user Secrets, and the names of SingBoxNodes in other regions. `missed` holds the
nodes and users whose trigger fell into the second of an earlier one and made no
event, and the users for whom an inbound node came or went (`UsersMiss`), which
the User controller does not watch. The invariants say which of these they leave
out; the liveness property leaves out nothing.

### UsageCollector and the code

A poll cycle is `Discover`, one `QueryNext` for each target, and the end of the
cycle: `NoRecords`, `Write`, `WriteFails` or `WriteCancelled`. Every unit of
traffic is a token, so that a counter or a byte field is a set and a lost or
doubled unit cannot be hidden in a sum. `RecordsOf` is the merge into
`recordIndex`, `DocumentKey` the id of a document, `Creates` and `ItemStatus`
what Elasticsearch answers to a `_bulk` request of `create` items,
`evaluateBulkResponse` what the code makes of it.

Assumptions: `collectedAt` (nanoseconds) differs between any two cycles; each
node's address leads to that node's sing-box; the order of targets is left open.
A failed or empty discovery changes nothing and is not a step. The user list
that discovery computes has no reader and is left out.

## What the runs check

| Run | What may happen | Properties |
|---|---|---|
| `node_safety` | 2 edits and an operator crash; an edit, a container start and a crash; or deletion and re-creation with either spec | `TypeOK`, `RolloutOrder`, `NoLostEdit`, `NoLostWakeup`, `NoStuckDeletion`, `StatusNeverGoesBack` |
| `node_convergence` | an old Service with: peers or health change and one failed call, or peers change and an eviction; or deletion and re-creation; or a role edit | `EventuallyConverged` |
| `configs` | every sequence of 3 edits, deletions, status and Secret writes | `TypeOK`, `RulesHaveOutbounds`, `OutboundsRespectGates`, `RoutedUsersAreCounted`, `AcceptedIsRendered`, `AdmittedSpecsAreValid`, `AdvertisedPathsAreServed`, `ClientModesHaveSelectors` |
| `control_plane` | a script of up to three edits that meet in a config, a status or a trigger, in any order, or an edit and an operator restart in the midst of a pass, with 2 seconds told apart | `TypeOK`, `ConfigsFollowTheirInputs`, `PolicyStatusesAreCurrent`, `VerdictsAreCurrent`, `UserStatusesFollowGroups`, `NoEditIsUndone`, `RestsWithCurrentConfigs` |
| `usage_faults` | expired lease (two collectors), lost answer, partial or failed write, cancellation, crash, pod restart | `TypeOK`, `CountedOnce`, `BilledToItsUser`, `AckedIsStored`, `ImplementsAccounting` |
| `usage_outage` | a dead node, a failed query, failovers | `EventuallyCollected` |

Watch events, resyncs, pod termination and garbage collection are unbounded and
interleave freely with all of these.

Six runs show where the code departs from what is written about it:

* `node_flip` - *"ConfigHash is the sha256[:16] of the current sing-box config"*.
  The spec goes A, B, A; the pass for B writes the ConfigMap and then gives up;
  a container restart loads B; the pass for A restores the ConfigMap, finds the
  annotation A on the pod and keeps it. sing-box runs B, the status says A, and
  nothing is left to do.
* `node_move` - *"NodeRef is the name of the Kubernetes Node this proxy runs
  on"*. `nodeRef` is not part of the hash that decides whether the pod is
  replaced.
* `usage_loss` - delivery is planned as at-least-once with `reset=false`; the
  code resets counters as it reads them and drops a batch whose write fails.
* `usage_shutdown` - *"ShutdownTimeout is the maximum duration the collector
  waits for in-flight flush operations"*; the write's context is a child of the
  cancelled one, so a batch in hand at shutdown is given up.
* `configs_policy` - *"All active route policies share the single ai selector;
  unavailable paths reject traffic."* The rule names `ai` by the target's client
  group; the selector is built from the user's paths. A target that is offline or
  out of reach leaves a rule for a selector that is not there.
* `control_plane_policy` - *"Resolve against current resources, not potentially
  stale policy status."* The engine then takes the status first. Status changes
  are filtered from the node's watch, and the trigger that makes up for it is a
  no-op if it is the second within a second: the node rests with the old target.

Exceptions written into the properties are behaviours of the code too:

* A dual-role node that its own `allowedOutbounds` leaves out still has users and
  rules for itself, but no outbound (`RulesHaveOutbounds`); a policy may also
  route to the node itself past that list (`OutboundsRespectGates`).
* A policy to an ExternalOutbound with a SingBoxNode's name lets users in whose
  traffic is not counted (`RoutedUsersAreCounted`).
* A policy's rule names no users: it takes the matching traffic of everybody the
  node lets in, a user whose group denies the target included. No property
  relates groups to policies.
* An ExternalOutbound that is not accepted, or a node still without its relay
  credential, is advertised to clients (`AdvertisedPathsAreServed`).
* A changed user Secret, or a peer's relay credential that came late, wakes no
  node before the resync (`ConfigsFollowTheirInputs`); a SingBoxNode taking an
  ExternalOutbound's name leaves its Accepted condition (`VerdictsAreCurrent`);
  nodes that come and go leave ActiveNodes (`UserStatusesFollowGroups`).

### Bounds

One node is enough for `NodeReconciler`: keys are reconciled independently and
other nodes enter only as `peers`. Two spec values are the least that tell an
edit from its absence, and two edits the least that return to an earlier value.
Two uids (one re-creation) show every confusion of an old node's objects with
the new one's. `Starts` gives each start of a run a budget of faults that
interact (`...Limits`); the proofs below have no budget bound.

`Configs` has an entry and exit node, a second exit, an ExternalOutbound and one
that may take a node's name, a policy that routes and one that rejects, a user in
a group. Every field of every spec has a value that matters (`MCNodeFields` and
so on). `MaxEdits` = 3 reaches every combination of two edits with a late status
or Secret write; the proofs hold for all.

`ControlPlane` starts at rest with an inbound node, an outbound node, an
ExternalOutbound, a policy, a user and a group; `Scripts` are sets of edits that
can disturb each other, and every kind of resource is edited in one of them.
`MaxClock` = 2 gives triggers in the same second and in different ones.

For the collector, two units are the least that can share or swap a record, two
nodes and two outbound nodes the least that can be confused, two replicas the
least that can collect at the same time; four clock readings allow four cycles
whose results are kept. Deadlock is left unchecked in the node runs, because a
deleted node, or one whose budget is spent, may rest for good, and in the
`configs` runs, which end with their edits.

Symmetry is used in safety runs only: in `node_safety` every spec value has the
outbound role, so they are interchangeable.

### Fairness

`NodeReconciler`: the worker does not stall, watch events arrive, informers
resync (controller-runtime's default period of ten hours), kubelet finishes
terminations and the garbage collector runs. Nothing is assumed of users, faults
or container restarts. `ControlPlane`: informers deliver, some controller goes on
if one can, and the SingBoxNode informer resyncs; nothing is assumed of edits or
of the clock. `RestsWithCurrentConfigs` needs the resync: without it the inputs
that wake nobody stay unseen. `UsageCollector`: a running collector takes its
next step, a free lease is taken, and a cancelled collector stops in the end
(strong fairness: Go's `select` chooses at random between `ctx.Done()` and a
ready tick, and the manager waits only for its graceful-shutdown period).

## What is proved

All theorems hold for every value of the constants under the modules' named
assumptions: any number of objects, edits, faults, replicas and seconds. The
assumptions say that the constants are the sets and objects the modules take them
for (`ConstantsAssumption`, `NoneAssumption`, `UsageAssumption`, `NoneIsNoOrigin`,
`FieldsAssumption`, both `StartAssumption`s, `ScriptsAssumption`,
`ClockAssumption`), and, for `ControlPlane`, that the story begins with statuses
the controllers would write (`StartAtRest`). TLC evaluates all of them.

**One node** (`NodeReconcilerProofs`).

* `TypeCorrect`, `NoEditIsLost`, `StatusIsMonotonic`. `TypeInv` adds to `TypeOK`
  what a pass carries at each `pc`. The other two rest on a lemma about what a
  step may do to the version the API server holds: since a write from an old copy
  is refused, an operator write changes just its own fields of that version. For
  monotonicity `ObservedInv` adds that observedGeneration never runs ahead of the
  generation.
* `RolloutIsOrdered`. `RolloutInv`: each version of the ConfigMap holds a
  published config and each version of the Pod a rolled-out one, since passes
  decide by cached versions; and from the Pod step on, `cfg` has been published.
* `NoWakeupIsLost`, `NoDeletionIsStuck`. `WakeupInv`: as long as the key is not
  queued, no watched cache has moved since the pass began, so what the pass found
  or wrote still holds of every object without an outstanding event (`PassInv`),
  and holds when it ends (`RestInv`).

**Configs of any cluster** (`EngineProofs`).

* `TypeCorrect`, `AdmittedAreValid`. `Inv` is `TypeOK` and that every stored
  ExternalOutbound passed its webhook; each action is one `Store`, for which it
  is shown once.
* `RulesHaveTheirOutbounds`, `GatesHold`, `UsersAreCounted`,
  `AcceptedAreRendered`, `PathsAreServed` hold of any well-formed cluster,
  whatever the edits. The lemmas say what `collectInput` lets into each of its
  maps and what each builder makes of them; a policy's target, from the status or
  not, is an outbound only if it is in one of the maps, and that is where the
  gates were applied. `PathsAreServed` follows a path from the client API's rule
  through the entry node's config to the exit node's relay inbound.
* `ModesHaveSelectors` - every 200 answer of the client API names only selectors
  it contains, for every cluster and every template.

**The control plane.** The controllers share no state but the stored objects, so
each theorem about them rests on an invariant of the form "what is not as it
should be is still to be done".

* `ControlPlaneTyped`, `EditsAreKept` (`ControlPlaneProofs`). `Histories`: every
  version a cache holds or is still to receive is a well-formed set of objects,
  and from one version to the next a changed spec has a changed generation, which
  is what lets the generation predicates stand for the specs. An update that is
  accepted was made from the version now stored, so it changes what it set and
  nothing else: `NoEditIsUndone`.
* `VerdictsCurrent`, `PolicyStatusesCurrent`, `UserStatusesCurrent`
  (`StatusProofs`). `VerdictInv`, `PolicyInv` and `UserInv` say of every cached
  object: its copy is out of date, or its key is queued, or a pass is on the way
  with the right answer, or the status holds. At rest only the last is left. The
  heart of each proof is that an event which could move the answer passes the
  predicates of `SetupWithManager` and queues the key (a changed label or
  generation for policies; the group's patch for users), and that a refused
  update is one after which an event is outstanding.
* `ConfigsFollow` (`ConfigFlowProofs`). `ConfigInv`: a node to which nothing is
  owed - no event, no key, no trigger of a policy that selects it - has the config
  its cached inputs ask for. `ConfigLocalityProofs` shows what those inputs are:
  two clusters that agree on what is near the node (`Alike`) give it the same
  config, whatever else they hold. Each kind of event then either wakes the node
  or leaves it with a cluster alike the old one, and this is where the mappers'
  reach and the engine's are compared. A policy's status, which the node watch
  filters out, counts as owed until its pass has triggered the node.

**Accounting** (`UsageProofs`).

* `NothingIsCountedTwice`, `BillsAreRight`, `WriteKeepsItsContract`,
  `UsageTypeCorrect`. `CountInv`: counters, batches and documents are pairwise
  disjoint and attributed; `IdInv`: collection times are not shared, so ids do not
  collide. Every action is one of four abstract steps (it drains counters into a
  batch, settles a batch, forgets units, or carries new ones), and the invariants
  are shown for those.
* `CollectorImplementsAccounting`. From these invariants, every step of the
  collector is, under the mapping of `UsageLedger` (open: in a counter or a batch;
  bills: what the documents say), a step of `Accounting` or a stutter.

Every safety property a passing run checks has its theorem. Only model-checked
are the three liveness properties, `EventuallyConverged`,
`RestsWithCurrentConfigs` and `EventuallyCollected` (fairness and ENABLED are out
of the prover's reach), and, of course, the six violations.

## Not modelled

* **Operator restarts in `ControlPlane` between passes**: they list every kind
  anew and queue every key, which only adds passes. The resyncs of the other
  informers are left out too: no property counts on them.
* **Concurrent requests against the client API**: an answer reads one snapshot
  of each cache; `Configs` compares client and node configs of one cluster, so
  the moments in which caches differ are not compared.
* **Webhook rules on single strings and numbers** (addresses, port ranges,
  duplicates, name syntax). The conflict of a relay port with a protocol port is
  checked neither by them nor here.
* **Discovery's address fallback** (`discovery.go:221`): hosts and addresses are
  not modelled, each node's endpoint is its own.
* Left out for good: HTTP and TLS set-up, flags, JSON layout, the CLI, metrics,
  generated code.
