# rstream-operator in TLA+

Formal models of the rstream operator: the manager's two controllers, the agent
that serves a tunnel, and the Kubernetes machinery they meet in. TLC checks the
models on small instances, TLAPS proves the theorems for every value of the
constants. `PROJECT.json` lists the runs, the line of source that each
definition models, and the hazards; this file explains how it fits together.

Run anything from this directory:

    tlc -workers 2 -config AgentRunner.cfg AgentRunner
    tlapm TunnelStatusProofs.tla

## The system

A user writes an `RstreamConnection` (how to reach an rstream project) and
`RstreamTunnel`s (what to publish through it). The *manager* resolves the
references of a tunnel and creates five children for it; the Deployment among
them runs one *agent*, which opens the tunnel at the rstream *engine* and
forwards its traffic to a Service. Manager and agent both report in the status
of the tunnel.

| Component | State | Operations | Meets others through |
|---|---|---|---|
| Tunnel reconciler (`rstreamtunnel_controller.go`, `service.go`) | none of its own: cache, work queue, the object read | `Reconcile`: finalizer, validation, resolution, `applyChildren`, `markReconciled`, `markTunnelBlocked`, `markTargetBlocked`, `finalize` | the API server through a lagging cache |
| Connection reconciler (`rstreamconnection_controller.go`) | likewise | `Reconcile`, `markConnection`, `markConnectionMissing`, the map from Secrets | the API server, the Control plane |
| Connection resolver, references (`connection_resolver.go`, `refs.go`) | none | which Secrets count, Control plane or explicit engine | both reconcilers call it |
| Status writers (`controller/status.go`, `agent/status.go`) | the copy read before the patch | merge patch from the cache without `resourceVersion`; merge patch with it, with retry | one status, two writers |
| Children and configuration (`internal/resources`, `internal/agentconfig`) | five objects per tunnel | names from a hash of the UID, apply, config hash | owner references, the pod template |
| Agent process (`cmd/rstream-agent`, `health.go`) | context, health server, readiness | start, signal, failure of the server, end | kubelet, probes |
| Agent runner (`runner.go`, `open_tunnel.go`) | control channel, tunnel, confirmed hostname | retry loop, session, discovery of the serving domain, deferred closes | engine, status |
| Agent backoff, configuration, properties, client | the interval; the parsed file | waiting, `ValidateConfig`, `TunnelProperties`, `NewRstreamClient` | the runner calls them |
| Agent proxying (`runner.go`) | per connection: two sockets, two copiers, the channel `done` | `serveWithContext`, `serveTCP`, `serveUDP`, `proxyTCP`, `proxyUDP` | engine and Service, the runner's context |
| API types (`api/v1alpha1`) | none | CRD defaults and CEL rules | everything a user submits passes them |
| Watches and map functions | which key an event enqueues | `For`, `Owns`, four `Watches` | caches and queues |
| Manager process (`cmd/manager`) | the leader lease, off by default | start, stop | two managers may run |

Not part of the models: the generated deep copies, the Helm chart, the Kustomize
configuration, the release and smoke-test scripts. They hold no protocol state.

### What is hard here

* **Two writers, one list.** `conditions` is one field of a JSON merge patch.
  The manager computes its list from a cache and sends no `resourceVersion`, so
  it can overwrite what the agent stored meanwhile (`status.go:31`). The agent
  locks optimistically and retries (`agent/status.go:178`).
* **Lag.** Every read of the manager is cached. It may add a finalizer to a
  tunnel that is gone, create a child that exists, stamp the generation of one
  read on the outcome of another, or finalize a tunnel of the same name.
* **Dropped errors.** The blocked paths ignore the error of their patch and
  return nil, and every resolver error counts as a verdict on the spec, an outage
  included.
* **Crashes.** Neither process persists anything but Kubernetes objects: the
  hostname of a tunnel survives an agent in the status alone.
* **Quotas.** A project may be allowed one tunnel, so a session that leaks one,
  or opens two during discovery, can never reconnect.
* **Rules written three times.** What a spec may say is checked by CEL rules, by
  `validateTunnelSpec` and by `TunnelProperties`, and whether it needs TCP or UDP
  is inferred in three functions of two processes. Nothing keeps them in step.
* **Half-open connections.** A proxied connection is four goroutines and two
  sockets; the first end of a stream has to release all of them, and nothing before.
* **Two managers.** `--leader-elect` defaults to false (`cmd/manager/main.go:43`;
  the shipped manifests pass it).

### What makes each part correct

* Status: the manager's verdict is that of the latest spec and references once
  no work is pending, it never goes back to an older generation, the agent
  never damages the manager's conditions, Ready never contradicts TunnelReady,
  and the two writers do not wake each other for ever.
* Lifecycle: children exist only under a stored tunnel with a finalizer; the
  Deployment never lacks what its pod needs; deletion ends and spares later
  tunnels of the name; children that are lost come back.
* Agent: no path leaks a tunnel or channel; reports, readiness and traffic keep
  their order; the hostname is stable; the process ends when told to and
  otherwise serves in the end.
* Rollout: once no work is pending, what a reconciled tunnel has stored, and what
  its pod has read, is made of the stored inputs; a change of any of them gets
  there without a restart by hand, and nothing else restarts the agent.
* Publishing: the manager turns down what it should, what it hands on is
  consistent at every hop, and the agent refuses only what neither CRD nor manager
  looks into.
* Proxying: no connection is cut before one direction of it ended or failed, none is
  left behind, serving ends on request.
* Connection: the status belongs to one resolution of the stored spec and
  Secrets once no work is pending, and follows the Control plane in the end.

## Modules

| Module | Models | Built on |
|---|---|---|
| `TunnelStatus` | the status of one tunnel with both of its writers | |
| `MCTunnelStatus` | TunnelStatus from a tunnel that is already up | TunnelStatus |
| `TunnelStatusProofs` | its theorems | TunnelStatus |
| `TunnelSession` | abstract: what an agent promises of its sessions | |
| `AgentRunner` | the agent's process, loop and session; implements TunnelSession | TunnelSession |
| `AgentRunnerProofs` | its theorems, the refinement among them | AgentRunner |
| `TunnelLifecycle` | finalizer, children and deletion of the tunnels of one name | |
| `TunnelLifecycleProofs` | its theorems | TunnelLifecycle |
| `ConnectionStatus` | the status of one connection | |
| `MCConnectionStatus` | its small Secrets, specs and Control planes | ConnectionStatus |
| `ConnectionStatusProofs` | its theorems | ConnectionStatus |
| `ConfigRollout` | how connection, Service, Secrets and tunnel reach the pod | |
| `MCConfigRollout` | its two kinds of connections | ConfigRollout |
| `ConfigRolloutProofs` | its theorems on types, the hash and the settled children | ConfigRollout |
| `OrderedRollout` | abstract: the order in which versions are published, stamped and run | |
| `ConfigOrderProofs` | the theorems on that order and the pod, the refinement among them | ConfigRolloutProofs, OrderedRollout |
| `TunnelRules` | what CRD, manager and agent check and infer, as operators | |
| `AgentProxy` | the agent's accept loop and connections | |
| `AgentProxyProofs` | its theorems | AgentProxy |
| `Publishing` | a spec's way from the user to the traffic | TunnelRules, AgentProxy |
| `MCPublishing` | its Services and targets | Publishing |
| `PublishingProofs` | its theorems | Publishing, AgentProxyProofs |

### The cluster, in all of them

What the API server stores is one variable per kind (`api`, `tunnel`,
`children`, `connection`, `secrets`). A change adds the kind to `unseen`, a set
of kinds with a watch event that the manager has yet to see; a `Sync` action
takes the event, copies what is stored *now* into the cache and enqueues the
key. Events of one object coalesce, but none is lost, and caches of different
kinds move independently: this is what an informer promises. A write that
changes nothing sends no event, as in the API server. The work queue of one key
is a boolean: controller-runtime merges requests of a key and never runs one
twice at once. A returned error puts the key back.

Versions are compared by comparing values: an update is refused unless what it
read equals what is stored. This can only let an update through that a real
version would refuse when a value returned to what it was, and such an update
stores what a fresh one would.

### TunnelStatus

`api`, `cache` and the copies `mgr.read`, `agent.read` are tunnels: generation,
validity of the spec, and a status of conditions (status, reason, generation),
`observedGeneration` and `lastError`. The steps of the reconciler are its reads
and writes, between which everything else may happen: read the tunnel, read
the references, apply the children, read the Deployment's availability, read the
cache again and compute the patch, send it. `ManagerStatus` gives the four
outcomes (`markTunnelBlocked`, `markTargetBlocked`, `markReconciled` with and
without an available Deployment). `Merge` is the merge patch: each top-level
field that differs between the copy and the computed status replaces the stored
one. The agent's report reads the API server, computes, and patches only if its
read is still the stored one (`fresh`), else it reads again. The Deployment
carries the generation it was built from; its pod is replaced when it changes.

Left out are fields that a single writer decides alone (target, rstreamName,
agentDeployment, tunnelID, forwardingAddress); messages are kept only where
`SetStatusCondition` tells two apart, as reasons of their own.

### AgentRunner and TunnelSession

One program counter for the runner's goroutine, which is where it is in `Run`,
`runOnce` or `openTunnel`; deferred calls are the states `closeTunnel` and
`closeCtrl`, which every return passes. `Fails` is the error path of each call.
The health server and the signal are actions beside it. `naming` says where the
hostname comes from: set in the spec, derived by the SDK, found through a
discovery tunnel, allocated by the engine, not applicable (TCP), or rejected.
Hostnames are six values: none, one fixed by configuration, two that the engine
allocates, and the guess earlier controllers stored. The engine is external: it
holds at most `Quota` tunnels, those of lost agents (`orphans`) until they
expire.

`TunnelSession` is the abstract specification: four variables and nine actions
that say in which order an agent may announce, be ready and serve. AgentRunner
implements it under `running <- pc # "down"`, `announced <- status.report`,
`serving <- pc = "serving"`, `ready <- ready`.

### TunnelLifecycle

An incarnation is a UID; `created` counts them, all under one name. `mgr[m]`
holds the pass of manager `m`: the tunnel it read, the kinds it has yet to
apply or delete, and where it is. The pass follows `Reconcile`: not found and
deleted without finalizer return, `finalize` marks the status and deletes in
its own order, a tunnel without finalizer gets one and the pass ends, a
blocked tunnel is patched, else the five kinds are applied in order and the
status is patched. What the status holds does not matter here, but that a write
to it moves the version does: the finalizer's update conflicts with it. So the
model keeps one bit of it, whether Ready says Finalizing. That bit is written by
name, and may land on the next tunnel of the name (`SettledIsNotFinalizing`).

The hash in the names of children is taken to be injective on UIDs. A restart
of a manager lists everything anew. `CallFails` is any failed request.

### ConnectionStatus

Specs reference Secret keys for the token, for mTLS files and proxy credentials
and for Control plane headers; each reference is absent, blank or accepted. The
reconciler reads the cached connection, then the Secrets one by one in any
order while their cache moves, asks the Control plane, reads the cache again
and patches it field by field. A Secret's event wakes the connection only if
the *cached* spec references it (`referencesSecret`). `Planes` are the answers
of the Control plane, a map from regions to engines; a change of it sends no
event. `Resync` is the informers' periodic resync.

### ConfigRollout

`stored` holds the inputs: the tunnel, with the connection and the Service it
names, the connections with the Secrets they refer to, Services and Secrets.
Contents are stamps, new at each change, and the hash stands for what is hashed.
`inputs` is their cached copy, each object of which moves by itself; a map
function (`SyncConnection`, `SyncService`, `SyncSecret`) consults that copy as it
is when the event is handled. The reconciler's steps are its reads, one object at
a time in the order of `resolveConnection` and `resolveTarget` (the Secrets in any
order), and its writes: the ConfigMap, then the Deployment. `Apply` is
`createOrUpdate` on a cached child: it sends nothing if that one is as wanted, and
is refused if it is not the stored one. The three children between them do not
depend on the inputs and are left to TunnelLifecycle.

`AgentSecretRefs` (hashed), `SecretRefs` (read), and `AgentEnv` with
`AgentVolumes` (what the pod needs to start) are kept apart as in `refs.go` and
`workload.go`: that they fit together is a property. A pod reads the ConfigMap
and its Secrets when its container starts, which may be between any two writes; a
restarted container may see the old or the new contents.

`OrderedRollout` is the abstract specification: four variables, for the version of the
configuration that is published, the one stamped on the template, the one of the template
the pod was made from, and the one the pod runs. It says in which order they may
follow each other. `Below` orders configurations: by the settings of the tunnel, and
under the same settings by target, connection and engine. ConfigRollout implements it under
`published <- children.ConfigMap`, `template <- children.Deployment.config`,
`made <- pod.template.config`, `runs <- pod.config`.

Assumed: users do not set `rstream.io/config-hash` in `podAnnotations`, which
would override the hash, and a value that was changed does not come back. The
second matters. If an edit is reverted after a container restarted on the new
ConfigMap and before the Deployment was written, the template never changes and
that container keeps the reverted configuration. The window is two writes wide.

### TunnelRules and Publishing

`TunnelRules` has one operator per function: the CRD's defaults and CEL rules
(`WithDefaults`, `Admitted`), `ValidateTunnelSpec`, the lookup of the Service
port, `BuildAgentConfig`, and in the agent `TunnelProperties` with its errors
(`RejectsProperties`) and the errors of `NewRstreamClient` (`RejectsClient`). A field
is reduced to what a rule tells apart: a hostname is unset, blank or given. Where the
rule is the SDK's, whose source is not here, a value is valid or invalid and any
value may be either: a CORS policy (`httpcors.Normalize`, which refuses wildcards,
paths and other schemes than HTTP), the transport settings
(`FlattenTransportWithError`), and the engine's address with the rest of what
`rstream.NewClient` is given. mTLS files are invalid if they hold no key pair or no CA
certificate. Fields that are copied without a rule are left out, and so are the
enumerations of protocol, type, HTTP version, TLS mode and TLS version: the constants
of the SDK, by which the agent parses them, are taken to be the words of the CRD.

`RefusedForKnownReasons` is about these checks of the agent, which it makes before it
connects: every error path of `TunnelProperties` and `NewRstreamClient` is a disjunct
of the two operators, and the property says which of them can be taken after CRD and
manager. What the engine refuses later is a failed session of AgentRunner.

`Publishing` hands one tunnel from hop to hop. `work` is what has been handed
on: the submitted spec, the stored one, the configuration, the request, and
where it ended otherwise: rejected by the API server, invalid, unresolved, blocked
on its target, refused by the agent. From `serving` on, `AgentProxy` takes over
with the type of tunnel that was requested. So `PortFitsTunnel` compares the
protocol of the port that the manager picked from the Service with what the agent
ends up forwarding, across three inferences and two processes. Failures on the way
and changes under way are the subject of the other modules.

### AgentProxy

Per connection a goroutine (`proxy`), the sockets that are open, those on which
calls fail (`broken`), the number of chunks that have arrived on each and not been
read, which peers have ended their stream, the two copiers and the content of
`done`. `proxyTCP` and `proxyUDP` have the same steps: a copier reads, writes,
and signals when either call fails or the stream has ended; the proxy
waits for one signal and closes outbound, then inbound, which makes the other
copier fail. What differs is that datagrams get lost and have no end
of stream. `serveWithContext` is `server`, the accept loop `accepter`; a session
that ends and is opened again finds the connections of the one before still there.

When the stream of one direction ends, the agent also closes the other one: a
client that half-closes its connection and then waits for the answer loses what
has not been forwarded yet. No document speaks of it, so `CutsNothing` allows it.
UDP peers have no idle timeout; when their sockets end is up to the engine's SDK.

## Runs

| Run | Specification, bounds | Shows |
|---|---|---|
| `status_startup` | from nothing; one disturbance of six kinds; 428 thousand states | types; the settled status is that of the stored spec and references; both writers come to rest |
| `status_steady` | from a tunnel that is up; two disturbances of seven kinds; 1.3 million states | Ready implies TunnelReady in the store and in every copy; the agent keeps the manager's conditions; verdicts do not go back; failed patches are retried |
| `status_resolved` | from nothing; one disturbance | a statement of the documentation does not hold, see below |
| `status_dropped` | from a tunnel that is up; a reference that goes away and a failed patch | likewise |
| `status_lost_update` | from nothing; no disturbance | likewise |
| `agent` | all six namings, quota 1, three failing calls, three ends; 41 thousand states | the eight properties of the agent |
| `lifecycle` | one manager, four kinds (all but the Role), two incarnations, two disturbances: a Deployment is deleted, a restart, a failed call; 213 thousand states | no orphans; the Deployment always has what its pod needs; deletion ends, children come back |
| `lifecycle_two_managers` | two managers, one kind, two incarnations, one deletion; 446 thousand states | without leader election deletion ends and nothing remains; a stale finalize spares the next tunnel's children and its mark is corrected |
| `connection_status` | two Secrets, three specs, three Control planes, three disturbances; 704 thousand states | the settled status is one resolution of what is stored, and follows the Control plane in the end |
| `config_rollout` | two connections with different uses of two Secrets, one Service, two disturbances of any kind; 826 thousand states | the hash tracks the pod's Secrets; a settled, reconciled tunnel is rolled out and its pod is current; the rollout completes |
| `publishing` | every spec, every connection, six Services, three ways to name a port, one proxied connection, buffers of two; 161 thousand states | the hops agree; the agent's own checks refuse only what CRD and manager do not look into; a proxied connection is closed only after one direction ended or failed, and not left behind; serving ends |
| `accepted` | the same | an accepted spec that the agent refuses |

Why these bounds suffice. A conflict needs two writers and one write between a
read and its patch, so a single disturbance reaches each race of the startup;
the second of `status_steady` gives one race on top of another, such as a
restart in the middle of an edit. Two incarnations are what it takes for a name
to be reused, two managers for anything between managers, one deletion for one of them to work
on a cache that is a whole incarnation old (`MaxDeletions`), and one kind is
enough where the properties speak of each child by itself. The order among
children needs several: `lifecycle` has the Deployment and the kinds its pod needs;
the Role is next to the RoleBinding in both orders. A second
disturbance of `config_rollout` changes what the first one made the tunnel
depend on, such as a Secret of the connection it was just moved to. The agent's path is determined by
which call fails, and three faults and ends let a session fail after a crash
after a failure. `publishing` enumerates
all combinations of what the rules tell apart; the Services have one port of each
protocol, and TCP and UDP under one number. Connections do not influence each other,
so one is enough, and two chunks are what it takes to have one on the way and one
that waits. Three disturbances of a connection reach an edit, the change
of a Secret and a failed patch in one pass. `CHECK_DEADLOCK FALSE` is set
everywhere since these systems do come to rest.

`MCTunnelStatus` starts from a tunnel that is up, which every undisturbed
startup reaches, so that the bound is spent on what happens afterwards.

### Fairness

* Watches deliver, and workers take their key: weak fairness of each `Sync` and
  of the reconciler's next step. Controller-runtime promises both while the
  manager runs. With two managers each has its own.
* The agent's goroutine goes on, the kubelet starts the container of a
  Deployment and counts it available, the engine expires tunnels of lost
  agents, the garbage collector collects.
* `Resync` of the connection and of the tunnel: informers resync, by default
  every ten hours. After an outage of the Control plane it is the only thing that
  makes `StatusConverges` and `RolloutCompletes` true, and ten hours may pass.
* The agent's goroutines run, a dial ends (after ten seconds), and a call on a socket
  that was closed or fails returns. A peer need not read: nothing is assumed of a
  copier's `Write`, which `ReleasesConnections` is about.
* A pod starts once what it refers to exists, and goes when the template changed.
* Nothing is assumed to fail or to be repaired: disturbances are bounded and
  unfair, so the liveness properties speak of what follows the last one.

## What the runs found

Four statements of the repository's documentation or comments are refuted, each
by a run with the expectation `violation`.

1. `OnlineIsReported` (`status_lost_update`): the manager's patch can overwrite
   the agent's Online report with a list computed from an older cache. The agent
   writes on transitions only, so a tunnel may serve for ever with
   TunnelReady=False. No fault is needed, only a lagging cache at startup.
2. `MissingReferenceIsReported` (`status_dropped`): the blocked paths drop the
   error of their patch. The run starts from a tunnel that is up: its connection or
   a Secret goes away, the manager sees it, the patch fails, and with an empty queue
   and no event under way the status still says Ready=True.
3. `ResolvedMeansReferencesExist` (`status_resolved`): a deleted connection
   leaves Resolved=True from before.
4. `AcceptedMeansValid` (`accepted`): `validateTunnelSpec` looks at TCP tunnels
   only. HTTP settings of another protocol, reliable delivery on a bytestream
   tunnel and a CORS origin with a wildcard or a path get Accepted=True and an agent
   that refuses them at every retry, whatever the connection.

More were met while reading and have no run: a failure clears `status.region`
(`rstreamconnection_controller.go:82`), which `rstreamconnection_types.go:96`,
`docs/002-api-reference.md:251` and `docs/004-troubleshooting.md:48` call that of the
last successful resolution (the properties of ConnectionStatus take no side: they ask
for the region only while the resolution succeeds); a
Service port named by number is the first of that number, so a tunnel that needs
UDP is blocked if TCP comes first (`TargetRejectedRightly` allows it); the backoff is never
reset; the agent stamps
`observedGeneration` with a generation no manager has reconciled; Online sets
Ready=True before AgentReady is True; and a reconciliation erases the
`lastError` of a Disconnected report. Each is corrected, or kept elsewhere in
the status, and `SettledStatusIsCurrent` bounds how long.

## What is proved

Theorems hold for all constants that satisfy the modules' assumptions: any
number of disturbances, faults and incarnations, any quota, any sets of Secrets
and connections, and, but for two theorems of TunnelLifecycle, any set of managers.
Three theorems exclude the failures whose errors the code drops, as they say.
No other axiom is used. All theorems have the shape: an invariant holds
initially, each action preserves it, and it implies the property.

**TunnelStatusProofs**

* `TypeCorrect`. Lemmas give the type of a merge and of each status a writer
  computes; then there is one step per action.
* `ReadyCoherent`: `ReadyImpliesTunnelReady`. It is inductive because it speaks
  of every copy a writer may send back, and because a patch carries the
  whole list or none of it.
* `AgentKeeps`: `AgentKeepsManagerConditions`. Its invariant is `FreshRead`: while
  nobody has written since the agent read, its copy is what is stored.
* `VerdictsAdvance`: `AcceptedGenerationMonotone`. Needs `FreshRead` and
  `VerdictOrder`, which orders the generations: no verdict in the store is newer
  than the cached spec, so a patch from the cache cannot go back.
* `ReconciledSettles` and `StatusSettles`: `SettledReconciledIsCurrent` and
  `SettledStatusIsCurrent`. The invariant (`SettledInv`) is `CachesFollow` and: while
  nothing is queued and no event is under way, the pass is made of what is stored
  (`PassIsCurrent`), and an idle manager leaves `api.status = ManagerStatus(api, OutcomeNow)`.
  That is a fixed point: a patch that changes the status sends an event, so a pass
  that ends in a quiet state has changed nothing, and `FixedPointIsCurrent` reads
  the property off the equation. Nothing has to be said of the other writer, whose
  every write is an event. The first theorem holds under any failure. The second,
  which covers blocked tunnels, assumes `"managerError" \notin Disturbances` and
  cannot do without: Reconcile drops the error of a blocked tunnel's patch.
* `MissingIsReported`: under the same assumption the documentation's
  `MissingReferenceIsReported`, refuted by `status_dropped`, is true.

**AgentRunnerProofs**

* `TypeCorrect`, and `NoSessionLeaks` (`SessionsDoNotLeak`, inductive as it is).
* `Implements`: every step of the agent is a step of TunnelSession or a stutter.
  The invariant `ReportsInOrder` says what is announced, and that the agent is
  not ready, at each point of a session.
* `GuessNeverRequested` and `HostnameKept`: from `HostnameInv`, that names come
  from the engine or the configuration (`NamesComeFromEngine`), and that once a
  name is proven the running session can only hold that name (`NameIsKept`).

**TunnelLifecycleProofs**

* `TypeCorrect`, for any managers. Types alone are not inductive: the update that adds the
  finalizer would make a tunnel of nothing. `ReadsTunnel` excludes it.
* `SparesOthers`: `FinalizeSparesOthers`, for any number of managers and
  any lag. The invariant (`CopiesKnown`, `FinalizesDeleted`): no copy is of a
  UID that was not created, a copy that says deleted belongs to a UID that is
  deleted or no longer stored, and `finalize` has read such a copy. `Evolves`
  states what makes it inductive: a deletion is not taken back, and a UID is
  never used twice. The names of children derive from the UID, so those deleted
  are not those of a tunnel that stays.

* `NoOrphans`: `ChildrenHaveOwner`, and `AlwaysEquipped`: `DeploymentIsEquipped`, for
  one manager (with two, one may create what the other has just deleted, and
  the garbage collector has to help). The first rests on
  `Owned`: a manager that applies has read the stored tunnel with its finalizer, and
  when one deletes, all that is left is what it has yet to delete. The second adds `Equipped`:
  an equipment child in the cache is stored unless the cached tunnel is
  being deleted, so an update never takes the place of a creation; with
  `Ranks`, that the Deployment comes last in one order and first in the other, this covers
  every interruption. It assumes that users delete no other child
  (`Disturbances`): if they do, the Deployment stays until the child is back.
* `SettledIsCorrected`: `SettledIsNotFinalizing`, for any number of managers, if the
  references resolve or no call fails. The invariant holds for each manager by itself
  (`Corrects`): one that has seen every event of the tunnel and has no key queued is
  in a pass that ends with a patch of Ready, or there is nothing to correct. A write of
  any manager is an event to all (`Announced`). What is excluded is the dropped error
  of a blocked tunnel again.

**ConfigRolloutProofs**

* `HashTracks`: `HashTracksPodSecrets`, for any connections and number of
  changes. The invariant (`Reading`) says what the reconciler knows at each point:
  the versions of exactly the agent's Secrets that it is done with. It ends in two
  facts about the helpers: `agentSecretRefs` names the Secrets `agentEnv` and
  `agentVolumes` refer to, and `secretRefs` holds them all.
* `TypeCorrect`, and `ReconciledRolledOut`: `ReconciledIsRolledOut`. The invariant,
  `SettledInv`, is `CachesFollow` (a cached object is the stored one unless its event is
  under way) and: when the tunnel is not queued and no event that would enqueue it is
  under way, what Reconcile has read so far, or has written, is `UpToDate`.
  Its heart is that a map function that consults a stale cache loses nothing: if it
  sees another connection, or other references, than are stored, then the event of the
  object it sees wrongly is still to come, and enqueues the tunnel itself.

**ConfigOrderProofs**

* `PodsAreCurrent`: `PodIsCurrent`. `SettledInv` says nothing of what a pod has read, at
  moments of its own choosing; what does is an order of stamps. The invariant
  (`OrderInv`) has five parts, each built on those before it: caches are behind what is
  stored (`CachesBehind`), what Reconcile has read is behind the caches
  (`ReadBehind`), the ConfigMap is behind what Reconcile is about to store
  (`ConfigForward`), template, pod and ConfigMap are in this order (`PodForward`), and
  so are the versions of Secrets in the template, the pod and the store
  (`SecretsForward`). In a settled state the two ends are equal, and so is what lies
  between (`BelowBoth`, `PodSettles`). `FirstStampsAssumption`, that what is stored
  at the start has the first stamp, is what makes a change newer than all before it.
* `ConfigStored`, the lemma that carries `ConfigForward`: a cached ConfigMap that looks as
  wanted but is not the stored one would have to be both older and not older than it, so
  `createOrUpdate` never skips a write that is needed.
* `RolloutMovesForward`: however far the caches are behind and whenever the manager
  restarts, neither the ConfigMap nor the template is replaced by one of an older
  configuration.
* `ImplementsRollout`: every step of ConfigRollout is a step of OrderedRollout or a
  stutter. It adds that the template is stamped with the ConfigMap that is stored at
  that moment, although the two are written by separate calls.

**ConnectionStatusProofs**

* `TypeCorrect`: a patch that is merged field by field into what was stored meanwhile is
  a status.
* `SettledIsCurrent`: `SettledStatusIsCurrent`, which leaves the region open after a
  failure. The same argument with other
  events: `CachesFollow`, and in a `Quiet` state what the reconciler has found out so far
  is `Current`, that is what the stored spec and Secrets give with an answer of
  the Control plane.

**AgentProxyProofs**

* `ProxyTypeCorrect`, and `CutsNoConnection`: `CutsNothing`. Its invariant
  (`Justified`) says of a proxy that waits that both its sockets are open, that what
  is in `done` was sent by a copier that has ended, and that a copier ends for
  a reason: a socket that failed, or a stream that is forwarded to its end.

**PublishingProofs**

* `TypeCorrect`, `PortFits`, `RejectedRightly`, `RefusalsKnown`,
  `RequestsCoherent`, from one invariant. `RefusalsKnown` is complete for the two
  functions of the agent it is about; of the SDK it assumes nothing but that the same
  input gets the same answer at every retry. `Handed` says what each hop may rely on: a
  stored spec is admitted and `Defaulted`, a configuration is `Sane`. The lemmas on
  the rules hold for every spec: `InferencesAgree` needs `Defaulted`, which is
  where the agreement of manager and agent depends on the CRD.
* `NothingIsCut`: the steps of Publishing are steps of ProxySpec or leave the
  proxying alone, so `CutsNoConnection` carries over.

**Only model-checked**: the liveness properties, since the prover has no reasoning
about ENABLED. Every invariant and action property of a passing run is stated by a
theorem. `status_steady` starts from a tunnel that is up, which `Spec` leads to, and
the theorems speak of `Spec`.

## Plan

Done, in the order of how much depends on them: TunnelStatus, AgentRunner with
TunnelSession, TunnelLifecycle, ConnectionStatus, ConfigRollout with the map
functions of the tunnel, TunnelRules, AgentProxy and Publishing; the proofs of every
safety property the runs check; OrderedRollout, which ConfigRollout implements.

Next, in this order:

1. An abstract specification of the reconcilers, *an object that a reconciliation
   read and that changed since leads to another one*, with ConnectionStatus and
   ConfigRollout as implementations.
2. ConfigRollout with values that come back and with `podAnnotations`, to say for
   how long and for whom the assumptions above can fail.
3. Composition: the agent of TunnelStatus replaced by the sessions of
   AgentRunner, with the abstract TunnelSession as the interface.

Not planned: waiting times of the backoff, the fields of the transport settings, packaging and
scripts. Generated code and the API machinery appear only as the behaviour the
code relies on.
