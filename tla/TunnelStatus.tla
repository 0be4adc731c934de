---------------------------- MODULE TunnelStatus ----------------------------
(***************************************************************************)
(* The status protocol of one RstreamTunnel.  Two processes write the same *)
(* status subresource: the manager's reconciler, which reads through an    *)
(* informer cache and sends a JSON merge patch that carries no             *)
(* resourceVersion, and the tunnel agent, which reads the API server and   *)
(* sends a merge patch that carries the resourceVersion it read.  A merge  *)
(* patch carries the top-level status fields that changed, and the list of *)
(* conditions is one such field.                                           *)
(*                                                                         *)
(* Only the data the protocol tells apart is kept: the generation of the   *)
(* spec and whether validateTunnelSpec accepts it, what the references     *)
(* resolve to, and of a condition its status, reason and generation.  The  *)
(* tunnel has its finalizer and is not deleted; the children other than    *)
(* the Deployment hold no status.                                          *)
(***************************************************************************)
EXTENDS Naturals

CONSTANTS
  Disturbances,     \* the kinds of disturbance that may happen
  MaxDisturbances   \* how many of them, of all kinds together

ASSUME DisturbancesAssumption ==
  /\ Disturbances \subseteq {"edit", "refs", "engine", "crash", "restart",
                             "managerError", "agentError"}
  /\ MaxDisturbances \in Nat

VARIABLES
  api,        \* the RstreamTunnel stored by the API server
  refs,       \* what the connection, Secrets and Service resolve to
  dep,        \* the agent Deployment stored by the API server
  unseen,     \* kinds of object with a watch event the manager has not seen
  cache,      \* the manager's cached RstreamTunnel
  refsSeen,   \* the manager's cached references
  depSeen,    \* the manager's cached Deployment
  queued,     \* the tunnel's key is in the manager's work queue
  mgr,        \* the reconciler: its program counter and local variables
  agent,      \* the agent's container: its program counter and locals
  left        \* disturbances that may still happen

vars == <<api, refs, dep, unseen, cache, refsSeen, depSeen, queued, mgr, agent,
          left>>
seen == <<cache, refsSeen, depSeen>>

-----------------------------------------------------------------------------
(* Conditions, status and merge patches                                    *)

CondTypes == {"Accepted", "Resolved", "AgentReady", "TunnelReady", "Ready"}

Blocks == {"InvalidSpec", "ConnectionMissing", "ServiceMissing"}

\* WaitingForReconnect stands for the reason WaitingForTunnel with the message
\* of Disconnected, NotReported for TunnelConnecting with the message of the
\* manager: SetStatusCondition tells messages apart.
Reasons == Blocks \cup
  {"", "Accepted", "Resolved", "DeploymentAvailable", "DeploymentPending",
   "TunnelConnecting", "NotReported", "TunnelOnline", "TunnelDisconnected",
   "Ready", "WaitingForTunnel", "WaitingForReconnect", "WaitingForDeployment"}

Condition == [status : {"True", "False", "Unknown"}, reason : Reasons, gen : Nat]

\* A condition that is not in the list has conditionStatus Unknown.
Absent == [status |-> "Unknown", reason |-> "", gen |-> 0]

Status == [observed : Nat, lastError : {"", "manager", "agent"},
           conditions : [CondTypes -> Condition]]

Tunnel == [gen : Nat, valid : BOOLEAN, status : Status]

NewStatus == [observed |-> 0, lastError |-> "",
              conditions |-> [t \in CondTypes |-> Absent]]

Set(conds, type, status, reason, gen) ==
  [conds EXCEPT ![type] = [status |-> status, reason |-> reason, gen |-> gen]]

IsTrue(conds, type) == conds[type].status = "True"

\* The status that is stored when the difference between before and after is
\* merged into stored.
Merge(stored, before, after) ==
  [f \in DOMAIN stored |-> IF after[f] = before[f] THEN stored[f] ELSE after[f]]

\* The status both writers start from: their read, observed at its generation.
WithStatus(tunnel, lastError, conditions) ==
  [observed |-> tunnel.gen, lastError |-> lastError, conditions |-> conditions]

-----------------------------------------------------------------------------
(* What the manager writes                                                 *)

\* Mutant: the declared but unused reason SecretMissing.
SecretBlocked(t, reason) ==
  WithStatus(t, "manager",
             Set(t.status.conditions, "Accepted", "False", "SecretMissing", t.gen))

\* markTunnelBlocked: Resolved is left alone.
TunnelBlocked(t, reason) ==
  LET accepted == Set(t.status.conditions, "Accepted", "False", reason, t.gen)
  IN  WithStatus(t, "manager", Set(accepted, "Ready", "False", reason, t.gen))

\* markTargetBlocked
TargetBlocked(t) ==
  LET accepted == Set(t.status.conditions, "Accepted", "True", "Accepted", t.gen)
      resolved == Set(accepted, "Resolved", "False", "ServiceMissing", t.gen)
  IN  WithStatus(t, "manager",
                 Set(resolved, "Ready", "False", "ServiceMissing", t.gen))

\* Mutant: Ready without a look at TunnelReady.
ReadyWithDeployment(conds, gen) ==
  Set(Set(conds, "AgentReady", "True", "DeploymentAvailable", gen),
      "Ready", "True", "Ready", gen)

\* markReconciled with an available Deployment: Ready follows TunnelReady.
WithDeployment(conds, gen) ==
  LET available == Set(conds, "AgentReady", "True", "DeploymentAvailable", gen)
  IN  IF IsTrue(available, "TunnelReady")
      THEN Set(available, "Ready", "True", "Ready", gen)
      ELSE Set(available, "Ready", "False", "WaitingForTunnel", gen)

\* markReconciled without one: a TunnelReady nobody reported becomes False.
WithoutDeployment(conds, gen) ==
  LET pending == Set(conds, "AgentReady", "False", "DeploymentPending", gen)
      reported == IF pending["TunnelReady"].status = "Unknown"
                  THEN Set(pending, "TunnelReady", "False", "NotReported", gen)
                  ELSE pending
  IN  Set(reported, "Ready", "False", "WaitingForDeployment", gen)

Reconciled(t, available) ==
  LET accepted == Set(t.status.conditions, "Accepted", "True", "Accepted", t.gen)
      resolved == Set(accepted, "Resolved", "True", "Resolved", t.gen)
  IN  WithStatus(t, "", IF available THEN WithDeployment(resolved, t.gen)
                                     ELSE WithoutDeployment(resolved, t.gen))

ManagerStatus(t, outcome) ==
  CASE outcome \in {"InvalidSpec", "ConnectionMissing"} -> TunnelBlocked(t, outcome)
    [] outcome = "ServiceMissing" -> TargetBlocked(t)
    [] OTHER -> Reconciled(t, outcome = "available")

(* What the agent writes                                                   *)

Report(t, lastError, status, reason, readyReason) ==
  LET tunnelReady == Set(t.status.conditions, "TunnelReady", status, reason, t.gen)
  IN  WithStatus(t, lastError,
                 Set(tunnelReady, "Ready", status, readyReason, t.gen))

AgentStatus(t, report) ==
  CASE report = "connecting" ->
         Report(t, "", "False", "TunnelConnecting", "WaitingForTunnel")
    [] report = "online" -> Report(t, "", "True", "TunnelOnline", "Ready")
    [] OTHER ->
         Report(t, "agent", "False", "TunnelDisconnected", "WaitingForReconnect")

-----------------------------------------------------------------------------
RefStates == {"resolved", "ConnectionMissing", "ServiceMissing"}
Outcomes == Blocks \cup {"", "available", "unavailable"}
Kinds == {"tunnel", "refs", "deployment"}

Deployment == [exists : BOOLEAN, gen : Nat, available : BOOLEAN]
NoDeployment == [exists |-> FALSE, gen |-> 0, available |-> FALSE]

\* gen is the generation of the tunnel the reconciliation read and applies,
\* read the copy patchTunnelStatus got.
Reconciler == [pc : {"idle", "resolve", "apply", "deployment", "get", "patch"},
               gen : Nat, outcome : Outcomes, read : Tunnel]

\* config is the generation the mounted configuration was built from, fresh
\* that the stored tunnel still has the resourceVersion of read.
Agent == [pc : {"down", "get", "patch", "dial", "serving", "backoff"},
          report : {"", "connecting", "online", "disconnected"},
          config : Nat, read : Tunnel, fresh : BOOLEAN]

NewTunnel == [gen |-> 1, valid |-> TRUE, status |-> NewStatus]
IdleReconciler == [pc |-> "idle", gen |-> 0, outcome |-> "", read |-> NewTunnel]
NoAgent == [pc |-> "down", report |-> "", config |-> 0, read |-> NewTunnel,
            fresh |-> FALSE]

Init ==
  /\ api = NewTunnel /\ cache = NewTunnel
  /\ refs = "resolved" /\ refsSeen = "resolved"
  /\ dep = NoDeployment /\ depSeen = NoDeployment
  /\ unseen = {} /\ queued = TRUE
  /\ mgr = IdleReconciler /\ agent = NoAgent
  /\ left = MaxDisturbances

Disturb(kind) == kind \in Disturbances /\ left > 0 /\ left' = left - 1

\* A write that changes nothing leaves the resourceVersion and sends no event.
StoreTunnel(tunnel, writer) ==
  /\ api' = tunnel
  /\ unseen' = IF tunnel = api THEN unseen ELSE unseen \cup {"tunnel"}
  /\ agent' = [writer EXCEPT !.fresh = @ /\ tunnel = api]

-----------------------------------------------------------------------------
(* Users and the cluster                                                   *)

\* A user changes the spec; CRD validation let the new one in.
EditSpec ==
  /\ Disturb("edit")
  /\ \E valid \in BOOLEAN :
       StoreTunnel([gen |-> api.gen + 1, valid |-> valid, status |-> api.status],
                   agent)
  /\ UNCHANGED <<refs, dep, seen, queued, mgr>>

\* A connection, Secret or Service is created, changed or deleted.
ChangeRefs ==
  /\ Disturb("refs")
  /\ refs' \in RefStates \ {refs}
  /\ unseen' = unseen \cup {"refs"}
  /\ UNCHANGED <<api, dep, seen, queued, mgr, agent>>

\* The Deployment controller counts the ready pods.
CountAvailable ==
  /\ dep.exists
  /\ dep.available # (agent.pc = "serving")
  /\ dep' = [dep EXCEPT !.available = ~@]
  /\ unseen' = unseen \cup {"deployment"}
  /\ UNCHANGED <<api, refs, seen, queued, mgr, agent, left>>

\* The Deployment's pod is started.  Strategy Recreate: there is no other.
StartAgent ==
  /\ dep.exists
  /\ agent.pc = "down"
  /\ agent' = [NoAgent EXCEPT !.pc = "get", !.report = "connecting",
                              !.config = dep.gen]
  /\ UNCHANGED <<api, refs, dep, unseen, seen, queued, mgr, left>>

\* A changed pod template: the pod is terminated, and the agent exits on
\* SIGTERM without another report.
ReplaceAgent ==
  /\ agent.pc # "down"
  /\ agent.config # dep.gen
  /\ agent' = NoAgent
  /\ UNCHANGED <<api, refs, dep, unseen, seen, queued, mgr, left>>

CrashAgent ==
  /\ Disturb("crash")
  /\ agent.pc # "down"
  /\ agent' = NoAgent
  /\ UNCHANGED <<api, refs, dep, unseen, seen, queued, mgr>>

-----------------------------------------------------------------------------
(* The manager's caches: an event updates the cache and enqueues the key   *)

SyncTunnel ==
  /\ "tunnel" \in unseen
  /\ cache' = api
  /\ unseen' = unseen \ {"tunnel"}
  /\ queued' = TRUE
  /\ UNCHANGED <<api, refs, dep, refsSeen, depSeen, mgr, agent, left>>

SyncRefs ==
  /\ "refs" \in unseen
  /\ refsSeen' = refs
  /\ unseen' = unseen \ {"refs"}
  /\ queued' = TRUE
  /\ UNCHANGED <<api, refs, dep, cache, depSeen, mgr, agent, left>>

\* Mutant: the Deployment is cached but not watched.
CacheDeployment ==
  /\ "deployment" \in unseen
  /\ depSeen' = dep
  /\ unseen' = unseen \ {"deployment"}
  /\ UNCHANGED <<api, refs, dep, cache, refsSeen, queued, mgr, agent, left>>

SyncDeployment ==
  /\ "deployment" \in unseen
  /\ depSeen' = dep
  /\ unseen' = unseen \ {"deployment"}
  /\ queued' = TRUE
  /\ UNCHANGED <<api, refs, dep, cache, refsSeen, mgr, agent, left>>

\* The manager dies; its successor lists every kind and enqueues every key.
RestartManager ==
  /\ Disturb("restart")
  /\ cache' = api /\ refsSeen' = refs /\ depSeen' = dep
  /\ unseen' = {}
  /\ queued' = TRUE
  /\ mgr' = IdleReconciler
  /\ UNCHANGED <<api, refs, dep, agent>>

-----------------------------------------------------------------------------
(* The reconciler                                                          *)

Goto(pc) == mgr' = [mgr EXCEPT !.pc = pc]
Decide(outcome) ==
  mgr' = [mgr EXCEPT !.pc = "get", !.gen = 0, !.outcome = outcome]

\* Mutant: what was enqueued during the reconciliation is forgotten.
ReturnAndForget == mgr' = IdleReconciler /\ queued' = FALSE

\* Reconcile returns; on an error the key goes back to the queue.
Return == mgr' = IdleReconciler /\ UNCHANGED queued
Requeue == mgr' = IdleReconciler /\ queued' = TRUE

\* Reconcile reads the cached tunnel and validates its spec.
StartReconcile ==
  /\ mgr.pc = "idle"
  /\ queued
  /\ queued' = FALSE
  /\ IF cache.valid
     THEN mgr' = [mgr EXCEPT !.pc = "resolve", !.gen = cache.gen]
     ELSE Decide("InvalidSpec")
  /\ UNCHANGED <<api, refs, dep, unseen, seen, agent, left>>

\* resolveConnection, then resolveTarget.
ResolveReferences ==
  /\ mgr.pc = "resolve"
  /\ IF refsSeen = "resolved" THEN Goto("apply") ELSE Decide(refsSeen)
  /\ UNCHANGED <<api, refs, dep, unseen, seen, queued, agent, left>>

\* applyChildren: CreateOrUpdate compares with the cached Deployment, and the
\* API server refuses to create a second one or to update an older one.
ApplyChildren ==
  /\ mgr.pc = "apply"
  /\ \/ /\ depSeen.exists /\ depSeen.gen = mgr.gen
        /\ Goto("deployment")
        /\ UNCHANGED <<dep, unseen, queued>>
     \/ /\ ~(depSeen.exists /\ depSeen.gen = mgr.gen)
        /\ depSeen.exists = dep.exists
        /\ dep.exists => "deployment" \notin unseen
        /\ dep' = [dep EXCEPT !.exists = TRUE, !.gen = mgr.gen]
        /\ unseen' = unseen \cup {"deployment"}
        /\ Goto("deployment")
        /\ UNCHANGED queued
     \/ /\ ~(depSeen.exists /\ depSeen.gen = mgr.gen)
        /\ dep.exists /\ "deployment" \in unseen
        /\ Requeue
        /\ UNCHANGED <<dep, unseen>>
  /\ UNCHANGED <<api, refs, seen, agent, left>>

\* deploymentReady: also an error, when the cache has no Deployment yet.
ReadDeployment ==
  /\ mgr.pc = "deployment"
  /\ \/ /\ depSeen.exists
        /\ Decide(IF depSeen.available THEN "available" ELSE "unavailable")
        /\ UNCHANGED queued
     \/ ~depSeen.exists /\ Requeue
  /\ UNCHANGED <<api, refs, dep, unseen, seen, agent, left>>

\* patchTunnelStatus reads the cache again ...
GetForPatch ==
  /\ mgr.pc = "get"
  /\ mgr' = [mgr EXCEPT !.pc = "patch", !.read = cache]
  /\ UNCHANGED <<api, refs, dep, unseen, seen, queued, agent, left>>

\* Mutant: an update instead of a patch of what changed.
UpdateStatus ==
  /\ mgr.pc = "patch"
  /\ api' = [api EXCEPT !.status = ManagerStatus(mgr.read, mgr.outcome)]
  /\ unseen' = unseen \cup {"tunnel"}
  /\ agent' = [agent EXCEPT !.fresh = FALSE]
  /\ Return
  /\ UNCHANGED <<refs, dep, seen, left>>

\* ... and merges what changed into whatever the API server holds by then.
PatchStatus ==
  /\ mgr.pc = "patch"
  /\ StoreTunnel([api EXCEPT !.status =
                    Merge(@, mgr.read.status, ManagerStatus(mgr.read, mgr.outcome))],
                 agent)
  /\ Return
  /\ UNCHANGED <<refs, dep, seen, left>>

\* Mutant: Reconcile drops every error of a status patch.
PatchErrorDropped ==
  /\ mgr.pc = "patch"
  /\ Disturb("managerError")
  /\ Return
  /\ UNCHANGED <<api, refs, dep, unseen, seen, agent>>

\* The patch fails: Reconcile drops the error of a blocked tunnel and returns
\* the error of a reconciled one.
PatchFails ==
  /\ mgr.pc = "patch"
  /\ Disturb("managerError")
  /\ IF mgr.outcome \in Blocks THEN Return ELSE Requeue
  /\ UNCHANGED <<api, refs, dep, unseen, seen, agent>>

-----------------------------------------------------------------------------
(* The agent                                                               *)

\* The next report of Runner.Run and runOnce, or what follows the last one.
Say(report) == [agent EXCEPT !.pc = "get", !.report = report, !.read = NewTunnel,
                             !.fresh = FALSE]
Proceed(pc) == [agent EXCEPT !.pc = pc, !.report = "", !.read = NewTunnel,
                             !.fresh = FALSE]

\* KubernetesReporter.patch reads the stored tunnel ...
AgentGet ==
  /\ agent.pc = "get"
  /\ agent' = [agent EXCEPT !.pc = "patch", !.read = api, !.fresh = TRUE]
  /\ UNCHANGED <<api, refs, dep, unseen, seen, queued, mgr, left>>

AfterReport ==
  CASE agent.report = "connecting" -> Proceed("dial")
    [] agent.report = "online" -> Proceed("serving")
    [] OTHER -> Proceed("backoff")

\* Mutant: no optimistic lock.
PatchWithoutLock ==
  /\ agent.pc = "patch"
  /\ StoreTunnel([api EXCEPT !.status =
                    Merge(@, agent.read.status,
                          AgentStatus(agent.read, agent.report))],
                 AfterReport)
  /\ UNCHANGED <<refs, dep, seen, queued, mgr, left>>

\* ... and its patch is refused unless that is still the stored version.
AgentPatch ==
  /\ agent.pc = "patch"
  /\ agent.fresh
  /\ StoreTunnel([api EXCEPT !.status =
                    Merge(@, agent.read.status,
                          AgentStatus(agent.read, agent.report))],
                 AfterReport)
  /\ UNCHANGED <<refs, dep, seen, queued, mgr, left>>

\* Mutant: the retry takes the new resourceVersion and keeps the old object.
RetryOldObject ==
  /\ agent.pc = "patch"
  /\ ~agent.fresh
  /\ agent' = [agent EXCEPT !.fresh = TRUE]
  /\ UNCHANGED <<api, refs, dep, unseen, seen, queued, mgr, left>>

\* RetryOnConflict
AgentConflict ==
  /\ agent.pc = "patch"
  /\ ~agent.fresh
  /\ agent' = Say(agent.report)
  /\ UNCHANGED <<api, refs, dep, unseen, seen, queued, mgr, left>>

\* A read or a patch fails, or the last retry met a conflict: a failed
\* Connecting or Online ends runOnce, a failed Disconnected is ignored.
AgentReportFails ==
  /\ agent.pc \in {"get", "patch"}
  /\ Disturb("agentError")
  /\ agent' = IF agent.report = "disconnected" THEN Proceed("backoff")
                                               ELSE Say("disconnected")
  /\ UNCHANGED <<api, refs, dep, unseen, seen, queued, mgr>>

\* Connect and openTunnel
OpenTunnel ==
  /\ agent.pc = "dial"
  /\ agent' = Say("online")
  /\ UNCHANGED <<api, refs, dep, unseen, seen, queued, mgr, left>>

\* Connecting fails, or the engine ends a tunnel that was served.
EngineFails ==
  /\ agent.pc \in {"dial", "serving"}
  /\ Disturb("engine")
  /\ agent' = Say("disconnected")
  /\ UNCHANGED <<api, refs, dep, unseen, seen, queued, mgr>>

Retry ==
  /\ agent.pc = "backoff"
  /\ agent' = Say("connecting")
  /\ UNCHANGED <<api, refs, dep, unseen, seen, queued, mgr, left>>

-----------------------------------------------------------------------------
ManagerStep ==
  \/ StartReconcile \/ ResolveReferences \/ ApplyChildren \/ ReadDeployment
  \/ GetForPatch \/ PatchStatus

AgentStep ==
  \/ AgentGet \/ AgentPatch \/ AgentConflict \/ OpenTunnel \/ Retry

Next ==
  \/ EditSpec \/ ChangeRefs \/ CountAvailable \/ StartAgent \/ ReplaceAgent
  \/ CrashAgent
  \/ SyncTunnel \/ SyncRefs \/ SyncDeployment \/ RestartManager
  \/ ManagerStep \/ PatchFails
  \/ AgentStep \/ AgentReportFails \/ EngineFails

Spec == Init /\ [][Next]_vars

\* Watches deliver, the workers take keys from the queue, the kubelet starts
\* and stops pods, and the agent runs; a user, a failure or a crash need not
\* happen.
Fairness ==
  /\ WF_vars(SyncTunnel) /\ WF_vars(SyncRefs) /\ WF_vars(SyncDeployment)
  /\ WF_vars(CountAvailable) /\ WF_vars(StartAgent) /\ WF_vars(ReplaceAgent)
  /\ WF_vars(ManagerStep) /\ WF_vars(AgentStep)

FairSpec == Spec /\ Fairness

-----------------------------------------------------------------------------
(* Properties                                                              *)

\* Every variable keeps its type.
TypeOK ==
  /\ api \in Tunnel /\ cache \in Tunnel
  /\ refs \in RefStates /\ refsSeen \in RefStates
  /\ dep \in Deployment /\ depSeen \in Deployment
  /\ unseen \subseteq Kinds /\ queued \in BOOLEAN
  /\ mgr \in Reconciler /\ agent \in Agent
  /\ left \in Nat

\* Ready is never True in a list of conditions whose TunnelReady is not: not in
\* the stored status, nor in any copy a writer may still send back.
Coherent(tunnel) ==
  IsTrue(tunnel.status.conditions, "Ready")
    => IsTrue(tunnel.status.conditions, "TunnelReady")

ReadyImpliesTunnelReady ==
  \A tunnel \in {api, cache, mgr.read, agent.read} : Coherent(tunnel)

\* A report of the agent leaves the conditions the manager owns as they are in
\* the store, although it sends the whole list it read some time ago.
ManagerOwned == {"Accepted", "Resolved", "AgentReady"}

AgentKeepsManagerConditions ==
  [][AgentPatch => \A type \in ManagerOwned :
       api'.status.conditions[type] = api.status.conditions[type]]_vars

\* The stored verdict on the spec never goes back to an older generation:
\* neither a stale cache, nor a successor of the manager, nor an agent that
\* resends the list it read undoes a later verdict.
AcceptedGenerationMonotone ==
  [][api'.status.conditions["Accepted"].gen
       >= api.status.conditions["Accepted"].gen]_vars

\* Nothing will make the manager look at the tunnel again, short of a new event.
Settled == mgr.pc = "idle" /\ ~queued /\ unseen = {}

Blocked == ~api.valid \/ refs # "resolved"
BlockReason == IF api.valid THEN refs ELSE "InvalidSpec"

Verdict(type) == <<api.status.conditions[type].status,
                   api.status.conditions[type].reason,
                   api.status.conditions[type].gen>>

\* A blocked tunnel says why.
BlockIsReported ==
  /\ Verdict("Ready") = <<"False", BlockReason, api.gen>>
  /\ BlockReason \in {"InvalidSpec", "ConnectionMissing"}
       => Verdict("Accepted") = <<"False", BlockReason, api.gen>>
  /\ BlockReason = "ServiceMissing"
       => /\ Verdict("Accepted") = <<"True", "Accepted", api.gen>>
          /\ Verdict("Resolved") = <<"False", BlockReason, api.gen>>

\* A reconciled tunnel runs the latest spec, and Ready is the aggregate of the
\* availability of the Deployment and of TunnelReady.
ReconciledIsReported ==
  /\ dep.gen = api.gen
  /\ Verdict("Accepted") = <<"True", "Accepted", api.gen>>
  /\ Verdict("Resolved") = <<"True", "Resolved", api.gen>>
  /\ IsTrue(api.status.conditions, "AgentReady") <=> dep.available
  /\ IsTrue(api.status.conditions, "Ready")
       <=> dep.available /\ IsTrue(api.status.conditions, "TunnelReady")
  /\ api.status.lastError = ""

\* When the manager has nothing left to do, the status is that of the latest
\* spec and references, whoever wrote last: no event that would correct it was
\* lost between the caches, the queue and the two writers.
SettledStatusIsCurrent ==
  Settled => /\ api.status.observed = api.gen
             /\ IF Blocked THEN BlockIsReported ELSE ReconciledIsReported

\* The same of a tunnel that is not blocked, when status patches may fail: the
\* returned error puts the key back into the queue.
SettledReconciledIsCurrent ==
  Settled /\ ~Blocked => api.status.observed = api.gen /\ ReconciledIsReported

\* The two writers, each woken by the other's writes, come to rest: a write
\* that changes nothing sends no event.
Quiesces == <>[]Settled

-----------------------------------------------------------------------------
(* What the documentation says and the code does not do                    *)

\* Resolved means that the connection, its Secrets and the Service exist.
ResolvedMeansReferencesExist ==
  Settled /\ IsTrue(api.status.conditions, "Resolved") => refs = "resolved"

\* A missing reference sets Ready=False with an actionable reason.
MissingReferenceIsReported ==
  Settled /\ api.valid /\ refs # "resolved"
    => Verdict("Ready") = <<"False", refs, api.gen>>

\* TunnelReady reports whether there is an active tunnel: of an agent that
\* serves one for ever it is in the end True.
OnlineIsReported ==
  <>[](agent.pc = "serving")
    => <>[]IsTrue(api.status.conditions, "TunnelReady")
=============================================================================
