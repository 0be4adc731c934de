--------------------------- MODULE ConfigRollout ----------------------------
(***************************************************************************)
(* How what users write reaches the pod of one tunnel's agent.  The        *)
(* tunnel names a connection and a Service, the connection names Secrets;  *)
(* the manager reads them through caches, one informer's cache after the   *)
(* other, asks the Control plane for the engine, and stores a ConfigMap    *)
(* and then a Deployment whose pod template carries a hash of the          *)
(* configuration and of the versions of the agent's Secrets.  A pod reads  *)
(* the ConfigMap and the Secrets once, when its container starts.          *)
(*                                                                         *)
(* Of the contents of an object only a stamp is kept, which is new at each *)
(* change: a value that was changed does not come back.  The hash stands   *)
(* for what is hashed.  The tunnel is valid, has its finalizer and is not  *)
(* deleted, and its podAnnotations do not set the hash.                    *)
(***************************************************************************)
EXTENDS Naturals

CONSTANTS
  Connections,      \* the names of connections
  Services,         \* the names of Services
  Secrets,          \* the names of Secrets
  None,             \* no token
  References,       \* the references users may give a connection
  FirstInputs,      \* what users may have stored before the manager starts
  MaxDisturbances   \* changes, failed calls, restarts

\* A connection has a token, or mTLS files and an explicit engine; headers are
\* for the Control plane, which an explicit engine makes superfluous.
ConnectionReferences ==
  {refs \in [token : Secrets \cup {None}, files : SUBSET Secrets,
             proxy : SUBSET Secrets, headers : SUBSET Secrets, direct : BOOLEAN] :
     /\ (refs.token = None) <=> (refs.files # {})
     /\ refs.files # {} => refs.direct
     /\ refs.direct => refs.headers = {}}

ASSUME RolloutAssumption ==
  /\ References \subseteq ConnectionReferences /\ MaxDisturbances \in Nat
  /\ None \notin Secrets
  /\ Connections \cap Services = {} /\ Connections \cap Secrets = {}
  /\ Services \cap Secrets = {}
  /\ (Connections \cup Services \cup Secrets)
       \cap {"Tunnel", "ConfigMap", "Deployment"} = {}

VARIABLES
  stored,     \* the inputs, in the API server
  children,   \* the ConfigMap and the Deployment, in the API server
  reconciled, \* the tunnel's status says that it is accepted and resolved
  plane,      \* the Control plane's stamp for the engine, or Gone
  pod,        \* the pod of the agent
  unseen,     \* objects with a watch event the manager has not seen
  inputs,     \* the cached inputs
  outputs,    \* the cached children
  queued,     \* the tunnel's key is in the work queue
  rec,        \* the reconciler
  left        \* disturbances that may still happen

vars == <<stored, children, reconciled, plane, pod, unseen, inputs, outputs, queued,
          rec, left>>
cluster == <<stored, children, reconciled, plane, pod>>
manager == <<unseen, inputs, outputs, queued, rec>>

-----------------------------------------------------------------------------
Gone == 0
Stamps == 1 .. MaxDisturbances + 1

Tunnel == [stamp : Stamps, connection : Connections, service : Services]
Spec(refs, stamp) == [stamp |-> stamp, refs |-> refs]
NoSpec == [stamp |-> Gone]
ConnectionSpec == {Spec(refs, stamp) : refs \in References, stamp \in Stamps}

Inputs == [tunnel : Tunnel,
           connections : [Connections -> ConnectionSpec \cup {NoSpec}],
           services : [Services -> Stamps \cup {Gone}],
           secrets : [Secrets -> Stamps \cup {Gone}]]

ASSUME FirstInputsAssumption == FirstInputs \subseteq Inputs

\* What was stored before the first change has the first stamp.
ASSUME FirstStampsAssumption ==
  \A first \in FirstInputs :
    /\ first.tunnel.stamp = 1
    /\ \A c \in Connections : first.connections[c].stamp \in {Gone, 1}
    /\ \A s \in Services : first.services[s] \in {Gone, 1}
    /\ \A s \in Secrets : first.secrets[s] \in {Gone, 1}

\* Mutant: header values count as the agent's.
AllSecretRefs(refs) ==
  ({refs.token} \ {None}) \cup refs.files \cup refs.proxy \cup refs.headers

AgentSecretRefs(refs) == ({refs.token} \ {None}) \cup refs.files \cup refs.proxy

SecretRefs(refs) == AgentSecretRefs(refs) \cup refs.headers

\* Mutant: only the Secret of the token wakes the tunnel.
ReferencesForToken(spec, secret) == spec # NoSpec /\ secret = spec.refs.token

ReferencesSecret(spec, secret) == spec # NoSpec /\ secret \in SecretRefs(spec.refs)

\* The Secrets a pod needs: for its environment, and for its volumes.
AgentEnv(refs) == ({refs.token} \ {None}) \cup refs.proxy
AgentVolumes(refs) == refs.files

\* What the ConfigMap holds: the settings of the tunnel and of the connection,
\* the engine and the target.
AgentConfig(tunnel, spec, engine, target) ==
  [tunnel |-> tunnel.stamp, connection |-> spec.stamp, engine |-> engine,
   target |-> target]
Config == [tunnel : Stamps, connection : Stamps, engine : Stamps, target : Stamps]
NoConfig == [tunnel |-> Gone]

\* Mutant: the hash leaves out the versions of the Secrets.
TemplateOfConfig(config, refs, versions) ==
  [config |-> config, versions |-> [s \in DOMAIN versions |-> 1],
   needs |-> AgentEnv(refs) \cup AgentVolumes(refs)]

\* The pod template: what its hash is made of, and the Secrets it refers to.
Template(config, refs, versions) ==
  [config |-> config, versions |-> versions,
   needs |-> AgentEnv(refs) \cup AgentVolumes(refs)]

NoTemplate == [config |-> NoConfig]
Versions == UNION {[set -> Stamps] : set \in SUBSET Secrets}
Templates == [config : Config, versions : Versions, needs : SUBSET Secrets]

Children == [ConfigMap : Config \cup {NoConfig}, Deployment : Templates \cup {NoTemplate}]
NoChildren == [ConfigMap |-> NoConfig, Deployment |-> NoTemplate]

\* A pod belongs to a template; its agent runs with what it read.
Pods == [template : Templates, config : Config, versions : Versions]
NoPod == [template |-> NoTemplate]

\* What Reconcile has read so far.
Idle == [pc |-> "idle"]

Init ==
  /\ stored \in FirstInputs
  /\ children = NoChildren /\ reconciled = FALSE
  /\ plane = 1 /\ pod = NoPod
  /\ unseen = {} /\ inputs = stored /\ outputs = children
  /\ queued = TRUE /\ rec = Idle
  /\ left = MaxDisturbances

Disturb == left > 0 /\ left' = left - 1

\* The stamp of a change.
New == MaxDisturbances - left + 2

-----------------------------------------------------------------------------
(* Users and the Control plane                                             *)

Store(object, value) ==
  /\ stored' = value
  /\ unseen' = unseen \cup {object}
  /\ UNCHANGED <<children, reconciled, plane, pod, inputs, outputs, queued, rec>>

EditTunnel ==
  /\ Disturb
  /\ \E connection \in Connections, service \in Services :
       Store("Tunnel", [stored EXCEPT !.tunnel =
         [stamp |-> New, connection |-> connection, service |-> service]])

EditConnection ==
  /\ Disturb
  /\ \E c \in Connections :
       \/ \E refs \in References :
            Store(c, [stored EXCEPT !.connections[c] = Spec(refs, New)])
       \/ Store(c, [stored EXCEPT !.connections[c] = NoSpec])

EditService ==
  /\ Disturb
  /\ \E s \in Services, stamp \in {New, Gone} :
       Store(s, [stored EXCEPT !.services[s] = stamp])

EditSecret ==
  /\ Disturb
  /\ \E s \in Secrets, stamp \in {New, Gone} :
       Store(s, [stored EXCEPT !.secrets[s] = stamp])

\* The Control plane is down, or names another engine; nobody is told.
ChangePlane ==
  /\ Disturb
  /\ plane' \in {New, Gone}
  /\ UNCHANGED <<stored, children, reconciled, pod, manager>>

-----------------------------------------------------------------------------
(* The watches.  A map function looks at the caches as they are when the   *)
(* event is handled                                                        *)

Sync(object, value) ==
  /\ object \in unseen /\ unseen' = unseen \ {object}
  /\ inputs' = value
  /\ UNCHANGED <<outputs, rec>>

Enqueue(wakes) == queued' = (queued \/ wakes)

SyncTunnel ==
  /\ Sync("Tunnel", [inputs EXCEPT !.tunnel = stored.tunnel])
  /\ Enqueue(TRUE)
  /\ UNCHANGED <<cluster, left>>

SyncConnection ==
  /\ \E c \in Connections :
       /\ Sync(c, [inputs EXCEPT !.connections[c] = stored.connections[c]])
       /\ Enqueue(inputs.tunnel.connection = c)
  /\ UNCHANGED <<cluster, left>>

SyncService ==
  /\ \E s \in Services :
       /\ Sync(s, [inputs EXCEPT !.services[s] = stored.services[s]])
       /\ Enqueue(inputs.tunnel.service = s)
  /\ UNCHANGED <<cluster, left>>

SyncSecret ==
  /\ \E s \in Secrets :
       /\ Sync(s, [inputs EXCEPT !.secrets[s] = stored.secrets[s]])
       /\ Enqueue(ReferencesSecret(inputs.connections[inputs.tunnel.connection], s))
  /\ UNCHANGED <<cluster, left>>

SyncChild ==
  /\ \E kind \in {"ConfigMap", "Deployment"} :
       /\ kind \in unseen /\ unseen' = unseen \ {kind}
       /\ outputs' = [outputs EXCEPT ![kind] = children[kind]]
  /\ Enqueue(TRUE)
  /\ UNCHANGED <<cluster, inputs, rec, left>>

\* Mutant: the watches have a predicate that drops events without a change.
DropResync == ~queued /\ rec.pc = "idle" /\ UNCHANGED vars

\* The informers' periodic resync, which no predicate filters; it is left out where it would
\* change nothing.
Resync ==
  /\ ~queued /\ rec.pc = "idle" /\ queued' = TRUE
  /\ UNCHANGED <<cluster, unseen, inputs, outputs, rec, left>>

\* The manager dies; its successor lists everything and enqueues the tunnel.
RestartManager ==
  /\ Disturb
  /\ unseen' = {} /\ inputs' = stored /\ outputs' = children
  /\ queued' = TRUE /\ rec' = Idle
  /\ UNCHANGED cluster

-----------------------------------------------------------------------------
(* Reconcile                                                               *)

Continue(state) ==
  /\ rec' = state
  /\ UNCHANGED <<cluster, unseen, inputs, outputs, queued, left>>

Block == [pc |-> "block"]

\* An error is returned, and the key goes back into the queue.
Fail ==
  /\ rec' = Idle /\ queued' = TRUE
  /\ UNCHANGED <<cluster, unseen, inputs, outputs>>

StartReconcile ==
  /\ rec.pc = "idle"
  /\ queued /\ queued' = FALSE
  /\ rec' = [pc |-> "connection", tunnel |-> inputs.tunnel]
  /\ UNCHANGED <<cluster, unseen, inputs, outputs, left>>

ReadConnection ==
  /\ rec.pc = "connection"
  /\ LET spec == inputs.connections[rec.tunnel.connection]
     IN  Continue(IF spec = NoSpec THEN Block
                  ELSE [pc |-> "secrets", tunnel |-> rec.tunnel, spec |-> spec,
                        todo |-> SecretRefs(spec.refs),
                        versions |-> [s \in {} |-> Gone]])

\* The version of a Secret is kept when the agent uses it.
ReadSecret ==
  /\ rec.pc = "secrets"
  /\ \E s \in rec.todo :
       LET version == inputs.secrets[s]
           known == DOMAIN rec.versions \cup ({s} \cap AgentSecretRefs(rec.spec.refs))
       IN  Continue(IF version = Gone THEN Block
                    ELSE [pc |-> "secrets", tunnel |-> rec.tunnel, spec |-> rec.spec,
                          todo |-> rec.todo \ {s},
                          versions |-> [t \in known |->
                            IF t = s THEN version ELSE rec.versions[t]]])

\* Mutant: a Control plane that names no engine does not block the tunnel.
ResolveAnyway ==
  /\ rec.pc = "secrets" /\ rec.todo = {}
  /\ Continue([pc |-> "target", tunnel |-> rec.tunnel, spec |-> rec.spec,
               versions |-> rec.versions,
               engine |-> IF rec.spec.refs.direct THEN rec.spec.stamp ELSE plane])

\* Any error of the Control plane blocks the tunnel.
Resolve ==
  /\ rec.pc = "secrets" /\ rec.todo = {}
  /\ LET engine == IF rec.spec.refs.direct THEN rec.spec.stamp ELSE plane
     IN  Continue(IF engine = Gone THEN Block
                  ELSE [pc |-> "target", tunnel |-> rec.tunnel, spec |-> rec.spec,
                        versions |-> rec.versions, engine |-> engine])

ReadService ==
  /\ rec.pc = "target"
  /\ LET target == inputs.services[rec.tunnel.service]
     IN  Continue(IF target = Gone THEN Block
                  ELSE [pc |-> "configMap", refs |-> rec.spec.refs,
                        versions |-> rec.versions,
                        config |-> AgentConfig(rec.tunnel, rec.spec, rec.engine, target)])

\* CreateOrUpdate of a child: nothing is sent if the cached one is as wanted; one
\* that is sent is refused unless the cached one is the stored one.
Apply(kind, wanted, next) ==
  \/ /\ outputs[kind] = children[kind]
     /\ children' = [children EXCEPT ![kind] = wanted]
     /\ unseen' = IF wanted = children[kind] THEN unseen ELSE unseen \cup {kind}
     /\ rec' = next
     /\ UNCHANGED <<stored, reconciled, plane, pod, inputs, outputs, queued>>
  \/ /\ outputs[kind] # children[kind] /\ outputs[kind] = wanted
     /\ rec' = next
     /\ UNCHANGED <<cluster, unseen, inputs, outputs, queued>>

\* The retries on a conflict are exhausted, or the child exists already.
Refused(kind, wanted) ==
  outputs[kind] \notin {children[kind], wanted} /\ Fail

ApplyConfigMap ==
  /\ rec.pc = "configMap"
  /\ \/ Apply("ConfigMap", rec.config, [rec EXCEPT !.pc = "deployment"])
     \/ Refused("ConfigMap", rec.config)
  /\ UNCHANGED left

ApplyDeployment ==
  /\ rec.pc = "deployment"
  /\ LET template == Template(rec.config, rec.refs, rec.versions)
     IN  \/ Apply("Deployment", template, [pc |-> "mark"])
         \/ Refused("Deployment", template)
  /\ UNCHANGED left

\* A status patch is an event of the tunnel when it changes something.
Mark(pc, outcome) ==
  /\ rec.pc = pc /\ rec' = Idle
  /\ reconciled' = outcome
  /\ unseen' = IF outcome = reconciled THEN unseen ELSE unseen \cup {"Tunnel"}
  /\ UNCHANGED <<stored, children, plane, pod, inputs, outputs, queued, left>>

MarkReconciled == outputs.Deployment # NoTemplate /\ Mark("mark", TRUE)

\* deploymentReady finds no Deployment in the cache.
CheckDeployment ==
  /\ rec.pc = "mark" /\ outputs.Deployment = NoTemplate
  /\ Fail /\ UNCHANGED left

\* markTunnelBlocked and markTargetBlocked; the children stay as they are.
MarkBlocked == Mark("block", FALSE)

\* A call that stores a child or the status of a reconciled tunnel fails; that
\* the error of markTunnelBlocked is dropped is the subject of TunnelStatus.
CallFails ==
  /\ Disturb
  /\ rec.pc \in {"configMap", "deployment", "mark"} /\ Fail

-----------------------------------------------------------------------------
(* The pod                                                                 *)

Current(secrets) == [s \in secrets |-> stored.secrets[s]]

\* A pod starts when the ConfigMap and the Secrets it refers to are there.
StartPod ==
  /\ pod = NoPod
  /\ children.Deployment # NoTemplate /\ children.ConfigMap # NoConfig
  /\ LET needs == children.Deployment.needs
     IN  /\ \A s \in needs : stored.secrets[s] # Gone
         /\ pod' = [template |-> children.Deployment, config |-> children.ConfigMap,
                    versions |-> Current(needs)]
  /\ UNCHANGED <<stored, children, reconciled, plane, manager, left>>

\* The strategy Recreate: the old pod goes before the new one starts.
ReplacePod ==
  /\ pod # NoPod /\ pod.template # children.Deployment
  /\ pod' = NoPod
  /\ UNCHANGED <<stored, children, reconciled, plane, manager, left>>

\* The container restarts and reads again; the kubelet may have refreshed the
\* volumes or not.
RestartAgent ==
  /\ Disturb
  /\ pod # NoPod
  /\ \A s \in pod.template.needs : stored.secrets[s] # Gone
  /\ \E config \in {pod.config, children.ConfigMap},
        versions \in {pod.versions, Current(pod.template.needs)} :
       pod' = [pod EXCEPT !.config = config, !.versions = versions]
  /\ UNCHANGED <<stored, children, reconciled, plane, manager>>

-----------------------------------------------------------------------------
Reconcile ==
  \/ StartReconcile \/ ReadConnection \/ ReadSecret \/ Resolve \/ ReadService
  \/ ApplyConfigMap \/ ApplyDeployment \/ CheckDeployment \/ MarkReconciled
  \/ MarkBlocked

Change == EditTunnel \/ EditConnection \/ EditService \/ EditSecret \/ ChangePlane

Next ==
  \/ Change \/ SyncTunnel \/ SyncConnection \/ SyncService \/ SyncSecret \/ SyncChild
  \/ Resync \/ RestartManager \/ Reconcile \/ CallFails
  \/ StartPod \/ ReplacePod \/ RestartAgent

Behaviour == Init /\ [][Next]_vars

\* The watches deliver, the informers resync and the worker runs; Kubernetes
\* rolls the Deployment out.
Fairness ==
  /\ WF_vars(SyncTunnel) /\ WF_vars(SyncConnection) /\ WF_vars(SyncService)
  /\ WF_vars(SyncSecret) /\ WF_vars(SyncChild) /\ WF_vars(Resync)
  /\ WF_vars(Reconcile) /\ WF_vars(StartPod) /\ WF_vars(ReplacePod)

FairBehaviour == Behaviour /\ Fairness

-----------------------------------------------------------------------------
(* Properties                                                              *)

Reconcilers ==
  [pc : {"idle", "block", "mark"}]
    \cup [pc : {"connection"}, tunnel : Tunnel]
    \cup [pc : {"secrets"}, tunnel : Tunnel, spec : ConnectionSpec,
          todo : SUBSET Secrets, versions : Versions]
    \cup [pc : {"target"}, tunnel : Tunnel, spec : ConnectionSpec,
          versions : Versions, engine : Stamps]
    \cup [pc : {"configMap", "deployment"}, refs : References, versions : Versions,
          config : Config]

\* Every variable keeps its type.
TypeOK ==
  /\ stored \in Inputs /\ inputs \in Inputs
  /\ children \in Children /\ outputs \in Children
  /\ reconciled \in BOOLEAN /\ queued \in BOOLEAN
  /\ plane \in Stamps \cup {Gone} /\ pod \in Pods \cup {NoPod}
  /\ unseen \subseteq Connections \cup Services \cup Secrets
                        \cup {"Tunnel", "ConfigMap", "Deployment"}
  /\ rec \in Reconcilers /\ left \in 0 .. MaxDisturbances

\* The hash in a template tracks exactly the Secrets its pods read: a change of
\* one of them rolls out, that of a header for the Control plane does not
\* restart the agent, and nothing about it reaches the Deployment.
HashTracksPodSecrets ==
  children.Deployment # NoTemplate =>
    DOMAIN children.Deployment.versions = children.Deployment.needs

Settled == rec.pc = "idle" /\ ~queued /\ unseen = {}

Wanted(tunnel, spec, engine) ==
  LET config == AgentConfig(tunnel, spec, engine, stored.services[tunnel.service])
  IN  [ConfigMap |-> config,
       Deployment |-> Template(config, spec.refs, Current(AgentSecretRefs(spec.refs)))]

\* When nothing is left to do and the status says so, the children are those of
\* the tunnel, connection, Service and Secrets that are stored: no event was lost
\* because a map function looked at a cache that did not know of a reference.
ReconciledIsRolledOut ==
  Settled /\ reconciled =>
    LET spec == stored.connections[stored.tunnel.connection]
    IN  spec # NoSpec /\ \E engine \in Stamps :
          children = Wanted(stored.tunnel, spec, engine)

\* Then a pod of the Deployment's template also runs the stored configuration
\* with the stored Secrets, although ConfigMap, Deployment and Secrets are
\* written one by one and a container may start between any two of them.
PodIsCurrent ==
  Settled /\ reconciled /\ pod # NoPod /\ pod.template = children.Deployment =>
    /\ pod.config = children.ConfigMap
    /\ pod.versions = Current(pod.template.needs)

Resolvable ==
  LET spec == stored.connections[stored.tunnel.connection]
  IN  /\ spec # NoSpec /\ stored.services[stored.tunnel.service] # Gone
      /\ \A s \in SecretRefs(spec.refs) : stored.secrets[s] # Gone
      /\ spec.refs.direct \/ plane # Gone

\* The agent runs with what is stored, and a new pod would too.
RunsWanted ==
  LET spec == stored.connections[stored.tunnel.connection]
      wanted == Wanted(stored.tunnel, spec,
                       IF spec.refs.direct THEN spec.stamp ELSE plane)
  IN  /\ children = wanted
      /\ pod = [template |-> wanted.Deployment, config |-> wanted.ConfigMap,
                versions |-> wanted.Deployment.versions]

\* What can be resolved is in the end what the agent runs with, the engine the
\* Control plane names included: after an outage it takes a resync.
RolloutCompletes ==
  <>[]Resolvable => <>[](Resolvable /\ RunsWanted)
=============================================================================
