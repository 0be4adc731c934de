------------------------ MODULE ConfigRolloutProofs -------------------------
(***************************************************************************)
(* Theorems about ConfigRollout, for any connections, Services, Secrets    *)
(* and number of changes: the hash, types, and that a settled tunnel that  *)
(* says it is reconciled is rolled out.                                    *)
(***************************************************************************)
EXTENDS ConfigRollout, TLAPS

\* What Reconcile has read of the Secrets: of those the agent uses, the versions
\* of the ones it is done with.
Reading ==
  \/ rec.pc \in {"idle", "connection", "block", "mark"}
  \/ /\ rec.pc = "secrets"
     /\ DOMAIN rec.versions = AgentSecretRefs(rec.spec.refs) \ rec.todo
  \/ /\ rec.pc = "target"
     /\ DOMAIN rec.versions = AgentSecretRefs(rec.spec.refs)
  \/ /\ rec = [pc |-> "configMap", refs |-> rec.refs, versions |-> rec.versions,
               config |-> rec.config]
     /\ DOMAIN rec.versions = AgentSecretRefs(rec.refs)
  \/ /\ rec = [pc |-> "deployment", refs |-> rec.refs, versions |-> rec.versions,
               config |-> rec.config]
     /\ DOMAIN rec.versions = AgentSecretRefs(rec.refs)

\* What is stored of the Secrets follows from what was read.
HashInv ==
  /\ Reading
  /\ children = [ConfigMap |-> children.ConfigMap, Deployment |-> children.Deployment]
  /\ HashTracksPodSecrets

-----------------------------------------------------------------------------
\* The Secrets of agentSecretRefs are those agentEnv and agentVolumes refer to.
LEMMA AgentSecretsAreReferred ==
  ASSUME NEW refs
  PROVE  AgentSecretRefs(refs) = AgentEnv(refs) \cup AgentVolumes(refs)
BY DEF AgentSecretRefs, AgentEnv, AgentVolumes

\* secretRefs holds the Secrets of agentSecretRefs.
LEMMA AgentSecretsAreRead ==
  ASSUME NEW refs
  PROVE  AgentSecretRefs(refs) \subseteq SecretRefs(refs)
BY DEF SecretRefs

\* The template ApplyDeployment builds has the hash of what its pods read.
LEMMA TemplateTracks ==
  ASSUME NEW config, NEW refs, NEW versions, DOMAIN versions = AgentSecretRefs(refs)
  PROVE  DOMAIN Template(config, refs, versions).versions
           = Template(config, refs, versions).needs
BY AgentSecretsAreReferred DEF Template

\* A step that leaves the children and returns to the queue keeps the invariant.
LEMMA KeepsChildren ==
  ASSUME HashInv, UNCHANGED children, Reading'
  PROVE  HashInv'
BY DEF HashInv, HashTracksPodSecrets

LEMMA KeepsReading ==
  ASSUME HashInv, UNCHANGED <<children, rec>>
  PROVE  HashInv'
BY DEF HashInv, HashTracksPodSecrets, Reading

-----------------------------------------------------------------------------
LEMMA HashInit == Init => HashInv
BY DEF Init, HashInv, Reading, Idle, HashTracksPodSecrets, NoChildren

LEMMA HashConnection == HashInv /\ ReadConnection => HashInv'
<1> SUFFICES ASSUME HashInv, ReadConnection PROVE HashInv'
  OBVIOUS
<1> DEFINE spec == inputs.connections[rec.tunnel.connection]
<1>1. UNCHANGED children
  BY DEF ReadConnection, Continue, cluster
<1>2. CASE spec = NoSpec
  <2>1. rec' = Block
    BY <1>2 DEF ReadConnection, Continue
  <2> QED BY <2>1, <1>1, KeepsChildren DEF Reading, Block
<1>3. CASE spec # NoSpec
  <2>1. rec' = [pc |-> "secrets", tunnel |-> rec.tunnel, spec |-> spec,
                todo |-> SecretRefs(spec.refs), versions |-> [s \in {} |-> Gone]]
    BY <1>3 DEF ReadConnection, Continue
  <2>2. DOMAIN rec'.versions = AgentSecretRefs(rec'.spec.refs) \ rec'.todo
    BY <2>1, AgentSecretsAreRead, SMTT(60)
  <2>3. Reading'
    BY <2>1, <2>2 DEF Reading
  <2> QED BY <2>3, <1>1, KeepsChildren
<1> QED BY <1>2, <1>3

LEMMA HashSecret == HashInv /\ ReadSecret => HashInv'
<1> SUFFICES ASSUME HashInv, ReadSecret PROVE HashInv'
  OBVIOUS
<1>1. UNCHANGED children
  BY DEF ReadSecret, Continue, cluster
<1> DEFINE known(s) == DOMAIN rec.versions \cup ({s} \cap AgentSecretRefs(rec.spec.refs))
           read(s) == [t \in known(s) |->
                         IF t = s THEN inputs.secrets[s] ELSE rec.versions[t]]
<1>2. PICK s \in rec.todo :
        \/ rec' = Block
        \/ rec' = [pc |-> "secrets", tunnel |-> rec.tunnel, spec |-> rec.spec,
                   todo |-> rec.todo \ {s}, versions |-> read(s)]
  BY DEF ReadSecret, Continue
<1>3. CASE rec' = Block
  BY <1>1, <1>3, KeepsChildren DEF Reading, Block
<1>4. CASE rec' = [pc |-> "secrets", tunnel |-> rec.tunnel, spec |-> rec.spec,
                   todo |-> rec.todo \ {s}, versions |-> read(s)]
  <2>1. DOMAIN rec.versions = AgentSecretRefs(rec.spec.refs) \ rec.todo
    BY DEF HashInv, Reading, ReadSecret
  <2>2. DOMAIN read(s) = AgentSecretRefs(rec.spec.refs) \ (rec.todo \ {s})
    BY <2>1, <1>2
  <2>3. Reading'
    BY <1>4, <2>2 DEF Reading
  <2> QED BY <2>3, <1>1, KeepsChildren
<1> QED BY <1>2, <1>3, <1>4

LEMMA HashResolve == HashInv /\ Resolve => HashInv'
<1> SUFFICES ASSUME HashInv, Resolve PROVE HashInv'
  OBVIOUS
<1> DEFINE engine == IF rec.spec.refs.direct THEN rec.spec.stamp ELSE plane
<1>1. UNCHANGED children
  BY DEF Resolve, Continue, cluster
<1>2. DOMAIN rec.versions = AgentSecretRefs(rec.spec.refs)
  BY DEF HashInv, Reading, Resolve
<1>3. \/ rec' = Block
      \/ rec' = [pc |-> "target", tunnel |-> rec.tunnel, spec |-> rec.spec,
                 versions |-> rec.versions, engine |-> engine]
  BY DEF Resolve, Continue
<1>4. Reading'
  BY <1>2, <1>3 DEF Reading, Block
<1> QED BY <1>1, <1>4, KeepsChildren

LEMMA HashService == HashInv /\ ReadService => HashInv'
<1> SUFFICES ASSUME HashInv, ReadService PROVE HashInv'
  OBVIOUS
<1> DEFINE target == inputs.services[rec.tunnel.service]
<1>1. UNCHANGED children
  BY DEF ReadService, Continue, cluster
<1>2. DOMAIN rec.versions = AgentSecretRefs(rec.spec.refs)
  BY DEF HashInv, Reading, ReadService
<1>3. \/ rec' = Block
      \/ rec' = [pc |-> "configMap", refs |-> rec.spec.refs,
                 versions |-> rec.versions,
                 config |-> AgentConfig(rec.tunnel, rec.spec, rec.engine, target)]
  BY DEF ReadService, Continue
<1>4. Reading'
  BY <1>2, <1>3 DEF Reading, Block
<1> QED BY <1>1, <1>4, KeepsChildren

LEMMA HashConfigMap == HashInv /\ ApplyConfigMap => HashInv'
<1> SUFFICES ASSUME HashInv, ApplyConfigMap PROVE HashInv'
  OBVIOUS
<1>1. /\ rec = [pc |-> "configMap", refs |-> rec.refs, versions |-> rec.versions,
                config |-> rec.config]
      /\ DOMAIN rec.versions = AgentSecretRefs(rec.refs)
  BY DEF HashInv, Reading, ApplyConfigMap
<1>2. rec' = [rec EXCEPT !.pc = "deployment"] \/ rec' = Idle
  BY DEF ApplyConfigMap, Apply, Refused, Fail
<1>3. Reading'
  <2>1. CASE rec' = Idle
    BY <2>1 DEF Reading, Idle
  <2>2. CASE rec' = [rec EXCEPT !.pc = "deployment"]
    <3>1. rec' = [pc |-> "deployment", refs |-> rec.refs, versions |-> rec.versions,
                  config |-> rec.config]
      BY <2>2, <1>1
    <3> QED BY <3>1, <1>1 DEF Reading
  <2> QED BY <1>2, <2>1, <2>2
<1>4. \/ UNCHANGED children
      \/ children' = [children EXCEPT !["ConfigMap"] = rec.config]
  BY DEF ApplyConfigMap, Apply, Refused, Fail, cluster
<1>5. /\ children' = [ConfigMap |-> children'.ConfigMap,
                      Deployment |-> children'.Deployment]
      /\ children'.Deployment = children.Deployment
  BY <1>4 DEF HashInv
<1> QED BY <1>3, <1>5 DEF HashInv, HashTracksPodSecrets

LEMMA HashDeployment == HashInv /\ ApplyDeployment => HashInv'
<1> SUFFICES ASSUME HashInv, ApplyDeployment PROVE HashInv'
  OBVIOUS
<1> DEFINE template == Template(rec.config, rec.refs, rec.versions)
<1>1. DOMAIN template.versions = template.needs
  <2>1. DOMAIN rec.versions = AgentSecretRefs(rec.refs)
    BY DEF HashInv, Reading, ApplyDeployment
  <2> QED BY <2>1, TemplateTracks
<1>2. rec' = [pc |-> "mark"] \/ rec' = Idle
  BY DEF ApplyDeployment, Apply, Refused, Fail
<1>3. Reading'
  BY <1>2 DEF Reading, Idle
<1>4. \/ UNCHANGED children
      \/ children' = [children EXCEPT !["Deployment"] = template]
  BY DEF ApplyDeployment, Apply, Refused, Fail, cluster
<1>5. CASE UNCHANGED children
  BY <1>3, <1>5, KeepsChildren
<1>6. CASE children' = [children EXCEPT !["Deployment"] = template]
  <2>1. /\ children' = [ConfigMap |-> children'.ConfigMap,
                        Deployment |-> children'.Deployment]
        /\ children'.Deployment = template
    BY <1>6 DEF HashInv
  <2> QED BY <1>1, <1>3, <2>1 DEF HashInv, HashTracksPodSecrets
<1> QED BY <1>4, <1>5, <1>6

\* The steps after which Reconcile is idle or has just started.
LEMMA HashRest ==
  HashInv /\ (\/ RestartManager \/ StartReconcile \/ CheckDeployment
              \/ MarkReconciled \/ MarkBlocked \/ CallFails) => HashInv'
<1> SUFFICES ASSUME HashInv,
                    \/ RestartManager \/ StartReconcile \/ CheckDeployment
                    \/ MarkReconciled \/ MarkBlocked \/ CallFails
             PROVE  HashInv'
  OBVIOUS
<1>1. UNCHANGED children
  BY DEF RestartManager, StartReconcile, CheckDeployment, MarkReconciled, MarkBlocked,
         CallFails, Mark, Fail, cluster
<1>2. rec' = Idle \/ rec' = [pc |-> "connection", tunnel |-> inputs.tunnel]
  BY DEF RestartManager, StartReconcile, CheckDeployment, MarkReconciled, MarkBlocked,
         CallFails, Mark, Fail
<1>3. Reading'
  BY <1>2 DEF Reading, Idle
<1> QED BY <1>1, <1>3, KeepsChildren

\* The steps of users, the Control plane, the watches and the pod.
LEMMA HashOthers ==
  (\/ Change \/ SyncTunnel \/ SyncConnection \/ SyncService \/ SyncSecret \/ SyncChild
   \/ Resync \/ StartPod \/ ReplacePod \/ RestartAgent) => UNCHANGED <<children, rec>>
<1>1. Change => UNCHANGED <<children, rec>>
  BY DEF Change, EditTunnel, EditConnection, EditService, EditSecret, ChangePlane, Store,
         manager
<1>2. SyncTunnel \/ SyncConnection \/ SyncService \/ SyncSecret \/ SyncChild \/ Resync
        => UNCHANGED <<children, rec>>
  BY DEF SyncTunnel, SyncConnection, SyncService, SyncSecret, SyncChild, Resync, Sync,
         cluster
<1>3. StartPod \/ ReplacePod \/ RestartAgent => UNCHANGED <<children, rec>>
  BY DEF StartPod, ReplacePod, RestartAgent, manager
<1> QED BY <1>1, <1>2, <1>3

LEMMA HashStep == HashInv /\ [Next]_vars => HashInv'
<1> SUFFICES ASSUME HashInv, [Next]_vars PROVE HashInv'
  OBVIOUS
<1>1. CASE Reconcile
  BY <1>1, HashConnection, HashSecret, HashResolve, HashService, HashConfigMap,
     HashDeployment, HashRest DEF Reconcile
<1>2. CASE RestartManager \/ CallFails
  BY <1>2, HashRest
<1>3. CASE \/ Change \/ SyncTunnel \/ SyncConnection \/ SyncService \/ SyncSecret
           \/ SyncChild \/ Resync \/ StartPod \/ ReplacePod \/ RestartAgent
  BY <1>3, HashOthers, KeepsReading
<1>4. CASE UNCHANGED vars
  BY <1>4, KeepsReading DEF vars
<1> QED BY <1>1, <1>2, <1>3, <1>4 DEF Next

\* Whatever changes while the Secrets are read and the children are stored, the
\* hash in the Deployment is made of exactly the Secrets its pods read.
THEOREM HashTracks == Behaviour => []HashTracksPodSecrets
<1>1. HashInv => HashTracksPodSecrets
  BY DEF HashInv
<1> QED BY HashInit, HashStep, <1>1, PTL DEF Behaviour

-----------------------------------------------------------------------------
(* Types                                                                   *)

\* Where a secret reference may point, and what the agent uses of it.
LEMMA RefsAreSecrets ==
  ASSUME NEW refs \in References
  PROVE  /\ AgentSecretRefs(refs) \subseteq SecretRefs(refs)
         /\ SecretRefs(refs) \subseteq Secrets
         /\ AgentEnv(refs) \cup AgentVolumes(refs) \subseteq Secrets
BY RolloutAssumption DEF ConnectionReferences, AgentSecretRefs, SecretRefs, AgentEnv, AgentVolumes

LEMMA SpecForm ==
  ASSUME NEW spec \in ConnectionSpec
  PROVE  spec.stamp \in Stamps /\ spec.refs \in References
BY DEF ConnectionSpec, Spec

LEMMA VersionsForm ==
  ASSUME NEW set \in SUBSET Secrets, NEW versions \in [set -> Stamps]
  PROVE  versions \in Versions
BY DEF Versions

\* What the inputs are after one of them has changed.
LEMMA TunnelChanged ==
  ASSUME NEW old \in Inputs, NEW tunnel \in Tunnel,
         NEW new, new = [old EXCEPT !.tunnel = tunnel]
  PROVE  /\ new \in Inputs /\ new.tunnel = tunnel
         /\ new.connections = old.connections /\ new.services = old.services
         /\ new.secrets = old.secrets
BY DEF Inputs

LEMMA ConnectionChanged ==
  ASSUME NEW old \in Inputs, NEW c \in Connections, NEW spec \in ConnectionSpec \cup {NoSpec},
         NEW new, new = [old EXCEPT !.connections[c] = spec]
  PROVE  /\ new \in Inputs /\ new.tunnel = old.tunnel
         /\ new.connections = [old.connections EXCEPT ![c] = spec]
         /\ new.services = old.services /\ new.secrets = old.secrets
<1> DEFINE map == [old.connections EXCEPT ![c] = spec]
<1>1. new = [old EXCEPT !.connections = map]
  OBVIOUS
<1>2. old.connections \in [Connections -> ConnectionSpec \cup {NoSpec}]
  BY DEF Inputs
<1>3. map \in [Connections -> ConnectionSpec \cup {NoSpec}]
  BY <1>2
<1> HIDE DEF map
<1>4. /\ new \in Inputs /\ new.connections = map /\ new.tunnel = old.tunnel
      /\ new.services = old.services /\ new.secrets = old.secrets
  BY <1>1, <1>3 DEF Inputs
<1> QED BY <1>4 DEF map

LEMMA ServiceChanged ==
  ASSUME NEW old \in Inputs, NEW s \in Services, NEW stamp \in Stamps \cup {Gone},
         NEW new, new = [old EXCEPT !.services[s] = stamp]
  PROVE  /\ new \in Inputs /\ new.tunnel = old.tunnel
         /\ new.services = [old.services EXCEPT ![s] = stamp]
         /\ new.connections = old.connections /\ new.secrets = old.secrets
<1> DEFINE map == [old.services EXCEPT ![s] = stamp]
<1>1. new = [old EXCEPT !.services = map]
  OBVIOUS
<1>2. old.services \in [Services -> Stamps \cup {Gone}]
  BY DEF Inputs
<1>3. map \in [Services -> Stamps \cup {Gone}]
  BY <1>2
<1> HIDE DEF map
<1>4. /\ new \in Inputs /\ new.services = map /\ new.tunnel = old.tunnel
      /\ new.connections = old.connections /\ new.secrets = old.secrets
  BY <1>1, <1>3 DEF Inputs
<1> QED BY <1>4 DEF map

LEMMA SecretChanged ==
  ASSUME NEW old \in Inputs, NEW s \in Secrets, NEW stamp \in Stamps \cup {Gone},
         NEW new, new = [old EXCEPT !.secrets[s] = stamp]
  PROVE  /\ new \in Inputs /\ new.tunnel = old.tunnel
         /\ new.secrets = [old.secrets EXCEPT ![s] = stamp]
         /\ new.connections = old.connections /\ new.services = old.services
<1> DEFINE map == [old.secrets EXCEPT ![s] = stamp]
<1>1. new = [old EXCEPT !.secrets = map]
  OBVIOUS
<1>2. old.secrets \in [Secrets -> Stamps \cup {Gone}]
  BY DEF Inputs
<1>3. map \in [Secrets -> Stamps \cup {Gone}]
  BY <1>2
<1> HIDE DEF map
<1>4. /\ new \in Inputs /\ new.secrets = map /\ new.tunnel = old.tunnel
      /\ new.connections = old.connections /\ new.services = old.services
  BY <1>1, <1>3 DEF Inputs
<1> QED BY <1>4 DEF map

\* What the parts of the inputs are.
LEMMA InputsForm ==
  ASSUME NEW in \in Inputs
  PROVE  /\ in.tunnel \in Tunnel
         /\ in.tunnel.connection \in Connections /\ in.tunnel.service \in Services
         /\ in.tunnel.stamp \in Stamps
         /\ \A c \in Connections : in.connections[c] \in ConnectionSpec \cup {NoSpec}
         /\ \A s \in Services : in.services[s] \in Stamps \cup {Gone}
         /\ \A s \in Secrets : in.secrets[s] \in Stamps \cup {Gone}
BY DEF Inputs, Tunnel

\* A disturbance is counted, and stamps what it changes.
LEMMA DisturbTyped ==
  ASSUME TypeOK, Disturb
  PROVE  left' \in 0 .. MaxDisturbances /\ New \in Stamps
BY RolloutAssumption DEF TypeOK, Disturb, New, Stamps

LEMMA TypeInit == Init => TypeOK
<1> SUFFICES ASSUME Init PROVE TypeOK
  OBVIOUS
<1>1. stored \in Inputs /\ inputs \in Inputs
  BY FirstInputsAssumption DEF Init
<1>2. children \in Children /\ outputs \in Children
  BY DEF Init, NoChildren, Children
<1>3. rec \in Reconcilers
  BY DEF Init, Idle, Reconcilers
<1>4. plane \in Stamps /\ left \in 0 .. MaxDisturbances
  BY RolloutAssumption DEF Init, Stamps
<1> QED BY <1>1, <1>2, <1>3, <1>4 DEF Init, TypeOK

LEMMA TypeStore ==
  ASSUME TypeOK, NEW value \in Inputs, left' \in 0 .. MaxDisturbances,
         NEW object \in Connections \cup Services \cup Secrets \cup {"Tunnel"},
         Store(object, value)
  PROVE  TypeOK'
BY DEF Store, TypeOK

\* The steps of users and of the Control plane.
LEMMA TypeChange == TypeOK /\ Change => TypeOK'
<1> SUFFICES ASSUME TypeOK, Change PROVE TypeOK'
  OBVIOUS
<1>1. left' \in 0 .. MaxDisturbances /\ New \in Stamps /\ stored \in Inputs
  BY DisturbTyped DEF Change, EditTunnel, EditConnection, EditService, EditSecret, ChangePlane,
                      TypeOK
<1>2. CASE EditTunnel
  <2>1. PICK connection \in Connections, service \in Services :
          Store("Tunnel", [stored EXCEPT !.tunnel =
            [stamp |-> New, connection |-> connection, service |-> service]])
    BY <1>2 DEF EditTunnel
  <2>2. [stamp |-> New, connection |-> connection, service |-> service] \in Tunnel
    BY <1>1 DEF Tunnel
  <2> QED BY <1>1, <2>1, <2>2, TunnelChanged, TypeStore
<1>3. CASE EditConnection
  <2>1. \A refs \in References : Spec(refs, New) \in ConnectionSpec
    BY <1>1 DEF ConnectionSpec
  <2>2. PICK c \in Connections :
          \/ \E refs \in References : Store(c, [stored EXCEPT !.connections[c] = Spec(refs, New)])
          \/ Store(c, [stored EXCEPT !.connections[c] = NoSpec])
    BY <1>3 DEF EditConnection
  <2>3. PICK spec \in ConnectionSpec \cup {NoSpec} :
          Store(c, [stored EXCEPT !.connections[c] = spec])
    BY <2>1, <2>2
  <2> QED BY <1>1, <2>3, ConnectionChanged, TypeStore
<1>4. CASE EditService
  <2>1. PICK s \in Services, stamp \in Stamps \cup {Gone} :
          Store(s, [stored EXCEPT !.services[s] = stamp])
    BY <1>1, <1>4 DEF EditService
  <2> QED BY <1>1, <2>1, ServiceChanged, TypeStore
<1>5. CASE EditSecret
  <2>1. PICK s \in Secrets, stamp \in Stamps \cup {Gone} :
          Store(s, [stored EXCEPT !.secrets[s] = stamp])
    BY <1>1, <1>5 DEF EditSecret
  <2> QED BY <1>1, <2>1, SecretChanged, TypeStore
<1>6. CASE ChangePlane
  BY <1>1, <1>6 DEF ChangePlane, TypeOK, manager
<1> QED BY <1>2, <1>3, <1>4, <1>5, <1>6 DEF Change

\* The watches, the resync and the restart.
LEMMA TypeSync ==
  TypeOK /\ (\/ SyncTunnel \/ SyncConnection \/ SyncService \/ SyncSecret \/ SyncChild
             \/ Resync \/ RestartManager) => TypeOK'
<1> SUFFICES ASSUME TypeOK,
                    \/ SyncTunnel \/ SyncConnection \/ SyncService \/ SyncSecret
                    \/ SyncChild \/ Resync \/ RestartManager
             PROVE  TypeOK'
  OBVIOUS
<1> USE DEF Sync, Enqueue, cluster
<1>1. /\ UNCHANGED cluster /\ unseen' \subseteq unseen
      /\ queued' \in BOOLEAN /\ rec' \in Reconcilers /\ left' \in 0 .. MaxDisturbances
  <2>1. Idle \in Reconcilers
    BY DEF Idle, Reconcilers
  <2> QED BY <2>1, DisturbTyped DEF SyncTunnel, SyncConnection, SyncService, SyncSecret, SyncChild,
             Resync, RestartManager, TypeOK
<1>2. stored \in Inputs /\ inputs \in Inputs /\ children \in Children /\ outputs \in Children
  BY DEF TypeOK
<1>3. inputs' \in Inputs
  <2>1. CASE SyncTunnel
    BY <1>2, <2>1, InputsForm, TunnelChanged DEF SyncTunnel
  <2>2. CASE SyncConnection
    <3>1. PICK c \in Connections :
            inputs' = [inputs EXCEPT !.connections[c] = stored.connections[c]]
      BY <2>2 DEF SyncConnection
    <3>2. stored.connections[c] \in ConnectionSpec \cup {NoSpec}
      BY <1>2, InputsForm
    <3> QED BY <1>2, <3>1, <3>2, ConnectionChanged
  <2>3. CASE SyncService
    <3>1. PICK s \in Services : inputs' = [inputs EXCEPT !.services[s] = stored.services[s]]
      BY <2>3 DEF SyncService
    <3>2. stored.services[s] \in Stamps \cup {Gone}
      BY <1>2, InputsForm
    <3> QED BY <1>2, <3>1, <3>2, ServiceChanged
  <2>4. CASE SyncSecret
    <3>1. PICK s \in Secrets : inputs' = [inputs EXCEPT !.secrets[s] = stored.secrets[s]]
      BY <2>4 DEF SyncSecret
    <3>2. stored.secrets[s] \in Stamps \cup {Gone}
      BY <1>2, InputsForm
    <3> QED BY <1>2, <3>1, <3>2, SecretChanged
  <2>5. CASE SyncChild \/ Resync \/ RestartManager
    BY <1>2, <2>5 DEF SyncChild, Resync, RestartManager
  <2> QED BY <2>1, <2>2, <2>3, <2>4, <2>5
<1>4. outputs' \in Children
  <2>1. CASE SyncChild
    BY <1>2, <2>1 DEF SyncChild, Children
  <2>2. CASE ~SyncChild
    BY <1>2, <2>2 DEF SyncTunnel, SyncConnection, SyncService, SyncSecret, Resync, RestartManager
  <2> QED BY <2>1, <2>2
<1> QED BY <1>1, <1>3, <1>4 DEF TypeOK

\* What the reconciler holds at each point.
LEMMA RecForm ==
  ASSUME rec \in Reconcilers
  PROVE  /\ rec.pc \in {"connection", "secrets", "target"} => rec.tunnel \in Tunnel
         /\ rec.pc \in {"secrets", "target"} =>
              rec.spec \in ConnectionSpec /\ rec.versions \in Versions
         /\ rec.pc = "secrets" => rec.todo \subseteq Secrets
         /\ rec.pc = "target" => rec.engine \in Stamps
         /\ rec.pc \in {"configMap", "deployment"} =>
              /\ rec.refs \in References /\ rec.versions \in Versions /\ rec.config \in Config
              /\ rec = [pc |-> rec.pc, refs |-> rec.refs, versions |-> rec.versions,
                        config |-> rec.config]
BY DEF Reconcilers

\* A step that only goes on with what the reconciler has.
LEMMA TypeContinue ==
  ASSUME TypeOK, NEW state \in Reconcilers, Continue(state)
  PROVE  TypeOK'
BY DEF Continue, cluster, TypeOK

LEMMA TypeReads ==
  TypeOK /\ (ReadConnection \/ ReadSecret \/ Resolve \/ ReadService) => TypeOK'
<1> SUFFICES ASSUME TypeOK, ReadConnection \/ ReadSecret \/ Resolve \/ ReadService
             PROVE  TypeOK'
  OBVIOUS
<1>1. rec \in Reconcilers /\ inputs \in Inputs /\ plane \in Stamps \cup {Gone}
  BY DEF TypeOK
<1>2. Block \in Reconcilers
  BY DEF Block, Reconcilers
<1>3. CASE ReadConnection
  <2> DEFINE spec == inputs.connections[rec.tunnel.connection]
             next == [pc |-> "secrets", tunnel |-> rec.tunnel, spec |-> spec,
                      todo |-> SecretRefs(spec.refs), versions |-> [s \in {} |-> Gone]]
  <2>1. rec.tunnel \in Tunnel /\ spec \in ConnectionSpec \cup {NoSpec}
    BY <1>1, <1>3, RecForm, InputsForm DEF ReadConnection, Tunnel
  <2>2. CASE spec = NoSpec
    BY <1>2, <1>3, <2>2, TypeContinue DEF ReadConnection
  <2>3. CASE spec # NoSpec
    <3>1. [s \in {} |-> Gone] \in Versions
      <4>1. [s \in {} |-> Gone] \in [{} -> Stamps] /\ {} \in SUBSET Secrets
        OBVIOUS
      <4> QED BY <4>1, VersionsForm
    <3>2. SecretRefs(spec.refs) \subseteq Secrets
      BY <2>1, <2>3, SpecForm, RefsAreSecrets
    <3>3. next \in Reconcilers
      BY <2>1, <2>3, <3>1, <3>2 DEF Reconcilers
    <3> QED BY <1>3, <2>3, <3>3, TypeContinue DEF ReadConnection
  <2> QED BY <2>2, <2>3
<1>4. CASE ReadSecret
  <2> DEFINE agents == AgentSecretRefs(rec.spec.refs)
             known(s) == DOMAIN rec.versions \cup ({s} \cap agents)
             versions(s) == [t \in known(s) |->
                               IF t = s THEN inputs.secrets[s] ELSE rec.versions[t]]
             next(s) == [pc |-> "secrets", tunnel |-> rec.tunnel, spec |-> rec.spec,
                         todo |-> rec.todo \ {s}, versions |-> versions(s)]
  <2>1. PICK s \in rec.todo : Continue(IF inputs.secrets[s] = Gone THEN Block ELSE next(s))
    BY <1>4 DEF ReadSecret
  <2>2. /\ rec.tunnel \in Tunnel /\ rec.spec \in ConnectionSpec /\ rec.versions \in Versions
        /\ rec.todo \subseteq Secrets /\ s \in Secrets
    BY <1>1, <1>4, <2>1, RecForm DEF ReadSecret
  <2>3. CASE inputs.secrets[s] = Gone
    BY <1>2, <2>1, <2>3, TypeContinue
  <2>4. CASE inputs.secrets[s] # Gone
    <3>1. inputs.secrets[s] \in Stamps
      BY <1>1, <2>2, <2>4, InputsForm
    <3>2. PICK set \in SUBSET Secrets : rec.versions \in [set -> Stamps]
      BY <2>2 DEF Versions
    <3>3. known(s) \in SUBSET Secrets /\ versions(s) \in [known(s) -> Stamps]
      BY <2>2, <3>1, <3>2
    <3>4. versions(s) \in Versions
      BY <3>3, VersionsForm
    <3> HIDE DEF versions
    <3>5. next(s) \in Reconcilers
      BY <2>2, <3>4 DEF Reconcilers
    <3> QED BY <2>1, <2>4, <3>5, TypeContinue
  <2> QED BY <2>3, <2>4
<1>5. CASE Resolve
  <2> DEFINE engine == IF rec.spec.refs.direct THEN rec.spec.stamp ELSE plane
             next == [pc |-> "target", tunnel |-> rec.tunnel, spec |-> rec.spec,
                      versions |-> rec.versions, engine |-> engine]
  <2>1. Continue(IF engine = Gone THEN Block ELSE next)
    BY <1>5 DEF Resolve
  <2>2. rec.tunnel \in Tunnel /\ rec.spec \in ConnectionSpec /\ rec.versions \in Versions
    BY <1>1, <1>5, RecForm DEF Resolve
  <2>3. engine \in Stamps \cup {Gone}
    BY <1>1, <2>2, SpecForm
  <2> HIDE DEF engine
  <2>4. engine # Gone => next \in Reconcilers
    BY <2>2, <2>3 DEF Reconcilers
  <2> QED BY <1>2, <2>1, <2>4, TypeContinue
<1>6. CASE ReadService
  <2> DEFINE target == inputs.services[rec.tunnel.service]
             config == AgentConfig(rec.tunnel, rec.spec, rec.engine, target)
             next == [pc |-> "configMap", refs |-> rec.spec.refs, versions |-> rec.versions,
                      config |-> config]
  <2>1. Continue(IF target = Gone THEN Block ELSE next)
    BY <1>6 DEF ReadService
  <2>2. /\ rec.tunnel \in Tunnel /\ rec.spec \in ConnectionSpec /\ rec.versions \in Versions
        /\ rec.engine \in Stamps
    BY <1>1, <1>6, RecForm DEF ReadService
  <2>3. /\ target \in Stamps \cup {Gone} /\ rec.tunnel.stamp \in Stamps
        /\ rec.spec.stamp \in Stamps /\ rec.spec.refs \in References
    BY <1>1, <2>2, InputsForm, SpecForm DEF Tunnel
  <2>4. target # Gone => config \in Config
    BY <2>2, <2>3 DEF AgentConfig, Config
  <2> HIDE DEF target, config
  <2>5. target # Gone => next \in Reconcilers
    BY <2>2, <2>3, <2>4 DEF Reconcilers
  <2> QED BY <1>2, <2>1, <2>5, TypeContinue
<1> QED BY <1>3, <1>4, <1>5, <1>6

\* A child is stored, found as wanted, or refused.
LEMMA TypeApply == TypeOK /\ (ApplyConfigMap \/ ApplyDeployment) => TypeOK'
<1> SUFFICES ASSUME TypeOK, ApplyConfigMap \/ ApplyDeployment PROVE TypeOK'
  OBVIOUS
<1> DEFINE template == Template(rec.config, rec.refs, rec.versions)
<1>1. /\ rec.refs \in References /\ rec.versions \in Versions /\ rec.config \in Config
      /\ rec = [pc |-> rec.pc, refs |-> rec.refs, versions |-> rec.versions,
                config |-> rec.config]
  BY RecForm DEF ApplyConfigMap, ApplyDeployment, TypeOK
<1>2. template \in Templates
  BY <1>1, RefsAreSecrets DEF Template, Templates
<1>3. [rec EXCEPT !.pc = "deployment"]
        = [pc |-> "deployment", refs |-> rec.refs, versions |-> rec.versions,
           config |-> rec.config]
  BY <1>1
<1>4. /\ Idle \in Reconcilers /\ [pc |-> "mark"] \in Reconcilers
      /\ [rec EXCEPT !.pc = "deployment"] \in Reconcilers
  BY <1>1, <1>3 DEF Idle, Reconcilers
<1>5. /\ rec' \in Reconcilers /\ queued' \in BOOLEAN
      /\ unseen' \subseteq unseen \cup {"ConfigMap", "Deployment"}
      /\ UNCHANGED <<stored, reconciled, plane, pod, inputs, outputs, left>>
  BY <1>4 DEF ApplyConfigMap, ApplyDeployment, Apply, Refused, Fail, cluster, TypeOK
<1>6. \/ children' = children
      \/ children' = [children EXCEPT !["ConfigMap"] = rec.config]
      \/ children' = [children EXCEPT !["Deployment"] = template]
  BY DEF ApplyConfigMap, ApplyDeployment, Apply, Refused, Fail, cluster
<1> HIDE DEF template
<1>7. children' \in Children
  BY <1>1, <1>2, <1>6 DEF TypeOK, Children
<1> QED BY <1>5, <1>7 DEF TypeOK

\* The steps that begin or end a reconciliation.
LEMMA TypeRest ==
  TypeOK /\ (\/ StartReconcile \/ CheckDeployment \/ MarkReconciled \/ MarkBlocked
             \/ CallFails) => TypeOK'
<1> SUFFICES ASSUME TypeOK,
                    \/ StartReconcile \/ CheckDeployment \/ MarkReconciled \/ MarkBlocked
                    \/ CallFails
             PROVE  TypeOK'
  OBVIOUS
<1>1. rec' = Idle \/ rec' = [pc |-> "connection", tunnel |-> inputs.tunnel]
  BY DEF StartReconcile, CheckDeployment, MarkReconciled, MarkBlocked, CallFails, Mark, Fail
<1>2. rec' \in Reconcilers
  BY <1>1, InputsForm DEF Idle, Reconcilers, TypeOK
<1>3. UNCHANGED <<stored, children, plane, pod, inputs, outputs>>
  BY DEF StartReconcile, CheckDeployment, MarkReconciled, MarkBlocked, CallFails, Mark, Fail,
         cluster
<1>4. /\ reconciled' \in BOOLEAN /\ queued' \in BOOLEAN
      /\ unseen' \subseteq unseen \cup {"Tunnel"}
      /\ left' \in 0 .. MaxDisturbances
  BY DisturbTyped DEF StartReconcile, CheckDeployment, MarkReconciled, MarkBlocked, CallFails,
                      Mark, Fail, cluster, TypeOK
<1> QED BY <1>2, <1>3, <1>4 DEF TypeOK

\* The ConfigMap outlives the pods that have read one.
PodHasConfig == pod # NoPod => children.ConfigMap # NoConfig

\* Pods.
LEMMA TypePod ==
  TypeOK /\ PodHasConfig /\ (StartPod \/ ReplacePod \/ RestartAgent) => TypeOK'
<1> SUFFICES ASSUME TypeOK, PodHasConfig, StartPod \/ ReplacePod \/ RestartAgent PROVE TypeOK'
  OBVIOUS
<1>1. UNCHANGED <<stored, children, reconciled, plane, manager>>
  BY DEF StartPod, ReplacePod, RestartAgent
<1>2. left' \in 0 .. MaxDisturbances
  BY DisturbTyped DEF StartPod, ReplacePod, RestartAgent, TypeOK
<1>3. ASSUME NEW set \in SUBSET Secrets, \A s \in set : stored.secrets[s] # Gone
      PROVE  Current(set) \in Versions
  <2>1. Current(set) \in [set -> Stamps]
    BY <1>3, InputsForm DEF Current, TypeOK
  <2> QED BY <2>1, VersionsForm
<1>4. pod' \in Pods \cup {NoPod}
  <2>1. CASE StartPod
    <3>1. children.Deployment \in Templates /\ children.ConfigMap \in Config
      BY <2>1 DEF StartPod, TypeOK, Children
    <3>2. children.Deployment.needs \in SUBSET Secrets
      BY <3>1 DEF Templates
    <3> QED BY <1>3, <2>1, <3>1, <3>2 DEF StartPod, Pods
  <2>2. CASE ReplacePod
    BY <2>2 DEF ReplacePod
  <2>3. CASE RestartAgent
    <3>1. pod \in Pods
      BY <2>3 DEF RestartAgent, TypeOK
    <3>2. pod.template \in Templates /\ pod.template.needs \in SUBSET Secrets
      BY <3>1 DEF Pods, Templates
    <3>3. PICK config \in {pod.config, children.ConfigMap},
               versions \in {pod.versions, Current(pod.template.needs)} :
            pod' = [pod EXCEPT !.config = config, !.versions = versions]
      BY <2>3 DEF RestartAgent
    <3>4. versions \in Versions
      BY <1>3, <2>3, <3>1, <3>2, <3>3 DEF RestartAgent, Pods
    <3>5. config \in Config
      BY <2>3, <3>1, <3>3 DEF RestartAgent, PodHasConfig, Pods, TypeOK, Children
    <3>6. pod' = [template |-> pod.template, config |-> config, versions |-> versions]
      BY <3>1, <3>3 DEF Pods
    <3> QED BY <3>2, <3>4, <3>5, <3>6 DEF Pods
  <2> QED BY <2>1, <2>2, <2>3
<1> QED BY <1>1, <1>2, <1>4 DEF TypeOK, manager

LEMMA PodKeepsConfig == TypeOK /\ PodHasConfig /\ Next => PodHasConfig'
<1> SUFFICES ASSUME TypeOK, PodHasConfig, Next PROVE PodHasConfig'
  OBVIOUS
<1>1. CASE ApplyConfigMap \/ ApplyDeployment
  <2>1. rec.config \in Config
    BY <1>1, RecForm DEF ApplyConfigMap, ApplyDeployment, TypeOK
  <2>2. rec.config # NoConfig
    BY <2>1 DEF Config, NoConfig, Stamps, Gone
  <2>3. PICK template :
          \/ children' = children
          \/ children' = [children EXCEPT !["ConfigMap"] = rec.config]
          \/ children' = [children EXCEPT !["Deployment"] = template]
    BY <1>1 DEF ApplyConfigMap, ApplyDeployment, Apply, Refused, Fail, cluster
  <2>4. pod' = pod
    BY <1>1 DEF ApplyConfigMap, ApplyDeployment, Apply, Refused, Fail, cluster
  <2> QED BY <2>2, <2>3, <2>4 DEF PodHasConfig, TypeOK, Children
<1>2. CASE StartPod \/ ReplacePod \/ RestartAgent
  BY <1>2 DEF StartPod, ReplacePod, RestartAgent, PodHasConfig
<1>3. CASE \/ StartReconcile \/ ReadConnection \/ ReadSecret \/ Resolve \/ ReadService
           \/ CheckDeployment \/ MarkReconciled \/ MarkBlocked \/ CallFails
  <2>1. UNCHANGED <<children, pod>>
    BY <1>3 DEF StartReconcile, ReadConnection, ReadSecret, Resolve, ReadService, Continue,
                CheckDeployment, MarkReconciled, MarkBlocked, CallFails, Mark, Fail, cluster
  <2> QED BY <2>1 DEF PodHasConfig
<1>4. CASE \/ Change \/ SyncTunnel \/ SyncConnection \/ SyncService \/ SyncSecret
           \/ SyncChild \/ Resync \/ RestartManager
  <2>1. UNCHANGED <<children, pod>>
    BY <1>4 DEF Change, EditTunnel, EditConnection, EditService, EditSecret, ChangePlane, Store,
                SyncTunnel, SyncConnection, SyncService, SyncSecret, SyncChild, Resync,
                RestartManager, cluster
  <2> QED BY <2>1 DEF PodHasConfig
<1> QED BY <1>1, <1>2, <1>3, <1>4 DEF Next, Reconcile

TypeInv == TypeOK /\ PodHasConfig

LEMMA TypeStep == TypeInv /\ [Next]_vars => TypeInv'
<1> SUFFICES ASSUME TypeInv, [Next]_vars PROVE TypeInv'
  OBVIOUS
<1>1. CASE UNCHANGED vars
  BY <1>1 DEF vars, TypeInv, TypeOK, PodHasConfig
<1>2. CASE Next
  BY <1>2, PodKeepsConfig, TypeChange, TypeSync, TypeReads, TypeApply, TypeRest, TypePod
     DEF TypeInv, Next, Reconcile
<1> QED BY <1>1, <1>2

\* Every reachable state is well typed: what was read piece by piece makes a complete
\* configuration, with an engine, before it is stored.
THEOREM TypeCorrect == Behaviour => []TypeOK
<1>1. Init => TypeInv
  BY TypeInit DEF Init, TypeInv, PodHasConfig
<1>2. TypeInv => TypeOK
  BY DEF TypeInv
<1> QED BY <1>1, <1>2, TypeStep, PTL DEF Behaviour

-----------------------------------------------------------------------------
(* What a settled tunnel has                                               *)

\* A cached object is the stored one unless its event is under way.
CachesFollow ==
  /\ "Tunnel" \notin unseen => inputs.tunnel = stored.tunnel
  /\ \A c \in Connections : c \notin unseen => inputs.connections[c] = stored.connections[c]
  /\ \A s \in Services : s \notin unseen => inputs.services[s] = stored.services[s]
  /\ \A s \in Secrets : s \notin unseen => inputs.secrets[s] = stored.secrets[s]
  /\ "ConfigMap" \notin unseen => outputs.ConfigMap = children.ConfigMap
  /\ "Deployment" \notin unseen => outputs.Deployment = children.Deployment

StoredSpec == stored.connections[stored.tunnel.connection]

\* The Secrets the stored tunnel depends on.
Needed == {s \in Secrets : StoredSpec # NoSpec /\ s \in SecretRefs(StoredSpec.refs)}

\* Neither the key in the queue nor an event that will put it there.
Quiet ==
  /\ ~queued
  /\ unseen \cap {"Tunnel", "ConfigMap", "Deployment"} = {}
  /\ stored.tunnel.connection \notin unseen /\ stored.tunnel.service \notin unseen
  /\ unseen \cap Needed = {}

\* These are the children the stored inputs ask for, with one engine or another.
Wants(value) ==
  /\ StoredSpec # NoSpec
  /\ \E engine \in Stamps : value = Wanted(stored.tunnel, StoredSpec, engine)

Built == [ConfigMap |-> rec.config,
          Deployment |-> Template(rec.config, rec.refs, rec.versions)]

\* What was read is what is stored now, and so are what is built of it and what was
\* stored of that.
UpToDate ==
  /\ rec.pc \in {"connection", "secrets", "target"} => rec.tunnel = stored.tunnel
  /\ rec.pc \in {"secrets", "target"} => rec.spec = StoredSpec /\ StoredSpec # NoSpec
  /\ rec.pc = "secrets" =>
       rec.versions = Current(AgentSecretRefs(rec.spec.refs) \ rec.todo)
  /\ rec.pc = "target" => rec.versions = Current(AgentSecretRefs(rec.spec.refs))
  /\ rec.pc \in {"configMap", "deployment"} => Wants(Built)
  /\ rec.pc = "deployment" => children.ConfigMap = rec.config
  /\ rec.pc = "mark" => Wants(children)
  /\ rec.pc = "idle" /\ reconciled => Wants(children)

\* A difference between the children and what is stored is bound to be noticed: by an
\* event, by the queue or by the reconciliation that runs.
SettledInv == CachesFollow /\ (Quiet => UpToDate)

\* Nothing stored is different: the invariant depends on what is in the queue.
LEMMA SettledQueued == ASSUME CachesFollow', queued' PROVE SettledInv'
BY SMTT(60) DEF SettledInv, Quiet

\* The steps between which only events and the queue differ.
LEMMA SettledSame ==
  ASSUME SettledInv, CachesFollow', UNCHANGED <<stored, children, reconciled, rec>>,
         Quiet' => Quiet
  PROVE  SettledInv'
<1>1. Quiet' => UpToDate
  BY DEF SettledInv
<1> QED BY <1>1 DEF SettledInv, UpToDate, Wants, Wanted, StoredSpec, Built, Current

LEMMA SettledInit == Init => SettledInv
BY DEF Init, SettledInv, CachesFollow, Quiet

\* A change of what the tunnel does not depend on.
LEMMA SettledChange == TypeOK /\ SettledInv /\ Change => SettledInv'
<1> SUFFICES ASSUME TypeOK, SettledInv, Change PROVE SettledInv'
  OBVIOUS
<1>1. left' \in 0 .. MaxDisturbances /\ New \in Stamps /\ stored \in Inputs
  BY DisturbTyped DEF Change, EditTunnel, EditConnection, EditService, EditSecret, ChangePlane,
                      TypeOK
<1>2. /\ stored.tunnel.connection \in Connections /\ stored.tunnel.service \in Services
      /\ StoredSpec \in ConnectionSpec \cup {NoSpec}
  BY <1>1, InputsForm DEF StoredSpec
<1> DEFINE same == /\ stored'.tunnel = stored.tunnel
                   /\ StoredSpec' = StoredSpec
                   /\ stored'.services[stored.tunnel.service]
                        = stored.services[stored.tunnel.service]
                   /\ \A s \in Needed : stored'.secrets[s] = stored.secrets[s]
                   /\ Quiet
<1>3. ASSUME same, UNCHANGED <<children, reconciled, rec>> PROVE UpToDate'
  <2>1. ASSUME StoredSpec # NoSpec, NEW set \in SUBSET AgentSecretRefs(StoredSpec.refs)
        PROVE  Current(set)' = Current(set)
    <3>1. AgentSecretRefs(StoredSpec.refs) \subseteq Needed
      BY <1>2, <2>1, SpecForm, RefsAreSecrets DEF Needed
    <3> QED BY <1>3, <2>1, <3>1 DEF Current
  <2>2. \A value : Wants(value) => Wants(value)'
    <3> SUFFICES ASSUME NEW value, Wants(value) PROVE Wants(value)'
      OBVIOUS
    <3>1. PICK engine \in Stamps : value = Wanted(stored.tunnel, StoredSpec, engine)
      BY DEF Wants
    <3>2. Wanted(stored.tunnel, StoredSpec, engine)' = Wanted(stored.tunnel, StoredSpec, engine)
      BY <1>3, <2>1 DEF Wanted, Wants
    <3> QED BY <1>3, <3>1, <3>2 DEF Wants
  <2>3. UpToDate
    BY <1>3 DEF SettledInv
  <2>4. Wants(Built) => Wants(Built)'
    BY <1>3, <2>2 DEF Built
  <2>5. Wants(children) => Wants(children)'
    BY <1>3, <2>2
  <2>6. rec.pc = "secrets" => Current(AgentSecretRefs(rec.spec.refs) \ rec.todo)'
                                = Current(AgentSecretRefs(rec.spec.refs) \ rec.todo)
    BY <1>3, <2>1, <2>3 DEF UpToDate
  <2>7. rec.pc = "target" => Current(AgentSecretRefs(rec.spec.refs))'
                               = Current(AgentSecretRefs(rec.spec.refs))
    BY <1>3, <2>1, <2>3 DEF UpToDate
  <2> QED BY <1>3, <2>3, <2>4, <2>5, <2>6, <2>7 DEF UpToDate
<1> HIDE DEF same
<1>4. CASE EditTunnel
  <2>1. PICK value : Store("Tunnel", value) /\ \E tunnel \in Tunnel :
                                                 value = [stored EXCEPT !.tunnel = tunnel]
    <3>1. PICK connection \in Connections, service \in Services :
            Store("Tunnel", [stored EXCEPT !.tunnel =
              [stamp |-> New, connection |-> connection, service |-> service]])
      BY <1>4 DEF EditTunnel
    <3>2. [stamp |-> New, connection |-> connection, service |-> service] \in Tunnel
      BY <1>1 DEF Tunnel
    <3> QED BY <3>1, <3>2
  <2>2. ~Quiet'
    BY <2>1 DEF Store, Quiet
  <2>3. CachesFollow'
    BY <1>1, <2>1, TunnelChanged, RolloutAssumption DEF Store, SettledInv, CachesFollow
  <2> QED BY <2>2, <2>3 DEF SettledInv
<1>5. CASE EditConnection
  <2>1. PICK c \in Connections, spec \in ConnectionSpec \cup {NoSpec} :
          Store(c, [stored EXCEPT !.connections[c] = spec])
    <3>1. \A refs \in References : Spec(refs, New) \in ConnectionSpec
      BY <1>1 DEF ConnectionSpec
    <3> QED BY <1>5, <3>1 DEF EditConnection
  <2>2. /\ stored'.tunnel = stored.tunnel
        /\ \A d \in Connections : stored'.connections[d] = IF d = c THEN spec
                                                           ELSE stored.connections[d]
        /\ stored'.services = stored.services /\ stored'.secrets = stored.secrets
        /\ unseen' = unseen \cup {c}
        /\ UNCHANGED <<children, reconciled, inputs, outputs, queued, rec>>
    <3>1. stored' = [stored EXCEPT !.connections[c] = spec]
      BY <2>1 DEF Store
    <3>2. /\ unseen' = unseen \cup {c}
          /\ UNCHANGED <<children, reconciled, inputs, outputs, queued, rec>>
      BY <2>1 DEF Store
    <3>3. /\ stored'.tunnel = stored.tunnel
          /\ stored'.connections = [stored.connections EXCEPT ![c] = spec]
          /\ stored'.services = stored.services /\ stored'.secrets = stored.secrets
      BY <1>1, <3>1, ConnectionChanged
    <3>4. stored.connections \in [Connections -> ConnectionSpec \cup {NoSpec}]
      BY <1>1 DEF Inputs
    <3> QED BY <3>2, <3>3, <3>4
  <2>3. CachesFollow'
    BY <2>2, RolloutAssumption DEF SettledInv, CachesFollow
  <2>4. Quiet' => same
    BY <1>2, <2>2 DEF same, Quiet, StoredSpec, Needed
  <2> QED BY <1>3, <2>2, <2>3, <2>4 DEF SettledInv
<1>6. CASE EditService
  <2>1. PICK s \in Services, stamp \in Stamps \cup {Gone} :
          Store(s, [stored EXCEPT !.services[s] = stamp])
    BY <1>1, <1>6 DEF EditService
  <2>2. /\ stored'.tunnel = stored.tunnel /\ stored'.connections = stored.connections
        /\ \A t \in Services : stored'.services[t] = IF t = s THEN stamp ELSE stored.services[t]
        /\ stored'.secrets = stored.secrets
        /\ unseen' = unseen \cup {s}
        /\ UNCHANGED <<children, reconciled, inputs, outputs, queued, rec>>
    <3>1. stored' = [stored EXCEPT !.services[s] = stamp]
      BY <2>1 DEF Store
    <3>2. /\ unseen' = unseen \cup {s}
          /\ UNCHANGED <<children, reconciled, inputs, outputs, queued, rec>>
      BY <2>1 DEF Store
    <3>3. /\ stored'.tunnel = stored.tunnel
          /\ stored'.services = [stored.services EXCEPT ![s] = stamp]
          /\ stored'.connections = stored.connections /\ stored'.secrets = stored.secrets
      BY <1>1, <3>1, ServiceChanged
    <3>4. stored.services \in [Services -> Stamps \cup {Gone}]
      BY <1>1 DEF Inputs
    <3> QED BY <3>2, <3>3, <3>4
  <2>3. CachesFollow'
    BY <2>2, RolloutAssumption DEF SettledInv, CachesFollow
  <2>4. Quiet' => same
    BY <1>2, <2>2 DEF same, Quiet, StoredSpec, Needed
  <2> QED BY <1>3, <2>2, <2>3, <2>4 DEF SettledInv
<1>7. CASE EditSecret
  <2>1. PICK s \in Secrets, stamp \in Stamps \cup {Gone} :
          Store(s, [stored EXCEPT !.secrets[s] = stamp])
    BY <1>1, <1>7 DEF EditSecret
  <2>2. /\ stored'.tunnel = stored.tunnel /\ stored'.connections = stored.connections
        /\ \A t \in Secrets : stored'.secrets[t] = IF t = s THEN stamp ELSE stored.secrets[t]
        /\ stored'.services = stored.services
        /\ unseen' = unseen \cup {s}
        /\ UNCHANGED <<children, reconciled, inputs, outputs, queued, rec>>
    <3>1. stored' = [stored EXCEPT !.secrets[s] = stamp]
      BY <2>1 DEF Store
    <3>2. /\ unseen' = unseen \cup {s}
          /\ UNCHANGED <<children, reconciled, inputs, outputs, queued, rec>>
      BY <2>1 DEF Store
    <3>3. /\ stored'.tunnel = stored.tunnel
          /\ stored'.secrets = [stored.secrets EXCEPT ![s] = stamp]
          /\ stored'.connections = stored.connections /\ stored'.services = stored.services
      BY <1>1, <3>1, SecretChanged
    <3>4. stored.secrets \in [Secrets -> Stamps \cup {Gone}]
      BY <1>1 DEF Inputs
    <3> QED BY <3>2, <3>3, <3>4
  <2>3. CachesFollow'
    BY <2>2, RolloutAssumption DEF SettledInv, CachesFollow
  <2>4. Quiet' => same
    BY <1>2, <2>2 DEF same, Quiet, StoredSpec, Needed
  <2> QED BY <1>3, <2>2, <2>3, <2>4 DEF SettledInv
<1>8. CASE ChangePlane
  <2>1. UNCHANGED <<stored, children, reconciled, unseen, inputs, outputs, queued, rec>>
    BY <1>8 DEF ChangePlane, manager
  <2>2. CachesFollow' /\ Quiet' = Quiet
    BY <2>1 DEF SettledInv, CachesFollow, Quiet, Needed, StoredSpec
  <2> QED BY <2>1, <2>2, SettledSame
<1> QED BY <1>4, <1>5, <1>6, <1>7, <1>8 DEF Change

\* A watch enqueues the tunnel unless the event is of something the tunnel does not
\* depend on.  The map function may look at stale caches: then the event that brings
\* them up to date is still to come, and enqueues the tunnel itself.
LEMMA SettledSync ==
  TypeOK /\ SettledInv /\ (\/ SyncTunnel \/ SyncConnection \/ SyncService \/ SyncSecret
                           \/ SyncChild \/ Resync \/ RestartManager) => SettledInv'
<1> SUFFICES ASSUME TypeOK, SettledInv,
                    \/ SyncTunnel \/ SyncConnection \/ SyncService \/ SyncSecret
                    \/ SyncChild \/ Resync \/ RestartManager
             PROVE  SettledInv'
  OBVIOUS
<1>1. stored \in Inputs /\ inputs \in Inputs /\ children \in Children /\ outputs \in Children
  BY DEF TypeOK
<1>2. /\ stored.tunnel.connection \in Connections /\ stored.tunnel.service \in Services
      /\ StoredSpec \in ConnectionSpec \cup {NoSpec}
  BY <1>1, InputsForm DEF StoredSpec
<1>3. UNCHANGED <<stored, children, reconciled>>
  BY DEF SyncTunnel, SyncConnection, SyncService, SyncSecret, SyncChild, Resync, RestartManager,
         cluster
<1>4. CASE SyncTunnel
  <2>1. inputs' = [inputs EXCEPT !.tunnel = stored.tunnel] /\ unseen' = unseen \ {"Tunnel"}
        /\ queued' /\ outputs' = outputs
    BY <1>4 DEF SyncTunnel, Sync, Enqueue
  <2>2. CachesFollow'
    <3>1. stored.tunnel \in Tunnel
      BY <1>1, InputsForm
    <3>2. /\ inputs'.tunnel = stored.tunnel /\ inputs'.connections = inputs.connections
          /\ inputs'.services = inputs.services /\ inputs'.secrets = inputs.secrets
      BY <1>1, <2>1, <3>1, TunnelChanged
    <3> QED BY <1>3, <2>1, <3>2, RolloutAssumption DEF SettledInv, CachesFollow
  <2> QED BY <2>1, <2>2, SettledQueued
<1>5. CASE SyncConnection
  <2>1. PICK c \in Connections :
          /\ inputs' = [inputs EXCEPT !.connections[c] = stored.connections[c]]
          /\ unseen' = unseen \ {c}
          /\ queued' = (queued \/ inputs.tunnel.connection = c)
    BY <1>5 DEF SyncConnection, Sync, Enqueue
  <2>2. UNCHANGED <<outputs, rec>>
    BY <1>5 DEF SyncConnection, Sync
  <2>3. CachesFollow'
    <3>1. stored.connections[c] \in ConnectionSpec \cup {NoSpec}
      BY <1>1, InputsForm
    <3>2. /\ inputs'.tunnel = inputs.tunnel
          /\ inputs'.connections = [inputs.connections EXCEPT ![c] = stored.connections[c]]
          /\ inputs'.services = inputs.services /\ inputs'.secrets = inputs.secrets
      BY <1>1, <2>1, <3>1, ConnectionChanged
    <3>3. inputs.connections \in [Connections -> ConnectionSpec \cup {NoSpec}]
      BY <1>1 DEF Inputs
    <3> QED BY <1>3, <2>1, <2>2, <3>2, <3>3, RolloutAssumption DEF SettledInv, CachesFollow
  <2>4. ASSUME Quiet' PROVE Quiet
    <3>1. inputs.tunnel = stored.tunnel
      BY <1>3, <2>1, <2>4, RolloutAssumption DEF Quiet, SettledInv, CachesFollow
    <3>2. stored.tunnel.connection # c
      BY <2>1, <2>4, <3>1 DEF Quiet
    <3> QED BY <1>2, <1>3, <2>1, <2>4, <3>2, RolloutAssumption DEF Quiet, Needed, StoredSpec
  <2> QED BY <1>3, <2>2, <2>3, <2>4, SettledSame
<1>6. CASE SyncService
  <2>1. PICK s \in Services :
          /\ inputs' = [inputs EXCEPT !.services[s] = stored.services[s]]
          /\ unseen' = unseen \ {s}
          /\ queued' = (queued \/ inputs.tunnel.service = s)
    BY <1>6 DEF SyncService, Sync, Enqueue
  <2>2. UNCHANGED <<outputs, rec>>
    BY <1>6 DEF SyncService, Sync
  <2>3. CachesFollow'
    <3>1. stored.services[s] \in Stamps \cup {Gone}
      BY <1>1, InputsForm
    <3>2. /\ inputs'.tunnel = inputs.tunnel /\ inputs'.connections = inputs.connections
          /\ inputs'.services = [inputs.services EXCEPT ![s] = stored.services[s]]
          /\ inputs'.secrets = inputs.secrets
      BY <1>1, <2>1, <3>1, ServiceChanged
    <3>3. inputs.services \in [Services -> Stamps \cup {Gone}]
      BY <1>1 DEF Inputs
    <3> QED BY <1>3, <2>1, <2>2, <3>2, <3>3, RolloutAssumption DEF SettledInv, CachesFollow
  <2>4. ASSUME Quiet' PROVE Quiet
    <3>1. inputs.tunnel = stored.tunnel
      BY <1>3, <2>1, <2>4, RolloutAssumption DEF Quiet, SettledInv, CachesFollow
    <3>2. stored.tunnel.service # s
      BY <2>1, <2>4, <3>1 DEF Quiet
    <3> QED BY <1>2, <1>3, <2>1, <2>4, <3>2, RolloutAssumption DEF Quiet, Needed, StoredSpec
  <2> QED BY <1>3, <2>2, <2>3, <2>4, SettledSame
<1>7. CASE SyncSecret
  <2>1. PICK s \in Secrets :
          /\ inputs' = [inputs EXCEPT !.secrets[s] = stored.secrets[s]]
          /\ unseen' = unseen \ {s}
          /\ queued' = (queued \/ ReferencesSecret(
                                    inputs.connections[inputs.tunnel.connection], s))
    BY <1>7 DEF SyncSecret, Sync, Enqueue
  <2>2. UNCHANGED <<outputs, rec>>
    BY <1>7 DEF SyncSecret, Sync
  <2>3. CachesFollow'
    <3>1. stored.secrets[s] \in Stamps \cup {Gone}
      BY <1>1, InputsForm
    <3>2. /\ inputs'.tunnel = inputs.tunnel /\ inputs'.connections = inputs.connections
          /\ inputs'.services = inputs.services
          /\ inputs'.secrets = [inputs.secrets EXCEPT ![s] = stored.secrets[s]]
      BY <1>1, <2>1, <3>1, SecretChanged
    <3>3. inputs.secrets \in [Secrets -> Stamps \cup {Gone}]
      BY <1>1 DEF Inputs
    <3> QED BY <1>3, <2>1, <2>2, <3>2, <3>3, RolloutAssumption DEF SettledInv, CachesFollow
  <2>4. ASSUME Quiet' PROVE Quiet
    <3>1. "Tunnel" \notin unseen /\ stored.tunnel.connection \notin unseen /\ ~queued
      BY <1>2, <1>3, <2>1, <2>4, RolloutAssumption DEF Quiet
    <3>2. inputs.connections[inputs.tunnel.connection] = StoredSpec
      BY <1>2, <3>1 DEF SettledInv, CachesFollow, StoredSpec
    <3>3. s \notin Needed
      BY <2>1, <2>4, <3>2 DEF Quiet, ReferencesSecret, Needed
    <3> QED BY <1>2, <1>3, <2>1, <2>4, <3>1, <3>3, RolloutAssumption
            DEF Quiet, Needed, StoredSpec
  <2> QED BY <1>3, <2>2, <2>3, <2>4, SettledSame
<1>8. CASE SyncChild
  <2>1. PICK kind \in {"ConfigMap", "Deployment"} :
          unseen' = unseen \ {kind} /\ outputs' = [outputs EXCEPT ![kind] = children[kind]]
    BY <1>8 DEF SyncChild
  <2>2. queued' /\ inputs' = inputs
    BY <1>8 DEF SyncChild, Enqueue
  <2>3. CachesFollow'
    BY <1>1, <1>3, <2>1, <2>2, RolloutAssumption DEF SettledInv, CachesFollow, Children
  <2> QED BY <2>2, <2>3, SettledQueued
<1>9. CASE Resync \/ RestartManager
  <2>1. queued' /\ CachesFollow'
    BY <1>3, <1>9 DEF Resync, RestartManager, SettledInv, CachesFollow
  <2> QED BY <2>1, SettledQueued
<1> QED BY <1>4, <1>5, <1>6, <1>7, <1>8, <1>9

\* What the cache gives while nothing is under way is what is stored.
LEMMA QuietReads ==
  ASSUME TypeOK, CachesFollow, Quiet
  PROVE  /\ inputs.tunnel = stored.tunnel
         /\ inputs.connections[stored.tunnel.connection] = StoredSpec
         /\ inputs.services[stored.tunnel.service] = stored.services[stored.tunnel.service]
         /\ \A s \in Needed : inputs.secrets[s] = stored.secrets[s]
         /\ outputs = children
<1>1. stored.tunnel.connection \in Connections /\ stored.tunnel.service \in Services
  BY InputsForm DEF TypeOK
<1>2. outputs.ConfigMap = children.ConfigMap /\ outputs.Deployment = children.Deployment
  BY DEF Quiet, CachesFollow
<1>3. outputs = children
  BY <1>2 DEF TypeOK, Children
<1> QED BY <1>1, <1>3 DEF Quiet, CachesFollow, Needed, StoredSpec

\* The same caches and store: what is quiet stays so.
LEMMA QuietStays ==
  ASSUME SettledInv, UNCHANGED <<stored, children, unseen, inputs, outputs, queued>>
  PROVE  CachesFollow' /\ Quiet' = Quiet
BY DEF SettledInv, CachesFollow, Quiet, Needed, StoredSpec

LEMMA SettledReads ==
  TypeOK /\ SettledInv /\ (ReadConnection \/ ReadSecret \/ Resolve \/ ReadService)
    => SettledInv'
<1> SUFFICES ASSUME TypeOK, SettledInv, ReadConnection \/ ReadSecret \/ Resolve \/ ReadService
             PROVE  SettledInv'
  OBVIOUS
<1>1. UNCHANGED <<stored, children, reconciled, plane, unseen, inputs, outputs, queued>>
  BY DEF ReadConnection, ReadSecret, Resolve, ReadService, Continue, cluster
<1>2. CachesFollow' /\ Quiet' = Quiet
  BY <1>1, QuietStays
<1> SUFFICES ASSUME Quiet PROVE UpToDate'
  BY <1>2 DEF SettledInv
<1>3. UpToDate /\ rec \in Reconcilers
  BY DEF SettledInv, TypeOK
<1>4. /\ inputs.connections[stored.tunnel.connection] = StoredSpec
      /\ inputs.services[stored.tunnel.service] = stored.services[stored.tunnel.service]
      /\ \A s \in Needed : inputs.secrets[s] = stored.secrets[s]
  BY QuietReads DEF SettledInv
<1>5. StoredSpec' = StoredSpec
  BY <1>1 DEF StoredSpec
<1>6. CASE rec' = Block
  BY <1>6 DEF UpToDate, Block
<1>7. CASE ReadConnection /\ rec' # Block
  <2>1. rec.tunnel = stored.tunnel
    BY <1>3, <1>7 DEF UpToDate, ReadConnection
  <2>2. StoredSpec # NoSpec /\
        rec' = [pc |-> "secrets", tunnel |-> stored.tunnel, spec |-> StoredSpec,
                todo |-> SecretRefs(StoredSpec.refs), versions |-> [s \in {} |-> Gone]]
    BY <1>4, <1>7, <2>1 DEF ReadConnection, Continue
  <2>3. Current({})' = [s \in {} |-> Gone]
    BY DEF Current
  <2>4. AgentSecretRefs(StoredSpec.refs) \ SecretRefs(StoredSpec.refs) = {}
    BY AgentSecretsAreRead
  <2>5. (rec.versions = Current(AgentSecretRefs(rec.spec.refs) \ rec.todo))'
    BY <2>2, <2>3, <2>4
  <2> QED BY <1>1, <1>5, <2>2, <2>5 DEF UpToDate
<1>8. CASE ReadSecret /\ rec' # Block
  <2> DEFINE agents == AgentSecretRefs(rec.spec.refs)
             known(s) == DOMAIN rec.versions \cup ({s} \cap agents)
             versions(s) == [t \in known(s) |->
                               IF t = s THEN inputs.secrets[s] ELSE rec.versions[t]]
  <2>1. PICK s \in rec.todo :
          rec' = [pc |-> "secrets", tunnel |-> rec.tunnel, spec |-> rec.spec,
                  todo |-> rec.todo \ {s}, versions |-> versions(s)]
    BY <1>8 DEF ReadSecret, Continue
  <2>2. /\ rec.pc = "secrets" /\ rec.tunnel = stored.tunnel
        /\ rec.spec = StoredSpec /\ StoredSpec # NoSpec
        /\ rec.versions = Current(agents \ rec.todo)
    BY <1>3, <1>8 DEF UpToDate, ReadSecret
  <2>3. s \in agents => inputs.secrets[s] = stored.secrets[s]
    <3>1. rec.spec \in ConnectionSpec
      BY <1>3, <2>2, RecForm
    <3> QED BY <1>4, <2>2, <3>1, SpecForm, RefsAreSecrets DEF Needed
  <2>4. versions(s) = Current(agents \ (rec.todo \ {s}))
    <3>1. known(s) = agents \ (rec.todo \ {s})
      BY <2>1, <2>2 DEF Current
    <3>2. \A t \in known(s) :
            (IF t = s THEN inputs.secrets[s] ELSE rec.versions[t]) = stored.secrets[t]
      BY <2>1, <2>2, <2>3, <3>1 DEF Current
    <3> QED BY <3>1, <3>2 DEF Current
  <2> HIDE DEF versions
  <2>5. (rec.versions = Current(AgentSecretRefs(rec.spec.refs) \ rec.todo))'
    BY <1>1, <2>1, <2>4 DEF Current
  <2> QED BY <1>1, <1>5, <2>1, <2>2, <2>5 DEF UpToDate
<1>9. CASE Resolve /\ rec' # Block
  <2>1. PICK engine : rec' = [pc |-> "target", tunnel |-> rec.tunnel, spec |-> rec.spec,
                              versions |-> rec.versions, engine |-> engine]
    BY <1>9 DEF Resolve, Continue
  <2>2. /\ rec.tunnel = stored.tunnel /\ rec.spec = StoredSpec /\ StoredSpec # NoSpec
        /\ rec.versions = Current(AgentSecretRefs(rec.spec.refs))
    BY <1>3, <1>9 DEF UpToDate, Resolve
  <2>3. (rec.versions = Current(AgentSecretRefs(rec.spec.refs)))'
    BY <1>1, <2>1, <2>2 DEF Current
  <2> QED BY <1>1, <1>5, <2>1, <2>2, <2>3 DEF UpToDate
<1>10. CASE ReadService /\ rec' # Block
  <2> DEFINE target == stored.services[stored.tunnel.service]
             config == AgentConfig(stored.tunnel, StoredSpec, rec.engine, target)
  <2>1. /\ rec.tunnel = stored.tunnel /\ rec.spec = StoredSpec /\ StoredSpec # NoSpec
        /\ rec.versions = Current(AgentSecretRefs(StoredSpec.refs))
        /\ rec.engine \in Stamps
    BY <1>3, <1>10, RecForm DEF UpToDate, ReadService
  <2>2. rec' = [pc |-> "configMap", refs |-> StoredSpec.refs, versions |-> rec.versions,
                config |-> config]
    BY <1>4, <1>10, <2>1 DEF ReadService, Continue
  <2>3. Built' = Wanted(stored.tunnel, StoredSpec, rec.engine)
    BY <2>1, <2>2 DEF Built, Wanted
  <2>5. Wants(Built)'
    BY <1>1, <1>5, <2>1, <2>3 DEF Wants, Wanted, Current
  <2> QED BY <2>2, <2>5 DEF UpToDate
<1> QED BY <1>6, <1>7, <1>8, <1>9, <1>10

\* A child that is as wanted is not sent; one that is sent is an event.
LEMMA SettledApply ==
  TypeOK /\ SettledInv /\ (ApplyConfigMap \/ ApplyDeployment) => SettledInv'
<1> SUFFICES ASSUME TypeOK, SettledInv, ApplyConfigMap \/ ApplyDeployment PROVE SettledInv'
  OBVIOUS
<1> DEFINE template == Template(rec.config, rec.refs, rec.versions)
<1>1. /\ rec = [pc |-> rec.pc, refs |-> rec.refs, versions |-> rec.versions,
                config |-> rec.config]
      /\ children = [ConfigMap |-> children.ConfigMap, Deployment |-> children.Deployment]
  BY RecForm DEF ApplyConfigMap, ApplyDeployment, TypeOK, Children
<1>2. UNCHANGED <<stored, reconciled, inputs, outputs>>
  BY DEF ApplyConfigMap, ApplyDeployment, Apply, Refused, Fail, cluster
<1>3. CASE Fail
  <2>1. queued' /\ UNCHANGED <<children, unseen>>
    BY <1>3 DEF Fail, cluster
  <2>2. CachesFollow'
    BY <1>2, <2>1 DEF SettledInv, CachesFollow
  <2> QED BY <2>1, <2>2, SettledQueued
<1>4. CASE ApplyConfigMap /\ ~Fail
  <2>1. rec.pc = "configMap" /\ rec' = [rec EXCEPT !.pc = "deployment"] /\ queued' = queued
    BY <1>4 DEF ApplyConfigMap, Apply, Refused
  <2>2. rec' = [pc |-> "deployment", refs |-> rec.refs, versions |-> rec.versions,
                config |-> rec.config]
    BY <1>1, <2>1
  <2>3. \/ /\ children'.ConfigMap = rec.config /\ children'.Deployment = children.Deployment
           /\ unseen' = IF rec.config = children.ConfigMap THEN unseen
                        ELSE unseen \cup {"ConfigMap"}
           /\ rec.config = children.ConfigMap => children' = children
        \/ /\ outputs.ConfigMap # children.ConfigMap
           /\ UNCHANGED <<children, unseen>>
    BY <1>1, <1>4 DEF ApplyConfigMap, Apply, Refused, cluster
  <2>4. CachesFollow'
    BY <1>2, <2>3, RolloutAssumption DEF SettledInv, CachesFollow
  <2>5. ASSUME Quiet' PROVE UpToDate'
    <3>1. "ConfigMap" \notin unseen' /\ unseen \subseteq unseen'
      BY <2>3, <2>5 DEF Quiet
    <3>2. Quiet /\ children' = children /\ children.ConfigMap = rec.config
      BY <1>2, <2>1, <2>3, <2>5, <3>1 DEF Quiet, Needed, StoredSpec, SettledInv, CachesFollow
    <3>3. Wants(Built)
      BY <2>1, <3>2, SMTT(60) DEF SettledInv, UpToDate
    <3>4. Wants(Built)'
      BY <1>2, <2>2, <3>3 DEF Wants, Wanted, StoredSpec, Built, Current
    <3> QED BY <2>2, <3>2, <3>4 DEF UpToDate
  <2> QED BY <2>4, <2>5 DEF SettledInv
<1>5. CASE ApplyDeployment /\ ~Fail
  <2>1. rec.pc = "deployment" /\ rec' = [pc |-> "mark"] /\ queued' = queued
    BY <1>5 DEF ApplyDeployment, Apply, Refused
  <2>2. \/ /\ children'.Deployment = template /\ children'.ConfigMap = children.ConfigMap
           /\ unseen' = IF template = children.Deployment THEN unseen
                        ELSE unseen \cup {"Deployment"}
           /\ template = children.Deployment => children' = children
        \/ /\ outputs.Deployment # children.Deployment
           /\ UNCHANGED <<children, unseen>>
    BY <1>1, <1>5 DEF ApplyDeployment, Apply, Refused, cluster
  <2> HIDE DEF template
  <2>3. CachesFollow'
    BY <1>2, <2>2, RolloutAssumption DEF SettledInv, CachesFollow
  <2>4. ASSUME Quiet' PROVE UpToDate'
    <3>1. "Deployment" \notin unseen' /\ unseen \subseteq unseen'
      BY <2>2, <2>4 DEF Quiet
    <3>2. Quiet /\ children' = children /\ children.Deployment = template
      BY <1>2, <2>1, <2>2, <2>4, <3>1 DEF Quiet, Needed, StoredSpec, SettledInv, CachesFollow
    <3>3. Wants(Built) /\ children.ConfigMap = rec.config
      BY <2>1, <3>2 DEF SettledInv, UpToDate
    <3>4. Built = children
      BY <1>1, <3>2, <3>3, SMTT(60) DEF Built, template
    <3>5. Wants(children)'
      BY <1>2, <3>2, <3>3, <3>4 DEF Wants, Wanted, StoredSpec, Current
    <3> QED BY <2>1, <3>5 DEF UpToDate
  <2> QED BY <2>3, <2>4 DEF SettledInv
<1> QED BY <1>3, <1>4, <1>5

\* The status that a reconciliation ends with says reconciled only after it has seen to
\* the children; one that failed is back in the queue.
LEMMA SettledRest ==
  TypeOK /\ SettledInv /\ (\/ StartReconcile \/ CheckDeployment \/ MarkReconciled
                           \/ MarkBlocked \/ CallFails) => SettledInv'
<1> SUFFICES ASSUME TypeOK, SettledInv,
                    \/ StartReconcile \/ CheckDeployment \/ MarkReconciled \/ MarkBlocked
                    \/ CallFails
             PROVE  SettledInv'
  OBVIOUS
<1>1. UNCHANGED <<stored, children, inputs, outputs>> /\ unseen \subseteq unseen'
  BY DEF StartReconcile, CheckDeployment, MarkReconciled, MarkBlocked, CallFails, Mark, Fail,
         cluster
<1>2. CachesFollow'
  BY <1>1 DEF SettledInv, CachesFollow
<1>3. CASE CheckDeployment \/ CallFails
  BY <1>2, <1>3, SettledQueued DEF CheckDeployment, CallFails, Fail
<1>4. CASE StartReconcile
  <2>1. rec' = [pc |-> "connection", tunnel |-> inputs.tunnel] /\ unseen' = unseen
    BY <1>4 DEF StartReconcile
  <2>2. Quiet' => inputs.tunnel = stored.tunnel
    BY <2>1 DEF Quiet, SettledInv, CachesFollow
  <2> QED BY <1>1, <1>2, <2>1, <2>2 DEF SettledInv, UpToDate
<1>5. CASE MarkReconciled \/ MarkBlocked
  <2>1. rec' = [pc |-> "idle"] /\ queued' = queued
    BY <1>5 DEF MarkReconciled, MarkBlocked, Mark, Idle
  <2>2. Quiet' => Quiet
    BY <1>1, <2>1 DEF Quiet, Needed, StoredSpec
  <2>3. reconciled' => rec.pc = "mark"
    BY <1>5 DEF MarkReconciled, MarkBlocked, Mark
  <2>4. Quiet' /\ reconciled' => Wants(children)
    BY <2>2, <2>3, SMTT(60) DEF SettledInv, UpToDate
  <2>5. Wants(children) => Wants(children)'
    BY <1>1 DEF Wants, Wanted, StoredSpec, Current
  <2> QED BY <1>2, <2>1, <2>4, <2>5 DEF SettledInv, UpToDate
<1> QED BY <1>3, <1>4, <1>5

LEMMA SettledPod == SettledInv /\ (StartPod \/ ReplacePod \/ RestartAgent) => SettledInv'
<1> SUFFICES ASSUME SettledInv, StartPod \/ ReplacePod \/ RestartAgent PROVE SettledInv'
  OBVIOUS
<1>1. UNCHANGED <<stored, children, reconciled, unseen, inputs, outputs, queued, rec>>
  BY DEF StartPod, ReplacePod, RestartAgent, manager
<1> QED BY <1>1, QuietStays, SettledSame

LEMMA SettledStep == TypeOK /\ SettledInv /\ [Next]_vars => SettledInv'
<1> SUFFICES ASSUME TypeOK, SettledInv, [Next]_vars PROVE SettledInv'
  OBVIOUS
<1>1. CASE UNCHANGED vars
  <2>1. UNCHANGED <<stored, children, reconciled, unseen, inputs, outputs, queued, rec>>
    BY <1>1 DEF vars
  <2> QED BY <2>1, QuietStays, SettledSame
<1>2. CASE Next
  BY <1>2, SettledChange, SettledSync, SettledReads, SettledApply, SettledRest, SettledPod
     DEF Next, Reconcile
<1> QED BY <1>1, <1>2

\* When nothing is left to do and the status says so, the children are those of what is
\* stored, whatever changed between the reads of the caches, the writes and the events.
THEOREM ReconciledRolledOut == Behaviour => []ReconciledIsRolledOut
<1>1. Init => TypeInv
  BY TypeInit DEF Init, TypeInv, PodHasConfig
<1>2. TypeInv => TypeOK
  BY DEF TypeInv
<1>3. TypeInv /\ SettledInv => ReconciledIsRolledOut
  <2> SUFFICES ASSUME SettledInv, Settled, reconciled PROVE Wants(children)
    BY DEF ReconciledIsRolledOut, Wants, StoredSpec
  <2>1. Quiet
    BY DEF Settled, Quiet
  <2> QED BY <2>1 DEF SettledInv, UpToDate, Settled
<1> QED BY <1>1, <1>2, <1>3, TypeStep, SettledInit, SettledStep, PTL DEF Behaviour
=============================================================================
