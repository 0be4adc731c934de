------------------------- MODULE ConfigOrderProofs --------------------------
(***************************************************************************)
(* Theorems about ConfigRollout, for any connections, Services, Secrets    *)
(* and number of changes: a pod of the template of a settled tunnel that   *)
(* says it is reconciled runs the stored configuration and Secrets, and a  *)
(* configuration is never replaced by an older one.                        *)
(*                                                                         *)
(* A pod reads the ConfigMap and the Secrets at other times than Reconcile *)
(* reads the inputs, so the proof is one about order: the ConfigMap and    *)
(* the Secrets only move forward, what the pod has read lies between what  *)
(* its template was made of and what is stored, and when those two are the *)
(* same nothing is left between them.                                      *)
(***************************************************************************)
EXTENDS ConfigRolloutProofs

-----------------------------------------------------------------------------
(* The order of what is read and stored.  A stamp is new at each change,   *)
(* so what was read earlier is older than what is read now, unless it is   *)
(* gone; a ConfigMap is only replaced by one that is not older.            *)

Older(a, b) == a = b \/ a.stamp < b.stamp

\* The caches are behind what is stored.
CachesBehind ==
  /\ stored.tunnel.stamp < New /\ Older(inputs.tunnel, stored.tunnel)
  /\ \A c \in Connections :
       /\ stored.connections[c].stamp < New /\ inputs.connections[c].stamp < New
       /\ stored.connections[c] # NoSpec =>
            Older(inputs.connections[c], stored.connections[c])
  /\ \A s \in Services :
       /\ stored.services[s] < New /\ inputs.services[s] < New
       /\ stored.services[s] # Gone => inputs.services[s] <= stored.services[s]
  /\ plane < New

\* An engine the connection had: its own, or one the Control plane named.
EngineFits(engine, spec) ==
  IF spec.refs.direct THEN engine = spec.stamp ELSE plane # Gone => engine <= plane

\* What Reconcile has read is behind the caches.
ReadBehind ==
  /\ rec.pc \in {"connection", "secrets", "target"} => Older(rec.tunnel, inputs.tunnel)
  /\ rec.pc \in {"secrets", "target"} =>
       /\ rec.spec.stamp < New
       /\ \A world \in {stored, inputs} :
            world.connections[rec.tunnel.connection] # NoSpec =>
              Older(rec.spec, world.connections[rec.tunnel.connection])
  /\ rec.pc = "target" => rec.engine < New /\ EngineFits(rec.engine, rec.spec)

\* A configuration is not newer than another one.
Below(a, b) ==
  \/ a = b
  \/ a.tunnel < b.tunnel
  \/ /\ a.tunnel = b.tunnel /\ a.target <= b.target
     /\ \/ a.connection < b.connection
        \/ a.connection = b.connection /\ a.engine <= b.engine

BehindSpec(config, spec) ==
  spec # NoSpec => \/ config.connection < spec.stamp
                   \/ config.connection = spec.stamp /\ EngineFits(config.engine, spec)

BehindTarget(config, target) == target # Gone => config.target <= target

\* The copies of the tunnel there are.
Copies ==
  {stored.tunnel, inputs.tunnel}
    \cup IF rec.pc \in {"connection", "secrets", "target"} THEN {rec.tunnel} ELSE {}

\* A configuration made for the connection c and the Service s is behind what is
\* stored and cached.
MadeFor(config, c, s) ==
  /\ \A tunnel \in Copies :
       /\ config.tunnel <= tunnel.stamp
       /\ config.tunnel = tunnel.stamp => tunnel.connection = c /\ tunnel.service = s
  /\ \A world \in {stored, inputs} : /\ BehindSpec(config, world.connections[c])
                                     /\ BehindTarget(config, world.services[s])

Behind(config) ==
  config # NoConfig =>
    /\ config.connection < New /\ config.engine < New /\ config.target < New
    /\ \E c \in Connections, s \in Services : MadeFor(config, c, s)

\* What Reconcile is about to store is not older than the ConfigMap.
ConfigForward ==
  /\ Behind(children.ConfigMap)
  /\ rec.pc = "configMap" => Behind(rec.config) /\ Below(children.ConfigMap, rec.config)
  /\ rec.pc = "deployment" => children.ConfigMap = rec.config
  /\ rec.pc \in {"secrets", "target"} /\ children.ConfigMap.tunnel = rec.tunnel.stamp =>
       /\ BehindSpec(children.ConfigMap, rec.spec)
       /\ rec.pc = "target" /\ children.ConfigMap.connection = rec.spec.stamp =>
            children.ConfigMap.engine <= rec.engine
  /\ Below(outputs.ConfigMap, children.ConfigMap)

\* The template, and what the pod of an earlier one reads, are behind the ConfigMap.
PodForward ==
  /\ Below(children.Deployment.config, children.ConfigMap)
  /\ pod # NoPod => /\ Below(pod.template.config, pod.config)
                    /\ Below(pod.config, children.ConfigMap)

\* A version of a Secret that was read is behind the stored one.
Read(s, version) ==
  version < New /\ (stored.secrets[s] # Gone => version <= stored.secrets[s])

SecretsForward ==
  /\ \A s \in Secrets : Read(s, stored.secrets[s]) /\ Read(s, inputs.secrets[s])
  /\ rec.pc \in {"secrets", "target", "configMap", "deployment"} =>
       \A s \in DOMAIN rec.versions : Read(s, rec.versions[s])
  /\ children.Deployment # NoTemplate =>
       \A s \in DOMAIN children.Deployment.versions : Read(s, children.Deployment.versions[s])
  /\ pod # NoPod =>
       /\ DOMAIN pod.template.versions = pod.template.needs
       /\ DOMAIN pod.versions = pod.template.needs
       /\ \A s \in pod.template.needs : /\ Read(s, pod.versions[s])
                                        /\ pod.template.versions[s] <= pod.versions[s]

\* What a step makes of stamps: what is stored is left alone, goes, or gets the new
\* stamp, and a cache takes what is stored.
StoredDrift ==
  /\ \/ stored'.tunnel = stored.tunnel
     \/ stored'.tunnel.stamp = New /\ New < New'
  /\ \A c \in Connections :
       \/ stored'.connections[c] \in {stored.connections[c], NoSpec}
       \/ stored'.connections[c].stamp = New /\ New < New'
  /\ \A s \in Services : \/ stored'.services[s] \in {stored.services[s], Gone}
                         \/ stored'.services[s] = New /\ New < New'
  /\ \A s \in Secrets : \/ stored'.secrets[s] \in {stored.secrets[s], Gone}
                        \/ stored'.secrets[s] = New /\ New < New'

CacheDrift ==
  /\ inputs'.tunnel \in {inputs.tunnel, stored.tunnel}
  /\ \A c \in Connections :
       inputs'.connections[c] \in {inputs.connections[c], stored.connections[c]}
  /\ \A s \in Services : inputs'.services[s] \in {inputs.services[s], stored.services[s]}
  /\ \A s \in Secrets : inputs'.secrets[s] \in {inputs.secrets[s], stored.secrets[s]}

Drift ==
  /\ New \in Nat /\ New' \in Nat /\ New <= New'
  /\ plane' \in {plane, Gone} \/ (plane' = New /\ New < New')
  /\ StoredDrift /\ CacheDrift

LEMMA StampNumber ==
  ASSUME NEW stamp \in Stamps \cup {Gone}
  PROVE  stamp \in Nat /\ (stamp \in Stamps => stamp # Gone)
BY RolloutAssumption DEF Stamps, Gone

LEMMA SpecNumber ==
  ASSUME NEW spec \in ConnectionSpec \cup {NoSpec}
  PROVE  spec.stamp \in Nat /\ (spec # NoSpec => spec \in ConnectionSpec)
<1>1. CASE spec \in ConnectionSpec
  BY <1>1, SpecForm, StampNumber
<1>2. CASE spec = NoSpec
  BY <1>2 DEF NoSpec, Gone
<1> QED BY <1>1, <1>2

LEMMA InputNumbers ==
  ASSUME NEW in \in Inputs
  PROVE  /\ in.tunnel.stamp \in Nat /\ in.tunnel.stamp # Gone
         /\ \A c \in Connections : in.connections[c].stamp \in Nat
         /\ \A s \in Services : in.services[s] \in Nat
         /\ \A s \in Secrets : in.secrets[s] \in Nat
BY InputsForm, StampNumber, SpecNumber

LEMMA NewStamp ==
  ASSUME TypeOK
  PROVE  New \in Nat /\ (Disturb => New' = New + 1) /\ (UNCHANGED left => New' = New)
BY RolloutAssumption DEF TypeOK, Disturb, New

LEMMA StepDrift ==
  ASSUME TypeOK, Next
  PROVE  Drift
<1>1. /\ stored \in Inputs /\ inputs \in Inputs /\ New \in Nat
      /\ Disturb => New' = New + 1
      /\ UNCHANGED left => New' = New
  BY NewStamp DEF TypeOK
<1>2. UNCHANGED stored => StoredDrift
  BY DEF StoredDrift
<1>3. UNCHANGED inputs => CacheDrift
  BY DEF CacheDrift
<1>4. CASE EditTunnel \/ EditConnection \/ EditService \/ EditSecret
  <2>1. Disturb /\ UNCHANGED <<inputs, plane>> /\ New \in Stamps
    BY <1>4, DisturbTyped DEF EditTunnel, EditConnection, EditService, EditSecret, Store
  <2>2. StoredDrift
    <3>1. CASE EditTunnel
      <4>1. PICK connection \in Connections, service \in Services :
              stored' = [stored EXCEPT !.tunnel =
                [stamp |-> New, connection |-> connection, service |-> service]]
        BY <3>1 DEF EditTunnel, Store
      <4>2. [stamp |-> New, connection |-> connection, service |-> service] \in Tunnel
        BY <2>1 DEF Tunnel
      <4>3. /\ stored'.tunnel = [stamp |-> New, connection |-> connection, service |-> service]
            /\ stored'.connections = stored.connections
            /\ stored'.services = stored.services /\ stored'.secrets = stored.secrets
        BY <1>1, <4>1, <4>2, TunnelChanged
      <4> QED BY <1>1, <2>1, <4>3 DEF StoredDrift
    <3>2. CASE EditConnection
      <4>1. \A refs \in References : /\ Spec(refs, New) \in ConnectionSpec
                                     /\ Spec(refs, New).stamp = New
        BY <2>1 DEF ConnectionSpec, Spec
      <4>2. PICK c \in Connections :
              \/ \E refs \in References :
                   stored' = [stored EXCEPT !.connections[c] = Spec(refs, New)]
              \/ stored' = [stored EXCEPT !.connections[c] = NoSpec]
        BY <3>2 DEF EditConnection, Store
      <4>3. PICK spec \in ConnectionSpec \cup {NoSpec} :
              /\ stored' = [stored EXCEPT !.connections[c] = spec]
              /\ spec = NoSpec \/ spec.stamp = New
        <5>1. CASE stored' = [stored EXCEPT !.connections[c] = NoSpec]
          BY <5>1
        <5>2. ASSUME NEW refs \in References,
                     stored' = [stored EXCEPT !.connections[c] = Spec(refs, New)]
              PROVE  \E spec \in ConnectionSpec \cup {NoSpec} :
                       /\ stored' = [stored EXCEPT !.connections[c] = spec]
                       /\ spec = NoSpec \/ spec.stamp = New
          BY <4>1, <5>2
        <5> QED BY <4>2, <5>1, <5>2
      <4>4. /\ stored'.tunnel = stored.tunnel
            /\ stored'.connections = [stored.connections EXCEPT ![c] = spec]
            /\ stored'.services = stored.services /\ stored'.secrets = stored.secrets
        BY <1>1, <4>3, ConnectionChanged
      <4>5. \A d \in Connections :
              stored'.connections[d] = stored.connections[d] \/ stored'.connections[d] = spec
        BY <1>1, <4>4 DEF Inputs
      <4> QED BY <1>1, <2>1, <4>3, <4>4, <4>5 DEF StoredDrift
    <3>3. CASE EditService
      <4>1. PICK s \in Services, stamp \in {New, Gone} :
              stored' = [stored EXCEPT !.services[s] = stamp]
        BY <3>3 DEF EditService, Store
      <4>2. /\ stored'.tunnel = stored.tunnel
            /\ stored'.services = [stored.services EXCEPT ![s] = stamp]
            /\ stored'.connections = stored.connections /\ stored'.secrets = stored.secrets
        BY <1>1, <2>1, <4>1, ServiceChanged
      <4>3. \A t \in Services :
              stored'.services[t] = stored.services[t] \/ stored'.services[t] \in {New, Gone}
        BY <1>1, <4>1, <4>2 DEF Inputs
      <4> QED BY <1>1, <2>1, <4>2, <4>3 DEF StoredDrift
    <3>4. CASE EditSecret
      <4>1. PICK s \in Secrets, stamp \in {New, Gone} :
              stored' = [stored EXCEPT !.secrets[s] = stamp]
        BY <3>4 DEF EditSecret, Store
      <4>2. /\ stored'.tunnel = stored.tunnel
            /\ stored'.secrets = [stored.secrets EXCEPT ![s] = stamp]
            /\ stored'.connections = stored.connections /\ stored'.services = stored.services
        BY <1>1, <2>1, <4>1, SecretChanged
      <4>3. \A t \in Secrets :
              stored'.secrets[t] = stored.secrets[t] \/ stored'.secrets[t] \in {New, Gone}
        BY <1>1, <4>1, <4>2 DEF Inputs
      <4> QED BY <1>1, <2>1, <4>2, <4>3 DEF StoredDrift
    <3> QED BY <1>4, <3>1, <3>2, <3>3, <3>4
  <2> QED BY <1>1, <1>3, <2>1, <2>2 DEF Drift
<1>5. CASE ChangePlane
  BY <1>1, <1>2, <1>3, <1>5 DEF ChangePlane, manager, Drift
<1>6. CASE SyncTunnel \/ SyncConnection \/ SyncService \/ SyncSecret
  <2>1. UNCHANGED <<stored, plane, left>>
    BY <1>6 DEF SyncTunnel, SyncConnection, SyncService, SyncSecret, cluster
  <2>2. CacheDrift
    <3>1. CASE SyncTunnel
      BY <1>1, <3>1, InputsForm, TunnelChanged DEF SyncTunnel, Sync, CacheDrift
    <3>2. CASE SyncConnection
      <4>1. PICK c \in Connections :
              inputs' = [inputs EXCEPT !.connections[c] = stored.connections[c]]
        BY <3>2 DEF SyncConnection, Sync
      <4>2. stored.connections[c] \in ConnectionSpec \cup {NoSpec}
        BY <1>1, InputsForm
      <4>3. /\ inputs'.tunnel = inputs.tunnel
            /\ inputs'.connections = [inputs.connections EXCEPT ![c] = stored.connections[c]]
            /\ inputs'.services = inputs.services /\ inputs'.secrets = inputs.secrets
        BY <1>1, <4>1, <4>2, ConnectionChanged
      <4>4. \A d \in Connections :
              inputs'.connections[d] \in {inputs.connections[d], stored.connections[d]}
        BY <1>1, <4>3 DEF Inputs
      <4> QED BY <4>3, <4>4 DEF CacheDrift
    <3>3. CASE SyncService
      <4>1. PICK s \in Services : inputs' = [inputs EXCEPT !.services[s] = stored.services[s]]
        BY <3>3 DEF SyncService, Sync
      <4>2. stored.services[s] \in Stamps \cup {Gone}
        BY <1>1, InputsForm
      <4>3. /\ inputs'.tunnel = inputs.tunnel
            /\ inputs'.services = [inputs.services EXCEPT ![s] = stored.services[s]]
            /\ inputs'.connections = inputs.connections /\ inputs'.secrets = inputs.secrets
        BY <1>1, <4>1, <4>2, ServiceChanged
      <4>4. \A t \in Services : inputs'.services[t] \in {inputs.services[t], stored.services[t]}
        BY <1>1, <4>3 DEF Inputs
      <4> QED BY <4>3, <4>4 DEF CacheDrift
    <3>4. CASE SyncSecret
      <4>1. PICK s \in Secrets : inputs' = [inputs EXCEPT !.secrets[s] = stored.secrets[s]]
        BY <3>4 DEF SyncSecret, Sync
      <4>2. stored.secrets[s] \in Stamps \cup {Gone}
        BY <1>1, InputsForm
      <4>3. /\ inputs'.tunnel = inputs.tunnel
            /\ inputs'.secrets = [inputs.secrets EXCEPT ![s] = stored.secrets[s]]
            /\ inputs'.connections = inputs.connections /\ inputs'.services = inputs.services
        BY <1>1, <4>1, <4>2, SecretChanged
      <4>4. \A t \in Secrets : inputs'.secrets[t] \in {inputs.secrets[t], stored.secrets[t]}
        BY <1>1, <4>3 DEF Inputs
      <4> QED BY <4>3, <4>4 DEF CacheDrift
    <3> QED BY <1>6, <3>1, <3>2, <3>3, <3>4
  <2> QED BY <1>1, <1>2, <2>1, <2>2 DEF Drift
<1>7. CASE RestartManager
  <2>1. Disturb /\ UNCHANGED <<stored, plane>> /\ inputs' = stored
    BY <1>7 DEF RestartManager, cluster
  <2>2. CacheDrift
    BY <2>1 DEF CacheDrift
  <2> QED BY <1>1, <1>2, <2>1, <2>2 DEF Drift
<1>8. CASE \/ SyncChild \/ Resync \/ Reconcile \/ CallFails
           \/ StartPod \/ ReplacePod \/ RestartAgent
  <2>1. UNCHANGED <<stored, plane, inputs>> /\ (UNCHANGED left \/ Disturb)
    <3>1. CASE SyncChild \/ Resync
      BY <3>1 DEF SyncChild, Resync, cluster
    <3>2. CASE StartPod \/ ReplacePod \/ RestartAgent
      BY <3>2 DEF StartPod, ReplacePod, RestartAgent, manager
    <3>3. CASE ApplyConfigMap \/ ApplyDeployment
      BY <3>3 DEF ApplyConfigMap, ApplyDeployment, Apply, Refused, Fail, cluster
    <3>4. CASE \/ StartReconcile \/ ReadConnection \/ ReadSecret \/ Resolve \/ ReadService
               \/ CheckDeployment \/ MarkReconciled \/ MarkBlocked \/ CallFails
      BY <3>4 DEF StartReconcile, ReadConnection, ReadSecret, Resolve, ReadService, Continue,
                  CheckDeployment, MarkReconciled, MarkBlocked, CallFails, Mark, Fail, cluster
    <3> QED BY <1>8, <3>1, <3>2, <3>3, <3>4 DEF Reconcile
  <2> QED BY <1>1, <1>2, <1>3, <2>1 DEF Drift
<1> QED BY <1>4, <1>5, <1>6, <1>7, <1>8 DEF Next, Change

LEMMA CachesBehindInit == Init => CachesBehind
<1> SUFFICES ASSUME Init PROVE CachesBehind
  OBVIOUS
<1>1. /\ stored \in FirstInputs /\ inputs = stored /\ plane = 1 /\ New = 2
  BY RolloutAssumption DEF Init, New
<1> QED BY <1>1, FirstStampsAssumption DEF CachesBehind, Older, Gone

\* The order of the caches, whatever the step.
LEMMA CachesBehindStep ==
  ASSUME TypeOK, TypeOK', CachesBehind, Drift
  PROVE  CachesBehind'
<1>1. stored \in Inputs /\ inputs \in Inputs /\ stored' \in Inputs /\ inputs' \in Inputs
  BY DEF TypeOK
<1>2. New \in Nat /\ New' \in Nat /\ New <= New'
  BY DEF Drift
<1>3. stored'.tunnel.stamp < New' /\ Older(inputs'.tunnel, stored'.tunnel)
  <2>1. /\ stored.tunnel.stamp \in Nat /\ stored'.tunnel.stamp \in Nat
        /\ inputs.tunnel.stamp \in Nat
    BY <1>1, InputNumbers
  <2>2. /\ stored.tunnel.stamp < New /\ Older(inputs.tunnel, stored.tunnel)
        /\ stored'.tunnel = stored.tunnel \/ (stored'.tunnel.stamp = New /\ New < New')
        /\ inputs'.tunnel \in {inputs.tunnel, stored.tunnel}
    BY DEF CachesBehind, Drift, StoredDrift, CacheDrift
  <2> QED BY <1>2, <2>1, <2>2 DEF Older
<1>4. ASSUME NEW c \in Connections
      PROVE  /\ stored'.connections[c].stamp < New' /\ inputs'.connections[c].stamp < New'
             /\ stored'.connections[c] # NoSpec =>
                  Older(inputs'.connections[c], stored'.connections[c])
  <2>1. /\ stored.connections[c].stamp \in Nat /\ stored'.connections[c].stamp \in Nat
        /\ inputs.connections[c].stamp \in Nat
        /\ NoSpec.stamp = 0 /\ stored'.connections[c] \in ConnectionSpec \cup {NoSpec}
        /\ stored.connections[c] \in ConnectionSpec \cup {NoSpec}
    BY <1>1, InputNumbers, InputsForm DEF NoSpec, Gone
  <2>2. /\ stored.connections[c].stamp < New /\ inputs.connections[c].stamp < New
        /\ stored.connections[c] # NoSpec =>
             Older(inputs.connections[c], stored.connections[c])
        /\ \/ stored'.connections[c] \in {stored.connections[c], NoSpec}
           \/ stored'.connections[c].stamp = New /\ New < New'
        /\ inputs'.connections[c] \in {inputs.connections[c], stored.connections[c]}
    BY DEF CachesBehind, Drift, StoredDrift, CacheDrift
  <2> QED BY <1>2, <2>1, <2>2 DEF Older
<1>5. ASSUME NEW s \in Services
      PROVE  /\ stored'.services[s] < New' /\ inputs'.services[s] < New'
             /\ stored'.services[s] # Gone => inputs'.services[s] <= stored'.services[s]
  <2>1. /\ stored.services[s] \in Nat /\ inputs.services[s] \in Nat
        /\ stored'.services[s] \in Nat
    BY <1>1, InputNumbers
  <2>2. /\ stored.services[s] < New /\ inputs.services[s] < New
        /\ stored.services[s] # Gone => inputs.services[s] <= stored.services[s]
        /\ \/ stored'.services[s] \in {stored.services[s], Gone}
           \/ stored'.services[s] = New /\ New < New'
        /\ inputs'.services[s] \in {inputs.services[s], stored.services[s]}
    BY DEF CachesBehind, Drift, StoredDrift, CacheDrift
  <2> QED BY <1>2, <2>1, <2>2 DEF Gone
<1>6. plane' < New'
  <2>1. plane \in Nat /\ plane < New
    BY StampNumber DEF TypeOK, CachesBehind
  <2>2. plane' \in {plane, Gone} \/ (plane' = New /\ New < New')
    BY DEF Drift
  <2> QED BY <1>2, <2>1, <2>2 DEF Gone
<1> QED BY <1>3, <1>4, <1>5, <1>6 DEF CachesBehind

\* An engine that fits stays one that does.
LEMMA EngineKept ==
  ASSUME TypeOK, TypeOK', Drift, NEW spec, NEW engine \in Nat, engine < New,
         EngineFits(engine, spec)
  PROVE  EngineFits(engine, spec)'
<1>1. /\ plane \in Nat /\ plane' \in Nat
      /\ plane' \in {plane, Gone} \/ (plane' = New /\ New < New')
      /\ New \in Nat
  BY StampNumber DEF TypeOK, Drift
<1> QED BY <1>1 DEF EngineFits

Reads == rec.pc \in {"connection", "secrets", "target"}

\* What was read stays behind what can be read.
LEMMA ReadBehindKept ==
  ASSUME TypeOK, TypeOK', CachesBehind, ReadBehind, Drift, UNCHANGED rec
  PROVE  ReadBehind'
<1>1. /\ stored \in Inputs /\ inputs \in Inputs /\ stored' \in Inputs /\ inputs' \in Inputs
      /\ New \in Nat /\ New' \in Nat /\ New <= New'
  BY DEF TypeOK, Drift
<1>2. ASSUME Reads PROVE Older(rec.tunnel, inputs'.tunnel)
  <2>1. /\ rec.tunnel.stamp \in Nat /\ inputs.tunnel.stamp \in Nat
        /\ stored.tunnel.stamp \in Nat
    BY <1>1, <1>2, RecForm, InputNumbers, StampNumber DEF Reads, TypeOK, Tunnel
  <2>2. /\ Older(rec.tunnel, inputs.tunnel) /\ Older(inputs.tunnel, stored.tunnel)
        /\ inputs'.tunnel \in {inputs.tunnel, stored.tunnel}
    BY <1>2 DEF Reads, ReadBehind, CachesBehind, Drift, CacheDrift
  <2> QED BY <2>1, <2>2 DEF Older
<1>3. ASSUME rec.pc \in {"secrets", "target"}
      PROVE  /\ rec.spec.stamp < New'
             /\ \A world \in {stored', inputs'} :
                  world.connections[rec.tunnel.connection] # NoSpec =>
                    Older(rec.spec, world.connections[rec.tunnel.connection])
  <2> DEFINE c == rec.tunnel.connection
  <2>1. rec.spec.stamp \in Nat /\ c \in Connections
    BY <1>3, RecForm, SpecNumber DEF TypeOK, Tunnel
  <2>2. /\ rec.spec.stamp < New
        /\ stored.connections[c] # NoSpec => Older(rec.spec, stored.connections[c])
        /\ inputs.connections[c] # NoSpec => Older(rec.spec, inputs.connections[c])
    BY <1>3 DEF ReadBehind
  <2> HIDE DEF c
  <2>3. /\ \/ stored'.connections[c] \in {stored.connections[c], NoSpec}
           \/ stored'.connections[c].stamp = New /\ New < New'
        /\ inputs'.connections[c] \in {inputs.connections[c], stored.connections[c]}
    BY <2>1 DEF Drift, StoredDrift, CacheDrift
  <2>4. /\ stored'.connections[c] # NoSpec => Older(rec.spec, stored'.connections[c])
        /\ inputs'.connections[c] # NoSpec => Older(rec.spec, inputs'.connections[c])
    BY <1>1, <2>1, <2>2, <2>3 DEF Older
  <2> QED BY <1>1, <2>1, <2>2, <2>4 DEF c
<1>4. ASSUME rec.pc = "target"
      PROVE  rec.engine < New' /\ EngineFits(rec.engine, rec.spec)'
  <2>1. /\ rec.engine \in Nat /\ rec.engine < New /\ EngineFits(rec.engine, rec.spec)
        /\ rec'.engine = rec.engine /\ rec'.spec = rec.spec
    BY <1>4, RecForm, StampNumber DEF TypeOK, ReadBehind
  <2>2. \A spec : EngineFits(rec.engine, spec) => EngineFits(rec.engine, spec)'
    BY <2>1, EngineKept
  <2> QED BY <1>1, <2>1, <2>2
<1> QED BY <1>2, <1>3, <1>4 DEF ReadBehind, Reads

\* The steps that read, or that begin or end a reconciliation.
LEMMA ReadBehindStep ==
  ASSUME TypeOK, TypeOK', CachesBehind, ReadBehind, Next
  PROVE  ReadBehind'
<1>1. Drift /\ rec \in Reconcilers /\ inputs \in Inputs /\ plane \in Nat
  BY StepDrift, StampNumber DEF TypeOK
<1>2. CASE UNCHANGED rec
  BY <1>1, <1>2, ReadBehindKept
<1>3. CASE rec'.pc \notin {"connection", "secrets", "target"}
  BY <1>3 DEF ReadBehind
<1>4. CASE StartReconcile
  <2>1. rec' = [pc |-> "connection", tunnel |-> inputs.tunnel] /\ UNCHANGED inputs
    BY <1>4 DEF StartReconcile
  <2> QED BY <2>1 DEF ReadBehind, Older
<1>5. ASSUME ReadConnection \/ ReadSecret \/ Resolve \/ ReadService
      PROVE  UNCHANGED <<stored, inputs, plane, left>> /\ New' = New /\ New \in Nat
  BY <1>5, NewStamp DEF ReadConnection, ReadSecret, Resolve, ReadService, Continue, cluster
<1>6. CASE ReadConnection
  <2> DEFINE c == rec.tunnel.connection
  <2>1. c \in Connections
    BY <1>1, <1>6, RecForm DEF ReadConnection, Tunnel
  <2>2. \/ rec' = Block
        \/ /\ inputs.connections[c] # NoSpec /\ rec'.pc = "secrets"
           /\ rec'.tunnel = rec.tunnel /\ rec'.spec = inputs.connections[c]
    BY <1>6 DEF ReadConnection, Continue
  <2>3. CASE rec' = Block
    BY <1>3, <2>3 DEF Block
  <2>4. CASE /\ inputs.connections[c] # NoSpec /\ rec'.pc = "secrets"
             /\ rec'.tunnel = rec.tunnel /\ rec'.spec = inputs.connections[c]
    <3>1. /\ Older(rec.tunnel, inputs.tunnel) /\ inputs.connections[c].stamp < New
          /\ stored.connections[c] # NoSpec =>
               Older(inputs.connections[c], stored.connections[c])
      BY <1>6, <2>1 DEF ReadConnection, ReadBehind, CachesBehind
    <3> QED BY <1>5, <1>6, <2>4, <3>1 DEF ReadBehind, Older
  <2> QED BY <2>2, <2>3, <2>4
<1>7. CASE ReadSecret
  <2>1. \/ rec' = Block
        \/ rec'.pc = "secrets" /\ rec'.tunnel = rec.tunnel /\ rec'.spec = rec.spec
    BY <1>7 DEF ReadSecret, Continue
  <2>2. CASE rec' = Block
    BY <1>3, <2>2 DEF Block
  <2>3. CASE rec'.pc = "secrets" /\ rec'.tunnel = rec.tunnel /\ rec'.spec = rec.spec
    BY <1>5, <1>7, <2>3 DEF ReadSecret, ReadBehind
  <2> QED BY <2>1, <2>2, <2>3
<1>8. CASE Resolve
  <2> DEFINE engine == IF rec.spec.refs.direct THEN rec.spec.stamp ELSE plane
  <2>1. \/ rec' = Block
        \/ /\ rec'.pc = "target" /\ rec'.tunnel = rec.tunnel /\ rec'.spec = rec.spec
           /\ rec'.engine = engine
    BY <1>8 DEF Resolve, Continue
  <2>2. CASE rec' = Block
    BY <1>3, <2>2 DEF Block
  <2>3. CASE /\ rec'.pc = "target" /\ rec'.tunnel = rec.tunnel /\ rec'.spec = rec.spec
             /\ rec'.engine = engine
    <3>1. engine < New /\ EngineFits(engine, rec.spec)
      BY <1>1, <1>8 DEF Resolve, ReadBehind, CachesBehind, EngineFits
    <3>2. EngineFits(engine, rec.spec)'
      BY <1>1, <1>5, <1>8, <2>3, <3>1 DEF EngineFits
    <3> HIDE DEF engine
    <3>3. rec'.engine < New' /\ EngineFits(rec.engine, rec.spec)'
      BY <1>1, <1>5, <1>8, <2>3, <3>1 DEF EngineFits
    <3> QED BY <1>5, <1>8, <2>3, <3>3 DEF Resolve, ReadBehind
  <2> QED BY <2>1, <2>2, <2>3
<1>9. CASE ReadService
  <2>1. rec'.pc \in {"block", "configMap"}
    BY <1>9 DEF ReadService, Continue, Block
  <2> QED BY <1>3, <2>1
<1>10. CASE ApplyConfigMap \/ ApplyDeployment
  <2> DEFINE next == [rec EXCEPT !.pc = "deployment"]
  <2>1. next.pc = "deployment"
    BY <1>1, <1>10, RecForm DEF ApplyConfigMap, ApplyDeployment
  <2> HIDE DEF next
  <2>2. rec' = next \/ rec' = [pc |-> "mark"] \/ rec' = Idle
    BY <1>10 DEF ApplyConfigMap, ApplyDeployment, Apply, Refused, Fail, next
  <2>3. rec'.pc \in {"deployment", "mark", "idle"}
    BY <2>1, <2>2 DEF Idle
  <2> QED BY <1>3, <2>3
<1>11. CASE CheckDeployment \/ MarkReconciled \/ MarkBlocked \/ CallFails \/ RestartManager
  <2>1. rec' = Idle
    BY <1>11 DEF CheckDeployment, MarkReconciled, MarkBlocked, CallFails, Mark, Fail,
                 RestartManager
  <2> QED BY <1>3, <2>1 DEF Idle
<1>12. CASE \/ Change \/ SyncTunnel \/ SyncConnection \/ SyncService \/ SyncSecret
            \/ SyncChild \/ Resync \/ StartPod \/ ReplacePod \/ RestartAgent
  <2>1. UNCHANGED rec
    BY <1>12 DEF Change, EditTunnel, EditConnection, EditService, EditSecret, ChangePlane,
                 Store, SyncTunnel, SyncConnection, SyncService, SyncSecret, Sync, SyncChild,
                 Resync, StartPod, ReplacePod, RestartAgent, manager
  <2> QED BY <1>2, <2>1
<1> QED
  BY <1>4, <1>6, <1>7, <1>8, <1>9, <1>10, <1>11, <1>12 DEF Next, Reconcile

\* The order of configurations.
LEMMA ConfigNumbers ==
  ASSUME NEW config \in Config \cup {NoConfig}
  PROVE  /\ config.tunnel \in Nat
         /\ config = NoConfig <=> config.tunnel = Gone
         /\ config = NoConfig <=> config \notin Config
         /\ config # NoConfig => /\ config \in Config /\ config.tunnel # Gone
                                 /\ config.connection \in Nat /\ config.engine \in Nat
                                 /\ config.target \in Nat
<1>1. CASE config = NoConfig
  <2>1. NoConfig.tunnel \notin Stamps /\ NoConfig.tunnel = Gone
    BY StampNumber DEF NoConfig, Gone
  <2> QED BY <1>1, <2>1 DEF Config, Gone
<1>2. CASE config \in Config
  <2>1. /\ config.tunnel \in Stamps /\ config.connection \in Stamps
        /\ config.engine \in Stamps /\ config.target \in Stamps
    BY <1>2 DEF Config
  <2>2. config # NoConfig
    BY <2>1, StampNumber DEF NoConfig
  <2> QED BY <1>2, <2>1, <2>2, StampNumber
<1> QED BY <1>1, <1>2

LEMMA BelowTrans ==
  ASSUME NEW a \in Config \cup {NoConfig}, NEW b \in Config \cup {NoConfig},
         NEW c \in Config \cup {NoConfig}, Below(a, b), Below(b, c)
  PROVE  Below(a, c)
<1>1. CASE a = NoConfig \/ b = NoConfig \/ c = NoConfig
  BY <1>1, ConfigNumbers DEF Below, Gone
<1>2. CASE a # NoConfig /\ b # NoConfig /\ c # NoConfig
  BY <1>2, ConfigNumbers DEF Below
<1> QED BY <1>1, <1>2

LEMMA BelowBoth ==
  ASSUME NEW a \in Config \cup {NoConfig}, NEW b \in Config \cup {NoConfig},
         Below(a, b), Below(b, a)
  PROVE  a = b
<1>1. CASE a = NoConfig \/ b = NoConfig
  BY <1>1, ConfigNumbers DEF Below, Gone
<1>2. CASE a # NoConfig /\ b # NoConfig
  <2>1. /\ a.tunnel = b.tunnel /\ a.connection = b.connection /\ a.engine = b.engine
        /\ a.target = b.target
    BY <1>2, ConfigNumbers DEF Below
  <2> QED BY <1>2, <2>1 DEF Config
<1> QED BY <1>1, <1>2

\* Reconcile takes the cached tunnel, or keeps the one it has read.
LEMMA CopiesStep ==
  ASSUME TypeOK, Next
  PROVE  Copies' \subseteq Copies \cup {stored'.tunnel}
<1>1. inputs'.tunnel \in {inputs.tunnel, stored.tunnel}
  BY StepDrift DEF Drift, CacheDrift
<1>2. ASSUME Reads' => rec'.tunnel = inputs.tunnel \/ (Reads /\ rec'.tunnel = rec.tunnel)
      PROVE  Copies' \subseteq Copies \cup {stored'.tunnel}
  BY <1>1, <1>2 DEF Copies, Reads
<1>3. CASE UNCHANGED rec \/ ~Reads'
  <2>1. UNCHANGED rec => Reads' = Reads /\ rec'.tunnel = rec.tunnel
    BY DEF Reads
  <2> QED BY <1>2, <1>3, <2>1
<1>4. CASE StartReconcile
  BY <1>2, <1>4 DEF StartReconcile
<1>5. CASE ReadConnection \/ ReadSecret \/ Resolve \/ ReadService
  <2>1. Reads
    BY <1>5 DEF ReadConnection, ReadSecret, Resolve, ReadService, Reads
  <2>2. \/ rec' = Block
        \/ rec'.pc = "configMap"
        \/ rec'.tunnel = rec.tunnel
    <3>1. CASE ReadConnection
      BY <3>1 DEF ReadConnection, Continue
    <3>2. CASE ReadSecret
      BY <3>2 DEF ReadSecret, Continue
    <3>3. CASE Resolve
      BY <3>3 DEF Resolve, Continue
    <3>4. CASE ReadService
      BY <3>4 DEF ReadService, Continue
    <3> QED BY <1>5, <3>1, <3>2, <3>3, <3>4
  <2> QED BY <1>2, <1>3, <2>1, <2>2 DEF Block, Reads
<1>6. CASE ApplyConfigMap \/ ApplyDeployment
  <2> DEFINE next == [rec EXCEPT !.pc = "deployment"]
  <2>1. next.pc = "deployment"
    BY <1>6, RecForm DEF ApplyConfigMap, ApplyDeployment, TypeOK
  <2> HIDE DEF next
  <2>2. rec' = next \/ rec' = [pc |-> "mark"] \/ rec' = Idle
    BY <1>6 DEF ApplyConfigMap, ApplyDeployment, Apply, Refused, Fail, next
  <2>3. ~Reads'
    BY <2>1, <2>2 DEF Idle, Reads
  <2> QED BY <1>3, <2>3
<1>7. CASE CheckDeployment \/ MarkReconciled \/ MarkBlocked \/ CallFails \/ RestartManager
  <2>1. rec' = Idle
    BY <1>7 DEF CheckDeployment, MarkReconciled, MarkBlocked, CallFails, Mark, Fail,
                RestartManager
  <2> QED BY <1>3, <2>1 DEF Idle, Reads
<1>8. CASE \/ Change \/ SyncTunnel \/ SyncConnection \/ SyncService \/ SyncSecret
           \/ SyncChild \/ Resync \/ StartPod \/ ReplacePod \/ RestartAgent
  <2>1. UNCHANGED rec
    BY <1>8 DEF Change, EditTunnel, EditConnection, EditService, EditSecret, ChangePlane,
                Store, SyncTunnel, SyncConnection, SyncService, SyncSecret, Sync, SyncChild,
                Resync, StartPod, ReplacePod, RestartAgent, manager
  <2> QED BY <1>3, <2>1
<1> QED BY <1>4, <1>5, <1>6, <1>7, <1>8 DEF Next, Reconcile

LEMMA BehindSpecKept ==
  ASSUME TypeOK, TypeOK', Drift, NEW config \in Config, config.engine < New, NEW spec,
         BehindSpec(config, spec)
  PROVE  BehindSpec(config, spec)'
<1>1. config.engine \in Nat
  BY ConfigNumbers
<1>2. EngineFits(config.engine, spec) => EngineFits(config.engine, spec)'
  BY <1>1, EngineKept
<1> QED BY <1>2 DEF BehindSpec

\* A configuration that is behind what is stored and cached stays behind it.
LEMMA BehindKept ==
  ASSUME TypeOK, TypeOK', CachesBehind, Drift, Copies' \subseteq Copies \cup {stored'.tunnel},
         NEW config \in Config \cup {NoConfig}, Behind(config)
  PROVE  Behind(config)'
<1>1. CASE config = NoConfig
  BY <1>1 DEF Behind
<1>2. CASE config # NoConfig
  <2>1. /\ config \in Config /\ config.tunnel \in Nat /\ config.connection \in Nat
        /\ config.engine \in Nat /\ config.target \in Nat
        /\ config.connection < New /\ config.engine < New /\ config.target < New
        /\ New \in Nat /\ New' \in Nat /\ New <= New'
    BY <1>2, ConfigNumbers DEF Behind, Drift
  <2>2. PICK c \in Connections, s \in Services : MadeFor(config, c, s)
    BY <1>2 DEF Behind
  <2>3. /\ stored \in Inputs /\ inputs \in Inputs /\ stored' \in Inputs /\ inputs' \in Inputs
    BY DEF TypeOK
  <2>4. ASSUME NEW tunnel \in Copies'
        PROVE  /\ config.tunnel <= tunnel.stamp
               /\ config.tunnel = tunnel.stamp => tunnel.connection = c /\ tunnel.service = s
    <3>1. CASE tunnel \in Copies
      BY <2>2, <3>1 DEF MadeFor
    <3>2. CASE tunnel = stored'.tunnel /\ stored'.tunnel # stored.tunnel
      <4>1. config.tunnel <= stored.tunnel.stamp
        BY <2>2 DEF MadeFor, Copies
      <4>2. stored.tunnel.stamp < New /\ tunnel.stamp = New /\ stored.tunnel.stamp \in Nat
        BY <2>3, <3>2, InputNumbers DEF CachesBehind, Drift, StoredDrift
      <4> QED BY <2>1, <4>1, <4>2
    <3>3. stored.tunnel \in Copies
      BY DEF Copies
    <3> QED BY <2>4, <3>1, <3>2, <3>3
  <2>5. ASSUME NEW spec, NEW old, BehindSpec(config, old),
               \/ spec \in {old, NoSpec}
               \/ spec.stamp = New
        PROVE  BehindSpec(config, spec)'
    <3>1. BehindSpec(config, spec)
      BY <2>1, <2>5 DEF BehindSpec
    <3> QED BY <2>1, <3>1, BehindSpecKept
  <2>6. /\ BehindSpec(config, stored.connections[c])
        /\ BehindSpec(config, inputs.connections[c])
        /\ BehindTarget(config, stored.services[s]) /\ BehindTarget(config, inputs.services[s])
    BY <2>2 DEF MadeFor
  <2>7. BehindSpec(config, stored.connections[c])' /\ BehindSpec(config, inputs.connections[c])'
    <3>1. /\ \/ stored'.connections[c] \in {stored.connections[c], NoSpec}
             \/ stored'.connections[c].stamp = New
          /\ inputs'.connections[c] \in {inputs.connections[c], stored.connections[c]}
      BY DEF Drift, StoredDrift, CacheDrift
    <3> QED BY <2>5, <2>6, <3>1
  <2>8. /\ BehindTarget(config, stored.services[s])'
        /\ BehindTarget(config, inputs.services[s])'
    <3>1. /\ stored'.services[s] \in {stored.services[s], Gone} \/ stored'.services[s] = New
          /\ inputs'.services[s] \in {inputs.services[s], stored.services[s]}
      BY DEF Drift, StoredDrift, CacheDrift
    <3> QED BY <2>1, <2>6, <3>1 DEF BehindTarget
  <2>9. MadeFor(config, c, s)'
    BY <2>4, <2>7, <2>8 DEF MadeFor
  <2> QED BY <2>1, <2>9 DEF Behind
<1> QED BY <1>1, <1>2

LEMMA ConfigForwardInit == Init => ConfigForward
BY DEF Init, ConfigForward, Behind, Below, NoChildren, Idle

\* The children and what Reconcile is about to store are as they were.
LEMMA ConfigKept ==
  ASSUME TypeOK, TypeOK', CachesBehind, Drift, Copies' \subseteq Copies \cup {stored'.tunnel},
         ConfigForward, UNCHANGED children,
         outputs'.ConfigMap \in {outputs.ConfigMap, children.ConfigMap},
         UNCHANGED rec \/ rec'.pc \in {"idle", "connection", "block", "mark"}
  PROVE  ConfigForward'
<1> DEFINE map == children.ConfigMap
<1>1. map \in Config \cup {NoConfig} /\ rec \in Reconcilers /\ map' = map
  BY DEF TypeOK, Children
<1>2. Behind(map)'
  <2>1. Behind(map)
    BY DEF ConfigForward
  <2>2. \A config \in Config \cup {NoConfig} : Behind(config) => Behind(config)'
    BY BehindKept
  <2> QED BY <1>1, <2>1, <2>2
<1>3. Below(outputs'.ConfigMap, map)
  BY DEF ConfigForward, Below
<1>4. CASE rec'.pc \in {"idle", "connection", "block", "mark"}
  BY <1>1, <1>2, <1>3, <1>4 DEF ConfigForward, Below
<1>5. CASE UNCHANGED rec
  <2>1. ASSUME rec.pc = "configMap"
        PROVE  Behind(rec.config)' /\ Below(map, rec.config)
    <3>1. rec.config \in Config /\ Behind(rec.config) /\ rec'.config = rec.config
          /\ Below(map, rec.config)
      BY <1>1, <1>5, <2>1, RecForm DEF ConfigForward
    <3>2. \A config \in Config \cup {NoConfig} : Behind(config) => Behind(config)'
      BY BehindKept
    <3> QED BY <3>1, <3>2
  <2>2. ASSUME rec.pc \in {"secrets", "target"}, map.tunnel = rec.tunnel.stamp
        PROVE  BehindSpec(map, rec.spec)'
    <3>1. rec.tunnel.stamp # Gone
      BY <1>1, <2>2, RecForm, StampNumber DEF Tunnel
    <3>2. map \in Config /\ map.engine < New
      BY <1>1, <2>2, <3>1, ConfigNumbers DEF ConfigForward, Behind
    <3>3. BehindSpec(map, rec.spec)
      BY <2>2 DEF ConfigForward
    <3>4. \A config \in Config : \A spec :
            config.engine < New /\ BehindSpec(config, spec) => BehindSpec(config, spec)'
      BY BehindSpecKept
    <3> QED BY <1>1, <1>5, <3>2, <3>3, <3>4
  <2>3. rec.pc = "deployment" => map = rec.config
    BY DEF ConfigForward
  <2>4. rec.pc = "target" /\ map.tunnel = rec.tunnel.stamp /\ map.connection = rec.spec.stamp
          => map.engine <= rec.engine
    BY DEF ConfigForward
  <2> HIDE DEF map
  <2>5. /\ rec'.pc = "configMap" => Behind(rec.config)' /\ Below(map, rec'.config)
        /\ rec'.pc = "deployment" => map = rec'.config
        /\ rec'.pc \in {"secrets", "target"} /\ map.tunnel = rec'.tunnel.stamp =>
             /\ BehindSpec(map, rec.spec)'
             /\ rec'.pc = "target" /\ map.connection = rec'.spec.stamp =>
                  map.engine <= rec'.engine
    BY <1>5, <2>1, <2>2, <2>3, <2>4
  <2> QED BY <1>1, <1>2, <1>3, <2>5 DEF ConfigForward, map, Below
<1> QED BY <1>4, <1>5

\* What Reconcile makes a configuration of is behind what is stored and cached.
LEMMA MadeBehind ==
  ASSUME TypeOK, CachesBehind, ReadBehind, rec.pc = "target",
         inputs.services[rec.tunnel.service] # Gone,
         NEW config, config = AgentConfig(rec.tunnel, rec.spec, rec.engine,
                                          inputs.services[rec.tunnel.service])
  PROVE  config \in Config /\ Behind(config)
<1> DEFINE c == rec.tunnel.connection
           s == rec.tunnel.service
           target == inputs.services[s]
<1>1. rec \in Reconcilers /\ inputs \in Inputs /\ stored \in Inputs /\ New \in Nat
  BY NewStamp DEF TypeOK
<1>2. /\ rec.tunnel \in Tunnel /\ rec.spec \in ConnectionSpec /\ rec.engine \in Stamps
      /\ c \in Connections /\ s \in Services
  BY <1>1, RecForm DEF Tunnel
<1>3. target \in Stamps
  BY <1>1, <1>2 DEF Inputs
<1>4. rec.tunnel.stamp \in Stamps /\ rec.spec.stamp \in Stamps
  BY <1>2, SpecForm DEF Tunnel
<1>5. /\ config.tunnel = rec.tunnel.stamp /\ config.connection = rec.spec.stamp
      /\ config.engine = rec.engine /\ config.target = target
  BY DEF AgentConfig
<1>6. config \in Config
  BY <1>2, <1>3, <1>4 DEF AgentConfig, Config
<1>7. /\ rec.spec.stamp < New /\ rec.engine < New /\ target < New
      /\ Older(rec.tunnel, inputs.tunnel) /\ Older(inputs.tunnel, stored.tunnel)
      /\ EngineFits(rec.engine, rec.spec)
      /\ \A world \in {stored, inputs} : world.connections[c] # NoSpec =>
           Older(rec.spec, world.connections[c])
      /\ stored.services[s] # Gone => target <= stored.services[s]
  BY <1>2 DEF ReadBehind, CachesBehind
<1>8. /\ rec.tunnel.stamp \in Nat /\ inputs.tunnel.stamp \in Nat
      /\ stored.tunnel.stamp \in Nat /\ rec.spec.stamp \in Nat /\ target \in Nat
  BY <1>1, <1>3, <1>4, InputNumbers, StampNumber
<1> HIDE DEF c, s, target
<1>9. ASSUME NEW tunnel \in Copies
      PROVE  /\ config.tunnel <= tunnel.stamp
             /\ config.tunnel = tunnel.stamp => tunnel.connection = c /\ tunnel.service = s
  <2>1. tunnel \in {stored.tunnel, inputs.tunnel, rec.tunnel}
    BY <1>9 DEF Copies
  <2>2. config.tunnel <= tunnel.stamp
    BY <1>5, <1>7, <1>8, <2>1 DEF Older
  <2>3. config.tunnel = tunnel.stamp => tunnel = rec.tunnel
    <3>1. config.tunnel = inputs.tunnel.stamp => inputs.tunnel = rec.tunnel
      BY <1>5, <1>7, <1>8 DEF Older
    <3>2. config.tunnel = stored.tunnel.stamp =>
            stored.tunnel = inputs.tunnel
      <4>1. rec.tunnel.stamp <= inputs.tunnel.stamp
        BY <1>7, <1>8 DEF Older
      <4>2. CASE inputs.tunnel.stamp < stored.tunnel.stamp
        BY <1>5, <1>8, <4>1, <4>2
      <4> QED BY <1>7, <4>2 DEF Older
    <3> QED BY <2>1, <3>1, <3>2
  <2> QED BY <2>2, <2>3 DEF c, s
<1>10. ASSUME NEW world \in {stored, inputs}
       PROVE  BehindSpec(config, world.connections[c])
  BY <1>5, <1>7, <1>8 DEF BehindSpec, Older
<1>11. ASSUME NEW world \in {stored, inputs}
       PROVE  BehindTarget(config, world.services[s])
  BY <1>5, <1>7, <1>8, SMTT(60) DEF BehindTarget, target
<1>12. MadeFor(config, c, s)
  BY <1>9, <1>10, <1>11 DEF MadeFor
<1> QED BY <1>2, <1>5, <1>6, <1>7, <1>12 DEF Behind

\* What Reconcile reads of the connection and of the Control plane is not older than
\* what the ConfigMap was made of.
LEMMA ConfigReads ==
  ASSUME TypeOK, TypeOK', CachesBehind, ReadBehind, ConfigForward,
         ReadConnection \/ ReadSecret \/ Resolve \/ ReadService
  PROVE  ConfigForward'
<1> DEFINE map == children.ConfigMap
<1>1. /\ map \in Config \cup {NoConfig} /\ rec \in Reconcilers /\ inputs \in Inputs
      /\ stored \in Inputs /\ plane \in Nat
  BY StampNumber DEF TypeOK, Children
<1>2. /\ Next /\ Drift /\ Copies' \subseteq Copies \cup {stored'.tunnel}
  BY StepDrift, CopiesStep DEF Next, Reconcile
<1>3. UNCHANGED <<stored, children, inputs, outputs, plane, left>> /\ New' = New /\ New \in Nat
  BY NewStamp DEF ReadConnection, ReadSecret, Resolve, ReadService, Continue, cluster
<1>4. Behind(map)'
  <2>1. Behind(map)
    BY DEF ConfigForward
  <2>2. \A config \in Config \cup {NoConfig} : Behind(config) => Behind(config)'
    BY <1>2, BehindKept
  <2> QED BY <1>1, <1>3, <2>1, <2>2
<1>5. Below(outputs.ConfigMap, map)
  BY DEF ConfigForward
<1>6. CASE rec'.pc = "block"
  BY <1>2, <1>3, <1>6, ConfigKept
<1>7. rec.tunnel \in Tunnel /\ rec.tunnel.stamp # Gone
  BY <1>1, RecForm, StampNumber DEF ReadConnection, ReadSecret, Resolve, ReadService, Tunnel
<1>8. ASSUME map.tunnel = rec.tunnel.stamp
      PROVE  /\ map \in Config /\ map.engine \in Nat /\ map.connection \in Nat
             /\ map.target \in Nat /\ map.engine < New
             /\ BehindSpec(map, inputs.connections[rec.tunnel.connection])
             /\ BehindTarget(map, inputs.services[rec.tunnel.service])
  <2>1. map # NoConfig
    BY <1>1, <1>7, <1>8, ConfigNumbers
  <2>2. PICK c \in Connections, s \in Services : MadeFor(map, c, s)
    BY <2>1 DEF ConfigForward, Behind
  <2>3. rec.tunnel \in Copies
    BY DEF Copies, ReadConnection, ReadSecret, Resolve, ReadService
  <2>4. rec.tunnel.connection = c /\ rec.tunnel.service = s
    BY <1>8, <2>2, <2>3 DEF MadeFor
  <2>5. BehindSpec(map, inputs.connections[c]) /\ BehindTarget(map, inputs.services[s])
    BY <2>2 DEF MadeFor
  <2> QED BY <1>1, <2>1, <2>4, <2>5, ConfigNumbers DEF ConfigForward, Behind
<1>9. \A spec : BehindSpec(map, spec) => BehindSpec(map, spec)'
  BY <1>3 DEF BehindSpec, EngineFits
<1>10. CASE ReadConnection /\ rec'.pc # "block"
  <2>1. /\ rec'.pc = "secrets" /\ rec'.tunnel = rec.tunnel
        /\ rec'.spec = inputs.connections[rec.tunnel.connection]
    BY <1>10 DEF ReadConnection, Continue, Block
  <2>2. map.tunnel = rec'.tunnel.stamp => BehindSpec(map, rec.spec)'
    BY <1>3, <1>8, <1>9, <2>1
  <2> QED BY <1>3, <1>4, <1>5, <2>1, <2>2 DEF ConfigForward
<1>11. CASE ReadSecret /\ rec'.pc # "block"
  <2>1. /\ rec.pc = "secrets" /\ rec'.pc = "secrets" /\ rec'.tunnel = rec.tunnel
        /\ rec'.spec = rec.spec
    BY <1>11 DEF ReadSecret, Continue, Block
  <2>2. map.tunnel = rec.tunnel.stamp => BehindSpec(map, rec.spec)
    BY <2>1 DEF ConfigForward
  <2>3. map.tunnel = rec'.tunnel.stamp => BehindSpec(map, rec.spec)'
    BY <1>3, <1>9, <2>1, <2>2
  <2> QED BY <1>3, <1>4, <1>5, <2>1, <2>3 DEF ConfigForward
<1>12. CASE Resolve /\ rec'.pc # "block"
  <2> DEFINE engine == IF rec.spec.refs.direct THEN rec.spec.stamp ELSE plane
  <2>1. /\ rec.pc = "secrets" /\ rec'.pc = "target" /\ rec'.tunnel = rec.tunnel
        /\ rec'.spec = rec.spec /\ rec'.engine = engine /\ engine # Gone
    BY <1>12 DEF Resolve, Continue, Block
  <2>2. map.tunnel = rec.tunnel.stamp => BehindSpec(map, rec.spec)
    BY <2>1 DEF ConfigForward
  <2>3. map.tunnel = rec'.tunnel.stamp => BehindSpec(map, rec.spec)'
    BY <1>3, <1>9, <2>1, <2>2
  <2>4. ASSUME map.tunnel = rec.tunnel.stamp, map.connection = rec.spec.stamp
        PROVE  map.engine <= engine
    <3>1. rec.spec \in ConnectionSpec /\ rec.spec # NoSpec /\ rec.spec.stamp \in Nat
      <4>1. rec.spec \in ConnectionSpec
        BY <1>1, <2>1, RecForm
      <4> QED BY <4>1, SpecForm, StampNumber DEF NoSpec
    <3>2. EngineFits(map.engine, rec.spec)
      BY <1>8, <2>2, <2>4, <3>1 DEF BehindSpec
    <3> QED BY <1>8, <2>1, <2>4, <3>1, <3>2 DEF EngineFits
  <2> HIDE DEF engine, map
  <2>5. rec'.pc = "target" /\ map.tunnel = rec'.tunnel.stamp /\ map.connection = rec'.spec.stamp
          => map.engine <= rec'.engine
    BY <2>1, <2>4
  <2> QED BY <1>3, <1>4, <1>5, <2>1, <2>3, <2>5 DEF ConfigForward, map
<1>13. CASE ReadService /\ rec'.pc # "block"
  <2> DEFINE target == inputs.services[rec.tunnel.service]
  <2>1. /\ rec.pc = "target" /\ rec'.pc = "configMap" /\ target # Gone
        /\ rec'.config = AgentConfig(rec.tunnel, rec.spec, rec.engine, target)
    BY <1>13 DEF ReadService, Continue, Block
  <2>2. PICK config : config = AgentConfig(rec.tunnel, rec.spec, rec.engine, target)
    OBVIOUS
  <2>3. config \in Config /\ Behind(config)
    BY <2>1, <2>2, MadeBehind
  <2>4. /\ config.tunnel = rec.tunnel.stamp /\ config.connection = rec.spec.stamp
        /\ config.engine = rec.engine /\ config.target = target
    BY <2>2 DEF AgentConfig
  <2>5. /\ rec.tunnel.stamp \in Nat /\ rec.spec.stamp \in Nat /\ rec.engine \in Nat
        /\ target \in Nat
    BY <2>3, <2>4, ConfigNumbers
  <2>9. Behind(rec.config)'
    <3>1. \A k \in Config \cup {NoConfig} : Behind(k) => Behind(k)'
      BY <1>2, BehindKept
    <3>2. Behind(config)'
      BY <2>3, <3>1
    <3> QED BY <2>1, <2>2, <3>2
  <2>10. Below(map, config)
    <3>1. CASE map.tunnel = rec.tunnel.stamp
      <4>1. rec.spec \in ConnectionSpec /\ rec.spec # NoSpec
        <5>1. rec.spec \in ConnectionSpec
          BY <1>1, <2>1, RecForm
        <5> QED BY <5>1, SpecForm, StampNumber DEF NoSpec
      <4>2. /\ BehindSpec(map, rec.spec)
            /\ map.connection = rec.spec.stamp => map.engine <= rec.engine
        BY <2>1, <3>1 DEF ConfigForward
      <4> QED BY <1>8, <2>1, <2>4, <3>1, <4>1, <4>2 DEF Below, BehindSpec, BehindTarget
    <3>2. CASE map.tunnel # rec.tunnel.stamp
      <4>1. map.tunnel <= rec.tunnel.stamp
        <5>1. CASE map = NoConfig
          BY <2>5, <5>1 DEF NoConfig, Gone
        <5>2. CASE map # NoConfig
          BY <2>1, <5>2 DEF ConfigForward, Behind, MadeFor, Copies
        <5> QED BY <5>1, <5>2
      <4> QED BY <1>1, <2>4, <2>5, <3>2, <4>1, ConfigNumbers DEF Below
    <3> QED BY <3>1, <3>2
  <2> QED BY <1>3, <1>4, <1>5, <2>1, <2>2, <2>9, <2>10 DEF ConfigForward
<1> QED BY <1>6, <1>10, <1>11, <1>12, <1>13

\* The step that stores the ConfigMap replaces it by one that is not older: a cached
\* one that looks as wanted but is not the stored one would be older than that.
LEMMA ConfigStored ==
  ASSUME TypeOK, ConfigForward, ApplyConfigMap
  PROVE  /\ UNCHANGED <<stored, plane, pod, inputs, outputs>>
         /\ rec.pc = "configMap" /\ rec.config \in Config
         /\ children'.Deployment = children.Deployment
         /\ \/ UNCHANGED children /\ rec' = Idle
            \/ /\ children'.ConfigMap = rec.config /\ outputs.ConfigMap = children.ConfigMap
               /\ rec'.pc = "deployment" /\ rec'.config = rec.config
               /\ rec'.versions = rec.versions
<1> DEFINE next == [rec EXCEPT !.pc = "deployment"]
<1>1. /\ rec.pc = "configMap" /\ rec.config \in Config
      /\ rec = [pc |-> rec.pc, refs |-> rec.refs, versions |-> rec.versions,
                config |-> rec.config]
  BY RecForm DEF ApplyConfigMap, TypeOK
<1>2. next.pc = "deployment" /\ next.config = rec.config /\ next.versions = rec.versions
  BY <1>1
<1>3. /\ children \in Children /\ outputs \in Children
      /\ outputs.ConfigMap \in Config \cup {NoConfig}
      /\ children.ConfigMap \in Config \cup {NoConfig}
  BY DEF TypeOK, Children
<1> HIDE DEF next
<1>4. UNCHANGED <<stored, plane, pod, inputs, outputs>>
  BY DEF ApplyConfigMap, Apply, Refused, Fail, cluster
<1>5. CASE Refused("ConfigMap", rec.config)
  BY <1>1, <1>4, <1>5 DEF Refused, Fail, cluster
<1>6. CASE Apply("ConfigMap", rec.config, next)
  <2>1. CASE outputs.ConfigMap = children.ConfigMap
    <3>1. children' = [children EXCEPT !["ConfigMap"] = rec.config] /\ rec' = next
      BY <1>6, <2>1 DEF Apply
    <3>2. children'.ConfigMap = rec.config /\ children'.Deployment = children.Deployment
      BY <1>3, <3>1 DEF Children
    <3> QED BY <1>1, <1>2, <1>4, <2>1, <3>1, <3>2
  <2>2. CASE outputs.ConfigMap # children.ConfigMap
    <3>1. outputs.ConfigMap = rec.config
      BY <1>6, <2>2 DEF Apply
    <3>2. Below(children.ConfigMap, outputs.ConfigMap)
          /\ Below(outputs.ConfigMap, children.ConfigMap)
      BY <1>1, <3>1 DEF ConfigForward
    <3> QED BY <1>3, <2>2, <3>2, BelowBoth
  <2> QED BY <2>1, <2>2
<1> QED BY <1>5, <1>6 DEF ApplyConfigMap, next

\* The step that stores the Deployment leaves the ConfigMap.
LEMMA DeploymentStored ==
  ASSUME TypeOK, ApplyDeployment
  PROVE  /\ UNCHANGED <<stored, plane, pod, inputs, outputs>>
         /\ rec.pc = "deployment" /\ rec.config \in Config
         /\ children'.ConfigMap = children.ConfigMap
         /\ rec' = Idle \/ rec' = [pc |-> "mark"]
         /\ \/ UNCHANGED children
            \/ children'.Deployment = Template(rec.config, rec.refs, rec.versions)
<1> DEFINE template == Template(rec.config, rec.refs, rec.versions)
<1>1. rec.pc = "deployment" /\ rec.config \in Config /\ children \in Children
  BY RecForm DEF ApplyDeployment, TypeOK
<1>2. UNCHANGED <<stored, plane, pod, inputs, outputs>>
  BY DEF ApplyDeployment, Apply, Refused, Fail, cluster
<1>3. rec' = Idle \/ rec' = [pc |-> "mark"]
  BY DEF ApplyDeployment, Apply, Refused, Fail
<1>4. UNCHANGED children \/ children' = [children EXCEPT !["Deployment"] = template]
  BY DEF ApplyDeployment, Apply, Refused, Fail, cluster
<1> HIDE DEF template
<1>5. \/ UNCHANGED children
      \/ children'.ConfigMap = children.ConfigMap /\ children'.Deployment = template
  BY <1>1, <1>4 DEF Children
<1> QED BY <1>1, <1>2, <1>3, <1>5 DEF template

LEMMA ConfigApply ==
  ASSUME TypeOK, TypeOK', CachesBehind, ConfigForward, ApplyConfigMap \/ ApplyDeployment
  PROVE  ConfigForward'
<1>1. Next /\ Drift /\ Copies' \subseteq Copies \cup {stored'.tunnel}
  BY StepDrift, CopiesStep DEF Next, Reconcile
<1>2. children.ConfigMap \in Config \cup {NoConfig}
  BY DEF TypeOK, Children
<1>3. \A config \in Config \cup {NoConfig} : Behind(config) => Behind(config)'
  BY <1>1, BehindKept
<1>4. CASE ApplyConfigMap /\ UNCHANGED children /\ rec' = Idle
  <2>1. outputs'.ConfigMap = outputs.ConfigMap
    BY <1>4, ConfigStored
  <2> QED BY <1>1, <1>4, <2>1, ConfigKept DEF Idle
<1>5. CASE ApplyConfigMap /\ ~(UNCHANGED children /\ rec' = Idle)
  <2>1. PICK config : config = rec.config
    OBVIOUS
  <2>2. /\ rec.pc = "configMap" /\ config \in Config /\ children'.ConfigMap = config
        /\ outputs'.ConfigMap = children.ConfigMap
        /\ rec'.pc = "deployment" /\ rec'.config = config
    BY <1>5, <2>1, ConfigStored
  <2>3. Behind(config) /\ Below(children.ConfigMap, config)
    BY <2>1, <2>2 DEF ConfigForward
  <2>4. Behind(children.ConfigMap)'
    BY <1>3, <2>2, <2>3
  <2> QED BY <2>2, <2>3, <2>4 DEF ConfigForward
<1>6. CASE ApplyDeployment
  <2>1. PICK config : config = children.ConfigMap
    OBVIOUS
  <2>2. children'.ConfigMap = config /\ rec'.pc \in {"idle", "mark"} /\ UNCHANGED outputs
    BY <1>6, <2>1, DeploymentStored DEF Idle
  <2>3. Behind(config) /\ Below(outputs.ConfigMap, config)
    BY <2>1 DEF ConfigForward
  <2>4. Behind(children.ConfigMap)'
    BY <1>2, <1>3, <2>1, <2>2, <2>3
  <2> QED BY <2>2, <2>3, <2>4 DEF ConfigForward
<1> QED BY <1>4, <1>5, <1>6

LEMMA ConfigForwardStep ==
  ASSUME TypeOK, TypeOK', CachesBehind, ReadBehind, ConfigForward, Next
  PROVE  ConfigForward'
<1>1. Drift /\ Copies' \subseteq Copies \cup {stored'.tunnel}
  BY StepDrift, CopiesStep
<1>2. CASE ReadConnection \/ ReadSecret \/ Resolve \/ ReadService
  BY <1>2, ConfigReads
<1>3. CASE ApplyConfigMap \/ ApplyDeployment
  BY <1>3, ConfigApply
<1>4. CASE \/ StartReconcile \/ CheckDeployment \/ MarkReconciled \/ MarkBlocked \/ CallFails
           \/ RestartManager
  <2>1. UNCHANGED children /\ rec'.pc \in {"idle", "connection"}
    BY <1>4 DEF StartReconcile, CheckDeployment, MarkReconciled, MarkBlocked, CallFails, Mark,
                Fail, RestartManager, cluster, Idle
  <2>2. outputs'.ConfigMap \in {outputs.ConfigMap, children.ConfigMap}
    BY <1>4 DEF StartReconcile, CheckDeployment, MarkReconciled, MarkBlocked, CallFails, Mark,
                Fail, RestartManager
  <2> QED BY <1>1, <2>1, <2>2, ConfigKept
<1>5. CASE Change \/ SyncTunnel \/ SyncConnection \/ SyncService \/ SyncSecret \/ Resync
           \/ StartPod \/ ReplacePod \/ RestartAgent
  <2>1. UNCHANGED <<children, outputs, rec>>
    BY <1>5 DEF Change, EditTunnel, EditConnection, EditService, EditSecret, ChangePlane,
                Store, SyncTunnel, SyncConnection, SyncService, SyncSecret, Sync, Resync,
                StartPod, ReplacePod, RestartAgent, manager, cluster
  <2> QED BY <1>1, <2>1, ConfigKept
<1>6. CASE SyncChild
  <2>1. UNCHANGED <<children, rec>>
    BY <1>6 DEF SyncChild, cluster
  <2>2. PICK kind \in {"ConfigMap", "Deployment"} :
          outputs' = [outputs EXCEPT ![kind] = children[kind]]
    BY <1>6 DEF SyncChild
  <2>3. outputs'.ConfigMap \in {outputs.ConfigMap, children.ConfigMap}
    BY <2>2 DEF TypeOK, Children
  <2> QED BY <1>1, <2>1, <2>3, ConfigKept
<1> QED BY <1>2, <1>3, <1>4, <1>5, <1>6 DEF Next, Reconcile

-----------------------------------------------------------------------------
(* The pod.  Its template is not newer than the ConfigMap it has read      *)

LEMMA PodForwardInit == Init => PodForward
BY DEF Init, PodForward, NoChildren, NoTemplate, Below

\* The configurations there are.
LEMMA PodForms ==
  ASSUME TypeOK
  PROVE  /\ children.ConfigMap \in Config \cup {NoConfig}
         /\ children.Deployment \in Templates \cup {NoTemplate}
         /\ children.Deployment.config \in Config \cup {NoConfig}
         /\ pod # NoPod => /\ pod \in Pods /\ pod.template \in Templates
                           /\ pod.template.config \in Config /\ pod.config \in Config
<1>1. /\ children.ConfigMap \in Config \cup {NoConfig}
      /\ children.Deployment \in Templates \cup {NoTemplate}
      /\ pod # NoPod => pod \in Pods
  BY DEF TypeOK, Children
<1>2. children.Deployment \in Templates => children.Deployment.config \in Config
  BY DEF Templates
<1>3. NoTemplate.config = NoConfig
  BY DEF NoTemplate
<1>4. pod # NoPod => /\ pod.template \in Templates /\ pod.config \in Config
  BY <1>1 DEF Pods
<1>5. pod # NoPod => pod.template.config \in Config
  BY <1>4 DEF Templates
<1> QED BY <1>1, <1>2, <1>3, <1>4, <1>5

\* The steps that leave the children and the pod.
LEMMA OtherSteps ==
  ASSUME Next, ~ApplyConfigMap, ~ApplyDeployment, ~StartPod, ~ReplacePod, ~RestartAgent
  PROVE  UNCHANGED <<children, pod>>
<1>1. Change \/ SyncTunnel \/ SyncConnection \/ SyncService \/ SyncSecret \/ SyncChild
        \/ Resync => UNCHANGED <<children, pod>>
  BY DEF Change, EditTunnel, EditConnection, EditService, EditSecret, ChangePlane, Store,
         SyncTunnel, SyncConnection, SyncService, SyncSecret, Sync, SyncChild, Resync,
         cluster, manager
<1>2. StartReconcile \/ ReadConnection \/ ReadSecret \/ Resolve \/ ReadService
        => UNCHANGED <<children, pod>>
  BY DEF StartReconcile, ReadConnection, ReadSecret, Resolve, ReadService, Continue, cluster
<1>3. CheckDeployment \/ MarkReconciled \/ MarkBlocked \/ CallFails \/ RestartManager
        => UNCHANGED <<children, pod>>
  BY DEF CheckDeployment, MarkReconciled, MarkBlocked, CallFails, RestartManager, Mark,
         Fail, cluster
<1> QED BY <1>1, <1>2, <1>3 DEF Next, Reconcile

LEMMA PodForwardStep ==
  ASSUME TypeOK, TypeOK', ConfigForward, PodForward, Next
  PROVE  PodForward'
<1> DEFINE D == children.Deployment.config
           M == children.ConfigMap
<1>1. /\ M \in Config \cup {NoConfig} /\ D \in Config \cup {NoConfig}
      /\ pod # NoPod => pod.template.config \in Config /\ pod.config \in Config
  BY PodForms
<1>2. /\ Below(D, M)
      /\ pod # NoPod => Below(pod.template.config, pod.config) /\ Below(pod.config, M)
  BY DEF PodForward
<1>3. CASE UNCHANGED <<children, pod>>
  BY <1>3 DEF PodForward, Below
<1>4. CASE ApplyConfigMap /\ ~UNCHANGED children
  <2>1. /\ UNCHANGED pod /\ D' = D /\ rec.config \in Config
        /\ rec.pc = "configMap" /\ M' = rec.config
    BY <1>4, ConfigStored
  <2>2. Below(M, rec.config)
    BY <2>1 DEF ConfigForward
  <2>3. \A config \in Config \cup {NoConfig} :
          Below(config, M) => Below(config, rec.config)
    BY <1>1, <2>1, <2>2, BelowTrans
  <2>4. Below(D, rec.config) /\ (pod # NoPod => Below(pod.config, rec.config))
    BY <1>1, <1>2, <2>3
  <2> HIDE DEF D, M
  <2>5. Below(D, M')
    BY <2>1, <2>4
  <2>6. pod' # NoPod => Below(pod'.template.config, pod'.config) /\ Below(pod'.config, M')
    BY <1>2, <2>1, <2>4
  <2> QED BY <2>1, <2>5, <2>6 DEF PodForward, Below, D, M
<1>5. CASE ApplyDeployment /\ ~UNCHANGED children
  <2>1. /\ UNCHANGED pod /\ M' = M /\ rec.pc = "deployment"
        /\ children'.Deployment = Template(rec.config, rec.refs, rec.versions)
    BY <1>5, DeploymentStored
  <2>2. D' = M
    BY <2>1 DEF Template, ConfigForward
  <2> QED BY <1>2, <2>1, <2>2 DEF PodForward, Below
<1>6. CASE StartPod
  <2>1. /\ UNCHANGED children
        /\ pod'.template = children.Deployment /\ pod'.config = M
    BY <1>6 DEF StartPod
  <2> QED BY <1>2, <2>1 DEF PodForward, Below
<1>7. CASE ReplacePod
  BY <1>2, <1>7 DEF ReplacePod, PodForward, Below
<1>8. CASE RestartAgent
  <2>1. /\ UNCHANGED children /\ pod # NoPod
        /\ pod'.template = pod.template /\ pod'.config \in {pod.config, M}
    <3>1. pod # NoPod /\ pod \in Pods /\ UNCHANGED children
      BY <1>8, PodForms DEF RestartAgent
    <3>2. PICK config \in {pod.config, M},
               versions \in {pod.versions, Current(pod.template.needs)} :
            pod' = [pod EXCEPT !.config = config, !.versions = versions]
      BY <1>8 DEF RestartAgent
    <3>3. pod' = [template |-> pod.template, config |-> config, versions |-> versions]
      BY <3>1, <3>2 DEF Pods
    <3> QED BY <3>1, <3>3
  <2>2. Below(pod.template.config, M)
    BY <1>1, <1>2, <2>1, BelowTrans
  <2>3. Below(M, M)
    BY DEF Below
  <2> HIDE DEF M
  <2>4. Below(pod'.template.config, pod'.config) /\ Below(pod'.config, M)
    BY <1>2, <2>1, <2>2, <2>3
  <2> QED BY <1>2, <2>1, <2>4 DEF PodForward, Below, M
<1>9. ~ApplyConfigMap /\ ~ApplyDeployment /\ ~StartPod /\ ~ReplacePod /\ ~RestartAgent
        => UNCHANGED <<children, pod>>
  BY OtherSteps
<1>10. CASE (ApplyConfigMap \/ ApplyDeployment) /\ UNCHANGED children
  BY <1>3, <1>10, ConfigStored, DeploymentStored
<1> QED BY <1>3, <1>4, <1>5, <1>6, <1>7, <1>8, <1>9, <1>10

-----------------------------------------------------------------------------
(* The versions of Secrets                                                 *)

LEMMA VersionNumbers ==
  ASSUME NEW versions \in Versions, NEW s \in DOMAIN versions
  PROVE  s \in Secrets /\ versions[s] \in Stamps /\ versions[s] \in Nat
BY StampNumber DEF Versions

LEMMA SecretsForwardInit == Init => SecretsForward
<1> SUFFICES ASSUME Init PROVE SecretsForward
  OBVIOUS
<1>1. stored \in FirstInputs /\ inputs = stored /\ New = 2
  BY RolloutAssumption DEF Init, New
<1>2. \A s \in Secrets : stored.secrets[s] \in {0, 1}
  BY <1>1, FirstStampsAssumption DEF Gone
<1>3. \A s \in Secrets : Read(s, stored.secrets[s]) /\ Read(s, inputs.secrets[s])
  BY <1>1, <1>2 DEF Read
<1>4. rec.pc = "idle" /\ children.Deployment = NoTemplate /\ pod = NoPod
  BY DEF Init, NoChildren, Idle
<1> QED BY <1>3, <1>4 DEF SecretsForward

\* A version that was read stays behind the stored one: that gets a new stamp.
LEMMA ReadKept ==
  ASSUME TypeOK, TypeOK', Drift, NEW s \in Secrets, NEW version \in Nat, Read(s, version)
  PROVE  Read(s, version)'
<1>1. stored.secrets[s] \in Nat /\ stored'.secrets[s] \in Nat
  BY InputNumbers DEF TypeOK
<1>2. /\ New \in Nat /\ New' \in Nat /\ New <= New'
      /\ stored'.secrets[s] \in {stored.secrets[s], Gone} \/ stored'.secrets[s] = New
  BY DEF Drift, StoredDrift
<1>3. version < New'
  BY <1>2 DEF Read
<1>4. stored'.secrets[s] # Gone => version <= stored'.secrets[s]
  BY <1>1, <1>2 DEF Read
<1> QED BY <1>3, <1>4 DEF Read

\* The versions of several Secrets that were read.
LEMMA ReadAllKept ==
  ASSUME TypeOK, TypeOK', Drift, NEW versions \in Versions,
         \A s \in DOMAIN versions : Read(s, versions[s])
  PROVE  \A s \in DOMAIN versions : Read(s, versions[s])'
BY VersionNumbers, ReadKept

LEMMA SecretsRead ==
  ASSUME TypeOK, TypeOK', Drift, SecretsForward
  PROVE  \A s \in Secrets : Read(s, stored.secrets[s])' /\ Read(s, inputs.secrets[s])'
<1> SUFFICES ASSUME NEW s \in Secrets
             PROVE  Read(s, stored.secrets[s])' /\ Read(s, inputs.secrets[s])'
  OBVIOUS
<1>1. /\ stored.secrets[s] \in Nat /\ inputs.secrets[s] \in Nat
      /\ stored'.secrets[s] \in Nat /\ inputs'.secrets[s] \in Nat
  BY InputNumbers DEF TypeOK
<1>2. Read(s, stored.secrets[s]) /\ Read(s, inputs.secrets[s])
  BY DEF SecretsForward
<1>3. \A version \in Nat : Read(s, version) => Read(s, version)'
  BY ReadKept
<1>4. Read(s, inputs.secrets[s])'
  <2>1. inputs'.secrets[s] \in {inputs.secrets[s], stored.secrets[s]}
    BY DEF Drift, CacheDrift
  <2>2. \A version \in Nat : version = inputs'.secrets[s] =>
          (Read(s, version)' => Read(s, inputs.secrets[s])')
    BY DEF Read
  <2> QED BY <1>1, <1>2, <1>3, <2>1, <2>2
<1>5. Read(s, stored.secrets[s])'
  <2>1. /\ New \in Nat /\ New' \in Nat /\ New <= New'
        /\ \/ stored'.secrets[s] \in {stored.secrets[s], Gone}
           \/ stored'.secrets[s] = New /\ New < New'
    BY DEF Drift, StoredDrift
  <2>2. stored'.secrets[s] < New'
    BY <1>1, <1>2, <2>1 DEF Read, Gone
  <2> QED BY <1>1, <2>2 DEF Read
<1> QED BY <1>4, <1>5

\* Reconcile holds versions.
Holds == rec.pc \in {"secrets", "target", "configMap", "deployment"}

HeldRead == Holds => \A s \in DOMAIN rec.versions : Read(s, rec.versions[s])

\* The steps of Reconcile that keep the versions it has.
LEMMA VersionsHeld ==
  ASSUME TypeOK, ConfigForward, Next, ~ReadConnection, ~ReadSecret, Holds'
  PROVE  Holds /\ rec'.versions = rec.versions
<1>1. CASE Resolve \/ ReadService
  BY <1>1 DEF Resolve, ReadService, Continue, Block, Holds
<1>2. CASE ApplyConfigMap
  BY <1>2, ConfigStored DEF Holds, Idle
<1>3. CASE ApplyDeployment
  BY <1>3, DeploymentStored DEF Holds, Idle
<1>4. CASE StartReconcile \/ CheckDeployment \/ MarkReconciled \/ MarkBlocked \/ CallFails
           \/ RestartManager
  BY <1>4 DEF StartReconcile, CheckDeployment, MarkReconciled, MarkBlocked, CallFails,
              RestartManager, Mark, Fail, Holds, Idle
<1>5. CASE \/ Change \/ SyncTunnel \/ SyncConnection \/ SyncService \/ SyncSecret
           \/ SyncChild \/ Resync \/ StartPod \/ ReplacePod \/ RestartAgent
  BY <1>5, HashOthers DEF Holds
<1> QED BY <1>1, <1>2, <1>3, <1>4, <1>5 DEF Next, Reconcile

LEMMA HeldReadStep ==
  ASSUME TypeOK, TypeOK', Drift, ConfigForward, SecretsForward, Next
  PROVE  HeldRead'
<1>1. HeldRead
  BY DEF SecretsForward, HeldRead, Holds
<1>2. CASE ~ReadConnection /\ ~ReadSecret
  <2> SUFFICES ASSUME Holds' PROVE HeldRead'
    BY DEF HeldRead
  <2>1. PICK versions : versions = rec.versions
    OBVIOUS
  <2>2. Holds /\ rec'.versions = versions
    BY <1>2, <2>1, VersionsHeld
  <2>3. versions \in Versions
    BY <2>1, <2>2, RecForm DEF Holds, TypeOK
  <2>4. \A s \in DOMAIN versions : Read(s, versions[s])
    BY <1>1, <2>1, <2>2 DEF HeldRead
  <2>5. \A s \in DOMAIN versions : Read(s, versions[s])'
    BY <2>3, <2>4, ReadAllKept
  <2> QED BY <2>2, <2>5 DEF HeldRead, Read
<1>3. CASE ReadConnection
  <2>1. Holds' => rec'.versions = [s \in {} |-> Gone]
    BY <1>3 DEF ReadConnection, Continue, Block, Holds
  <2> QED BY <2>1 DEF HeldRead
<1>4. CASE ReadSecret
  <2> SUFFICES ASSUME Holds' PROVE HeldRead'
    BY DEF HeldRead
  <2>1. UNCHANGED <<stored, left>> /\ rec.pc = "secrets" /\ rec.todo \subseteq Secrets
    BY <1>4, RecForm DEF ReadSecret, Continue, cluster, TypeOK
  <2>7. PICK held : held = rec.versions
    OBVIOUS
  <2>2. PICK s \in rec.todo : \E known \in SUBSET (DOMAIN held \cup {s}) :
          rec'.versions = [t \in known |-> IF t = s THEN inputs.secrets[s] ELSE held[t]]
    <3>1. PICK s \in rec.todo :
            LET version == inputs.secrets[s]
                known == DOMAIN rec.versions
                           \cup ({s} \cap AgentSecretRefs(rec.spec.refs))
            IN  rec' = IF version = Gone THEN Block
                       ELSE [pc |-> "secrets", tunnel |-> rec.tunnel, spec |-> rec.spec,
                             todo |-> rec.todo \ {s},
                             versions |-> [t \in known |->
                               IF t = s THEN version ELSE rec.versions[t]]]
      BY <1>4 DEF ReadSecret, Continue
    <3>2. rec' # Block
      BY DEF Holds, Block
    <3>3. /\ DOMAIN rec.versions \cup ({s} \cap AgentSecretRefs(rec.spec.refs))
                \in SUBSET (DOMAIN held \cup {s})
      BY <2>7
    <3> QED BY <2>7, <3>1, <3>2, <3>3
  <2>3. Read(s, inputs.secrets[s])
    BY <2>1, <2>2 DEF SecretsForward
  <2>4. \A t \in DOMAIN held : Read(t, held[t])
    BY <1>1, <2>1, <2>7 DEF HeldRead, Holds
  <2>5. \A t \in DOMAIN held \cup {s} : Read(t, IF t = s THEN inputs.secrets[s] ELSE held[t])
    BY <2>3, <2>4
  <2>6. \A t \in DOMAIN rec'.versions : Read(t, rec'.versions[t])
    BY <2>2, <2>5
  <2> QED BY <2>1, <2>6 DEF HeldRead, Read, New
<1> QED BY <1>2, <1>3, <1>4

\* The template holds versions that were read.
TemplateRead ==
  children.Deployment # NoTemplate =>
    \A s \in DOMAIN children.Deployment.versions : Read(s, children.Deployment.versions[s])

LEMMA TemplateReadStep ==
  ASSUME TypeOK, TypeOK', Drift, ConfigForward, SecretsForward, Next
  PROVE  TemplateRead'
<1> SUFFICES ASSUME children'.Deployment # NoTemplate PROVE TemplateRead'
  BY DEF TemplateRead
<1>1. PICK old : old = children.Deployment
  OBVIOUS
<1>2. PICK held : held = rec.versions
  OBVIOUS
<1>3. CASE children'.Deployment = old
  <2>1. old \in Templates /\ old # NoTemplate
    BY <1>1, <1>3, PodForms
  <2>2. old.versions \in Versions
    BY <2>1 DEF Templates
  <2>3. \A s \in DOMAIN old.versions : Read(s, old.versions[s])
    BY <1>1, <2>1 DEF SecretsForward
  <2>4. \A s \in DOMAIN old.versions : Read(s, old.versions[s])'
    BY <2>2, <2>3, ReadAllKept
  <2> QED BY <1>3, <2>4 DEF TemplateRead, Read
<1>4. CASE children'.Deployment # old
  <2>1. ApplyDeployment
    <3>1. ~ApplyConfigMap
      BY <1>1, <1>4, ConfigStored
    <3>2. CheckDeployment \/ MarkReconciled \/ MarkBlocked \/ CallFails \/ RestartManager
            \/ StartReconcile \/ ReadConnection \/ ReadSecret \/ Resolve \/ ReadService
            => UNCHANGED children
      BY DEF CheckDeployment, MarkReconciled, MarkBlocked, CallFails, RestartManager, Mark,
             Fail, StartReconcile, ReadConnection, ReadSecret, Resolve, ReadService, Continue,
             cluster
    <3> QED BY <1>1, <1>4, <3>1, <3>2, HashOthers DEF Next, Reconcile
  <2>2. rec.pc = "deployment" /\ children'.Deployment.versions = held
    BY <1>1, <1>2, <1>4, <2>1, DeploymentStored DEF Template
  <2>3. held \in Versions
    BY <1>2, <2>2, RecForm DEF TypeOK
  <2>4. \A s \in DOMAIN held : Read(s, held[s])
    BY <1>2, <2>2 DEF SecretsForward
  <2>5. \A s \in DOMAIN held : Read(s, held[s])'
    BY <2>3, <2>4, ReadAllKept
  <2> QED BY <2>2, <2>5 DEF TemplateRead, Read
<1> QED BY <1>3, <1>4

\* The pod has read versions that are not older than those of its template.
PodRead ==
  pod # NoPod =>
    /\ DOMAIN pod.template.versions = pod.template.needs
    /\ DOMAIN pod.versions = pod.template.needs
    /\ \A s \in pod.template.needs : /\ Read(s, pod.versions[s])
                                     /\ pod.template.versions[s] <= pod.versions[s]

LEMMA PodReadStep ==
  ASSUME TypeOK, TypeOK', Drift, HashTracksPodSecrets, SecretsForward, Next
  PROVE  PodRead'
<1>1. CASE UNCHANGED pod
  <2> SUFFICES ASSUME pod' # NoPod PROVE PodRead'
    BY DEF PodRead
  <2>1. PICK versions : versions = pod.versions
    OBVIOUS
  <2>2. versions \in Versions
    BY <1>1, <2>1, PodForms DEF Pods
  <2>3. /\ DOMAIN pod.template.versions = pod.template.needs
        /\ DOMAIN versions = pod.template.needs
        /\ \A s \in pod.template.needs : pod.template.versions[s] <= versions[s]
        /\ \A s \in DOMAIN versions : Read(s, versions[s])
    BY <1>1, <2>1 DEF SecretsForward
  <2>4. \A s \in DOMAIN versions : Read(s, versions[s])'
    BY <2>2, <2>3, ReadAllKept
  <2> QED BY <1>1, <2>1, <2>3, <2>4 DEF PodRead, Read
<1>2. CASE StartPod
  <2>1. PICK template : template = children.Deployment
    OBVIOUS
  <2>2. /\ template # NoTemplate /\ UNCHANGED <<stored, left>>
        /\ \A s \in template.needs : stored.secrets[s] # Gone
        /\ pod'.template = template /\ pod'.versions = Current(template.needs)
    BY <1>2, <2>1 DEF StartPod
  <2>3. template \in Templates
    BY <2>1, <2>2, PodForms
  <2>4. /\ DOMAIN template.versions = template.needs /\ template.needs \subseteq Secrets
        /\ \A s \in template.needs : Read(s, template.versions[s])
    BY <2>1, <2>2, <2>3 DEF HashTracksPodSecrets, SecretsForward, Templates
  <2>5. DOMAIN Current(template.needs) = template.needs
        /\ \A s \in template.needs : Current(template.needs)[s] = stored.secrets[s]
    BY DEF Current
  <2>6. \A s \in template.needs : /\ Read(s, stored.secrets[s])
                                  /\ template.versions[s] <= stored.secrets[s]
    BY <2>2, <2>4 DEF SecretsForward, Read
  <2> QED BY <2>2, <2>4, <2>5, <2>6 DEF PodRead, Read, New
<1>3. CASE ReplacePod
  BY <1>3 DEF ReplacePod, PodRead
<1>4. CASE RestartAgent
  <2>1. /\ pod # NoPod /\ pod \in Pods /\ pod.template \in Templates /\ UNCHANGED stored
        /\ \A s \in pod.template.needs : stored.secrets[s] # Gone
    BY <1>4, PodForms DEF RestartAgent
  <2>2. PICK needs : needs = pod.template.needs
    OBVIOUS
  <2>3. PICK config \in {pod.config, children.ConfigMap},
             versions \in {pod.versions, Current(needs)} :
          pod' = [pod EXCEPT !.config = config, !.versions = versions]
    BY <1>4, <2>2 DEF RestartAgent
  <2>4. pod'.template = pod.template /\ pod'.versions = versions
    BY <2>1, <2>3 DEF Pods
  <2>5. /\ DOMAIN pod.template.versions = needs /\ DOMAIN pod.versions = needs
        /\ \A s \in needs : Read(s, pod.versions[s])
        /\ \A s \in needs : pod.template.versions[s] <= pod.versions[s]
    BY <2>1, <2>2 DEF SecretsForward
  <2>6. DOMAIN Current(needs) = needs
        /\ \A s \in needs : Current(needs)[s] = stored.secrets[s]
    BY DEF Current
  <2>7. needs \subseteq Secrets /\ pod.template.versions \in Versions
        /\ pod.versions \in Versions
    BY <2>1, <2>2 DEF Templates, Pods
  <2>8. \A s \in needs : /\ pod.template.versions[s] \in Nat /\ pod.versions[s] \in Nat
                         /\ stored.secrets[s] \in Nat
    BY <2>5, <2>7, VersionNumbers, InputNumbers DEF TypeOK
  <2>9. \A s \in needs : /\ Read(s, stored.secrets[s])
                         /\ pod.template.versions[s] <= stored.secrets[s]
    BY <2>1, <2>2, <2>5, <2>7, <2>8 DEF SecretsForward, Read
  <2>10. /\ DOMAIN versions = needs
         /\ \A s \in needs : /\ Read(s, versions[s])
                             /\ pod.template.versions[s] <= versions[s]
    BY <2>3, <2>5, <2>6, <2>9
  <2>11. versions \in Versions
    <3>1. Current(needs) \in [needs -> Stamps]
      BY <2>1, <2>2, <2>7, InputsForm DEF Current, TypeOK
    <3>2. Current(needs) \in Versions
      BY <2>7, <3>1, VersionsForm
    <3> QED BY <2>3, <2>7, <3>2
  <2>12. \A s \in DOMAIN versions : Read(s, versions[s])'
    BY <2>10, <2>11, ReadAllKept
  <2> QED BY <2>2, <2>4, <2>5, <2>10, <2>12 DEF PodRead, Read
<1>5. ~StartPod /\ ~ReplacePod /\ ~RestartAgent => UNCHANGED pod
  <2>1. Change \/ SyncTunnel \/ SyncConnection \/ SyncService \/ SyncSecret \/ SyncChild
          \/ Resync => UNCHANGED pod
    BY DEF Change, EditTunnel, EditConnection, EditService, EditSecret, ChangePlane, Store,
           SyncTunnel, SyncConnection, SyncService, SyncSecret, Sync, SyncChild, Resync,
           cluster, manager
  <2>2. StartReconcile \/ ReadConnection \/ ReadSecret \/ Resolve \/ ReadService
          => UNCHANGED pod
    BY DEF StartReconcile, ReadConnection, ReadSecret, Resolve, ReadService, Continue, cluster
  <2>3. CheckDeployment \/ MarkReconciled \/ MarkBlocked \/ CallFails \/ RestartManager
          => UNCHANGED pod
    BY DEF CheckDeployment, MarkReconciled, MarkBlocked, CallFails, RestartManager, Mark,
           Fail, cluster
  <2>4. ApplyConfigMap \/ ApplyDeployment => UNCHANGED pod
    BY DEF ApplyConfigMap, ApplyDeployment, Apply, Refused, Fail, cluster
  <2> QED BY <2>1, <2>2, <2>3, <2>4 DEF Next, Reconcile
<1> QED BY <1>1, <1>2, <1>3, <1>4, <1>5

LEMMA SecretsForwardStep ==
  ASSUME TypeOK, TypeOK', ConfigForward, HashTracksPodSecrets, SecretsForward, Next
  PROVE  SecretsForward'
<1>1. Drift
  BY StepDrift
<1>2. \A s \in Secrets : Read(s, stored.secrets[s])' /\ Read(s, inputs.secrets[s])'
  BY <1>1, SecretsRead
<1>3. HeldRead' /\ TemplateRead' /\ PodRead'
  BY <1>1, HeldReadStep, TemplateReadStep, PodReadStep
<1> QED BY <1>2, <1>3 DEF SecretsForward, HeldRead, Holds, TemplateRead, PodRead

-----------------------------------------------------------------------------
\* The stamps are in order, and the template tracks what its pods read.
OrderInv ==
  /\ CachesBehind /\ ReadBehind /\ ConfigForward /\ PodForward /\ SecretsForward
  /\ HashTracksPodSecrets

LEMMA OrderInit == Init => OrderInv
BY CachesBehindInit, ConfigForwardInit, PodForwardInit, SecretsForwardInit
   DEF Init, OrderInv, ReadBehind, HashTracksPodSecrets, NoChildren, Idle

LEMMA OrderStep ==
  ASSUME TypeOK, TypeOK', HashTracksPodSecrets', OrderInv, [Next]_vars
  PROVE  OrderInv'
<1>1. CASE Next
  <2>1. CachesBehind' /\ ReadBehind'
    BY <1>1, StepDrift, CachesBehindStep, ReadBehindStep DEF OrderInv
  <2>2. ConfigForward' /\ PodForward'
    BY <1>1, ConfigForwardStep, PodForwardStep DEF OrderInv
  <2>3. SecretsForward'
    BY <1>1, SecretsForwardStep DEF OrderInv
  <2> QED BY <2>1, <2>2, <2>3 DEF OrderInv
<1>2. CASE UNCHANGED vars
  <2>1. UNCHANGED <<stored, children, plane, pod, inputs, outputs, rec, left>>
    BY <1>2 DEF vars
  <2>2. New' = New
    BY <2>1 DEF New
  <2>3. CachesBehind' /\ ReadBehind'
    BY <2>1, <2>2, SMTT(60) DEF OrderInv, CachesBehind, ReadBehind, Older, EngineFits
  <2>4. ConfigForward'
    <3>1. \A config : Behind(config) => Behind(config)'
      BY <2>1, <2>2 DEF Behind, MadeFor, Copies, BehindSpec, BehindTarget, EngineFits
    <3>2. \A config, spec : BehindSpec(config, spec) => BehindSpec(config, spec)'
      BY <2>1 DEF BehindSpec, EngineFits
    <3> QED BY <2>1, <3>1, <3>2 DEF OrderInv, ConfigForward, Below
  <2>5. PodForward'
    BY <2>1 DEF OrderInv, PodForward, Below
  <2>6. SecretsForward'
    BY <2>1, <2>2 DEF OrderInv, SecretsForward, Read
  <2> QED BY <2>3, <2>4, <2>5, <2>6 DEF OrderInv
<1> QED BY <1>1, <1>2

\* What is between the stored versions and those of the template is equal to both.
LEMMA PodSettles ==
  ASSUME TypeOK, OrderInv, Wants(children), pod # NoPod, pod.template = children.Deployment
  PROVE  pod.config = children.ConfigMap /\ pod.versions = Current(pod.template.needs)
<1> DEFINE secrets == AgentSecretRefs(StoredSpec.refs)
           needs == pod.template.needs
<1>1. /\ pod \in Pods /\ pod.template \in Templates /\ pod.template.config \in Config
      /\ pod.config \in Config /\ children.ConfigMap \in Config \cup {NoConfig}
  BY PodForms
<1>2. /\ pod.template.config = children.ConfigMap
      /\ pod.template.versions = Current(secrets)
  BY DEF Wants, Wanted, Template
<1>3. pod.config = children.ConfigMap
  BY <1>1, <1>2, BelowBoth DEF OrderInv, PodForward
<1>4. /\ DOMAIN pod.template.versions = needs /\ DOMAIN pod.versions = needs
      /\ \A s \in needs : /\ Read(s, pod.versions[s])
                          /\ pod.template.versions[s] <= pod.versions[s]
  BY DEF OrderInv, SecretsForward
<1>5. pod.template.versions \in Versions /\ pod.versions \in Versions
  BY <1>1 DEF Templates, Pods
<1>6. needs = secrets /\ \A s \in needs : pod.template.versions[s] = stored.secrets[s]
  BY <1>2, <1>4 DEF Current
<1>7. ASSUME NEW s \in needs
      PROVE  pod.versions[s] = stored.secrets[s]
  <2>1. /\ stored.secrets[s] \in Nat /\ stored.secrets[s] # Gone
        /\ pod.versions[s] \in Nat
    <3>1. pod.template.versions[s] \in Stamps /\ pod.versions[s] \in Nat
      BY <1>4, <1>5, VersionNumbers
    <3> QED BY <1>6, <3>1, StampNumber
  <2>2. stored.secrets[s] <= pod.versions[s] /\ pod.versions[s] <= stored.secrets[s]
    BY <1>4, <1>6, <2>1 DEF Read
  <2> QED BY <2>1, <2>2
<1>8. pod.versions = [s \in needs |-> pod.versions[s]]
  BY <1>4, <1>5 DEF Versions
<1>9. pod.versions = Current(needs)
  BY <1>7, <1>8 DEF Current
<1> QED BY <1>3, <1>9

\* Then a pod of the Deployment's template runs the stored configuration with the stored
\* Secrets, whichever containers started between the writes.
THEOREM PodsAreCurrent == Behaviour => []PodIsCurrent
<1>1. Init => TypeInv
  BY TypeInit DEF Init, TypeInv, PodHasConfig
<1>2. TypeInv => TypeOK
  BY DEF TypeInv
<1>3. TypeOK /\ SettledInv /\ OrderInv => PodIsCurrent
  <2> SUFFICES ASSUME TypeOK, SettledInv, OrderInv, Settled, reconciled, pod # NoPod,
                      pod.template = children.Deployment
               PROVE  /\ pod.config = children.ConfigMap
                      /\ pod.versions = Current(pod.template.needs)
    BY DEF PodIsCurrent
  <2>1. Wants(children)
    BY DEF Settled, Quiet, SettledInv, UpToDate
  <2> QED BY <2>1, PodSettles
<1>4. HashInv => HashTracksPodSecrets
  BY DEF HashInv
<1>5. TypeOK /\ TypeOK' /\ HashTracksPodSecrets' /\ OrderInv /\ [Next]_vars => OrderInv'
  BY OrderStep
<1> QED BY <1>1, <1>2, <1>3, <1>4, <1>5, TypeStep, SettledInit, SettledStep, HashInit, HashStep,
           OrderInit, PTL DEF Behaviour

-----------------------------------------------------------------------------
\* Whatever a cache is behind and whenever a manager dies, a ConfigMap or a template of
\* an older configuration never replaces a newer one.
NeverGoesBack ==
  [][/\ Below(children.ConfigMap, children'.ConfigMap)
     /\ Below(children.Deployment.config, children'.Deployment.config)]_vars

LEMMA ForwardStep ==
  ASSUME TypeOK, ConfigForward, PodForward, Next
  PROVE  /\ Below(children.ConfigMap, children'.ConfigMap)
         /\ Below(children.Deployment.config, children'.Deployment.config)
<1>1. CASE UNCHANGED children
  BY <1>1 DEF Below
<1>2. CASE ApplyConfigMap /\ ~UNCHANGED children
  <2>1. /\ rec.pc = "configMap" /\ children'.ConfigMap = rec.config
        /\ children'.Deployment = children.Deployment
    BY <1>2, ConfigStored
  <2> QED BY <2>1 DEF ConfigForward, Below
<1>3. CASE ApplyDeployment /\ ~UNCHANGED children
  <2>1. /\ rec.pc = "deployment" /\ children'.ConfigMap = children.ConfigMap
        /\ children'.Deployment.config = rec.config
    BY <1>3, DeploymentStored DEF Template
  <2>2. Below(children.Deployment.config, rec.config)
    BY <2>1 DEF PodForward, ConfigForward
  <2> QED BY <2>1, <2>2 DEF Below
<1>4. ~ApplyConfigMap /\ ~ApplyDeployment => UNCHANGED children
  <2>1. StartReconcile \/ ReadConnection \/ ReadSecret \/ Resolve \/ ReadService
          => UNCHANGED children
    BY DEF StartReconcile, ReadConnection, ReadSecret, Resolve, ReadService, Continue, cluster
  <2>2. CheckDeployment \/ MarkReconciled \/ MarkBlocked \/ CallFails \/ RestartManager
          => UNCHANGED children
    BY DEF CheckDeployment, MarkReconciled, MarkBlocked, CallFails, RestartManager, Mark,
           Fail, cluster
  <2> QED BY <2>1, <2>2, HashOthers DEF Next, Reconcile
<1> QED BY <1>1, <1>2, <1>3, <1>4

\* The configuration in the cluster only moves forward.
THEOREM RolloutMovesForward == Behaviour => NeverGoesBack
<1>1. Init => TypeInv
  BY TypeInit DEF Init, TypeInv, PodHasConfig
<1>2. TypeInv => TypeOK
  BY DEF TypeInv
<1>3. HashInv => HashTracksPodSecrets
  BY DEF HashInv
<1>4. TypeOK /\ TypeOK' /\ HashTracksPodSecrets' /\ OrderInv /\ [Next]_vars => OrderInv'
  BY OrderStep
<1>5. TypeOK /\ OrderInv /\ [Next]_vars =>
        [/\ Below(children.ConfigMap, children'.ConfigMap)
         /\ Below(children.Deployment.config, children'.Deployment.config)]_vars
  BY ForwardStep DEF OrderInv
<1> QED BY <1>1, <1>2, <1>3, <1>4, <1>5, TypeStep, HashInit, HashStep, OrderInit, PTL
        DEF Behaviour, NeverGoesBack

-----------------------------------------------------------------------------
(* ConfigRollout implements OrderedRollout                                 *)

Rollout == INSTANCE OrderedRollout WITH
  Versions <- Config, None <- NoConfig, NotNewer <- Below,
  published <- children.ConfigMap,
  template <- children.Deployment.config,
  made <- IF pod = NoPod THEN NoConfig ELSE pod.template.config,
  runs <- IF pod = NoPod THEN NoConfig ELSE pod.config

LEMMA RolloutInit == Init => Rollout!Init
BY DEF Init, Rollout!Init, NoChildren, NoTemplate

LEMMA RolloutStep ==
  ASSUME TypeOK, TypeOK', ConfigForward, [Next]_vars
  PROVE  [Rollout!Next]_(Rollout!vars)
<1>1. /\ children.ConfigMap \in Config \cup {NoConfig}
      /\ children.Deployment \in Templates \cup {NoTemplate}
      /\ children.Deployment.config \in Config \cup {NoConfig}
      /\ pod # NoPod => /\ pod \in Pods
                        /\ pod.template.config \in Config /\ pod.config \in Config
  BY PodForms
<1>2. NoConfig \notin Config
  BY ConfigNumbers
<1>3. CASE UNCHANGED <<children, pod>>
  BY <1>3 DEF Rollout!vars
<1>4. CASE ApplyConfigMap /\ ~UNCHANGED children
  <2>1. /\ rec.pc = "configMap" /\ rec.config \in Config
        /\ children'.ConfigMap = rec.config
        /\ children'.Deployment = children.Deployment /\ UNCHANGED pod
    BY <1>4, ConfigStored
  <2>2. Below(children.ConfigMap, rec.config)
    BY <2>1 DEF ConfigForward
  <2>3. Rollout!Publish
    BY <2>1, <2>2 DEF Rollout!Publish
  <2> QED BY <2>3 DEF Rollout!Next
<1>5. CASE ApplyDeployment /\ ~UNCHANGED children
  <2>1. /\ rec.pc = "deployment" /\ rec.config \in Config
        /\ children'.ConfigMap = children.ConfigMap
        /\ children'.Deployment.config = rec.config /\ UNCHANGED pod
    BY <1>5, DeploymentStored DEF Template
  <2>2. children.ConfigMap = rec.config /\ children.ConfigMap # NoConfig
    BY <1>2, <2>1 DEF ConfigForward
  <2>3. Rollout!Stamp
    BY <2>1, <2>2 DEF Rollout!Stamp
  <2> QED BY <2>3 DEF Rollout!Next
<1>6. CASE StartPod
  <2>1. /\ UNCHANGED children /\ pod = NoPod /\ children.Deployment # NoTemplate
        /\ pod'.template = children.Deployment /\ pod'.config = children.ConfigMap
    BY <1>6 DEF StartPod
  <2>2. children.Deployment.config \in Config /\ children.Deployment.config # NoConfig
    BY <1>1, <1>2, <2>1 DEF Templates
  <2>3. pod' # NoPod
    BY <2>1 DEF NoPod
  <2>4. Rollout!StartPod
    BY <2>1, <2>2, <2>3 DEF Rollout!StartPod
  <2> QED BY <2>4 DEF Rollout!Next
<1>7. CASE ReplacePod
  <2>1. UNCHANGED children /\ pod # NoPod /\ pod' = NoPod
    BY <1>7 DEF ReplacePod
  <2>2. Rollout!StopPod
    BY <1>1, <1>2, <2>1 DEF Rollout!StopPod
  <2> QED BY <2>2 DEF Rollout!Next
<1>8. CASE RestartAgent
  <2>1. /\ UNCHANGED children /\ pod # NoPod /\ pod' # NoPod
        /\ pod'.template = pod.template
        /\ pod'.config \in {pod.config, children.ConfigMap}
    <3>1. pod # NoPod /\ pod \in Pods /\ UNCHANGED children
      BY <1>1, <1>8 DEF RestartAgent
    <3>2. PICK config \in {pod.config, children.ConfigMap},
               versions \in {pod.versions, Current(pod.template.needs)} :
            pod' = [pod EXCEPT !.config = config, !.versions = versions]
      BY <1>8 DEF RestartAgent
    <3>3. pod' = [template |-> pod.template, config |-> config, versions |-> versions]
      BY <3>1, <3>2 DEF Pods
    <3>4. pod.template # NoTemplate
      BY <1>1, <1>2, <3>1 DEF NoTemplate
    <3> QED BY <3>1, <3>3, <3>4 DEF NoPod
  <2>2. CASE pod'.config = pod.config
    BY <2>1, <2>2 DEF Rollout!vars
  <2>3. CASE pod'.config = children.ConfigMap
    <3>1. Rollout!RestartAgent
      BY <1>1, <1>2, <2>1, <2>3 DEF Rollout!RestartAgent
    <3> QED BY <3>1 DEF Rollout!Next
  <2> QED BY <2>1, <2>2, <2>3
<1>9. CASE (ApplyConfigMap \/ ApplyDeployment) /\ UNCHANGED children
  BY <1>3, <1>9, ConfigStored, DeploymentStored
<1>10. CASE /\ ~ApplyConfigMap /\ ~ApplyDeployment
            /\ ~StartPod /\ ~ReplacePod /\ ~RestartAgent
  <2>1. UNCHANGED <<children, pod>>
    BY <1>10, OtherSteps DEF vars
  <2> QED BY <1>3, <2>1
<1> QED BY <1>3, <1>4, <1>5, <1>6, <1>7, <1>8, <1>9, <1>10

\* The rollout is an ordered one: what is published, stamped and run has the order that
\* OrderedRollout promises.
THEOREM ImplementsRollout == Behaviour => Rollout!Spec
<1>1. Init => TypeInv
  BY TypeInit DEF Init, TypeInv, PodHasConfig
<1>2. TypeInv => TypeOK
  BY DEF TypeInv
<1>3. HashInv => HashTracksPodSecrets
  BY DEF HashInv
<1>4. TypeOK /\ TypeOK' /\ HashTracksPodSecrets' /\ OrderInv /\ [Next]_vars => OrderInv'
  BY OrderStep
<1>5. TypeOK /\ TypeOK' /\ OrderInv /\ [Next]_vars => [Rollout!Next]_(Rollout!vars)
  BY RolloutStep DEF OrderInv
<1> QED BY <1>1, <1>2, <1>3, <1>4, <1>5, RolloutInit, TypeStep, HashInit, HashStep, OrderInit,
           PTL DEF Behaviour, Rollout!Spec
=============================================================================
