-------------------------- MODULE PublishingProofs --------------------------
(***************************************************************************)
(* Theorems about Publishing, for every Service, every way to name a port, *)
(* any set of connections and any size of the buffers.  The lemmas say     *)
(* what each hop may rely on of what it is handed.                         *)
(***************************************************************************)
EXTENDS Publishing, AgentProxyProofs

-----------------------------------------------------------------------------
(* What is handed on                                                       *)

\* The API server leaves none of these to be inferred.
Defaulted(spec) ==
  /\ spec.protocol # Unset /\ spec.publish # Unset
  /\ spec.http.present => spec.http.version # Unset

\* The rules on a configuration that hold whatever the agent checks.
Sane(config) ==
  /\ config.tcpPort # "invalid"
  /\ config.tcpPort # Unset => config.protocol = "tcp"
  /\ config.protocol = "tcp" =>
       /\ config.publish /\ config.type = "bytestream" /\ config.hostname = Unset
       /\ ~config.http.present /\ ~config.tls /\ ~config.guaranteed
  /\ config.http.cors # Unset => config.publish /\ config.protocol = "http"
  /\ config.hostname # Unset => config.publish

TransportOf(type) == IF type = "datagram" THEN "UDP" ELSE "TCP"

\* The invariant: what the work says of itself at each hop.
Handed ==
  /\ work.hop = "stored" => Admitted(work.spec) /\ Defaulted(work.spec)
  /\ work.hop = "configured" =>
       /\ Sane(work.config) /\ work.transport = TransportOf(work.config.type)
       /\ (work.token # Unset) # (work.config.mtls # Unset)
  /\ work.hop = "requested" => work.transport = TransportOf(work.request.type)

WorkOK == work \in Submitted \cup Blocked \cup Invalid \cup Configured \cup Requested
                     \cup Served

Inv == /\ WorkOK /\ ProxyTypeOK /\ Handed /\ PortFitsTunnel /\ TargetRejectedRightly
       /\ RefusedForKnownReasons /\ RequestIsCoherent

-----------------------------------------------------------------------------
(* The rules                                                               *)

\* The defaults keep the type and leave nothing of what is inferred to later.
LEMMA DefaultsAreSet ==
  ASSUME NEW spec \in Specs
  PROVE  WithDefaults(spec) \in Specs /\ Defaulted(WithDefaults(spec))
<1>1. WithDefaults(spec).http \in HTTP(Versions \cup {Unset})
  <2> DEFINE version == IF spec.http.present THEN Or(spec.http.version, "http/1.1")
                                             ELSE spec.http.version
  <2>1. WithDefaults(spec).http = [spec.http EXCEPT !.version = version]
    BY DEF WithDefaults, Specs
  <2>2. spec.http \in HTTP(Versions \cup {Unset})
    BY DEF Specs
  <2>3. CASE ~spec.http.present
    <3>1. /\ spec.http \in [present : {FALSE}, version : {Unset}, cors : {Unset}]
          /\ version = Unset
      BY <2>2, <2>3 DEF HTTP
    <3> HIDE DEF version
    <3> QED BY <2>1, <3>1 DEF HTTP
  <2>4. CASE spec.http.present
    <3>1. /\ spec.http \in [present : {TRUE}, version : Versions \cup {Unset},
                            cors : {Unset} \cup Policies]
          /\ version \in Versions \cup {Unset}
      BY <2>2, <2>4 DEF HTTP, Or, Versions
    <3> HIDE DEF version
    <3> QED BY <2>1, <3>1 DEF HTTP
  <2> QED BY <2>3, <2>4
<1>2. WithDefaults(spec) \in Specs
  BY <1>1, ZenonT(60) DEF WithDefaults, Specs, Or, Unset, Protocols
<1>3. Defaulted(WithDefaults(spec))
  BY DEF Defaulted, WithDefaults, Specs, HTTP, Or, Unset
<1> QED BY <1>2, <1>3

\* The protocol that the manager looks for in the Service is the one of the type that it
\* infers for the agent.
LEMMA InferencesAgree ==
  ASSUME NEW spec \in Specs, Defaulted(spec)
  PROVE  ExpectedServiceProtocol(spec) = TransportOf(InferTunnelType(spec))
  BY DEF Defaulted, ExpectedServiceProtocol, TransportOf, InferTunnelType, Specs, Types, Or,
         Unset

\* A configuration has the type that the agent's rules expect.
LEMMA ConfigType ==
  ASSUME NEW spec \in Specs, Defaulted(spec), NEW connection \in Connections
  PROVE  /\ BuildAgentConfig(spec, connection) \in Configs
         /\ BuildAgentConfig(spec, connection).type = InferTunnelType(spec)
         /\ BuildAgentConfig(spec, connection).mtls = connection.mtls
<1>1. InferTunnelType(spec) \in Types
  BY DEF InferTunnelType, Specs, Types, Unset
<1>2. BuildAgentConfig(spec, connection).http \in HTTP(Versions)
  <2> DEFINE version == IF spec.http.present THEN Or(spec.http.version, "http/1.1")
                                             ELSE spec.http.version
  <2>1. BuildAgentConfig(spec, connection).http = [spec.http EXCEPT !.version = version]
    BY DEF BuildAgentConfig
  <2>2. spec.http \in HTTP(Versions \cup {Unset})
    BY DEF Specs
  <2>3. CASE ~spec.http.present
    <3>1. /\ spec.http \in [present : {FALSE}, version : {Unset}, cors : {Unset}]
          /\ version = Unset
      BY <2>2, <2>3 DEF HTTP
    <3> HIDE DEF version
    <3> QED BY <2>1, <3>1 DEF HTTP
  <2>4. CASE spec.http.present
    <3>1. /\ spec.http \in [present : {TRUE}, version : Versions \cup {Unset},
                            cors : {Unset} \cup Policies]
          /\ version \in Versions
      BY <2>2, <2>4 DEF HTTP, Or, Versions, Defaulted, Unset
    <3> HIDE DEF version
    <3> QED BY <2>1, <3>1 DEF HTTP
  <2> QED BY <2>3, <2>4
<1> QED BY <1>1, <1>2 DEF BuildAgentConfig, Configs, RequestedHostname, Connections, Specs,
                          Or, Unset, Protocols

\* What the CRD admits and the manager accepts makes a sane configuration.
LEMMA ConfigIsSane ==
  ASSUME NEW spec \in Specs, Defaulted(spec), Admitted(spec), ValidateTunnelSpec(spec),
         NEW connection \in Connections
  PROVE  Sane(BuildAgentConfig(spec, connection))
<1>1. /\ BuildAgentConfig(spec, connection).protocol = spec.protocol
      /\ BuildAgentConfig(spec, connection).publish = (spec.publish # "no")
      /\ BuildAgentConfig(spec, connection).type = InferTunnelType(spec)
      /\ BuildAgentConfig(spec, connection).guaranteed = spec.guaranteed
      /\ BuildAgentConfig(spec, connection).hostname = RequestedHostname(spec)
      /\ BuildAgentConfig(spec, connection).tcpPort = spec.tcpPort
      /\ BuildAgentConfig(spec, connection).tls = spec.tls
  BY DEF BuildAgentConfig, Defaulted, Or
<1>2. /\ BuildAgentConfig(spec, connection).http.present = spec.http.present
      /\ BuildAgentConfig(spec, connection).http.cors = spec.http.cors
  BY DEF BuildAgentConfig, Specs, HTTP
<1>3. spec.protocol = "tcp" => InferTunnelType(spec) = "bytestream"
  BY DEF Admitted, InferTunnelType, Or, Unset
<1>4. RequestedHostname(spec) # Unset => spec.publish # "no" /\ spec.protocol # "tcp"
  BY DEF RequestedHostname
<1> QED BY <1>1, <1>2, <1>3, <1>4 DEF Sane, Admitted, ValidateTunnelSpec

\* Of a sane configuration the agent refuses few.
LEMMA FewAreRefused ==
  ASSUME NEW config \in Configs, Sane(config), RejectsProperties(config)
  PROVE  /\ config.protocol # "tcp"
         /\ \/ config.guaranteed /\ config.type = "bytestream"
            \/ config.http.cors = "invalid"
            \/ config.http.present /\ config.protocol # "http"
  BY DEF Sane, RejectsProperties, Configs, Types

\* What the agent does not refuse makes a coherent request.
LEMMA RequestOfConfig ==
  ASSUME NEW config \in Configs, Sane(config), ~RejectsProperties(config),
         NEW confirmed \in {Unset, "confirmed"}
  PROVE  LET request == TunnelProperties(config, confirmed)
         IN  /\ request \in Requests /\ request.type = config.type
             /\ request.hostname # Unset => request.publish /\ request.protocol # "tcp"
             /\ request.port # Unset => request.protocol = "tcp" /\ request.publish
             /\ request.protocol = "tcp" => request.type = "bytestream"
             /\ request.guaranteed => request.type = "datagram"
<1>1. /\ HostnameOf(config, confirmed) \in {Unset, "given", "confirmed"}
      /\ HostnameOf(config, confirmed) # Unset => config.publish /\ config.protocol # "tcp"
  BY DEF HostnameOf, Sane, Configs
<1> QED BY <1>1 DEF TunnelProperties, Requests, Configs, Sane, RejectsProperties

-----------------------------------------------------------------------------
(* The hops                                                                *)

LEMMA InitInv == Init => Inv
<1> SUFFICES ASSUME Init PROVE Inv
  OBVIOUS
<1>1. PICK spec \in Specs : work = [hop |-> "submitted", spec |-> spec]
  BY DEF Init
<1>2. WorkOK
  BY <1>1 DEF WorkOK, Submitted
<1> QED BY <1>1, <1>2, InitTypeOK DEF Init, Inv, Handed, PortFitsTunnel,
     TargetRejectedRightly, RefusedForKnownReasons, RequestIsCoherent

\* A spec at the first hops is one of Specs.
LEMMA SpecHanded ==
  ASSUME WorkOK, work.hop \in {"submitted", "stored"}
  PROVE  work.spec \in Specs
  BY DEF WorkOK, Submitted, Blocked, Invalid, Configured, Requested, Served

\* A configuration is one of Configs.
LEMMA ConfigHanded ==
  ASSUME WorkOK, work.hop = "configured"
  PROVE  /\ work \in Configured
         /\ work.config \in Configs /\ work.token \in {Unset, "blank", "given"}
         /\ work.transport \in Transports
  BY DEF WorkOK, Submitted, Blocked, Invalid, Configured, Requested, Served

LEMMA AdmitInv == ASSUME Inv, Admit PROVE Inv'
<1> DEFINE spec == WithDefaults(work.spec)
<1>1. work.spec \in Specs /\ spec \in Specs /\ Defaulted(spec)
  BY SpecHanded, DefaultsAreSet DEF Inv, Admit
<1>2. \/ Admitted(spec) /\ work' = [hop |-> "stored", spec |-> spec]
      \/ work' = [hop |-> "rejected", spec |-> work.spec]
  BY DEF Admit
<1> HIDE DEF spec
<1>3. WorkOK' /\ Handed'
  BY <1>1, <1>2 DEF WorkOK, Submitted, Handed
<1>4. ProxyTypeOK'
  BY DEF Admit, Inv, ProxyTypeOK, proxyVars, listenVars, streamVars, connVars
<1> QED BY <1>2, <1>3, <1>4 DEF Inv, PortFitsTunnel, TargetRejectedRightly,
     RefusedForKnownReasons, RequestIsCoherent

LEMMA ReconcileInv == ASSUME Inv, Reconcile PROVE Inv'
<1>1. PICK connection \in Connections, ports \in Services, target \in Targets :
        /\ AdmittedConnection(connection)
        /\ \/ work' \in Invalid
           \/ /\ ~ResolveTarget(work.spec, ports, target)
              /\ work' = [hop |-> "blocked", spec |-> work.spec, ports |-> ports,
                          target |-> target]
           \/ /\ ValidateTunnelSpec(work.spec) /\ ResolveTarget(work.spec, ports, target)
              /\ work' = [hop |-> "configured",
                          config |-> BuildAgentConfig(work.spec, connection),
                          token |-> connection.token,
                          transport |-> ActualProtocol(ResolveServicePort(ports, target))]
  BY DEF Reconcile, Invalid
<1>2. work.spec \in Specs /\ Defaulted(work.spec) /\ Admitted(work.spec)
  BY SpecHanded DEF Reconcile, Inv, Handed
<1>3. ExpectedServiceProtocol(work.spec) = TransportOf(InferTunnelType(work.spec))
  BY <1>2, InferencesAgree
<1>4. ProxyTypeOK'
  BY DEF Reconcile, Inv, ProxyTypeOK, proxyVars, listenVars, streamVars, connVars
<1>5. CASE work' \in Invalid
  BY <1>4, <1>5 DEF Invalid, Inv, WorkOK, Handed, PortFitsTunnel, TargetRejectedRightly,
     RefusedForKnownReasons, RequestIsCoherent
<1>6. CASE /\ ~ResolveTarget(work.spec, ports, target)
           /\ work' = [hop |-> "blocked", spec |-> work.spec, ports |-> ports,
                       target |-> target]
  <2>1. WorkOK'
    BY <1>2, <1>6 DEF WorkOK, Blocked
  <2>2. TargetRejectedRightly'
    BY <1>3, <1>6 DEF TargetRejectedRightly, ResolveTarget, ActualProtocol, Or, TransportOf,
                      Unset
  <2> QED BY <1>4, <1>6, <2>1, <2>2 DEF Inv, Handed, PortFitsTunnel, RefusedForKnownReasons,
       RequestIsCoherent
<1>7. CASE /\ ValidateTunnelSpec(work.spec) /\ ResolveTarget(work.spec, ports, target)
           /\ work' = [hop |-> "configured",
                       config |-> BuildAgentConfig(work.spec, connection),
                       token |-> connection.token,
                       transport |-> ActualProtocol(ResolveServicePort(ports, target))]
  <2> DEFINE config == BuildAgentConfig(work.spec, connection)
             transport == ActualProtocol(ResolveServicePort(ports, target))
  <2>1. /\ config \in Configs /\ config.mtls = connection.mtls
        /\ config.type = InferTunnelType(work.spec) /\ Sane(config)
    BY <1>2, <1>7, ConfigType, ConfigIsSane
  <2>2. transport = TransportOf(config.type) /\ transport \in Transports
    BY <1>3, <1>7, <2>1 DEF ResolveTarget, TransportOf, Transports
  <2>3. /\ connection.token \in {Unset, "blank", "given"}
        /\ (connection.token # Unset) # (connection.mtls # Unset)
    BY <1>1 DEF Connections, AdmittedConnection
  <2>4. work' = [hop |-> "configured", config |-> config, token |-> connection.token,
                 transport |-> transport]
    BY <1>7
  <2> HIDE DEF config, transport
  <2>5. WorkOK' /\ Handed'
    BY <2>1, <2>2, <2>3, <2>4 DEF WorkOK, Configured, Handed
  <2> QED BY <1>4, <2>4, <2>5 DEF Inv, PortFitsTunnel, TargetRejectedRightly,
       RefusedForKnownReasons, RequestIsCoherent
<1> QED BY <1>1, <1>5, <1>6, <1>7

LEMMA ConnectInv == ASSUME Inv, Connect PROVE Inv'
<1>1. /\ work \in Configured /\ work.hop = "configured" /\ work.config \in Configs
      /\ work.token \in {Unset, "blank", "given"} /\ work.transport \in Transports
  BY ConfigHanded DEF Inv, Connect
<1>2. /\ Sane(work.config) /\ work.transport = TransportOf(work.config.type)
      /\ (work.token # Unset) # (work.config.mtls # Unset)
  BY <1>1 DEF Inv, Handed
<1>3. ProxyTypeOK'
  BY DEF Connect, Inv, ProxyTypeOK, proxyVars, listenVars, streamVars, connVars
<1>4. CASE RejectsProperties(work.config) \/ RejectsClient(work.config, work.token)
  <2>1. work' = [work EXCEPT !.hop = "refused"]
    BY <1>4 DEF Connect
  <2>2. /\ work'.hop = "refused" /\ work'.config = work.config /\ work'.token = work.token
        /\ work' \in Configured
    BY <1>1, <2>1 DEF Configured
  <2>3. WorkOK'
    BY <2>2 DEF WorkOK
  <2>4. RejectsClient(work.config, work.token) => ConnectionUnusable'
    BY <1>1, <1>2, <2>2 DEF RejectsClient, ConnectionUnusable, Unset
  <2>5. RejectsProperties(work.config) => SpecUnsupported' /\ work'.config.protocol # "tcp"
    BY <1>1, <1>2, <2>2, FewAreRefused DEF SpecUnsupported
  <2>6. RefusedForKnownReasons'
    BY <1>4, <2>2, <2>4, <2>5 DEF RefusedForKnownReasons
  <2> QED BY <1>3, <2>2, <2>3, <2>6 DEF Inv, Handed, PortFitsTunnel, TargetRejectedRightly,
       RequestIsCoherent
<1>5. CASE ~RejectsProperties(work.config) /\ ~RejectsClient(work.config, work.token)
  <2>1. PICK confirmed \in {Unset, "confirmed"} :
          work' = [hop |-> "requested",
                   request |-> TunnelProperties(work.config, confirmed),
                   transport |-> work.transport]
    BY <1>5 DEF Connect
  <2> DEFINE request == TunnelProperties(work.config, confirmed)
  <2>2. /\ request \in Requests /\ request.type = work.config.type
        /\ request.hostname # Unset => request.publish /\ request.protocol # "tcp"
        /\ request.port # Unset => request.protocol = "tcp" /\ request.publish
        /\ request.protocol = "tcp" => request.type = "bytestream"
        /\ request.guaranteed => request.type = "datagram"
    BY <1>1, <1>2, <1>5, RequestOfConfig
  <2>3. work' = [hop |-> "requested", request |-> request, transport |-> work.transport]
    BY <2>1
  <2> HIDE DEF request
  <2>4. WorkOK' /\ Handed'
    BY <1>1, <1>2, <2>2, <2>3 DEF WorkOK, Requested, Handed
  <2>5. RequestIsCoherent'
    BY <2>2, <2>3 DEF RequestIsCoherent
  <2> QED BY <1>3, <2>3, <2>4, <2>5 DEF Inv, PortFitsTunnel, TargetRejectedRightly,
       RefusedForKnownReasons
<1> QED BY <1>4, <1>5

LEMMA OpenInv == ASSUME Inv, Open PROVE Inv'
<1>1. /\ work.hop = "requested" /\ work.transport = TransportOf(work.request.type)
      /\ work.request.type \in Types /\ work.transport \in Transports
      /\ work' = [hop |-> "serving", transport |-> work.transport]
      /\ tunnel' = work.request.type
  BY DEF Open, StartServing, Inv, Handed, WorkOK, Submitted, Blocked, Invalid, Configured,
         Requested, Served, Requests
<1>2. ProxyTypeOK'
  BY <1>1, ServingTypeOK DEF Open, Inv, Types
<1>3. WorkOK'
  BY <1>1 DEF WorkOK, Served
<1>4. PortFitsTunnel'
  BY <1>1 DEF PortFitsTunnel, TransportOf, Types
<1> QED BY <1>1, <1>2, <1>3, <1>4 DEF Inv, Handed, TargetRejectedRightly,
     RefusedForKnownReasons, RequestIsCoherent

\* Forwarding does not change the type of the tunnel.
LEMMA ForwardKeepsTunnel == ASSUME Forward PROVE UNCHANGED tunnel
<1>1. ASSUME Serving \/ Reopen \/ Cancel \/ LoseTunnel
      PROVE  UNCHANGED tunnel
  BY <1>1 DEF Serving, AcceptTimesOut, AcceptAgain, AcceptFails, StopListening, Return,
              Reopen, Cancel, LoseTunnel
<1>2. ASSUME NEW c \in Conns, Arrive(c) \/ Accept(c) \/ Proxying(c)
      PROVE  UNCHANGED tunnel
  BY <1>2 DEF Proxying, DialSucceeds, DialFails, Await, CloseOutbound, CloseInbound, Arrive,
              Accept
<1>3. ASSUME NEW c \in Conns, NEW s \in Sockets, Copying(c, s) \/ Peers(c, s)
      PROVE  UNCHANGED tunnel
  BY <1>3 DEF Copying, Read, ReadEnds, Write, WriteFails, Signal, Copy, Peers, Send, Finish,
              Break, LoseDatagram
<1> QED BY <1>1, <1>2, <1>3 DEF Forward

LEMMA ForwardInv == ASSUME Inv, Forward, UNCHANGED work PROVE Inv'
<1>1. ProxyTypeOK'
  BY NextTypeOK DEF ProxyNext, Inv
<1> QED BY <1>1, ForwardKeepsTunnel DEF Inv, WorkOK, Handed, PortFitsTunnel,
     TargetRejectedRightly, RefusedForKnownReasons, ConnectionUnusable, SpecUnsupported,
     RequestIsCoherent

\* The invariant is inductive.
LEMMA NextInv == Inv /\ [Next]_vars => Inv'
<1> SUFFICES ASSUME Inv, [Next]_vars PROVE Inv'
  OBVIOUS
<1>1. CASE UNCHANGED vars
  BY <1>1 DEF vars, Inv, WorkOK, Handed, PortFitsTunnel, TargetRejectedRightly, proxyVars,
     RefusedForKnownReasons, ConnectionUnusable, SpecUnsupported, RequestIsCoherent,
     ProxyTypeOK, listenVars, streamVars, connVars
<1>2. CASE Next
  BY <1>2, AdmitInv, ReconcileInv, ConnectInv, OpenInv, ForwardInv DEF Next
<1> QED BY <1>1, <1>2

LEMMA Invariance == Spec => []Inv
  BY InitInv, NextInv, PTL DEF Spec

-----------------------------------------------------------------------------
(* Theorems                                                                *)

\* Every reachable state is well typed: what each hop hands on is what the next one
\* expects, and the proxying keeps its types.
THEOREM TypeCorrect == Spec => []TypeOK
<1>1. Inv => TypeOK
  BY DEF Inv, TypeOK, WorkOK
<1> QED BY <1>1, Invariance, PTL

\* For every Service and every spec, the agent serves the type of tunnel that fits the
\* protocol of the port that the manager has resolved.
THEOREM PortFits == Spec => []PortFitsTunnel
<1>1. Inv => PortFitsTunnel
  BY DEF Inv
<1> QED BY <1>1, Invariance, PTL

\* A target is turned down only if it names no port or one of another protocol.
THEOREM RejectedRightly == Spec => []TargetRejectedRightly
<1>1. Inv => TargetRejectedRightly
  BY DEF Inv
<1> QED BY <1>1, Invariance, PTL

\* Of what the CRD admits and the manager accepts, the agent's own checks refuse only what
\* neither of the two looks into.
THEOREM RefusalsKnown == Spec => []RefusedForKnownReasons
<1>1. Inv => RefusedForKnownReasons
  BY DEF Inv
<1> QED BY <1>1, Invariance, PTL

\* What the engine is asked for is coherent.
THEOREM RequestsCoherent == Spec => []RequestIsCoherent
<1>1. Inv => RequestIsCoherent
  BY DEF Inv
<1> QED BY <1>1, Invariance, PTL

\* The way to the engine does not disturb the proxying, so no connection is cut there
\* either.
THEOREM NothingIsCut == Spec => CutsNothing
<1>1. Init => ProxyInit
  BY DEF Init
<1>2. Inv /\ [Next]_vars => [ProxyNext]_proxyVars
  <2> SUFFICES ASSUME Inv, [Next]_vars PROVE [ProxyNext]_proxyVars
    OBVIOUS
  <2>1. CASE Admit \/ Reconcile \/ Connect \/ UNCHANGED vars
    BY <2>1 DEF Admit, Reconcile, Connect, vars
  <2>2. CASE Open
    <3>1. work.request.type \in {"bytestream", "datagram"}
      BY <2>2 DEF Open, Inv, WorkOK, Submitted, Blocked, Invalid, Configured, Requested,
                  Served, Requests, Types
    <3> QED BY <2>2, <3>1 DEF Open, ProxyNext
  <2>3. CASE Forward
    BY <2>3 DEF ProxyNext
  <2> QED BY <2>1, <2>2, <2>3 DEF Next
<1> QED BY <1>1, <1>2, Invariance, CutsNoConnection, PTL DEF Spec, ProxySpec
=============================================================================
