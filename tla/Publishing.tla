----------------------------- MODULE Publishing -----------------------------
(***************************************************************************)
(* The way of a tunnel from the spec that a user submits to the traffic:   *)
(* the API server admits it, the manager validates it, resolves what it    *)
(* refers to and writes the agent's configuration, the agent requests a    *)
(* tunnel from the engine and forwards its connections (AgentProxy).       *)
(* TunnelRules has the rules that are applied on the way.                  *)
(*                                                                         *)
(* work is what has been handed on: each hop sees that and nothing else.   *)
(* What happens when something changes on the way is in TunnelStatus and   *)
(* ConfigRollout, and how a session fails is in AgentRunner.               *)
(***************************************************************************)
EXTENDS TunnelRules, AgentProxy

CONSTANTS
  Services,   \* the ports of a Service, in order
  Targets     \* how a tunnel names one of them

PortProtocols == {Unset, "TCP", "UDP", "SCTP"}

ASSUME PublishingAssumption ==
  \A ports \in Services :
    \A i \in DOMAIN ports : ports[i].protocol \in PortProtocols

VARIABLE work

vars == <<work, proxyVars>>

-----------------------------------------------------------------------------
Submitted == [hop : {"submitted", "rejected", "stored"}, spec : Specs]
Blocked == [hop : {"blocked"}, spec : Specs, ports : Services, target : Targets]
Invalid == [hop : {"invalid", "unresolved"}]
Configured == [hop : {"configured", "refused"}, config : Configs,
               token : {Unset, "blank", "given"}, transport : Transports]
Requested == [hop : {"requested"}, request : Requests, transport : Transports]
Served == [hop : {"serving"}, transport : Transports]

Init ==
  /\ \E spec \in Specs : work = [hop |-> "submitted", spec |-> spec]
  /\ ProxyInit

\* The API server sets the defaults, then validates.
Admit ==
  /\ work.hop = "submitted"
  /\ LET spec == WithDefaults(work.spec)
     IN  work' = [hop |-> IF Admitted(spec) THEN "stored" ELSE "rejected",
                  spec |-> IF Admitted(spec) THEN spec ELSE work.spec]
  /\ UNCHANGED proxyVars

\* Reconcile, up to the ConfigMap and the agent's environment
Reconcile ==
  /\ work.hop = "stored"
  /\ \E connection \in Connections, ports \in Services, target \in Targets :
       /\ AdmittedConnection(connection)
       /\ work' =
            IF ~ValidateTunnelSpec(work.spec) THEN [hop |-> "invalid"]
            ELSE IF ~ResolveConnection(connection) THEN [hop |-> "unresolved"]
            ELSE IF ~ResolveTarget(work.spec, ports, target)
              THEN [hop |-> "blocked", spec |-> work.spec, ports |-> ports,
                    target |-> target]
              ELSE [hop |-> "configured",
                    config |-> BuildAgentConfig(work.spec, connection),
                    token |-> connection.token,
                    transport |-> ActualProtocol(ResolveServicePort(ports, target))]
  /\ UNCHANGED proxyVars

\* runOnce, up to the request: whatever is refused here is refused at every retry.
\* What the engine refuses is a failed session of AgentRunner.
Connect ==
  /\ work.hop = "configured"
  /\ \E confirmed \in {Unset, "confirmed"} :
       work' =
         IF RejectsProperties(work.config) \/ RejectsClient(work.config, work.token)
           THEN [work EXCEPT !.hop = "refused"]
           ELSE [hop |-> "requested",
                 request |-> TunnelProperties(work.config, confirmed),
                 transport |-> work.transport]
  /\ UNCHANGED proxyVars

\* The engine opens the tunnel; runOnce picks serveTCP or serveUDP by what it is.
Open ==
  /\ work.hop = "requested"
  /\ work' = [hop |-> "serving", transport |-> work.transport]
  /\ StartServing(work.request.type)

Next ==
  \/ Admit \/ Reconcile \/ Connect \/ Open
  \/ Forward /\ UNCHANGED work

Spec == Init /\ [][Next]_vars

FairSpec == Spec /\ ProxyFairness

-----------------------------------------------------------------------------
(* Properties                                                              *)

\* Every variable keeps its type.
TypeOK ==
  /\ work \in Submitted \cup Blocked \cup Invalid \cup Configured \cup Requested
                \cup Served
  /\ ProxyTypeOK

\* The agent dials the Service with the protocol of the port that the manager has
\* chosen: three functions in two processes infer it, one from the defaulted spec.
PortFitsTunnel ==
  work.hop = "serving" =>
    tunnel = (IF work.transport = "UDP" THEN "datagram" ELSE "bytestream")

\* A target is turned down only if it names no port, or one of another protocol than
\* the tunnel's; by name that is the only port of that name.
TargetRejectedRightly ==
  work.hop = "blocked" =>
    LET needed == IF InferTunnelType(work.spec) = "datagram" THEN "UDP" ELSE "TCP"
        port == ResolveServicePort(work.ports, work.target)
    IN  \/ Named(work.ports, work.target) = {}
        \/ port.protocol # needed /\ ~(port.protocol = Unset /\ needed = "TCP")

\* What the connection brings that neither CRD nor manager looks into: the content of
\* its Secrets, and whether the SDK takes its transport and its engine.
ConnectionUnusable ==
  \/ work.token = "blank" \/ work.config.mtls = "invalid"
  \/ work.config.dialer = "invalid" \/ work.config.engine = "invalid"

\* The rules on a tunnel that the agent alone has.
SpecUnsupported ==
  \/ work.config.guaranteed /\ work.config.type = "bytestream"
  \/ work.config.http.cors = "invalid"
  \/ work.config.http.present /\ work.config.protocol # "http"

\* Of what the CRD admits and the manager accepts, TunnelProperties and
\* NewRstreamClient refuse only what neither of the two looks into: the rules on TCP,
\* on ports, on private CORS and on the choice of one credential, which the agent
\* checks again, are never what fails, and no TCP tunnel is refused for its spec.
RefusedForKnownReasons ==
  work.hop = "refused" =>
    \/ ConnectionUnusable
    \/ SpecUnsupported /\ work.config.protocol # "tcp"

\* The engine is asked for a hostname only for what it publishes by name, for a port
\* only for a published TCP tunnel, and for reliable datagrams only of a datagram
\* tunnel, whether manager or agent has to see to it.
RequestIsCoherent ==
  work.hop = "requested" =>
    LET request == work.request
    IN  /\ request.hostname # Unset => request.publish /\ request.protocol # "tcp"
        /\ request.port # Unset => request.protocol = "tcp" /\ request.publish
        /\ request.protocol = "tcp" => request.type = "bytestream"
        /\ request.guaranteed => request.type = "datagram"

\* README.md:207, "Accepted: the RstreamTunnel spec is valid": with a connection that
\* is usable, the agent does not refuse a spec that the manager has accepted.
AcceptedMeansValid == work.hop = "refused" => ConnectionUnusable
=============================================================================
