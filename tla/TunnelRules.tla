---------------------------- MODULE TunnelRules -----------------------------
(***************************************************************************)
(* What becomes of a tunnel's spec on its way to the engine: the defaults  *)
(* and validation rules of the CRD, validateTunnelSpec and the resolution  *)
(* of the Service port in the manager, BuildAgentConfig, and in the agent  *)
(* TunnelProperties and NewRstreamClient.  Each of these checks and infers *)
(* by itself what the next one relies on.                                  *)
(*                                                                         *)
(* A value is reduced to what some rule tells apart.  Where the rule is    *)
(* the SDK's, that is whether the SDK takes it: a CORS policy, a transport *)
(* and an engine are valid or not.  Fields that are copied from hop to hop *)
(* without a rule are left out: labels, GeoIP, trusted IPs, upstreamTLS,   *)
(* auth, gate, and the fields of tls, whose values the CRD enumerates as   *)
(* the agent does.                                                         *)
(***************************************************************************)
EXTENDS Naturals, Sequences

Unset == "unset"
Protocols == {"http", "tls", "dtls", "quic", "tcp"}
Types == {"bytestream", "datagram"}
Versions == {"http/1.1", "h2c", "h3"}
Transports == {"TCP", "UDP"}

\* What httpcors.Normalize says of a CORS policy.  It refuses a wildcard among the
\* origins, one with a path or another scheme than HTTP(S), and the like.
Policies == {"valid", "invalid"}

\* spec.http: present or not, its version and its CORS policy
HTTP(versions) ==
  [present : {FALSE}, version : {Unset}, cors : {Unset}]
  \cup [present : {TRUE}, version : versions, cors : {Unset} \cup Policies]

\* What a user may write; a hostname may be blank, a port out of range.
Specs == [protocol : Protocols \cup {Unset}, publish : {Unset, "yes", "no"},
          type : Types \cup {Unset}, guaranteed : BOOLEAN,
          hostname : {Unset, "blank", "given"}, tcpPort : {Unset, "valid", "invalid"},
          http : HTTP(Versions \cup {Unset}), tls : BOOLEAN]

Or(value, default) == IF value = Unset THEN default ELSE value

-----------------------------------------------------------------------------
(* The API server                                                          *)

\* Mutant: the CRD has no default for the protocol.
WithDefaultsButProtocol(spec) ==
  [spec EXCEPT !.publish = Or(@, "yes"),
               !.http.version = IF spec.http.present THEN Or(@, "http/1.1") ELSE @]

\* The defaults of the CRD
WithDefaults(spec) ==
  [spec EXCEPT !.protocol = Or(@, "http"),
               !.publish = Or(@, "yes"),
               !.http.version = IF spec.http.present THEN Or(@, "http/1.1") ELSE @]

\* Mutant: CORS is not tied to a published HTTP tunnel.
AdmittedWithoutCORS(spec) ==
  /\ spec.tcpPort # "invalid"
  /\ spec.tcpPort # Unset => spec.protocol = "tcp"
  /\ spec.protocol = "tcp" =>
       /\ spec.publish # "no" /\ spec.type \in {Unset, "bytestream"}
       /\ spec.hostname = Unset /\ ~spec.http.present /\ ~spec.tls

\* The range of tcpPort, and the CEL rules of RstreamTunnelSpec
Admitted(spec) ==
  /\ spec.tcpPort # "invalid"
  /\ spec.tcpPort # Unset => spec.protocol = "tcp"
  /\ spec.protocol = "tcp" =>
       /\ spec.publish # "no" /\ spec.type \in {Unset, "bytestream"}
       /\ spec.hostname = Unset /\ ~spec.http.present /\ ~spec.tls
  /\ spec.http.cors # Unset => spec.protocol = "http" /\ spec.publish # "no"

-----------------------------------------------------------------------------
(* The manager                                                             *)

ValidateTunnelSpec(spec) ==
  /\ spec.tcpPort # Unset => spec.protocol = "tcp"
  /\ spec.protocol = "tcp" =>
       /\ spec.publish # "no" /\ spec.type \in {Unset, "bytestream"}
       /\ spec.hostname # "given" /\ ~spec.http.present /\ ~spec.tls
       /\ ~spec.guaranteed

\* What the connection authenticates with, and how the agent dials the engine.  The
\* token in the Secret may be blank; mTLS files may be no key pair or hold no
\* certificates; the SDK may refuse the transport settings or the engine's address.
\* A managed connection asks the Control plane for the engine.
Connections == [token : {Unset, "blank", "given"}, mtls : {Unset, "invalid", "valid"},
                dialer : {"valid", "invalid"}, engine : {"valid", "invalid"},
                managed : BOOLEAN]

\* The CEL rules of RstreamConnectionSpec on credentials
AdmittedConnection(connection) ==
  /\ (connection.token # Unset) # (connection.mtls # Unset)
  /\ connection.managed => connection.token # Unset

\* Resolve needs a token for the Control plane; the Secrets only need the key.
ResolveConnection(connection) == connection.managed => connection.token = "given"

ExpectedServiceProtocol(spec) ==
  IF \/ spec.type = "datagram"
     \/ /\ spec.type = Unset
        /\ \/ spec.protocol \in {"dtls", "quic"}
           \/ spec.protocol = "http" /\ spec.http.version = "h3"
    THEN "UDP" ELSE "TCP"

\* A Service is a sequence of ports.  A tunnel names one, by name or by number.
Named(ports, target) ==
  {i \in DOMAIN ports : IF target.byName THEN ports[i].name = target.port
                                         ELSE ports[i].number = target.port}

\* resolveServicePort takes the first one.
ResolveServicePort(ports, target) ==
  ports[CHOOSE i \in Named(ports, target) : \A j \in Named(ports, target) : i <= j]

\* Mutant: a port without protocol is not taken for a TCP port.
ProtocolAsWritten(port) == port.protocol

ActualProtocol(port) == Or(port.protocol, "TCP")

\* The protocol of the port has to be the one that the tunnel needs.
ResolveTarget(spec, ports, target) ==
  /\ Named(ports, target) # {}
  /\ ActualProtocol(ResolveServicePort(ports, target)) = ExpectedServiceProtocol(spec)

InferTunnelType(spec) ==
  IF spec.type # Unset THEN spec.type
  ELSE IF \/ spec.protocol \in {"dtls", "quic"}
          \/ Or(spec.protocol, "http") = "http" /\ spec.http.version = "h3"
    THEN "datagram" ELSE "bytestream"

\* Mutant: a blank hostname is not trimmed away.
UntrimmedHostname(spec) ==
  IF spec.protocol # "tcp" /\ spec.publish # "no" THEN spec.hostname ELSE Unset

\* A private or TCP tunnel has no hostname, a blank one is none.
RequestedHostname(spec) ==
  IF spec.protocol # "tcp" /\ spec.publish # "no" /\ spec.hostname = "given"
    THEN "given" ELSE Unset

BuildAgentConfig(spec, connection) ==
  [protocol |-> Or(spec.protocol, "http"), publish |-> spec.publish # "no",
   type |-> InferTunnelType(spec), guaranteed |-> spec.guaranteed,
   hostname |-> RequestedHostname(spec), tcpPort |-> spec.tcpPort,
   http |-> [spec.http EXCEPT !.version = IF spec.http.present THEN Or(@, "http/1.1")
                                                               ELSE @],
   tls |-> spec.tls, mtls |-> connection.mtls, dialer |-> connection.dialer,
   engine |-> connection.engine]

-----------------------------------------------------------------------------
(* The agent                                                               *)

Configs == [protocol : Protocols, publish : BOOLEAN, type : Types, guaranteed : BOOLEAN,
            hostname : {Unset, "given"}, tcpPort : {Unset, "valid", "invalid"},
            http : HTTP(Versions), tls : BOOLEAN, mtls : {Unset, "invalid", "valid"},
            dialer : {"valid", "invalid"}, engine : {"valid", "invalid"}]

\* TunnelProperties returns an error.
RejectsProperties(config) ==
  \/ config.tcpPort # Unset /\ (config.protocol # "tcp" \/ config.tcpPort = "invalid")
  \/ /\ config.protocol = "tcp"
     /\ \/ ~config.publish \/ config.type # "bytestream" \/ config.hostname # Unset
        \/ config.http.present \/ config.tls \/ config.guaranteed
  \/ config.guaranteed /\ config.type # "datagram"
  \/ config.http.cors # Unset /\ (~config.publish \/ config.http.cors = "invalid")
  \/ config.http.present /\ config.protocol # "http"

\* NewRstreamClient returns an error: of tlsConfig, of the choice between mTLS and the
\* token of the environment, of transport, or of the SDK's NewClient.
RejectsClient(config, token) ==
  \/ config.mtls = "invalid"
  \/ (token = "given") = (config.mtls # Unset)
  \/ config.dialer = "invalid"
  \/ config.engine = "invalid"

\* Mutant: the confirmed hostname is reused without looking at publish.
ConfirmedUnlessTCP(config, confirmed) ==
  IF config.hostname = Unset /\ config.protocol # "tcp" THEN confirmed
                                                        ELSE config.hostname

HostnameOf(config, confirmed) ==
  IF config.hostname = Unset /\ config.publish /\ config.protocol # "tcp"
    THEN confirmed ELSE config.hostname

\* The properties of the tunnel that the agent asks the engine for
TunnelProperties(config, confirmed) ==
  [protocol |-> config.protocol, publish |-> config.publish, type |-> config.type,
   guaranteed |-> config.guaranteed, port |-> config.tcpPort,
   hostname |-> HostnameOf(config, confirmed)]

Requests == [protocol : Protocols, publish : BOOLEAN, type : Types, guaranteed : BOOLEAN,
             port : {Unset, "valid", "invalid"},
             hostname : {Unset, "given", "confirmed"}]
=============================================================================
