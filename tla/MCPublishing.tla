---------------------------- MODULE MCPublishing ----------------------------
(* Publishing with Services of one or two ports, and a Service that has TCP *)
(* and UDP under one number, as those for HTTP/3 do.                        *)
EXTENDS Publishing

Port(name, number, protocol) == [name |-> name, number |-> number, protocol |-> protocol]

MCServices ==
  {<<Port("web", "443", protocol)>> : protocol \in PortProtocols}
  \cup {<<Port("web", "443", "TCP"), Port("h3", "443", "UDP")>>,
        <<Port("h3", "443", "UDP"), Port("web", "80", Unset)>>}

MCTargets == [byName : {TRUE}, port : {"web", "h3"}] \cup [byName : {FALSE}, port : {"443"}]
=============================================================================
