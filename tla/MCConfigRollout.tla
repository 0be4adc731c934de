-------------------------- MODULE MCConfigRollout ---------------------------
(***************************************************************************)
(* ConfigRollout with the connections that differ in what reads a Secret:  *)
(* the agent's environment, its volumes, or the manager alone.             *)
(***************************************************************************)
EXTENDS ConfigRollout

CONSTANTS ours, theirs, svc, auth, other

Project == [token |-> auth, files |-> {}, proxy |-> {}, headers |-> {other},
            direct |-> FALSE]
Direct == [token |-> None, files |-> {other}, proxy |-> {auth}, headers |-> {},
           direct |-> TRUE]

MCReferences == {Project, Direct}

\* The tunnel uses one connection, and there is another it may be moved to.
MCFirstInputs ==
  {[tunnel |-> [stamp |-> 1, connection |-> ours, service |-> svc],
    connections |-> [c \in Connections |->
                       Spec(IF c = ours THEN Project ELSE Direct, 1)],
    services |-> [s \in Services |-> 1],
    secrets |-> [s \in Secrets |-> 1]]}
=============================================================================
