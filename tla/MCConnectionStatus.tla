------------------------- MODULE MCConnectionStatus -------------------------
(***************************************************************************)
(* ConnectionStatus with two Secrets, the specs that differ in what they   *)
(* reference, and a Control plane that is down, has a global engine, or    *)
(* has moved the project to a region.                                      *)
(***************************************************************************)
EXTENDS ConnectionStatus

CONSTANTS global, regional, own, eu, auth, access

Token == [name |-> auth, key |-> "value"]
Header == [name |-> access, key |-> "value"]

Project == [token |-> Token, files |-> {}, headers |-> {}, engine |-> None,
            region |-> AutoRegion]

MCSpecs ==
  {Project,
   [Project EXCEPT !.headers = {Header}, !.region = eu],
   [Project EXCEPT !.token = None, !.files = {Header}, !.engine = own]}

MCPlanes ==
  {[region \in {eu, AutoRegion} |-> None],
   [region \in {eu, AutoRegion} |-> IF region = AutoRegion THEN global ELSE None],
   [region \in {eu, AutoRegion} |-> regional]}
=============================================================================
