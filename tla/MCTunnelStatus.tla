--------------------------- MODULE MCTunnelStatus ---------------------------
(***************************************************************************)
(* TunnelStatus started from a tunnel that is up, as a startup without     *)
(* disturbances leaves it, so that TLC can reach several disturbances.      *)
(***************************************************************************)
EXTENDS TunnelStatus

True(reason) == [status |-> "True", reason |-> reason, gen |-> 1]

SteadyTunnel ==
  [gen |-> 1, valid |-> TRUE,
   status |-> [observed |-> 1, lastError |-> "",
               conditions |->
                 [Accepted |-> True("Accepted"), Resolved |-> True("Resolved"),
                  AgentReady |-> True("DeploymentAvailable"),
                  TunnelReady |-> True("TunnelOnline"), Ready |-> True("Ready")]]]

SteadyDeployment == [exists |-> TRUE, gen |-> 1, available |-> TRUE]

SteadyInit ==
  /\ api = SteadyTunnel /\ cache = SteadyTunnel
  /\ refs = "resolved" /\ refsSeen = "resolved"
  /\ dep = SteadyDeployment /\ depSeen = SteadyDeployment
  /\ unseen = {} /\ queued = FALSE
  /\ mgr = IdleReconciler
  /\ agent = [NoAgent EXCEPT !.pc = "serving", !.config = 1]
  /\ left = MaxDisturbances

SteadySpec == SteadyInit /\ [][Next]_vars

FairSteadySpec == SteadySpec /\ Fairness
=============================================================================
