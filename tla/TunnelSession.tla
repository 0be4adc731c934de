--------------------------- MODULE TunnelSession ----------------------------
(***************************************************************************)
(* What an agent promises of the sessions of one tunnel, whatever fails:   *)
(* traffic is accepted, and /readyz answers 200, only while the status     *)
(* says that this session is online; a session is announced as connecting  *)
(* before it is online, and none is announced as over that still accepts   *)
(* traffic or counts as ready.                                             *)
(***************************************************************************)
VARIABLES
  running,     \* the agent's process exists
  announced,   \* the agent's last report that reached the status
  serving,     \* the agent accepts the traffic of a tunnel
  ready        \* what /readyz answers

vars == <<running, announced, serving, ready>>

Init ==
  /\ running = FALSE
  /\ announced = "nothing"
  /\ serving = FALSE /\ ready = FALSE

Start ==
  /\ ~running /\ running' = TRUE
  /\ UNCHANGED <<announced, serving, ready>>

AnnounceConnecting ==
  /\ running /\ ~serving /\ ~ready
  /\ announced' = "connecting"
  /\ UNCHANGED <<running, serving, ready>>

AnnounceOnline ==
  /\ running /\ ~serving /\ ~ready
  /\ announced = "connecting" /\ announced' = "online"
  /\ UNCHANGED <<running, serving, ready>>

AnnounceDisconnected ==
  /\ running /\ ~serving /\ ~ready
  /\ announced' = "disconnected"
  /\ UNCHANGED <<running, serving, ready>>

BecomeReady ==
  /\ running /\ announced = "online" /\ ~serving
  /\ ready' = TRUE
  /\ UNCHANGED <<running, announced, serving>>

Serve ==
  /\ running /\ announced = "online" /\ ready /\ ~serving
  /\ serving' = TRUE
  /\ UNCHANGED <<running, announced, ready>>

StopServing ==
  /\ serving /\ serving' = FALSE
  /\ UNCHANGED <<running, announced, ready>>

BecomeUnready ==
  /\ ready /\ ~serving
  /\ ready' = FALSE
  /\ UNCHANGED <<running, announced, serving>>

\* The process ends, in order or by a crash: the last report stays.
End ==
  /\ running
  /\ running' = FALSE /\ serving' = FALSE /\ ready' = FALSE
  /\ UNCHANGED announced

Next ==
  \/ Start \/ AnnounceConnecting \/ AnnounceOnline \/ AnnounceDisconnected
  \/ BecomeReady \/ Serve \/ StopServing \/ BecomeUnready \/ End

Spec == Init /\ [][Next]_vars
=============================================================================
