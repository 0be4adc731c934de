---------------------------- MODULE AgentRunner -----------------------------
(***************************************************************************)
(* The tunnel agent's process: main, the health server's goroutine, the    *)
(* retry loop Runner.Run, one session runOnce with its deferred closes,    *)
(* and openTunnel with the discovery of the serving domain.  Around it the *)
(* engine, which lets the project hold Quota tunnels, the kubelet, and the *)
(* part of the tunnel's status that only the agent writes; how a report is *)
(* merged into the status is the subject of TunnelStatus.                  *)
(*                                                                         *)
(* A hostname is one of: the fixed one (spec.hostname, or the stable name  *)
(* the SDK derives from the project), one the engine allocates for a       *)
(* tunnel that names none, or the guess earlier controllers stored.        *)
(***************************************************************************)
EXTENDS Naturals

CONSTANTS
  Namings,    \* how the agent may have to name its tunnel
  Quota,      \* tunnels the engine lets the project hold
  MaxFaults,  \* calls of the agent that fail
  MaxEnds     \* crashes, signals and health server failures

ASSUME AgentAssumption ==
  /\ Namings \subseteq {"explicit", "managed", "direct", "literal", "tcp", "rejected"}
  /\ Quota \in Nat \ {0} /\ MaxFaults \in Nat /\ MaxEnds \in Nat

VARIABLES
  naming,     \* the configuration: where the tunnel's hostname comes from
  pc,         \* where the runner is
  err,        \* the error runOnce returns
  cancelled,  \* the context of signal.NotifyContext is done
  server,     \* the health server listens
  ready,      \* HealthState
  ctrl,       \* the control channel is open
  tunnel,     \* the hostname of the tunnel the agent holds
  orphans,    \* tunnels of lost agents that the engine still holds
  status,     \* the agent's last report, the hostname, and whether a tunnel
              \* ID and a forwarding address stored with it confirm it
  confirmed,  \* the hostname Connecting returned
  faults, ends

vars == <<naming, pc, err, cancelled, server, ready, ctrl, tunnel, orphans,
          status, confirmed, faults, ends>>

\* What the steps of the retry loop, of main and of a session leave alone.
process == <<naming, cancelled, server, ends>>
session == <<ctrl, tunnel, orphans>>
memory == <<status, confirmed>>

-----------------------------------------------------------------------------
Allocated == {"first", "second"}
Hostnames == {"none", "fixed", "guess"} \cup Allocated
Reports == {"nothing", "connecting", "online", "disconnected"}

Init ==
  /\ naming \in Namings
  /\ pc = "down" /\ err = "none" /\ cancelled = FALSE
  /\ server = FALSE /\ ready = FALSE
  /\ ctrl = FALSE /\ tunnel = "none" /\ orphans = 0
  /\ \E h \in {"none", "guess"} :
       status = [report |-> "nothing", hostname |-> h, proven |-> FALSE]
  /\ confirmed = "none"
  /\ faults = MaxFaults /\ ends = MaxEnds

\* A call fails by itself, or because the context is done; the error of the
\* latter may or may not wrap context.Canceled.
Fault == faults > 0 /\ faults' = faults - 1 /\ err' = "error"
Interrupted == cancelled /\ err' \in {"canceled", "error"} /\ UNCHANGED faults
Fails == Fault \/ Interrupted
Succeeds == UNCHANGED <<err, faults>>

\* Mutant: only the control channel is deferred.
LeaveTunnelOpen == pc' = "returned"

\* runOnce returns from here: the deferred closes that are due come first.
Unwind == pc' = IF tunnel # "none" THEN "closeTunnel"
                ELSE IF ctrl THEN "closeCtrl" ELSE "returned"

-----------------------------------------------------------------------------
(* main                                                                    *)

\* The kubelet starts the container; the configuration loads.
StartProcess ==
  /\ pc = "down"
  /\ pc' = "loop" /\ cancelled' = FALSE /\ server' = TRUE
  /\ UNCHANGED <<naming, err, ready, session, memory, faults, ends>>

End == ends > 0 /\ ends' = ends - 1

\* SIGTERM or SIGINT
Signal ==
  /\ End
  /\ pc # "down" /\ ~cancelled
  /\ cancelled' = TRUE
  /\ UNCHANGED <<naming, pc, err, server, ready, session, memory, faults>>

\* Mutant: the goroutine logs the failure and does not call stop.
HealthServerFailsAlone ==
  /\ End
  /\ server /\ ~cancelled
  /\ server' = FALSE
  /\ UNCHANGED <<naming, pc, err, cancelled, ready, session, memory, faults>>

\* ListenAndServe fails: the goroutine calls stop.
HealthServerFails ==
  /\ End
  /\ server /\ ~cancelled
  /\ server' = FALSE /\ cancelled' = TRUE
  /\ UNCHANGED <<naming, pc, err, ready, session, memory, faults>>

\* Once the context is done the health server shuts down by itself.
HealthServerStops ==
  /\ server /\ cancelled
  /\ server' = FALSE
  /\ UNCHANGED <<naming, pc, err, cancelled, ready, session, memory, faults, ends>>

\* The process is gone, and with it what it held in memory.
Vanish ==
  /\ pc' = "down" /\ err' = "none" /\ cancelled' = FALSE
  /\ server' = FALSE /\ ready' = FALSE /\ confirmed' = "none"
  /\ ctrl' = FALSE /\ tunnel' = "none"
  /\ UNCHANGED <<naming, status, faults>>

\* The process is killed, and the engine has not noticed yet.
Crash ==
  /\ End
  /\ pc # "down"
  /\ Vanish
  /\ orphans' = orphans + (IF tunnel = "none" THEN 0 ELSE 1)

\* Run returns and main with it.
Exit == pc = "exit" /\ Vanish /\ UNCHANGED <<orphans, ends>>

-----------------------------------------------------------------------------
(* Runner.Run                                                              *)

\* The top of the loop: stop, or begin a session.
Loop ==
  /\ pc = "loop"
  /\ ready' = FALSE
  /\ pc' = IF cancelled THEN "exit" ELSE "connecting"
  /\ UNCHANGED <<process, err, session, memory, faults>>

\* runOnce has returned and its deferred calls have run.
Returned ==
  /\ pc = "returned"
  /\ ready' = FALSE /\ confirmed' = "none"
  /\ IF err = "canceled" THEN pc' = "exit" ELSE pc' = "report"
  /\ UNCHANGED <<process, err, session, status, faults>>

\* A report that fails may still have reached the API server.
Stores(report) == status' \in {status, report}

\* Disconnected, whose error is ignored.
ReportDisconnected ==
  /\ pc = "report"
  /\ LET report == [status EXCEPT !.report = "disconnected"]
     IN  \/ status' = report /\ UNCHANGED faults
         \/ faults > 0 /\ faults' = faults - 1 /\ Stores(report)
         \/ cancelled /\ Stores(report) /\ UNCHANGED faults
  /\ pc' = "backoff" /\ err' = "none"
  /\ UNCHANGED <<process, ready, session, confirmed>>

\* The timer fires or the context is done; when both are, either may win.
Backoff ==
  /\ pc = "backoff"
  /\ pc' = "loop" \/ (cancelled /\ pc' = "exit")
  /\ UNCHANGED <<process, err, ready, session, memory, faults>>

-----------------------------------------------------------------------------
(* runOnce                                                                 *)

\* Mutant: any hostname of the status.
StatusHostname == status.hostname

\* Mutant: the wrong field of the status.
StatusReport == IF status.proven THEN status.report ELSE "none"

\* confirmedHostname
ConfirmedHostname == IF status.proven THEN status.hostname ELSE "none"

\* Mutant: a session that can name its tunnel does not report Connecting.
ConnectAtOnce ==
  /\ pc = "connecting"
  /\ confirmed' = ConfirmedHostname
  /\ pc' = "connect"
  /\ UNCHANGED <<process, err, ready, session, status, faults>>

\* Connecting also reads the hostname an earlier session confirmed;
\* TunnelProperties and NewRstreamClient may then reject the configuration.
ReportConnecting ==
  /\ pc = "connecting"
  /\ LET report == [status EXCEPT !.report = "connecting"]
     IN  \/ /\ status' = report /\ confirmed' = ConfirmedHostname
            /\ IF naming = "rejected"
               THEN pc' = "returned" /\ err' = "error" /\ UNCHANGED faults
               ELSE pc' = "connect" /\ Succeeds
         \/ Fails /\ Stores(report) /\ pc' = "returned" /\ UNCHANGED confirmed
  /\ UNCHANGED <<process, ready, session>>

Connect ==
  /\ pc = "connect"
  /\ \/ Succeeds /\ ctrl' = TRUE /\ pc' = "create"
     \/ Fails /\ pc' = "returned" /\ UNCHANGED ctrl
  /\ UNCHANGED <<process, ready, tunnel, orphans, memory>>

-----------------------------------------------------------------------------
(* openTunnel                                                              *)

\* Mutant: the hostname of an earlier session is not used.
SpecHostname == IF naming = "explicit" THEN "fixed" ELSE "none"

\* TunnelProperties: spec.hostname, or the confirmed hostname of a published
\* tunnel that is not TCP.
Requested == CASE naming = "explicit" -> "fixed"
               [] naming = "tcp" -> "none"
               [] OTHER -> confirmed

\* A tunnel that names none is given a hostname (a TCP tunnel, a host).
Assignable(hostname) == IF hostname = "none" THEN Allocated ELSE {hostname}

\* CreateTunnel of the control channel: refused when the quota is used up.
Create(hostname, next) ==
  \/ /\ orphans + (IF tunnel = "none" THEN 0 ELSE 1) < Quota
     /\ tunnel' \in Assignable(hostname)
     /\ pc' = next /\ Succeeds
  \/ /\ orphans + (IF tunnel = "none" THEN 0 ELSE 1) >= Quota
     /\ err' = "error" /\ Unwind /\ UNCHANGED <<tunnel, faults>>
  \/ Fails /\ Unwind /\ UNCHANGED tunnel

\* A project's public domain gives the stable name; a direct engine connection
\* that has no name must first learn the serving domain from a tunnel.
CreateTunnel ==
  /\ pc = "create"
  /\ LET named == Requested # "none"
     IN  Create(IF ~named /\ naming = "managed" THEN "fixed" ELSE Requested,
                IF ~named /\ naming = "direct" THEN "discover" ELSE "describe")
  /\ UNCHANGED <<process, ready, ctrl, orphans, memory>>

\* The assigned properties are read.  They may have no serving domain; in
\* every case the tunnel is closed before openTunnel looks at them.
Discover ==
  /\ pc = "discover"
  /\ pc' = "release"
  /\ Succeeds \/ Fault
  /\ UNCHANGED <<process, ready, session, memory>>

\* Mutant: the discovery tunnel is closed when openTunnel returns.
ReleaseLater ==
  /\ pc = "release"
  /\ IF err = "none" THEN pc' = "recreate" ELSE pc' = "closeCtrl"
  /\ UNCHANGED <<process, err, ready, session, memory, faults>>

\* When the close fails the control channel's close ends the tunnel.
Release ==
  /\ pc = "release"
  /\ \/ /\ tunnel' = "none"
        /\ IF err = "none" THEN pc' = "recreate" ELSE pc' = "closeCtrl"
        /\ Succeeds
     \/ Fault /\ pc' = "closeCtrl" /\ UNCHANGED tunnel
  /\ UNCHANGED <<process, ready, ctrl, orphans, memory>>

Recreate ==
  /\ pc = "recreate"
  /\ Create("fixed", "describe")
  /\ UNCHANGED <<process, ready, ctrl, orphans, memory>>

-----------------------------------------------------------------------------
(* The rest of runOnce                                                     *)

\* Mutant: ready as soon as the tunnel exists.
ReadyBeforeOnline ==
  /\ pc = "describe"
  /\ \/ Succeeds /\ pc' = "online" /\ ready' = TRUE
     \/ Fault /\ Unwind /\ UNCHANGED ready
  /\ UNCHANGED <<process, session, memory>>

\* Properties and ForwardingAddress of the tunnel
Describe ==
  /\ pc = "describe"
  /\ \/ Succeeds /\ pc' = "online"
     \/ Fault /\ Unwind
  /\ UNCHANGED <<process, ready, session, memory>>

ReportOnline ==
  /\ pc = "online"
  /\ LET report == [report |-> "online", hostname |-> tunnel, proven |-> TRUE]
     IN  \/ Succeeds /\ status' = report /\ pc' = "setReady"
         \/ Fails /\ Stores(report) /\ Unwind
  /\ UNCHANGED <<process, ready, session, confirmed>>

SetReady ==
  /\ pc = "setReady"
  /\ ready' = TRUE /\ pc' = "serve"
  /\ UNCHANGED <<process, err, session, memory, faults>>

\* serveWithContext starts the accept loop.
Serve ==
  /\ pc = "serve"
  /\ pc' = "serving"
  /\ UNCHANGED <<process, err, ready, session, memory, faults>>

\* The context is done: the listener is closed and the accept loop returns.
StopServing ==
  /\ pc = "serving" /\ cancelled
  /\ err' = "canceled" /\ pc' = "closeTunnel"
  /\ UNCHANGED <<process, ready, session, memory, faults>>

\* Accept fails for good: the engine ended the tunnel, or the connection is
\* lost and the engine has yet to notice.
ServeFails ==
  /\ pc = "serving"
  /\ Fault
  /\ pc' = "closeTunnel"
  /\ UNCHANGED <<orphans, tunnel>> \/ (orphans' = orphans + 1 /\ tunnel' = "none")
  /\ UNCHANGED <<process, ready, ctrl, memory>>

\* defer tunnel.Close()
CloseTunnel ==
  /\ pc = "closeTunnel"
  /\ tunnel' = "none" /\ pc' = "closeCtrl"
  /\ UNCHANGED <<process, err, ready, ctrl, orphans, memory, faults>>

\* defer ctrl.Close(): the engine ends every tunnel of the channel.
CloseCtrl ==
  /\ pc = "closeCtrl"
  /\ ctrl' = FALSE /\ tunnel' = "none" /\ pc' = "returned"
  /\ UNCHANGED <<process, err, ready, orphans, memory, faults>>

\* The engine notices a lost agent.
EngineExpires ==
  /\ orphans > 0 /\ orphans' = orphans - 1
  /\ UNCHANGED <<process, pc, err, ready, ctrl, tunnel, memory, faults>>

-----------------------------------------------------------------------------
Step ==
  \/ Loop \/ Returned \/ ReportDisconnected \/ Backoff
  \/ ReportConnecting \/ Connect \/ CreateTunnel \/ Discover \/ Release \/ Recreate
  \/ Describe \/ ReportOnline \/ SetReady \/ Serve \/ StopServing
  \/ CloseTunnel \/ CloseCtrl \/ Exit

Next ==
  \/ Step \/ ServeFails
  \/ StartProcess \/ Signal \/ HealthServerFails \/ HealthServerStops \/ Crash
  \/ EngineExpires

Spec == Init /\ [][Next]_vars

\* The goroutine runs, the kubelet restarts the container and the engine
\* notices lost agents; nothing need fail.
FairSpec ==
  Spec /\ WF_vars(Step) /\ WF_vars(StartProcess) /\ WF_vars(EngineExpires)

-----------------------------------------------------------------------------
(* Properties                                                              *)

Outside == {"down", "loop", "connecting", "connect", "returned", "report",
            "backoff", "exit"}
Inside == {"create", "discover", "release", "recreate", "describe", "online",
           "setReady", "serve", "serving", "closeTunnel", "closeCtrl"}

\* Every variable keeps its type.
TypeOK ==
  /\ naming \in Namings /\ pc \in Outside \cup Inside
  /\ err \in {"none", "error", "canceled"}
  /\ cancelled \in BOOLEAN /\ server \in BOOLEAN /\ ready \in BOOLEAN
  /\ ctrl \in BOOLEAN /\ tunnel \in Hostnames /\ orphans \in Nat
  /\ status \in [report : Reports, hostname : Hostnames, proven : BOOLEAN]
  /\ confirmed \in Hostnames
  /\ faults \in Nat /\ ends \in Nat

\* However a session ends, neither its control channel nor its tunnel outlives
\* it, and no tunnel is requested while the agent holds another: a project with
\* a quota of one tunnel can reconnect.
SessionsDoNotLeak ==
  /\ pc \in Outside => ~ctrl /\ tunnel = "none"
  /\ pc \in {"create", "recreate"} => tunnel = "none"

\* A published tunnel keeps the hostname it was first online with, across
\* reconnects and restarts, wherever that name came from.
HostnameStable ==
  [][naming # "tcp" /\ status.proven => status'.hostname = status.hostname]_vars

\* Only a name the engine returned for an online tunnel is reused: the guess of
\* an earlier controller is never requested.
GuessIsNotRequested == tunnel # "guess"

\* What the agent says and does in a session happens in the order TunnelSession
\* promises.
Session == INSTANCE TunnelSession WITH
  running <- pc # "down", announced <- status.report,
  serving <- pc = "serving", ready <- ready

ImplementsSession == Session!Spec

\* Whatever it is doing, the agent ends once it was told to, and it is told to
\* when its health server fails.
ShutsDown == (pc # "down" /\ (cancelled \/ ~server)) ~> (pc = "down")

\* Unless its configuration is rejected the agent serves in the end, however
\* its sessions and its process ended before, and stays ready.
Recovers == naming # "rejected" => <>[](pc = "serving" /\ ready)

\* A status that says online when no tunnel is held does not stay so, although
\* the error of Disconnected is ignored and a shutdown reports nothing.
StaleOnlineEnds ==
  (status.report = "online" /\ tunnel = "none") ~> (status.report # "online")
=============================================================================
