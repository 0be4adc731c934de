------------------------- MODULE AgentRunnerProofs --------------------------
(***************************************************************************)
(* Proofs about the agent's process, for every quota and any number of     *)
(* failures, crashes and signals: a session leaks nothing, a published     *)
(* tunnel keeps its hostname, and the agent implements TunnelSession.      *)
(***************************************************************************)
EXTENDS AgentRunner, TLAPS

StatusType == [report : Reports, hostname : Hostnames, proven : BOOLEAN]

(***************************************************************************)
(* Type correctness.                                                       *)
(***************************************************************************)
LEMMA InitTyped == Init => TypeOK
<1>1. SUFFICES ASSUME Init PROVE TypeOK
  OBVIOUS
<1>2. \A h \in Hostnames :
        [report |-> "nothing", hostname |-> h, proven |-> FALSE] \in StatusType
  BY DEF StatusType, Reports
<1>3. status \in StatusType
  BY <1>1, <1>2 DEF Init, Hostnames
<1>4. QED
  BY <1>1, <1>3, AgentAssumption DEF Init, TypeOK, StatusType, Outside, Hostnames

\* What a report makes of a well-typed status is well typed.
LEMMA ReportsTyped ==
  ASSUME NEW s \in StatusType
  PROVE  /\ [s EXCEPT !.report = "connecting"] \in StatusType
         /\ [s EXCEPT !.report = "disconnected"] \in StatusType
         /\ \A h \in Hostnames :
              [report |-> "online", hostname |-> h, proven |-> TRUE] \in StatusType
  BY DEF StatusType, Reports

LEMMA StepTyped == TypeOK /\ [Next]_vars => TypeOK'
<1>1. SUFFICES ASSUME TypeOK, [Next]_vars PROVE TypeOK'
  OBVIOUS
<1>2. status \in StatusType
  BY <1>1 DEF TypeOK, StatusType
<1> USE AgentAssumption, <1>1 DEF TypeOK, Outside, Inside
<1>3. CASE StartProcess
  BY <1>3 DEF StartProcess, session, memory
<1>4. CASE Signal
  BY <1>4 DEF Signal, End, session, memory
<1>5. CASE HealthServerFails
  <2>1. ends' \in Nat
    BY <1>5 DEF HealthServerFails, End
  <2>2. cancelled' \in BOOLEAN /\ server' \in BOOLEAN
    BY <1>5, Zenon DEF HealthServerFails
  <2>3. QED
    BY <1>5, <2>1, <2>2, Zenon DEF HealthServerFails, session, memory
<1>6. CASE HealthServerStops
  BY <1>6 DEF HealthServerStops, session, memory
<1>7. CASE Crash
  <2>1. ends' \in Nat /\ orphans' \in Nat
    BY <1>7 DEF Crash, End
  <2>2. pc' \in Outside \cup Inside /\ err' \in {"none", "error", "canceled"}
        /\ tunnel' \in Hostnames /\ confirmed' \in Hostnames
    BY <1>7 DEF Crash, Vanish, Hostnames
  <2>3. QED
    BY <1>7, <2>1, <2>2, Zenon DEF Crash, Vanish
<1>8. CASE Exit
  BY <1>8 DEF Exit, Vanish, Hostnames
<1>9. CASE Loop
  BY <1>9 DEF Loop, process, session, memory
<1>10. CASE Returned
  BY <1>10, ZenonT(60) DEF Returned, process, session, Hostnames
<1>11. CASE ReportDisconnected
  <2>1. status' \in StatusType
    BY <1>11, <1>2, ReportsTyped DEF ReportDisconnected, Stores
  <2>2. QED
    BY <1>11, <2>1 DEF ReportDisconnected, process, session, StatusType
<1>12. CASE Backoff
  BY <1>12 DEF Backoff, process, session, memory
<1>13. CASE ReportConnecting
  <2>1. status' \in StatusType
    BY <1>13, <1>2, ReportsTyped DEF ReportConnecting, Stores
  <2>2. confirmed' \in Hostnames
    BY <1>13 DEF ReportConnecting, ConfirmedHostname, Hostnames
  <2>3. QED
    BY <1>13, <2>1, <2>2
    DEF ReportConnecting, Succeeds, Fails, Fault, Interrupted, process, session,
        StatusType
<1>14. CASE Connect
  <2>1. pc' \in Outside \cup Inside /\ err' \in {"none", "error", "canceled"}
        /\ faults' \in Nat
    BY <1>14 DEF Connect, Succeeds, Fails, Fault, Interrupted
  <2>2. ctrl' \in BOOLEAN
    BY <1>14, Zenon DEF Connect
  <2>3. QED
    BY <1>14, <2>1, <2>2, Zenon DEF Connect, process, memory
<1>15. ASSUME NEW hostname \in Hostnames, NEW next \in Outside \cup Inside,
              Create(hostname, next)
       PROVE  /\ tunnel' \in Hostnames /\ pc' \in Outside \cup Inside
              /\ err' \in {"none", "error", "canceled"} /\ faults' \in Nat
  BY <1>15
  DEF Create, Assignable, Allocated, Hostnames, Succeeds, Fails, Fault, Interrupted,
      Unwind
<1>16. CASE CreateTunnel
  <2>1. Requested \in Hostnames /\ "fixed" \in Hostnames /\ "none" \in Hostnames
    BY DEF Requested, Hostnames
  <2>2. PICK hostname \in Hostnames, next \in {"describe", "discover"} :
          Create(hostname, next)
    BY <1>16, <2>1 DEF CreateTunnel
  <2>3. QED
    BY <1>15, <1>16, <2>2 DEF CreateTunnel, process, memory
<1>17. CASE Recreate
  BY <1>15, <1>17 DEF Recreate, Hostnames, process, memory
<1>18. CASE Discover
  BY <1>18 DEF Discover, Succeeds, Fault, process, session, memory
<1>19. CASE Release
  BY <1>19 DEF Release, Succeeds, Fault, process, memory, Hostnames
<1>20. CASE Describe
  BY <1>20 DEF Describe, Unwind, Succeeds, Fault, process, session, memory
<1>21. CASE ReportOnline
  <2>1. status' \in StatusType
    BY <1>21, <1>2, ReportsTyped DEF ReportOnline, Stores
  <2>2. QED
    BY <1>21, <2>1
    DEF ReportOnline, Unwind, Succeeds, Fails, Fault, Interrupted, process, session,
        StatusType
<1>22. CASE SetReady
  BY <1>22 DEF SetReady, process, session, memory
<1>23. CASE Serve
  BY <1>23 DEF Serve, process, session, memory
<1>24. CASE StopServing
  BY <1>24 DEF StopServing, process, session, memory
<1>25. CASE ServeFails
  BY <1>25 DEF ServeFails, Fault, process, memory, Hostnames
<1>26. CASE CloseTunnel
  BY <1>26 DEF CloseTunnel, process, memory, Hostnames
<1>27. CASE CloseCtrl
  BY <1>27, ZenonT(60) DEF CloseCtrl, process, memory, Hostnames
<1>28. CASE EngineExpires
  BY <1>28 DEF EngineExpires, process, memory
<1>29. CASE UNCHANGED vars
  BY <1>29 DEF vars
<1>30. QED
  BY <1>3, <1>4, <1>5, <1>6, <1>7, <1>8, <1>9, <1>10, <1>11, <1>12, <1>13, <1>14,
     <1>16, <1>17, <1>18, <1>19, <1>20, <1>21, <1>22, <1>23, <1>24, <1>25, <1>26,
     <1>27, <1>28, <1>29
  DEF Next, Step

(***************************************************************************)
(* Every reachable state of the agent's process is well typed, for every   *)
(* quota and any number of failures and ends.                              *)
(***************************************************************************)
THEOREM TypeCorrect == Spec => []TypeOK
  BY InitTyped, StepTyped, PTL DEF Spec

(***************************************************************************)
(* SessionsDoNotLeak is inductive: a step leaves a session only through    *)
(* the closes that are due, and openTunnel asks for a second tunnel only   *)
(* after it closed the first.                                              *)
(***************************************************************************)
LEMMA StepDoesNotLeak == SessionsDoNotLeak /\ [Next]_vars => SessionsDoNotLeak'
<1>1. SUFFICES ASSUME SessionsDoNotLeak, [Next]_vars PROVE SessionsDoNotLeak'
  OBVIOUS
<1> USE <1>1 DEF SessionsDoNotLeak, Outside
<1>2. CASE StartProcess
  BY <1>2 DEF StartProcess, session, memory
<1>3. CASE Signal
  BY <1>3 DEF Signal, session, memory
<1>4. CASE HealthServerFails
  BY <1>4 DEF HealthServerFails, session, memory
<1>5. CASE HealthServerStops
  BY <1>5 DEF HealthServerStops, session, memory
<1>6. CASE Crash
  BY <1>6 DEF Crash, Vanish
<1>7. CASE Exit
  BY <1>7 DEF Exit, Vanish
<1>8. CASE Loop
  BY <1>8 DEF Loop, process, session, memory
<1>9. CASE Returned
  BY <1>9 DEF Returned, process, session
<1>10. CASE ReportDisconnected
  BY <1>10 DEF ReportDisconnected, Stores, process, session
<1>11. CASE Backoff
  BY <1>11 DEF Backoff, process, session, memory
<1>12. CASE ReportConnecting
  BY <1>12 DEF ReportConnecting, Stores, ConfirmedHostname, process, session
<1>13. CASE Connect
  BY <1>13 DEF Connect, process, memory
<1>14. CASE CreateTunnel
  BY <1>14 DEF CreateTunnel, Create, Unwind, process, memory
<1>15. CASE Recreate
  BY <1>15 DEF Recreate, Create, Unwind, process, memory
<1>16. CASE Discover
  BY <1>16 DEF Discover, process, session, memory
<1>17. CASE Release
  BY <1>17 DEF Release, process, memory
<1>18. CASE Describe
  BY <1>18 DEF Describe, Unwind, process, session, memory
<1>19. CASE ReportOnline
  BY <1>19 DEF ReportOnline, Stores, Unwind, process, session
<1>20. CASE SetReady
  BY <1>20 DEF SetReady, process, session, memory
<1>21. CASE Serve
  BY <1>21 DEF Serve, process, session, memory
<1>22. CASE StopServing
  BY <1>22 DEF StopServing, process, session, memory
<1>23. CASE ServeFails
  BY <1>23 DEF ServeFails, process, memory
<1>24. CASE CloseTunnel
  BY <1>24 DEF CloseTunnel, process, memory
<1>25. CASE CloseCtrl
  BY <1>25 DEF CloseCtrl, process, memory
<1>26. CASE EngineExpires
  BY <1>26 DEF EngineExpires, process, memory
<1>27. CASE UNCHANGED vars
  BY <1>27 DEF vars
<1>28. QED
  BY <1>2, <1>3, <1>4, <1>5, <1>6, <1>7, <1>8, <1>9, <1>10, <1>11, <1>12,
     <1>13, <1>14, <1>15, <1>16, <1>17, <1>18, <1>19, <1>20, <1>21, <1>22,
     <1>23, <1>24, <1>25, <1>26, <1>27
  DEF Next, Step

(***************************************************************************)
(* However a session ends, neither its control channel nor its tunnel      *)
(* outlives it, and a tunnel is only requested when none is held.          *)
(***************************************************************************)
THEOREM NoSessionLeaks == Spec => []SessionsDoNotLeak
<1>1. Init => SessionsDoNotLeak
  BY DEF Init, SessionsDoNotLeak
<1>2. QED
  BY <1>1, StepDoesNotLeak, PTL DEF Spec

(***************************************************************************)
(* Where the agent is tells what it last reported, and whether /readyz     *)
(* answers 200.  The refinement of TunnelSession needs no more.            *)
(***************************************************************************)
Opening == {"connect", "create", "discover", "release", "recreate", "describe",
            "online"}

ReportsInOrder ==
  /\ pc \in Opening => status.report = "connecting"
  /\ pc \in {"setReady", "serve", "serving"} => status.report = "online"
  /\ pc \in {"serve", "serving"} => ready
  /\ ready => pc \in {"serve", "serving", "closeTunnel", "closeCtrl", "returned"}

LEMMA StepReportsInOrder == TypeOK /\ ReportsInOrder /\ [Next]_vars => ReportsInOrder'
<1>1. SUFFICES ASSUME TypeOK /\ ReportsInOrder, [Next]_vars PROVE ReportsInOrder'
  OBVIOUS
<1> USE <1>1 DEF TypeOK, ReportsInOrder, Opening
<1>2. CASE StartProcess
  BY <1>2 DEF StartProcess, session, memory
<1>3. CASE Signal
  BY <1>3 DEF Signal, session, memory
<1>4. CASE HealthServerFails
  BY <1>4 DEF HealthServerFails, session, memory
<1>5. CASE HealthServerStops
  BY <1>5 DEF HealthServerStops, session, memory
<1>6. CASE Crash
  BY <1>6 DEF Crash, Vanish
<1>7. CASE Exit
  BY <1>7 DEF Exit, Vanish
<1>8. CASE Loop
  BY <1>8 DEF Loop, process, session, memory
<1>9. CASE Returned
  BY <1>9 DEF Returned, process, session
<1>10. CASE ReportDisconnected
  BY <1>10 DEF ReportDisconnected, Stores, process, session
<1>11. CASE Backoff
  BY <1>11 DEF Backoff, process, session, memory
<1>12. CASE ReportConnecting
  BY <1>12 DEF ReportConnecting, Stores, ConfirmedHostname, process, session
<1>13. CASE Connect
  BY <1>13 DEF Connect, process, memory
<1>14. CASE CreateTunnel
  BY <1>14 DEF CreateTunnel, Create, Unwind, process, memory
<1>15. CASE Recreate
  BY <1>15 DEF Recreate, Create, Unwind, process, memory
<1>16. CASE Discover
  BY <1>16 DEF Discover, process, session, memory
<1>17. CASE Release
  BY <1>17 DEF Release, process, memory
<1>18. CASE Describe
  BY <1>18 DEF Describe, Unwind, process, session, memory
<1>19. CASE ReportOnline
  BY <1>19 DEF ReportOnline, Stores, Unwind, process, session
<1>20. CASE SetReady
  BY <1>20 DEF SetReady, process, session, memory
<1>21. CASE Serve
  BY <1>21 DEF Serve, process, session, memory
<1>22. CASE StopServing
  BY <1>22 DEF StopServing, process, session, memory
<1>23. CASE ServeFails
  BY <1>23 DEF ServeFails, process, memory
<1>24. CASE CloseTunnel
  BY <1>24 DEF CloseTunnel, process, memory
<1>25. CASE CloseCtrl
  BY <1>25 DEF CloseCtrl, process, memory
<1>26. CASE EngineExpires
  BY <1>26 DEF EngineExpires, process, memory
<1>27. CASE UNCHANGED vars
  BY <1>27 DEF vars
<1>28. QED
  BY <1>2, <1>3, <1>4, <1>5, <1>6, <1>7, <1>8, <1>9, <1>10, <1>11, <1>12,
     <1>13, <1>14, <1>15, <1>16, <1>17, <1>18, <1>19, <1>20, <1>21, <1>22,
     <1>23, <1>24, <1>25, <1>26, <1>27
  DEF Next, Step

(***************************************************************************)
(* Every step of the agent is a step of TunnelSession or leaves its        *)
(* variables alone.                                                        *)
(***************************************************************************)
LEMMA StepImplements ==
  TypeOK /\ ReportsInOrder /\ [Next]_vars => [Session!Next]_(Session!vars)
<1>1. SUFFICES ASSUME TypeOK, ReportsInOrder, [Next]_vars
               PROVE  Session!Next \/ UNCHANGED Session!vars
  OBVIOUS
<1> USE <1>1 DEF TypeOK, ReportsInOrder, Opening, Session!vars
<1>2. CASE StartProcess
  BY <1>2 DEF StartProcess, session, memory, Session!Next, Session!Start
<1>3. CASE Crash \/ Exit
  BY <1>3 DEF Crash, Exit, Vanish, Session!Next, Session!End
<1>4. CASE Loop \/ Returned
  <2>1. pc # "serving" /\ pc' # "serving" /\ pc # "down" /\ pc' # "down"
        /\ UNCHANGED status /\ ready' = FALSE
    BY <1>4 DEF Loop, Returned, memory
  <2>2. CASE ready
    BY <2>1, <2>2 DEF Session!Next, Session!BecomeUnready
  <2>3. CASE ~ready
    BY <2>1, <2>3
  <2>4. QED
    BY <2>2, <2>3
<1>5. CASE ReportDisconnected
  BY <1>5
  DEF ReportDisconnected, Stores, process, session, Session!Next,
      Session!AnnounceDisconnected
<1>6. CASE ReportConnecting
  BY <1>6
  DEF ReportConnecting, Stores, process, session, Session!Next,
      Session!AnnounceConnecting
<1>7. CASE ReportOnline
  <2>1. pc = "online" /\ pc' \in {"setReady", "closeTunnel", "closeCtrl", "returned"}
        /\ UNCHANGED ready
    BY <1>7 DEF ReportOnline, Unwind
  <2>2. status.report = "connecting" /\ ~ready
    BY <2>1
  <2>3. status' = status \/ status'.report = "online"
    BY <1>7 DEF ReportOnline, Stores
  <2>4. QED
    BY <2>1, <2>2, <2>3 DEF Session!Next, Session!AnnounceOnline
<1>8. CASE SetReady
  BY <1>8 DEF SetReady, process, session, memory, Session!Next, Session!BecomeReady
<1>9. CASE Serve
  BY <1>9 DEF Serve, process, session, memory, Session!Next, Session!Serve
<1>10. CASE StopServing \/ ServeFails
  BY <1>10
  DEF StopServing, ServeFails, process, session, memory, Session!Next,
      Session!StopServing
<1>11. CASE Signal \/ HealthServerFails \/ HealthServerStops \/ EngineExpires
  BY <1>11
  DEF Signal, HealthServerFails, HealthServerStops, EngineExpires, process, session,
      memory
<1>12. CASE Backoff \/ CloseTunnel \/ CloseCtrl
  BY <1>12 DEF Backoff, CloseTunnel, CloseCtrl, process, session, memory
<1>13. CASE Connect \/ Discover \/ Release
  BY <1>13 DEF Connect, Discover, Release, process, session, memory
<1>14. CASE CreateTunnel \/ Recreate \/ Describe
  BY <1>14 DEF CreateTunnel, Recreate, Describe, Create, Unwind, process, session,
      memory
<1>15. CASE UNCHANGED vars
  BY <1>15 DEF vars
<1>16. QED
  BY <1>2, <1>3, <1>4, <1>5, <1>6, <1>7, <1>8, <1>9, <1>10, <1>11, <1>12, <1>13,
     <1>14, <1>15
  DEF Next, Step

(***************************************************************************)
(* The agent implements TunnelSession: it accepts traffic and is ready     *)
(* only while the status says that this session is online, which it says   *)
(* after it said connecting, and it takes back its readiness before it     *)
(* reports anything else.                                                  *)
(***************************************************************************)
THEOREM Implements == Spec => ImplementsSession
<1>1. Init => ReportsInOrder /\ Session!Init
  BY DEF Init, ReportsInOrder, Opening, Session!Init
<1>2. QED
  BY <1>1, TypeCorrect, StepReportsInOrder, StepImplements, PTL
  DEF Spec, ImplementsSession, Session!Spec

(***************************************************************************)
(* Where hostnames come from: only a name of the engine's tunnels becomes  *)
(* confirmed, and of a published tunnel the confirmed name is the one the  *)
(* next session gets.                                                      *)
(***************************************************************************)
EngineNames == {"fixed"} \cup Allocated

NamesComeFromEngine ==
  /\ status.proven => status.hostname \in EngineNames
  /\ tunnel \in EngineNames \cup {"none"}
  /\ pc \in {"describe", "online"} => tunnel # "none"
  /\ pc \in {"connect", "create"} => confirmed = ConfirmedHostname

NameIsKept ==
  naming # "tcp" =>
    /\ naming = "explicit" /\ status.proven => status.hostname = "fixed"
    /\ pc \in {"describe", "online"} =>
         /\ naming = "explicit" => tunnel = "fixed"
         /\ status.proven => tunnel = status.hostname
    /\ pc \in {"discover", "release", "recreate"} =>
         naming = "direct" /\ ~status.proven

HostnameInv == NamesComeFromEngine /\ NameIsKept

LEMMA StepKeepsHostnames == TypeOK /\ HostnameInv /\ [Next]_vars => HostnameInv'
<1>1. SUFFICES ASSUME TypeOK /\ HostnameInv, [Next]_vars PROVE HostnameInv'
  OBVIOUS
<1> USE <1>1 DEF TypeOK, HostnameInv, NamesComeFromEngine, NameIsKept,
    EngineNames, Allocated, ConfirmedHostname
<1>2. CASE StartProcess
  BY <1>2 DEF StartProcess, session, memory
<1>3. CASE Signal
  BY <1>3 DEF Signal, session, memory
<1>4. CASE HealthServerFails
  BY <1>4 DEF HealthServerFails, session, memory
<1>5. CASE HealthServerStops
  BY <1>5 DEF HealthServerStops, session, memory
<1>6. CASE Crash
  BY <1>6 DEF Crash, Vanish
<1>7. CASE Exit
  BY <1>7 DEF Exit, Vanish
<1>8. CASE Loop
  BY <1>8 DEF Loop, process, session, memory
<1>9. CASE Returned
  BY <1>9 DEF Returned, process, session
<1>10. CASE ReportDisconnected
  BY <1>10 DEF ReportDisconnected, Stores, process, session
<1>11. CASE Backoff
  BY <1>11 DEF Backoff, process, session, memory
<1>12. CASE ReportConnecting
  BY <1>12 DEF ReportConnecting, Stores, process, session
<1>13. CASE Connect
  BY <1>13 DEF Connect, process, memory
<1>14. CASE CreateTunnel
  <2>1. UNCHANGED <<naming, status, confirmed>> /\ pc = "create"
        /\ confirmed = ConfirmedHostname
    BY <1>14 DEF CreateTunnel, process, memory
  <2>2. ASSUME NEW hostname, Create(hostname, "describe")
        PROVE  \/ pc' \notin {"connect", "create", "describe", "online", "discover",
                            "release", "recreate"} /\ tunnel' = tunnel
               \/ pc' = "describe" /\ tunnel' \in Assignable(hostname)
    BY <2>2 DEF Create, Unwind
  <2>3. CASE Requested # "none"
    <3>1. Create(Requested, "describe")
      BY <1>14, <2>3 DEF CreateTunnel
    <3>2. QED
      BY <2>1, <2>2, <2>3, <3>1 DEF Requested, Assignable
  <2>4. CASE Requested = "none" /\ naming = "managed"
    <3>1. Create("fixed", "describe")
      BY <1>14, <2>4 DEF CreateTunnel
    <3>2. QED
      BY <2>1, <2>2, <2>4, <3>1 DEF Requested, Assignable
  <2>5. CASE Requested = "none" /\ naming = "direct"
    <3>1. Create("none", "discover")
      BY <1>14, <2>5 DEF CreateTunnel
    <3>2. QED
      BY <2>1, <2>5, <3>1 DEF Requested, Assignable, Create, Unwind
  <2>6. CASE Requested = "none" /\ naming \notin {"managed", "direct"}
    <3>1. Create("none", "describe")
      BY <1>14, <2>6 DEF CreateTunnel
    <3>2. QED
      BY <2>1, <2>2, <2>6, <3>1 DEF Requested, Assignable
  <2>7. QED
    BY <2>3, <2>4, <2>5, <2>6
<1>15. CASE Recreate
  BY <1>15 DEF Recreate, Create, Unwind, process, memory, Assignable
<1>16. CASE Discover
  BY <1>16 DEF Discover, process, session, memory
<1>17. CASE Release
  BY <1>17 DEF Release, process, memory
<1>18. CASE Describe
  BY <1>18 DEF Describe, Unwind, process, session, memory
<1>19. CASE ReportOnline
  BY <1>19 DEF ReportOnline, Stores, Unwind, process, session
<1>20. CASE SetReady
  BY <1>20 DEF SetReady, process, session, memory
<1>21. CASE Serve
  BY <1>21 DEF Serve, process, session, memory
<1>22. CASE StopServing
  BY <1>22 DEF StopServing, process, session, memory
<1>23. CASE ServeFails
  BY <1>23 DEF ServeFails, process, memory
<1>24. CASE CloseTunnel
  BY <1>24 DEF CloseTunnel, process, memory
<1>25. CASE CloseCtrl
  BY <1>25 DEF CloseCtrl, process, memory
<1>26. CASE EngineExpires
  BY <1>26 DEF EngineExpires, process, memory
<1>27. CASE UNCHANGED vars
  BY <1>27 DEF vars
<1>28. QED
  BY <1>2, <1>3, <1>4, <1>5, <1>6, <1>7, <1>8, <1>9, <1>10, <1>11, <1>12,
     <1>13, <1>14, <1>15, <1>16, <1>17, <1>18, <1>19, <1>20, <1>21, <1>22,
     <1>23, <1>24, <1>25, <1>26, <1>27
  DEF Next, Step

LEMMA HostnamesInvariant == Spec => [](TypeOK /\ HostnameInv)
<1>1. Init => HostnameInv
  BY DEF Init, HostnameInv, NamesComeFromEngine, NameIsKept, EngineNames
<1>2. QED
  BY <1>1, TypeCorrect, StepKeepsHostnames, PTL DEF Spec

(***************************************************************************)
(* The guess an earlier controller stored is never requested, because only *)
(* Online, which stores a name the engine returned, makes it confirmed.    *)
(***************************************************************************)
THEOREM GuessNeverRequested == Spec => []GuessIsNotRequested
<1>1. HostnameInv => GuessIsNotRequested
  BY DEF HostnameInv, NamesComeFromEngine, EngineNames, Allocated,
     GuessIsNotRequested
<1>2. QED
  BY <1>1, HostnamesInvariant, PTL

(***************************************************************************)
(* A published tunnel keeps the hostname it was first online with.         *)
(***************************************************************************)
LEMMA StepHostnameStable ==
  ASSUME TypeOK, HostnameInv, Next, naming # "tcp", status.proven
  PROVE  status'.hostname = status.hostname
<1>1. CASE ReportOnline
  BY <1>1 DEF ReportOnline, Stores, HostnameInv, NameIsKept
<1>2. CASE ReportConnecting \/ ReportDisconnected
  BY <1>2 DEF ReportConnecting, ReportDisconnected, Stores, TypeOK
<1>3. CASE ~(ReportOnline \/ ReportConnecting \/ ReportDisconnected)
  BY <1>3
  DEF Next, Step, process, session, memory, StartProcess, Signal, HealthServerFails,
      HealthServerStops, Crash, Vanish, Exit, Loop, Returned, Backoff, Connect,
      CreateTunnel, Recreate, Discover, Release, Describe, SetReady, Serve,
      StopServing, ServeFails, CloseTunnel, CloseCtrl, EngineExpires
<1>4. QED
  BY <1>1, <1>2, <1>3

THEOREM HostnameKept == Spec => HostnameStable
<1>1. TypeOK /\ HostnameInv /\ [Next]_vars
        => [naming # "tcp" /\ status.proven => status'.hostname = status.hostname]_vars
  BY StepHostnameStable
<1>2. QED
  BY <1>1, HostnamesInvariant, PTL DEF Spec, HostnameStable
=============================================================================
