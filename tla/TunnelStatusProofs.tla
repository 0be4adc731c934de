------------------------- MODULE TunnelStatusProofs -------------------------
(***************************************************************************)
(* Proofs about TunnelStatus, for every set and number of disturbances and *)
(* for generations without a bound.                                        *)
(***************************************************************************)
EXTENDS TunnelStatus, TLAPS

ConditionList == [CondTypes -> Condition]

-----------------------------------------------------------------------------
(* The operators that compute a status                                     *)

LEMMA TypeNames ==
  /\ "Accepted" \in CondTypes /\ "Resolved" \in CondTypes
  /\ "AgentReady" \in CondTypes /\ "TunnelReady" \in CondTypes
  /\ "Ready" \in CondTypes
  BY DEF CondTypes

LEMMA ReasonNames ==
  /\ Blocks \subseteq Reasons /\ "ServiceMissing" \in Reasons
  /\ "Accepted" \in Reasons /\ "Resolved" \in Reasons
  /\ "DeploymentAvailable" \in Reasons /\ "DeploymentPending" \in Reasons
  /\ "NotReported" \in Reasons /\ "WaitingForDeployment" \in Reasons
  /\ "Ready" \in Reasons /\ "WaitingForTunnel" \in Reasons
  /\ "WaitingForReconnect" \in Reasons /\ "TunnelConnecting" \in Reasons
  /\ "TunnelOnline" \in Reasons /\ "TunnelDisconnected" \in Reasons
  BY DEF Reasons, Blocks

LEMMA StatusTyped ==
  ASSUME NEW o \in Nat, NEW e \in {"", "manager", "agent"}, NEW c \in ConditionList
  PROVE  [observed |-> o, lastError |-> e, conditions |-> c] \in Status
  BY DEF Status, ConditionList

\* Merging a typed change into a typed status gives a typed status.
LEMMA MergeTyped ==
  ASSUME NEW stored \in Status, NEW prior \in Status, NEW after \in Status
  PROVE  Merge(stored, prior, after) \in Status
<1> DEFINE pick(s, p, a) == IF a = p THEN s ELSE a
           o == pick(stored.observed, prior.observed, after.observed)
           l == pick(stored.lastError, prior.lastError, after.lastError)
           c == pick(stored.conditions, prior.conditions, after.conditions)
<1>1. Merge(stored, prior, after) =
        [observed |-> o, lastError |-> l, conditions |-> c]
  <2>1. DOMAIN stored = {"observed", "lastError", "conditions"}
    BY DEF Status
  <2>2. Merge(stored, prior, after)
          = [f \in {"observed", "lastError", "conditions"} |->
               pick(stored[f], prior[f], after[f])]
    BY <2>1, Zenon DEF Merge
  <2> QED
    BY <2>2
<1>2. o \in Nat /\ l \in {"", "manager", "agent"} /\ c \in ConditionList
  BY DEF Status, ConditionList
<1>3. [observed |-> o, lastError |-> l, conditions |-> c] \in Status
  BY <1>2, StatusTyped
<1> QED
  BY <1>1, <1>3

\* The merged list is the stored one or the written one, never a mixture.
LEMMA MergeConditions ==
  ASSUME NEW stored \in Status, NEW prior, NEW after
  PROVE  Merge(stored, prior, after).conditions
           = IF after.conditions = prior.conditions THEN stored.conditions
                                                    ELSE after.conditions
  BY DEF Merge, Status

LEMMA WithStatusTyped ==
  ASSUME NEW t \in Tunnel, NEW e \in {"", "manager", "agent"},
         NEW c \in ConditionList
  PROVE  /\ WithStatus(t, e, c) \in Status
         /\ WithStatus(t, e, c).conditions = c
  BY DEF WithStatus, Status, Tunnel, ConditionList

LEMMA TunnelFields ==
  ASSUME NEW t \in Tunnel
  PROVE  t.status.conditions \in ConditionList /\ t.gen \in Nat
  BY DEF Tunnel, Status, ConditionList

\* A reconciled list is coherent with and without an available Deployment.
LEMMA DeploymentFacts ==
  ASSUME NEW c \in ConditionList, NEW gen \in Nat
  PROVE  \A d \in {WithDeployment(c, gen), WithoutDeployment(c, gen)} :
           /\ d \in ConditionList
           /\ IsTrue(d, "Ready") => IsTrue(d, "TunnelReady")
           /\ d["Accepted"] = c["Accepted"]
<1>1. ASSUME NEW d, d = WithDeployment(c, gen)
      PROVE  /\ d \in ConditionList
             /\ IsTrue(d, "Ready") => IsTrue(d, "TunnelReady")
             /\ d["Accepted"] = c["Accepted"]
  <2> DEFINE a == Set(c, "AgentReady", "True", "DeploymentAvailable", gen)
  <2>1. a \in ConditionList /\ a["Accepted"] = c["Accepted"]
    BY TypeNames, ReasonNames DEF Set, ConditionList, Condition
  <2> HIDE DEF a
  <2>2. CASE IsTrue(a, "TunnelReady")
    <3>1. d = Set(a, "Ready", "True", "Ready", gen)
      BY <1>1, <2>2 DEF WithDeployment, a
    <3> QED
      BY <2>1, <2>2, <3>1, TypeNames, ReasonNames
       DEF Set, ConditionList, Condition, IsTrue
  <2>3. CASE ~IsTrue(a, "TunnelReady")
    <3>1. d = Set(a, "Ready", "False", "WaitingForTunnel", gen)
      BY <1>1, <2>3 DEF WithDeployment, a
    <3> QED
      BY <2>1, <3>1, TypeNames, ReasonNames
       DEF Set, ConditionList, Condition, IsTrue
  <2> QED
    BY <2>2, <2>3
<1>2. ASSUME NEW d, d = WithoutDeployment(c, gen)
      PROVE  /\ d \in ConditionList
             /\ IsTrue(d, "Ready") => IsTrue(d, "TunnelReady")
             /\ d["Accepted"] = c["Accepted"]
  <2> DEFINE a == Set(c, "AgentReady", "False", "DeploymentPending", gen)
             b == IF a["TunnelReady"].status = "Unknown"
                  THEN Set(a, "TunnelReady", "False", "NotReported", gen) ELSE a
  <2>1. a \in ConditionList /\ a["Accepted"] = c["Accepted"]
    BY TypeNames, ReasonNames DEF Set, ConditionList, Condition
  <2>2. d = Set(b, "Ready", "False", "WaitingForDeployment", gen)
    BY <1>2 DEF WithoutDeployment
  <2> HIDE DEF a
  <2>3. b \in ConditionList /\ b["Accepted"] = c["Accepted"]
    BY <2>1, TypeNames, ReasonNames DEF Set, ConditionList, Condition
  <2> HIDE DEF b
  <2> QED
    BY <2>2, <2>3, TypeNames, ReasonNames
       DEF Set, ConditionList, Condition, IsTrue
<1> QED
  BY <1>1, <1>2

\* What the manager writes is typed, is coherent whatever it read, and judges
\* the spec at the generation it read.
LEMMA ManagerStatusFacts ==
  ASSUME NEW t \in Tunnel, NEW outcome \in Outcomes
  PROVE  /\ ManagerStatus(t, outcome) \in Status
         /\ LET c == ManagerStatus(t, outcome).conditions
            IN  /\ IsTrue(c, "Ready") => IsTrue(c, "TunnelReady")
                /\ c["Accepted"].gen = t.gen
<1> DEFINE old == t.status.conditions
<1>1. old \in ConditionList /\ t.gen \in Nat
  BY TunnelFields
<1>2. CASE outcome \in {"InvalidSpec", "ConnectionMissing"}
  <2> DEFINE a == Set(old, "Accepted", "False", outcome, t.gen)
             r == Set(a, "Ready", "False", outcome, t.gen)
  <2>1. outcome \in Reasons
    BY <1>2 DEF Reasons, Blocks
  <2>2. a \in ConditionList /\ r \in ConditionList
    BY <1>1, <2>1, TypeNames, ReasonNames DEF Set, ConditionList, Condition
  <2>3. a["Accepted"].gen = t.gen /\ r["Accepted"] = a["Accepted"]
        /\ r["Ready"].status = "False"
    BY <1>1, <2>2, TypeNames, ReasonNames DEF Set, ConditionList, Condition
  <2>4. ManagerStatus(t, outcome) = WithStatus(t, "manager", r)
    BY <1>2 DEF ManagerStatus, TunnelBlocked
  <2> HIDE DEF a, r
  <2>5. WithStatus(t, "manager", r) \in Status
        /\ WithStatus(t, "manager", r).conditions = r
    BY <2>2, WithStatusTyped
  <2> QED
    BY <2>3, <2>4, <2>5 DEF IsTrue
<1>3. CASE outcome = "ServiceMissing"
  <2> DEFINE a == Set(old, "Accepted", "True", "Accepted", t.gen)
             b == Set(a, "Resolved", "False", "ServiceMissing", t.gen)
             r == Set(b, "Ready", "False", "ServiceMissing", t.gen)
  <2>1. a \in ConditionList /\ b \in ConditionList /\ r \in ConditionList
    BY <1>1, TypeNames, ReasonNames DEF Set, ConditionList, Condition
  <2>2. a["Accepted"].gen = t.gen /\ b["Accepted"] = a["Accepted"]
        /\ r["Accepted"] = b["Accepted"] /\ r["Ready"].status = "False"
    BY <1>1, <2>1, TypeNames, ReasonNames DEF Set, ConditionList, Condition
  <2>3. ManagerStatus(t, outcome) = WithStatus(t, "manager", r)
    BY <1>3 DEF ManagerStatus, TargetBlocked
  <2> HIDE DEF a, b, r
  <2>4. WithStatus(t, "manager", r) \in Status
        /\ WithStatus(t, "manager", r).conditions = r
    BY <2>1, WithStatusTyped
  <2> QED
    BY <2>2, <2>3, <2>4 DEF IsTrue
<1>4. CASE outcome \notin Blocks
  <2> DEFINE a == Set(old, "Accepted", "True", "Accepted", t.gen)
             b == Set(a, "Resolved", "True", "Resolved", t.gen)
             d == IF outcome = "available" THEN WithDeployment(b, t.gen)
                                           ELSE WithoutDeployment(b, t.gen)
  <2>1. a \in ConditionList /\ b \in ConditionList
    BY <1>1, TypeNames, ReasonNames DEF Set, ConditionList, Condition
  <2>2. b["Accepted"].gen = t.gen
    BY <1>1, <2>1, TypeNames, ReasonNames DEF Set, ConditionList, Condition
  <2> HIDE DEF a, b
  <2>3. /\ d \in ConditionList
        /\ IsTrue(d, "Ready") => IsTrue(d, "TunnelReady")
        /\ d["Accepted"] = b["Accepted"]
    BY <1>1, <2>1, DeploymentFacts
  <2>4. ManagerStatus(t, outcome) = WithStatus(t, "", d)
    BY <1>4, Zenon DEF ManagerStatus, Reconciled, Blocks, a, b
  <2> HIDE DEF d
  <2>5. WithStatus(t, "", d) \in Status /\ WithStatus(t, "", d).conditions = d
    BY <2>3, WithStatusTyped
  <2> QED
    BY <2>2, <2>3, <2>4, <2>5
<1> QED
  BY <1>2, <1>3, <1>4 DEF Blocks

\* What the agent writes is typed, is coherent, and has the conditions of the
\* manager as they were read.
LEMMA AgentStatusFacts ==
  ASSUME NEW t \in Tunnel, NEW report \in {"", "connecting", "online", "disconnected"}
  PROVE  /\ AgentStatus(t, report) \in Status
         /\ LET c == AgentStatus(t, report).conditions
            IN  /\ IsTrue(c, "Ready") => IsTrue(c, "TunnelReady")
                /\ \A type \in ManagerOwned : c[type] = t.status.conditions[type]
<1> DEFINE Right(s) ==
      /\ s \in Status
      /\ IsTrue(s.conditions, "Ready") => IsTrue(s.conditions, "TunnelReady")
      /\ \A type \in ManagerOwned : s.conditions[type] = t.status.conditions[type]
<1>1. t.status.conditions \in ConditionList /\ t.gen \in Nat
  BY TunnelFields
<1>2. ASSUME NEW e \in {"", "manager", "agent"}, NEW status \in {"True", "False"},
             NEW reason \in Reasons, NEW readyReason \in Reasons
      PROVE  Right(Report(t, e, status, reason, readyReason))
  <2> DEFINE a == Set(t.status.conditions, "TunnelReady", status, reason, t.gen)
             r == Set(a, "Ready", status, readyReason, t.gen)
  <2>1. a \in ConditionList /\ r \in ConditionList
    BY <1>1, TypeNames, ReasonNames DEF Set, ConditionList, Condition
  <2>2. /\ a["TunnelReady"].status = status /\ r["TunnelReady"] = a["TunnelReady"]
        /\ r["Ready"].status = status
        /\ \A type \in ManagerOwned : /\ a[type] = t.status.conditions[type]
                                      /\ r[type] = a[type]
    BY <1>1, <2>1, TypeNames, ReasonNames, ZenonT(60)
       DEF Set, ConditionList, Condition, ManagerOwned
  <2> HIDE DEF a, r
  <2>3. WithStatus(t, e, r) \in Status /\ WithStatus(t, e, r).conditions = r
    BY <2>1, WithStatusTyped
  <2> QED
    BY <2>2, <2>3 DEF Report, IsTrue, a, r
<1> SUFFICES Right(AgentStatus(t, report))
  OBVIOUS
<1> HIDE DEF Right
<1>3. CASE report = "connecting"
  <2>1. AgentStatus(t, report)
          = Report(t, "", "False", "TunnelConnecting", "WaitingForTunnel")
    BY <1>3 DEF AgentStatus
  <2> QED
    BY <1>2, <2>1, ReasonNames
<1>4. CASE report = "online"
  <2>1. AgentStatus(t, report) = Report(t, "", "True", "TunnelOnline", "Ready")
    BY <1>4 DEF AgentStatus
  <2> QED
    BY <1>2, <2>1, ReasonNames
<1>5. CASE report \notin {"connecting", "online"}
  <2>1. AgentStatus(t, report)
          = Report(t, "agent", "False", "TunnelDisconnected", "WaitingForReconnect")
    BY <1>5 DEF AgentStatus
  <2> QED
    BY <1>2, <2>1, ReasonNames
<1> QED
  BY <1>3, <1>4, <1>5

-----------------------------------------------------------------------------
(* Types                                                                   *)

LEMMA FreshTyped ==
  /\ NewTunnel \in Tunnel
  /\ IdleReconciler \in Reconciler
  /\ NoAgent \in Agent
<1>1. NewTunnel \in Tunnel
  BY DEF NewTunnel, Tunnel, NewStatus, Status, Absent, Condition, Reasons, Blocks
<1> HIDE DEF NewTunnel
<1> QED
  BY <1>1 DEF IdleReconciler, Reconciler, Outcomes, Blocks, NoAgent, Agent

LEMMA RestFields ==
  /\ IdleReconciler.read = NewTunnel /\ IdleReconciler.pc = "idle"
  /\ NoAgent.read = NewTunnel /\ ~NoAgent.fresh
  BY DEF IdleReconciler, NoAgent

LEMMA InitTyped == Init => TypeOK
<1>1. MaxDisturbances \in Nat
  BY DisturbancesAssumption
<1> QED
  BY <1>1, FreshTyped
     DEF Init, TypeOK, RefStates, NoDeployment, Deployment

\* A typed status keeps the stored tunnel typed.
LEMMA StoreTyped ==
  ASSUME TypeOK, NEW tunnel \in Tunnel, NEW writer \in Agent,
         StoreTunnel(tunnel, writer)
  PROVE  api' \in Tunnel /\ unseen' \subseteq Kinds /\ agent' \in Agent
<1>1. agent' = [writer EXCEPT !.fresh = writer.fresh /\ tunnel = api]
  BY DEF StoreTunnel
<1>2. (writer.fresh /\ tunnel = api) \in BOOLEAN
  OBVIOUS
<1>3. agent' \in Agent
  BY <1>1, <1>2 DEF Agent
<1> QED
  BY <1>3 DEF StoreTunnel, TypeOK, Kinds

LEMMA WithStatusField ==
  ASSUME NEW t \in Tunnel, NEW s \in Status
  PROVE  [t EXCEPT !.status = s] \in Tunnel /\ [t EXCEPT !.status = s].status = s
         /\ [t EXCEPT !.status = s].gen = t.gen
  BY DEF Tunnel

LEMMA SayTyped ==
  ASSUME agent \in Agent
  PROVE  /\ \A r \in {"connecting", "online", "disconnected"} : Say(r) \in Agent
         /\ \A pc \in {"dial", "serving", "backoff"} : Proceed(pc) \in Agent
         /\ AfterReport \in Agent
  BY FreshTyped DEF Say, Proceed, AfterReport, Agent

LEMMA DecideTyped ==
  ASSUME mgr \in Reconciler, NEW outcome \in Outcomes, Decide(outcome)
  PROVE  mgr' \in Reconciler
  BY DEF Decide, Reconciler

LEMMA EditTyped ==
  ASSUME NEW t \in Tunnel, NEW valid \in BOOLEAN
  PROVE  [gen |-> t.gen + 1, valid |-> valid, status |-> t.status] \in Tunnel
<1>1. t.gen + 1 \in Nat /\ t.status \in Status
  BY DEF Tunnel
<1>2. \A g \in Nat, v \in BOOLEAN, s \in Status :
        [gen |-> g, valid |-> v, status |-> s] \in Tunnel
  BY DEF Tunnel
<1> QED
  BY <1>1, <1>2

LEMMA StepTyped == TypeOK /\ [Next]_vars => TypeOK'
<1> SUFFICES ASSUME TypeOK, [Next]_vars PROVE TypeOK'
  OBVIOUS
<1> USE FreshTyped
<1>1. CASE EditSpec
  <2>1. PICK valid \in BOOLEAN :
          StoreTunnel([gen |-> api.gen + 1, valid |-> valid, status |-> api.status],
                      agent)
    BY <1>1 DEF EditSpec
  <2>2. [gen |-> api.gen + 1, valid |-> valid, status |-> api.status] \in Tunnel
    BY EditTyped DEF TypeOK
  <2>3. api' \in Tunnel /\ unseen' \subseteq Kinds /\ agent' \in Agent
    BY <2>1, <2>2, StoreTyped DEF TypeOK
  <2> QED
    BY <1>1, <2>3 DEF EditSpec, Disturb, TypeOK, seen
<1>2. CASE ChangeRefs
  BY <1>2 DEF ChangeRefs, Disturb, TypeOK, seen, Kinds, RefStates
<1>3. CASE CountAvailable
  <2>1. dep' \in Deployment
    BY <1>3 DEF CountAvailable, TypeOK, Deployment
  <2> QED
    BY <1>3, <2>1 DEF CountAvailable, TypeOK, seen, Kinds
<1>4. CASE StartAgent
  <2>1. agent' \in Agent
    BY <1>4 DEF StartAgent, TypeOK, Agent, Deployment
  <2> QED
    BY <1>4, <2>1 DEF StartAgent, TypeOK, seen
<1>5. CASE ReplaceAgent
  BY <1>5 DEF ReplaceAgent, TypeOK, seen
<1>6. CASE CrashAgent
  BY <1>6 DEF CrashAgent, Disturb, TypeOK, seen
<1>7. CASE SyncTunnel
  BY <1>7 DEF SyncTunnel, TypeOK
<1>8. CASE SyncRefs
  BY <1>8 DEF SyncRefs, TypeOK
<1>9. CASE SyncDeployment
  BY <1>9 DEF SyncDeployment, TypeOK
<1>10. CASE RestartManager
  BY <1>10 DEF RestartManager, Disturb, TypeOK
<1>11. CASE StartReconcile
  <2>1. CASE cache.valid
    <3>1. mgr' = [mgr EXCEPT !.pc = "resolve", !.gen = cache.gen] /\ cache.gen \in Nat
      BY <1>11, <2>1 DEF StartReconcile, TypeOK, Tunnel
    <3>2. mgr' \in Reconciler
      BY <3>1 DEF TypeOK, Reconciler
    <3> QED
      BY <1>11, <3>2 DEF StartReconcile, TypeOK, seen
  <2>2. CASE ~cache.valid
    <3>1. mgr' \in Reconciler
      BY <1>11, <2>2, DecideTyped DEF StartReconcile, TypeOK, Outcomes, Blocks
    <3> QED
      BY <1>11, <3>1 DEF StartReconcile, TypeOK, seen
  <2> QED
    BY <2>1, <2>2
<1>12. CASE ResolveReferences
  <2>1. mgr' \in Reconciler
    <3>1. CASE refsSeen = "resolved"
      BY <1>12, <3>1 DEF ResolveReferences, Goto, TypeOK, Reconciler
    <3>2. CASE refsSeen # "resolved"
      BY <1>12, <3>2, DecideTyped
         DEF ResolveReferences, TypeOK, RefStates, Outcomes, Blocks
    <3> QED
      BY <3>1, <3>2
  <2> QED
    BY <1>12, <2>1 DEF ResolveReferences, TypeOK, seen
<1>13. CASE ApplyChildren
  <2>1. mgr' \in Reconciler /\ dep' \in Deployment
    BY <1>13, ZenonT(60) DEF ApplyChildren, Goto, Requeue, TypeOK, Reconciler, Deployment
  <2>2. unseen' \subseteq Kinds /\ queued' \in BOOLEAN
    BY <1>13 DEF ApplyChildren, Requeue, TypeOK, Kinds
  <2> QED
    BY <1>13, <2>1, <2>2 DEF ApplyChildren, TypeOK, seen
<1>14. CASE ReadDeployment
  <2>1. CASE depSeen.exists
    <3>1. mgr' \in Reconciler /\ queued' = queued
      BY <1>14, <2>1, DecideTyped DEF ReadDeployment, TypeOK, Outcomes
    <3> QED
      BY <1>14, <3>1 DEF ReadDeployment, TypeOK, seen
  <2>2. CASE ~depSeen.exists
    BY <1>14, <2>2 DEF ReadDeployment, Requeue, TypeOK, seen
  <2> QED
    BY <2>1, <2>2
<1>15. CASE GetForPatch
  <2>1. mgr' \in Reconciler
    BY <1>15 DEF GetForPatch, TypeOK, Reconciler
  <2> QED
    BY <1>15, <2>1 DEF GetForPatch, TypeOK, seen
<1>16. CASE PatchStatus
  <2> DEFINE s == Merge(api.status, mgr.read.status, ManagerStatus(mgr.read, mgr.outcome))
  <2>1. mgr.read \in Tunnel /\ mgr.outcome \in Outcomes /\ api \in Tunnel
        /\ api.status \in Status /\ mgr.read.status \in Status
    BY DEF TypeOK, Reconciler, Tunnel
  <2>2. s \in Status
    BY <2>1, ManagerStatusFacts, MergeTyped
  <2>3. StoreTunnel([api EXCEPT !.status = s], agent)
    BY <1>16 DEF PatchStatus
  <2> HIDE DEF s
  <2>4. api' \in Tunnel /\ unseen' \subseteq Kinds /\ agent' \in Agent
    BY <2>1, <2>2, <2>3, WithStatusField, StoreTyped DEF TypeOK
  <2> QED
    BY <1>16, <2>4 DEF PatchStatus, Return, TypeOK, seen
<1>17. CASE PatchFails
  <2>1. left' \in Nat
    BY <1>17 DEF PatchFails, Disturb, TypeOK
  <2>2. mgr' = IdleReconciler /\ queued' \in {queued, TRUE}
    BY <1>17, Zenon DEF PatchFails, Return, Requeue
  <2> QED
    BY <1>17, <2>1, <2>2 DEF PatchFails, TypeOK, seen
<1>18. CASE AgentGet
  <2>1. agent' \in Agent
    BY <1>18 DEF AgentGet, TypeOK, Agent
  <2> QED
    BY <1>18, <2>1 DEF AgentGet, TypeOK, seen
<1>19. CASE AgentPatch
  <2> DEFINE s == Merge(api.status, agent.read.status, AgentStatus(agent.read, agent.report))
  <2>1. agent.read \in Tunnel /\ api \in Tunnel /\ api.status \in Status
        /\ agent.read.status \in Status
        /\ agent.report \in {"", "connecting", "online", "disconnected"}
    BY DEF TypeOK, Agent, Tunnel
  <2>2. s \in Status
    BY <2>1, AgentStatusFacts, MergeTyped
  <2>3. StoreTunnel([api EXCEPT !.status = s], AfterReport)
    BY <1>19 DEF AgentPatch
  <2> HIDE DEF s
  <2>4. api' \in Tunnel /\ unseen' \subseteq Kinds /\ agent' \in Agent
    BY <2>1, <2>2, <2>3, WithStatusField, SayTyped, StoreTyped DEF TypeOK
  <2> QED
    BY <1>19, <2>4 DEF AgentPatch, TypeOK, seen
<1>20. CASE AgentConflict
  <2>1. agent' \in Agent
    BY <1>20 DEF AgentConflict, Say, TypeOK, Agent
  <2> QED
    BY <1>20, <2>1 DEF AgentConflict, TypeOK, seen
<1>21. CASE AgentReportFails
  BY <1>21, SayTyped DEF AgentReportFails, Disturb, TypeOK, seen
<1>22. CASE OpenTunnel
  BY <1>22, SayTyped DEF OpenTunnel, TypeOK, seen
<1>23. CASE EngineFails
  BY <1>23, SayTyped DEF EngineFails, Disturb, TypeOK, seen
<1>24. CASE Retry
  BY <1>24, SayTyped DEF Retry, TypeOK, seen
<1>25. CASE UNCHANGED vars
  BY <1>25 DEF vars, TypeOK
<1> QED
  BY <1>1, <1>2, <1>3, <1>4, <1>5, <1>6, <1>7, <1>8, <1>9, <1>10, <1>11, <1>12,
     <1>13, <1>14, <1>15, <1>16, <1>17, <1>18, <1>19, <1>20, <1>21, <1>22, <1>23,
     <1>24, <1>25
     DEF Next, ManagerStep, AgentStep

\* Every reachable state is well typed.
THEOREM TypeCorrect == Spec => []TypeOK
<1> QED
  BY InitTyped, StepTyped, PTL DEF Spec

-----------------------------------------------------------------------------
(* Ready and TunnelReady                                                   *)

\* What a writer may send back is what was stored, cached or read before.
LEMMA CopiesStep ==
  ASSUME TypeOK, Next
  PROVE  {cache', mgr'.read, agent'.read}
           \subseteq {api, cache, mgr.read, agent.read, NewTunnel}
<1> USE FreshTyped, RestFields DEF TypeOK, Reconciler, Agent
<1>1. CASE EditSpec
  BY <1>1 DEF EditSpec, StoreTunnel, seen
<1>2. CASE ChangeRefs
  BY <1>2 DEF ChangeRefs, seen
<1>3. CASE CountAvailable
  BY <1>3 DEF CountAvailable, seen
<1>4. CASE StartAgent \/ ReplaceAgent \/ CrashAgent
  BY <1>4, ZenonT(60) DEF StartAgent, ReplaceAgent, CrashAgent, seen
<1>5. CASE SyncTunnel \/ SyncRefs \/ SyncDeployment
  BY <1>5 DEF SyncTunnel, SyncRefs, SyncDeployment
<1>6. CASE RestartManager
  BY <1>6 DEF RestartManager
<1>7. CASE StartReconcile
  BY <1>7, ZenonT(60) DEF StartReconcile, Decide, seen
<1>8. CASE ResolveReferences
  BY <1>8, ZenonT(60) DEF ResolveReferences, Decide, Goto, seen
<1>9. CASE ApplyChildren
  BY <1>9, ZenonT(60) DEF ApplyChildren, Goto, Requeue, seen
<1>10. CASE ReadDeployment
  BY <1>10, ZenonT(60) DEF ReadDeployment, Decide, Requeue, seen
<1>11. CASE GetForPatch
  BY <1>11 DEF GetForPatch, seen
<1>12. CASE PatchStatus
  BY <1>12 DEF PatchStatus, StoreTunnel, Return, seen
<1>13. CASE PatchFails
  BY <1>13 DEF PatchFails, Return, Requeue, seen
<1>14. CASE AgentGet
  BY <1>14 DEF AgentGet, seen
<1>15. CASE AgentPatch
  BY <1>15 DEF AgentPatch, AfterReport, Proceed, StoreTunnel, seen
<1>16. CASE AgentConflict \/ OpenTunnel \/ Retry
  BY <1>16, ZenonT(60) DEF AgentConflict, OpenTunnel, Retry, Say, seen
<1>17. CASE AgentReportFails
  BY <1>17 DEF AgentReportFails, Say, Proceed, seen
<1>18. CASE EngineFails
  BY <1>18 DEF EngineFails, Say, seen
<1> QED
  BY <1>1, <1>2, <1>3, <1>4, <1>5, <1>6, <1>7, <1>8, <1>9, <1>10, <1>11, <1>12,
     <1>13, <1>14, <1>15, <1>16, <1>17, <1>18 DEF Next, ManagerStep, AgentStep

\* Only the two writers change the stored status.
LEMMA StatusStep ==
  ASSUME TypeOK, Next, ~PatchStatus, ~AgentPatch
  PROVE  api'.status = api.status /\ api'.gen >= api.gen
<1>1. api.gen \in Nat
  BY DEF TypeOK, Tunnel
<1>2. CASE EditSpec
  BY <1>1, <1>2 DEF EditSpec, StoreTunnel
<1>3. CASE ~EditSpec
  <2>1. api' = api
    BY <1>3 DEF Next, ManagerStep, AgentStep, ChangeRefs, CountAvailable, StartAgent,
       ReplaceAgent, CrashAgent, SyncTunnel, SyncRefs, SyncDeployment,
       RestartManager, StartReconcile, ResolveReferences, ApplyChildren,
       ReadDeployment, GetForPatch, PatchFails, AgentGet, AgentConflict,
       OpenTunnel, Retry, AgentReportFails, EngineFails
  <2> QED
    BY <1>1, <2>1
<1> QED
  BY <1>2, <1>3

\* The effect of the manager's patch on the stored status.
LEMMA ManagerPatch ==
  ASSUME TypeOK, PatchStatus
  PROVE  LET c == ManagerStatus(mgr.read, mgr.outcome).conditions
         IN  /\ api'.status.conditions
                  = IF c = mgr.read.status.conditions THEN api.status.conditions ELSE c
             /\ IsTrue(c, "Ready") => IsTrue(c, "TunnelReady")
             /\ c["Accepted"].gen = mgr.read.gen
             /\ api'.gen = api.gen
<1>1. mgr.read \in Tunnel /\ mgr.outcome \in Outcomes /\ api \in Tunnel
      /\ api.status \in Status /\ mgr.read.status \in Status
  BY DEF TypeOK, Reconciler, Tunnel
<1>2. api' = [api EXCEPT !.status =
                Merge(api.status, mgr.read.status, ManagerStatus(mgr.read, mgr.outcome))]
  BY DEF PatchStatus, StoreTunnel
<1>3. ManagerStatus(mgr.read, mgr.outcome) \in Status
  BY <1>1, ManagerStatusFacts
<1>4. /\ api'.status = Merge(api.status, mgr.read.status,
                             ManagerStatus(mgr.read, mgr.outcome))
      /\ api'.gen = api.gen
  BY <1>1, <1>2, <1>3, MergeTyped, WithStatusField
<1> QED
  BY <1>1, <1>4, ManagerStatusFacts, MergeConditions

\* The effect of the agent's patch.
LEMMA AgentPatchEffect ==
  ASSUME TypeOK, AgentPatch
  PROVE  LET c == AgentStatus(agent.read, agent.report).conditions
         IN  /\ api'.status.conditions
                  = IF c = agent.read.status.conditions THEN api.status.conditions ELSE c
             /\ IsTrue(c, "Ready") => IsTrue(c, "TunnelReady")
             /\ \A type \in ManagerOwned :
                  c[type] = agent.read.status.conditions[type]
             /\ api'.gen = api.gen
<1>1. agent.read \in Tunnel /\ api \in Tunnel
      /\ agent.report \in {"", "connecting", "online", "disconnected"}
      /\ api.status \in Status /\ agent.read.status \in Status
  BY DEF TypeOK, Agent, Tunnel
<1>2. api' = [api EXCEPT !.status =
                Merge(api.status, agent.read.status, AgentStatus(agent.read, agent.report))]
  BY DEF AgentPatch, StoreTunnel
<1>3. AgentStatus(agent.read, agent.report) \in Status
  BY <1>1, AgentStatusFacts
<1>4. /\ api'.status = Merge(api.status, agent.read.status,
                             AgentStatus(agent.read, agent.report))
      /\ api'.gen = api.gen
  BY <1>1, <1>2, <1>3, MergeTyped, WithStatusField
<1>5. /\ IsTrue(AgentStatus(agent.read, agent.report).conditions, "Ready")
           => IsTrue(AgentStatus(agent.read, agent.report).conditions, "TunnelReady")
      /\ \A type \in ManagerOwned :
           AgentStatus(agent.read, agent.report).conditions[type]
             = agent.read.status.conditions[type]
  BY <1>1, AgentStatusFacts
<1>6. api'.status.conditions
        = IF AgentStatus(agent.read, agent.report).conditions
               = agent.read.status.conditions
          THEN api.status.conditions
          ELSE AgentStatus(agent.read, agent.report).conditions
  <2> DEFINE after == AgentStatus(agent.read, agent.report)
  <2>1. api'.status = Merge(api.status, agent.read.status, after)
    BY <1>4
  <2>2. api.status \in Status
    BY <1>1
  <2> HIDE DEF after
  <2>3. api'.status.conditions
          = IF after.conditions = agent.read.status.conditions
            THEN api.status.conditions ELSE after.conditions
    BY <2>1, <2>2, MergeConditions
  <2> QED
    BY <2>3 DEF after
<1> QED
  BY <1>4, <1>5, <1>6, Zenon

LEMMA CoherentInit == Init => ReadyImpliesTunnelReady
<1>1. Coherent(NewTunnel)
  BY DEF Coherent, IsTrue, NewTunnel, NewStatus, Absent, CondTypes
<1> QED
  BY <1>1, RestFields DEF Init, ReadyImpliesTunnelReady

LEMMA CoherentStep ==
  TypeOK /\ ReadyImpliesTunnelReady /\ [Next]_vars => ReadyImpliesTunnelReady'
<1> SUFFICES ASSUME TypeOK, ReadyImpliesTunnelReady, [Next]_vars
             PROVE  ReadyImpliesTunnelReady'
  OBVIOUS
<1>1. CASE UNCHANGED vars
  BY <1>1 DEF vars, ReadyImpliesTunnelReady, Coherent
<1>2. CASE Next
  <2>1. Coherent(NewTunnel)
    BY DEF Coherent, IsTrue, NewTunnel, NewStatus, Absent, CondTypes
  <2>2. Coherent(cache') /\ Coherent(mgr'.read) /\ Coherent(agent'.read)
    BY <1>2, <2>1, CopiesStep DEF ReadyImpliesTunnelReady
  <2>3. Coherent(api')
    <3>1. CASE PatchStatus
      BY <3>1, ManagerPatch DEF ReadyImpliesTunnelReady, Coherent
    <3>2. CASE AgentPatch
      BY <3>2, AgentPatchEffect DEF ReadyImpliesTunnelReady, Coherent
    <3>3. CASE ~PatchStatus /\ ~AgentPatch
      BY <1>2, <3>3, StatusStep DEF ReadyImpliesTunnelReady, Coherent
    <3> QED
      BY <3>1, <3>2, <3>3
  <2> QED
    BY <2>2, <2>3 DEF ReadyImpliesTunnelReady, Coherent
<1> QED
  BY <1>1, <1>2

\* No list of conditions, stored or in a writer's hands, says that a tunnel is
\* ready whose agent has not said so.
THEOREM ReadyCoherent == Spec => []ReadyImpliesTunnelReady
<1> QED
  BY InitTyped, StepTyped, CoherentInit, CoherentStep, PTL DEF Spec

-----------------------------------------------------------------------------
(* What the optimistic lock is for, and the order of verdicts              *)

\* The agent's lock: while nobody wrote, its copy is the stored tunnel.
FreshRead == agent.fresh => agent.read = api

AcceptedGen(tunnel) == tunnel.status.conditions["Accepted"].gen

\* The stored verdict is one of a generation the manager has cached, and a
\* patch on its way carries a verdict that is as recent.
VerdictOrder ==
  /\ AcceptedGen(api) <= cache.gen
  /\ cache.gen <= api.gen
  /\ mgr.pc = "patch" => AcceptedGen(api) <= mgr.read.gen /\ mgr.read.gen <= cache.gen

LEMMA FreshInit == Init => FreshRead
  BY RestFields DEF Init, FreshRead

LEMMA FreshStep == TypeOK /\ FreshRead /\ [Next]_vars => FreshRead'
<1> SUFFICES ASSUME TypeOK, FreshRead, [Next]_vars PROVE FreshRead'
  OBVIOUS
<1> USE DEF FreshRead
<1>1. CASE UNCHANGED vars
  BY <1>1 DEF vars
<1>2. ASSUME NEW tunnel, NEW writer \in Agent, StoreTunnel(tunnel, writer),
             writer.fresh => writer.read = api
      PROVE  FreshRead'
  <2>1. agent'.read = writer.read /\ (agent'.fresh => writer.fresh /\ tunnel = api)
    BY <1>2 DEF StoreTunnel, Agent
  <2> QED
    BY <1>2, <2>1 DEF StoreTunnel
<1>3. CASE EditSpec \/ PatchStatus
  BY <1>2, <1>3 DEF EditSpec, PatchStatus, TypeOK
<1>4. CASE AgentPatch
  <2>1. AfterReport \in Agent /\ ~AfterReport.fresh
    <3>1. AfterReport \in {Proceed("dial"), Proceed("serving"), Proceed("backoff")}
      BY DEF AfterReport
    <3>2. AfterReport \in Agent
      BY SayTyped DEF TypeOK
    <3>3. \A pc \in {"dial", "serving", "backoff"} : ~Proceed(pc).fresh
      BY DEF Proceed, TypeOK, Agent
    <3> QED BY <3>1, <3>2, <3>3
  <2> QED
    BY <1>2, <1>4, <2>1 DEF AgentPatch
<1>5. CASE AgentGet
  BY <1>5 DEF AgentGet, TypeOK, Agent
<1>6. CASE StartAgent \/ ReplaceAgent \/ CrashAgent
  BY <1>6, FreshTyped, RestFields DEF StartAgent, ReplaceAgent, CrashAgent, Agent
<1>7. CASE AgentConflict \/ OpenTunnel \/ Retry \/ EngineFails \/ AgentReportFails
  <2>1. ~agent'.fresh
    BY <1>7 DEF AgentConflict, OpenTunnel, Retry, EngineFails, AgentReportFails,
                Say, Proceed, TypeOK, Agent
  <2> QED
    BY <2>1
<1>8. CASE UNCHANGED <<api, agent>>
  BY <1>8
<1> QED
  BY <1>1, <1>3, <1>4, <1>5, <1>6, <1>7, <1>8
     DEF Next, ManagerStep, AgentStep, ChangeRefs, CountAvailable, SyncTunnel,
         SyncRefs, SyncDeployment, RestartManager, StartReconcile,
         ResolveReferences, ApplyChildren, ReadDeployment, GetForPatch, PatchFails

\* A report changes no condition the manager owns.
LEMMA ReportKeeps ==
  ASSUME TypeOK, FreshRead, AgentPatch
  PROVE  \A type \in ManagerOwned :
           api'.status.conditions[type] = api.status.conditions[type]
<1>1. agent.read = api
  BY DEF FreshRead, AgentPatch
<1> QED
  BY <1>1, AgentPatchEffect

\* The agent's reports never change a condition the manager owns.
THEOREM AgentKeeps == Spec => AgentKeepsManagerConditions
<1>1. TypeOK /\ FreshRead /\ [Next]_vars
        => [AgentPatch => \A type \in ManagerOwned :
              api'.status.conditions[type] = api.status.conditions[type]]_vars
  BY ReportKeeps
<1> QED
  BY <1>1, InitTyped, StepTyped, FreshInit, FreshStep, PTL
     DEF Spec, AgentKeepsManagerConditions

LEMMA OrderInit == Init => VerdictOrder
<1>1. AcceptedGen(NewTunnel) = 0 /\ NewTunnel.gen = 1
  BY DEF AcceptedGen, NewTunnel, NewStatus, Absent, CondTypes
<1> QED
  BY <1>1, RestFields DEF Init, VerdictOrder

LEMMA Generations ==
  ASSUME TypeOK
  PROVE  /\ api.gen \in Nat /\ cache.gen \in Nat /\ mgr.read.gen \in Nat
         /\ AcceptedGen(api) \in Nat
  BY TunnelFields, TypeNames
     DEF TypeOK, Reconciler, Tunnel, AcceptedGen, ConditionList, Condition

\* Other steps leave the cached tunnel alone and prepare no patch.
LEMMA CacheStep ==
  ASSUME TypeOK, Next, ~SyncTunnel, ~RestartManager, ~GetForPatch, ~PatchStatus
  PROVE  cache' = cache /\ (mgr'.pc = "patch" => mgr' = mgr)
<1> USE RestFields DEF TypeOK, Reconciler
<1>1. CASE StartReconcile
  BY <1>1 DEF StartReconcile, Decide, seen
<1>2. CASE ResolveReferences
  BY <1>2 DEF ResolveReferences, Decide, Goto, seen
<1>3. CASE ApplyChildren
  BY <1>3 DEF ApplyChildren, Goto, Requeue, seen
<1>4. CASE ReadDeployment
  BY <1>4 DEF ReadDeployment, Decide, Requeue, seen
<1>5. CASE PatchFails
  BY <1>5 DEF PatchFails, Return, Requeue, seen
<1>6. CASE UNCHANGED <<cache, mgr>>
  BY <1>6
<1> QED
  BY <1>1, <1>2, <1>3, <1>4, <1>5, <1>6
     DEF Next, ManagerStep, AgentStep, EditSpec, ChangeRefs, CountAvailable,
         StartAgent, ReplaceAgent, CrashAgent, SyncRefs, SyncDeployment, AgentGet,
         AgentPatch, AgentConflict, OpenTunnel, Retry, AgentReportFails,
         EngineFails, seen

\* The manager's own steps, and the caches, keep the order.
LEMMA OrderStep ==
  TypeOK /\ FreshRead /\ VerdictOrder /\ [Next]_vars
    => VerdictOrder' /\ AcceptedGen(api') >= AcceptedGen(api)
<1> SUFFICES ASSUME TypeOK, FreshRead, VerdictOrder, [Next]_vars
             PROVE  VerdictOrder' /\ AcceptedGen(api') >= AcceptedGen(api)
  OBVIOUS
<1> USE Generations
<1>1. CASE UNCHANGED vars
  BY <1>1 DEF vars, VerdictOrder, AcceptedGen
<1>2. CASE PatchStatus
  <2>1. /\ AcceptedGen(api') \in {AcceptedGen(api), mgr.read.gen}
        /\ api'.gen = api.gen
    BY <1>2, ManagerPatch DEF AcceptedGen
  <2>2. mgr.pc = "patch" /\ mgr'.pc = "idle" /\ cache' = cache
    BY <1>2, RestFields DEF PatchStatus, Return, seen
  <2> QED
    BY <2>1, <2>2 DEF VerdictOrder
<1>3. CASE AgentPatch
  <2>1. AcceptedGen(api') = AcceptedGen(api) /\ api'.gen = api.gen
    BY <1>3, ReportKeeps, AgentPatchEffect DEF AcceptedGen, ManagerOwned
  <2>2. mgr' = mgr /\ cache' = cache
    BY <1>3 DEF AgentPatch, seen
  <2> QED
    BY <2>1, <2>2 DEF VerdictOrder
<1>4. CASE Next /\ ~PatchStatus /\ ~AgentPatch
  <2>1. /\ AcceptedGen(api') = AcceptedGen(api)
        /\ api'.gen \in Nat /\ api'.gen >= api.gen
    BY <1>4, StatusStep, StepTyped DEF AcceptedGen, TypeOK, Tunnel
  <2>2. CASE SyncTunnel
    BY <2>1, <2>2 DEF SyncTunnel, VerdictOrder
  <2>3. CASE RestartManager
    BY <2>1, <2>3, RestFields DEF RestartManager, VerdictOrder
  <2>4. CASE GetForPatch
    <3>1. mgr'.read = cache /\ cache' = cache
      BY <2>4 DEF GetForPatch, seen, TypeOK, Reconciler
    <3> QED
      BY <2>1, <3>1 DEF VerdictOrder
  <2>5. CASE ~SyncTunnel /\ ~RestartManager /\ ~GetForPatch
    <3>1. cache' = cache /\ (mgr'.pc = "patch" => mgr' = mgr)
      BY <1>4, <2>5, CacheStep
    <3> QED
      BY <2>1, <3>1 DEF VerdictOrder
  <2> QED
    BY <2>2, <2>3, <2>4, <2>5
<1> QED
  BY <1>1, <1>2, <1>3, <1>4

\* The stored verdict on the spec never goes back to an older generation.
THEOREM VerdictsAdvance == Spec => AcceptedGenerationMonotone
<1>1. TypeOK /\ FreshRead /\ VerdictOrder /\ [Next]_vars
        => [api'.status.conditions["Accepted"].gen
              >= api.status.conditions["Accepted"].gen]_vars
  BY OrderStep DEF AcceptedGen
<1> QED
  BY <1>1, InitTyped, StepTyped, FreshInit, FreshStep, OrderInit, OrderStep, PTL
     DEF Spec, AcceptedGenerationMonotone

-----------------------------------------------------------------------------
(* The settled status.  While nothing is queued and no event is under way, *)
(* what the reconciler has read and decided so far is what is stored; so   *)
(* the patch a pass ends with changes nothing, or sends an event itself.   *)

Quiet == ~queued /\ unseen = {}

\* A cached object is the stored one unless its event is under way.
CachesFollow ==
  /\ "tunnel" \notin unseen => cache = api
  /\ "refs" \notin unseen => refsSeen = refs
  /\ "deployment" \notin unseen => depSeen = dep

\* What a reconciliation of what is stored ends with.
OutcomeNow ==
  IF Blocked THEN BlockReason
             ELSE IF dep.available THEN "available" ELSE "unavailable"

\* A tunnel that is not blocked has a Deployment of its spec.
Applied == ~Blocked => dep.exists /\ dep.gen = api.gen

\* The errors of a patch that Reconcile drops.
MayBeDropped == Blocked /\ "managerError" \in Disturbances

PassIsCurrent ==
  /\ mgr.pc = "resolve" => api.valid /\ mgr.gen = api.gen
  /\ mgr.pc = "apply" => ~Blocked /\ mgr.gen = api.gen
  /\ mgr.pc = "deployment" => ~Blocked /\ Applied
  /\ mgr.pc \in {"get", "patch"} => mgr.outcome = OutcomeNow /\ Applied
  /\ mgr.pc = "patch" => mgr.read = api
  /\ mgr.pc = "idle" /\ ~MayBeDropped =>
       api.status = ManagerStatus(api, OutcomeNow) /\ Applied

SettledInv == CachesFollow /\ (Quiet => PassIsCurrent)

LEMMA MergeSelf ==
  ASSUME NEW s \in Status, NEW after \in Status
  PROVE  Merge(s, s, after) = after
<1>1. DOMAIN s = DOMAIN after
  BY DEF Status
<1>2. Merge(s, s, after) = [f \in DOMAIN after |-> after[f]]
  BY <1>1, Zenon DEF Merge
<1> QED
  BY <1>2 DEF Status

\* The outcome of a reconciliation is one of the outcomes.
LEMMA OutcomeTyped ==
  ASSUME TypeOK
  PROVE  OutcomeNow \in Outcomes /\ (OutcomeNow \in Blocks <=> Blocked)
  BY DEF TypeOK, OutcomeNow, Blocked, BlockReason, Outcomes, Blocks, RefStates

\* A store that sends no event changes nothing.
LEMMA SilentStore ==
  ASSUME NEW value, NEW writer, StoreTunnel(value, writer)
  PROVE  /\ unseen' = {} => value = api /\ api' = api /\ unseen = {}
         /\ "tunnel" \notin unseen' => api' = api /\ "tunnel" \notin unseen
         /\ \A kind : kind # "tunnel" => (kind \in unseen' <=> kind \in unseen)
  BY DEF StoreTunnel

\* The caches, whatever the step.
LEMMA CachesStep ==
  ASSUME TypeOK, CachesFollow, [Next]_vars
  PROVE  CachesFollow'
<1> USE DEF CachesFollow
<1>1. CASE EditSpec
  <2>1. PICK value : StoreTunnel(value, agent)
    BY <1>1 DEF EditSpec
  <2>2. UNCHANGED <<refs, dep, cache, refsSeen, depSeen>>
    BY <1>1 DEF EditSpec, seen
  <2> QED
    BY <2>1, <2>2, SilentStore
<1>2. CASE PatchStatus
  <2>1. PICK value : StoreTunnel(value, agent)
    BY <1>2 DEF PatchStatus
  <2>2. UNCHANGED <<refs, dep, cache, refsSeen, depSeen>>
    BY <1>2 DEF PatchStatus, seen
  <2> QED
    BY <2>1, <2>2, SilentStore
<1>3. CASE AgentPatch
  <2>1. PICK value : StoreTunnel(value, AfterReport)
    BY <1>3 DEF AgentPatch
  <2>2. UNCHANGED <<refs, dep, cache, refsSeen, depSeen>>
    BY <1>3 DEF AgentPatch, seen
  <2> QED
    BY <2>1, <2>2, SilentStore
<1>4. CASE ChangeRefs \/ CountAvailable
  BY <1>4 DEF ChangeRefs, CountAvailable, seen
<1>5. CASE SyncTunnel \/ SyncRefs \/ SyncDeployment \/ RestartManager
  BY <1>5 DEF SyncTunnel, SyncRefs, SyncDeployment, RestartManager
<1>6. CASE ApplyChildren
  BY <1>6 DEF ApplyChildren, seen
<1>7. CASE StartAgent \/ ReplaceAgent \/ CrashAgent \/ AgentGet \/ AgentConflict
           \/ OpenTunnel \/ Retry \/ AgentReportFails \/ EngineFails
  BY <1>7 DEF StartAgent, ReplaceAgent, CrashAgent, AgentGet, AgentConflict, OpenTunnel,
              Retry, AgentReportFails, EngineFails, seen
<1>8. CASE StartReconcile \/ ResolveReferences \/ ReadDeployment \/ GetForPatch
           \/ PatchFails
  BY <1>8 DEF StartReconcile, ResolveReferences, ReadDeployment, GetForPatch, PatchFails,
              seen
<1>9. CASE UNCHANGED vars
  BY <1>9 DEF vars
<1> QED
  BY <1>1, <1>2, <1>3, <1>4, <1>5, <1>6, <1>7, <1>8, <1>9 DEF Next, ManagerStep, AgentStep

\* What is stored and what the reconciler did are as they were.
LEMMA PassKept ==
  ASSUME PassIsCurrent, UNCHANGED <<api, refs, dep, mgr>>
  PROVE  PassIsCurrent'
  BY DEF PassIsCurrent, MayBeDropped, Applied, OutcomeNow, Blocked, BlockReason

\* Steps of the reconciler while nothing is queued and no event is under way.
LEMMA PassStep ==
  ASSUME TypeOK, SettledInv, [Next]_vars
  PROVE  Quiet' => PassIsCurrent'
<1> SUFFICES ASSUME Quiet' PROVE PassIsCurrent'
  OBVIOUS
<1>1. ~queued' /\ unseen' = {} /\ CachesFollow /\ mgr \in Reconciler
  BY DEF Quiet, SettledInv, TypeOK
<1>2. Quiet => PassIsCurrent
  BY DEF SettledInv
<1>3. OutcomeNow \in Outcomes /\ (OutcomeNow \in Blocks <=> Blocked)
  BY OutcomeTyped
<1>4. CASE EditSpec
  <2>1. PICK valid \in BOOLEAN :
          StoreTunnel([gen |-> api.gen + 1, valid |-> valid, status |-> api.status], agent)
    BY <1>4 DEF EditSpec
  <2>2. api.gen = api.gen + 1
    BY <1>1, <2>1, SilentStore
  <2> QED
    BY <2>2 DEF TypeOK, Tunnel
<1>5. CASE AgentPatch
  <2>1. PICK value : StoreTunnel(value, AfterReport)
    BY <1>5 DEF AgentPatch
  <2>2. api' = api /\ unseen = {} /\ UNCHANGED <<refs, dep, queued, mgr>>
    BY <1>1, <1>5, <2>1, SilentStore DEF AgentPatch
  <2> QED
    BY <1>1, <1>2, <2>2, PassKept DEF Quiet
<1>6. CASE ChangeRefs \/ CountAvailable
  BY <1>1, <1>6 DEF ChangeRefs, CountAvailable
<1>7. CASE SyncTunnel \/ SyncRefs \/ SyncDeployment \/ RestartManager
  BY <1>1, <1>7 DEF SyncTunnel, SyncRefs, SyncDeployment, RestartManager
<1>8. CASE StartAgent \/ ReplaceAgent \/ CrashAgent \/ AgentGet \/ AgentConflict
           \/ OpenTunnel \/ Retry \/ AgentReportFails \/ EngineFails \/ UNCHANGED vars
  <2>1. UNCHANGED <<api, refs, dep, queued, mgr, unseen>>
    BY <1>8 DEF StartAgent, ReplaceAgent, CrashAgent, AgentGet, AgentConflict, OpenTunnel,
                Retry, AgentReportFails, EngineFails, vars
  <2> QED
    BY <1>1, <1>2, <2>1, PassKept DEF Quiet
<1>9. CASE StartReconcile
  <2>1. UNCHANGED <<api, refs, dep, unseen>> /\ cache = api
    BY <1>1, <1>9 DEF StartReconcile, CachesFollow
  <2>2. CASE cache.valid
    <3>1. mgr'.pc = "resolve" /\ mgr'.gen = api.gen
      BY <1>1, <1>9, <2>1, <2>2 DEF StartReconcile, Reconciler
    <3> QED
      BY <2>1, <2>2, <3>1 DEF PassIsCurrent
  <2>3. CASE ~cache.valid
    <3>1. mgr'.pc = "get" /\ mgr'.outcome = "InvalidSpec"
      BY <1>1, <1>9, <2>3 DEF StartReconcile, Decide, Reconciler
    <3> QED
      BY <2>1, <2>3, <3>1 DEF PassIsCurrent, Applied, OutcomeNow, Blocked, BlockReason
  <2> QED
    BY <2>2, <2>3
<1>10. CASE ResolveReferences
  <2>1. /\ UNCHANGED <<api, refs, dep, unseen, queued>> /\ refsSeen = refs
        /\ mgr.pc = "resolve" /\ PassIsCurrent
    BY <1>1, <1>2, <1>10 DEF ResolveReferences, CachesFollow, Quiet
  <2>2. CASE refs = "resolved"
    <3>1. mgr'.pc = "apply" /\ mgr'.gen = mgr.gen
      BY <1>1, <1>10, <2>1, <2>2 DEF ResolveReferences, Goto, Reconciler
    <3> QED
      BY <2>1, <2>2, <3>1 DEF PassIsCurrent, Blocked
  <2>3. CASE refs # "resolved"
    <3>1. mgr'.pc = "get" /\ mgr'.outcome = refs
      BY <1>1, <1>10, <2>1, <2>3 DEF ResolveReferences, Decide, Reconciler
    <3> QED
      BY <2>1, <2>3, <3>1 DEF PassIsCurrent, Applied, OutcomeNow, Blocked, BlockReason
  <2> QED
    BY <2>2, <2>3
<1>11. CASE ApplyChildren
  <2>1. /\ UNCHANGED <<api, refs>> /\ mgr.pc = "apply"
        /\ depSeen.exists /\ depSeen.gen = mgr.gen
        /\ Goto("deployment") /\ UNCHANGED <<dep, unseen, queued>>
    BY <1>1, <1>11 DEF ApplyChildren, Requeue
  <2>2. PassIsCurrent /\ depSeen = dep
    BY <1>1, <1>2, <2>1 DEF Quiet, CachesFollow
  <2>3. mgr'.pc = "deployment"
    BY <1>1, <2>1 DEF Goto, Reconciler
  <2> QED
    BY <2>1, <2>2, <2>3 DEF PassIsCurrent, Applied, Blocked
<1>12. CASE ReadDeployment
  <2>1. /\ UNCHANGED <<api, refs, dep, unseen, queued>> /\ mgr.pc = "deployment"
        /\ Decide(IF depSeen.available THEN "available" ELSE "unavailable")
    BY <1>1, <1>12 DEF ReadDeployment, Requeue
  <2>2. PassIsCurrent /\ depSeen = dep
    BY <1>1, <1>2, <2>1 DEF Quiet, CachesFollow
  <2>3. /\ mgr'.pc = "get"
        /\ mgr'.outcome = IF dep.available THEN "available" ELSE "unavailable"
    BY <1>1, <2>1, <2>2 DEF Decide, Reconciler
  <2> QED
    BY <2>1, <2>2, <2>3 DEF PassIsCurrent, Applied, OutcomeNow, Blocked
<1>13. CASE GetForPatch
  <2>1. /\ UNCHANGED <<api, refs, dep, unseen, queued>> /\ mgr.pc = "get"
        /\ mgr' = [mgr EXCEPT !.pc = "patch", !.read = cache]
    BY <1>13 DEF GetForPatch
  <2>2. PassIsCurrent /\ cache = api
    BY <1>1, <1>2, <2>1 DEF Quiet, CachesFollow
  <2>3. mgr'.pc = "patch" /\ mgr'.read = api /\ mgr'.outcome = mgr.outcome
    BY <1>1, <2>1, <2>2 DEF Reconciler
  <2> QED
    BY <2>1, <2>2, <2>3 DEF PassIsCurrent, Applied, OutcomeNow, Blocked, BlockReason
<1>14. CASE PatchStatus
  <2> DEFINE s == Merge(api.status, mgr.read.status, ManagerStatus(mgr.read, mgr.outcome))
  <2>1. StoreTunnel([api EXCEPT !.status = s], agent)
    BY <1>14 DEF PatchStatus
  <2>2. /\ UNCHANGED <<api, refs, dep, unseen, queued>> /\ mgr.pc = "patch"
        /\ [api EXCEPT !.status = s] = api /\ mgr'.pc = "idle"
    BY <1>1, <1>14, <2>1, SilentStore DEF PatchStatus, Return, IdleReconciler
  <2>3. PassIsCurrent
    BY <1>1, <1>2, <2>2 DEF Quiet
  <2>4. mgr.read = api /\ mgr.outcome = OutcomeNow /\ api \in Tunnel /\ api.status \in Status
    BY <2>2, <2>3 DEF PassIsCurrent, TypeOK, Tunnel
  <2>5. ManagerStatus(api, OutcomeNow) \in Status
    BY <1>3, <2>4, ManagerStatusFacts
  <2>6. s = ManagerStatus(api, OutcomeNow)
    BY <2>4, <2>5, MergeSelf
  <2> HIDE DEF s
  <2>7. api.status = s
    BY <2>2, <2>4 DEF Tunnel
  <2> QED
    BY <2>2, <2>3, <2>6, <2>7 DEF PassIsCurrent, Applied, OutcomeNow, Blocked, BlockReason
<1>15. CASE PatchFails
  <2>1. /\ UNCHANGED <<api, refs, dep, unseen>> /\ mgr.pc = "patch"
        /\ "managerError" \in Disturbances
    BY <1>15 DEF PatchFails, Disturb
  <2>2. CASE mgr.outcome \notin Blocks
    BY <1>1, <1>15, <2>2 DEF PatchFails, Requeue
  <2>3. CASE mgr.outcome \in Blocks
    <3>1. mgr'.pc = "idle" /\ UNCHANGED queued
      BY <1>15, <2>3, RestFields DEF PatchFails, Return
    <3>2. PassIsCurrent
      BY <1>1, <1>2, <2>1, <3>1 DEF Quiet
    <3>3. Blocked
      BY <1>3, <2>1, <2>3, <3>2 DEF PassIsCurrent
    <3> QED
      BY <2>1, <3>1, <3>3 DEF PassIsCurrent, MayBeDropped, Blocked
  <2> QED
    BY <2>2, <2>3
<1> QED
  BY <1>4, <1>5, <1>6, <1>7, <1>8, <1>9, <1>10, <1>11, <1>12, <1>13, <1>14, <1>15
     DEF Next, ManagerStep, AgentStep

\* A condition of a status.
Says(s, type, status, reason, gen) ==
  s.conditions[type] = [status |-> status, reason |-> reason, gen |-> gen]

\* What the manager writes about a tunnel that is blocked, by its spec or connection.
LEMMA BlockedVerdicts ==
  ASSUME NEW t \in Tunnel, NEW o, o \in {"InvalidSpec", "ConnectionMissing"},
         NEW s, s = ManagerStatus(t, o)
  PROVE  /\ s.observed = t.gen
         /\ Says(s, "Ready", "False", o, t.gen) /\ Says(s, "Accepted", "False", o, t.gen)
<1>1. t.status.conditions \in ConditionList
  BY TunnelFields
<1>2. ManagerStatus(t, o) = TunnelBlocked(t, o)
  BY DEF ManagerStatus
<1> QED
  BY <1>1, <1>2, TypeNames DEF TunnelBlocked, WithStatus, Set, ConditionList, Says

\* The same of one that is blocked by its Service.
LEMMA TargetVerdicts ==
  ASSUME NEW t \in Tunnel, NEW s, s = ManagerStatus(t, "ServiceMissing")
  PROVE  /\ s.observed = t.gen
         /\ Says(s, "Ready", "False", "ServiceMissing", t.gen)
         /\ Says(s, "Accepted", "True", "Accepted", t.gen)
         /\ Says(s, "Resolved", "False", "ServiceMissing", t.gen)
<1>1. t.status.conditions \in ConditionList
  BY TunnelFields
<1>2. ManagerStatus(t, "ServiceMissing") = TargetBlocked(t)
  BY DEF ManagerStatus
<1> QED
  BY <1>1, <1>2, TypeNames DEF TargetBlocked, WithStatus, Set, ConditionList, Says

\* The same of one that is reconciled.
LEMMA ReconciledVerdicts ==
  ASSUME NEW t \in Tunnel, NEW available \in BOOLEAN,
         NEW s, s = ManagerStatus(t, IF available THEN "available" ELSE "unavailable")
  PROVE  /\ s.observed = t.gen /\ s.lastError = ""
         /\ Says(s, "Accepted", "True", "Accepted", t.gen)
         /\ Says(s, "Resolved", "True", "Resolved", t.gen)
         /\ IsTrue(s.conditions, "AgentReady") <=> available
         /\ IsTrue(s.conditions, "Ready") <=> available /\ IsTrue(s.conditions, "TunnelReady")
<1> DEFINE a == Set(t.status.conditions, "Accepted", "True", "Accepted", t.gen)
           b == Set(a, "Resolved", "True", "Resolved", t.gen)
           c == IF available THEN WithDeployment(b, t.gen) ELSE WithoutDeployment(b, t.gen)
<1>1. t.status.conditions \in ConditionList /\ t.gen \in Nat
  BY TunnelFields
<1>2. /\ b \in ConditionList
      /\ Says(s, "Accepted", "True", "Accepted", t.gen) <=> s.conditions["Accepted"] = b["Accepted"]
      /\ Says(s, "Resolved", "True", "Resolved", t.gen) <=> s.conditions["Resolved"] = b["Resolved"]
  BY <1>1, TypeNames, ReasonNames DEF Set, ConditionList, Condition, Says
<1>3. s.conditions = c /\ s.observed = t.gen /\ s.lastError = ""
  BY DEF ManagerStatus, Reconciled, WithStatus
<1> SUFFICES /\ c["Accepted"] = b["Accepted"] /\ c["Resolved"] = b["Resolved"]
             /\ IsTrue(c, "AgentReady") <=> available
             /\ IsTrue(c, "Ready") <=> available /\ IsTrue(c, "TunnelReady")
  <2> HIDE DEF b, c
  <2> QED
    BY <1>2, <1>3, Zenon
<1> HIDE DEF a, b
<1>4. CASE available
  <2> DEFINE r == Set(b, "AgentReady", "True", "DeploymentAvailable", t.gen)
  <2>1. r \in ConditionList /\ r["Accepted"] = b["Accepted"] /\ r["Resolved"] = b["Resolved"]
        /\ IsTrue(r, "AgentReady")
    BY <1>1, <1>2, TypeNames, ReasonNames DEF Set, ConditionList, Condition, IsTrue
  <2>2. c = IF IsTrue(r, "TunnelReady")
            THEN Set(r, "Ready", "True", "Ready", t.gen)
            ELSE Set(r, "Ready", "False", "WaitingForTunnel", t.gen)
    BY <1>4 DEF WithDeployment
  <2> HIDE DEF r, c
  <2>3. /\ c["Accepted"] = b["Accepted"] /\ c["Resolved"] = b["Resolved"]
        /\ IsTrue(c, "AgentReady") /\ (IsTrue(c, "Ready") <=> IsTrue(c, "TunnelReady"))
    BY <2>1, <2>2, TypeNames DEF Set, ConditionList, IsTrue
  <2> QED
    BY <1>4, <2>3
<1>5. CASE ~available
  <2> DEFINE p == Set(b, "AgentReady", "False", "DeploymentPending", t.gen)
             r == IF p["TunnelReady"].status = "Unknown"
                  THEN Set(p, "TunnelReady", "False", "NotReported", t.gen) ELSE p
  <2>1. p \in ConditionList /\ p["Accepted"] = b["Accepted"] /\ p["Resolved"] = b["Resolved"]
        /\ ~IsTrue(p, "AgentReady")
    BY <1>1, <1>2, TypeNames, ReasonNames DEF Set, ConditionList, Condition, IsTrue
  <2> HIDE DEF p
  <2>2. r \in ConditionList /\ r["Accepted"] = b["Accepted"] /\ r["Resolved"] = b["Resolved"]
        /\ ~IsTrue(r, "AgentReady")
    BY <1>1, <2>1, TypeNames, ReasonNames DEF Set, ConditionList, Condition, IsTrue
  <2>3. c = Set(r, "Ready", "False", "WaitingForDeployment", t.gen)
    BY <1>5 DEF WithoutDeployment, p
  <2> HIDE DEF r, c
  <2>4. /\ c["Accepted"] = b["Accepted"] /\ c["Resolved"] = b["Resolved"]
        /\ ~IsTrue(c, "AgentReady") /\ ~IsTrue(c, "Ready")
    BY <2>2, <2>3, TypeNames DEF Set, ConditionList, IsTrue
  <2> QED
    BY <1>5, <2>4
<1> QED
  BY <1>4, <1>5

\* A status the manager would not change is that of what is stored.
LEMMA FixedPointIsCurrent ==
  TypeOK /\ Applied /\ api.status = ManagerStatus(api, OutcomeNow)
    => /\ api.status.observed = api.gen
       /\ IF Blocked THEN BlockIsReported ELSE ReconciledIsReported
<1>1. ASSUME TypeOK, Applied, api.status = ManagerStatus(api, OutcomeNow)
      PROVE  /\ api.status.observed = api.gen
             /\ IF Blocked THEN BlockIsReported ELSE ReconciledIsReported
  <2> DEFINE s == api.status
             is(type, status, reason) == Says(s, type, status, reason, api.gen)
  <2>1. api \in Tunnel /\ dep.available \in BOOLEAN
    BY <1>1 DEF TypeOK, Deployment
  <2>2. CASE Blocked /\ BlockReason \in {"InvalidSpec", "ConnectionMissing"}
    <3>1. s = ManagerStatus(api, BlockReason)
      BY <1>1, <2>2 DEF OutcomeNow
    <3>2. /\ s.observed = api.gen
          /\ is("Ready", "False", BlockReason) /\ is("Accepted", "False", BlockReason)
      BY <2>1, <2>2, <3>1, BlockedVerdicts
    <3> QED
      BY <2>2, <3>2 DEF BlockIsReported, Verdict, Says
  <2>3. CASE Blocked /\ BlockReason = "ServiceMissing"
    <3>1. s = ManagerStatus(api, "ServiceMissing")
      BY <1>1, <2>3 DEF OutcomeNow
    <3>2. /\ s.observed = api.gen
          /\ is("Ready", "False", "ServiceMissing") /\ is("Accepted", "True", "Accepted")
          /\ is("Resolved", "False", "ServiceMissing")
      BY <2>1, <3>1, TargetVerdicts
    <3> QED
      BY <2>3, <3>2 DEF BlockIsReported, Verdict, Says
  <2>4. CASE ~Blocked
    <3>1. s = ManagerStatus(api, IF dep.available THEN "available" ELSE "unavailable")
      BY <1>1, <2>4 DEF OutcomeNow
    <3>2. /\ s.observed = api.gen /\ s.lastError = ""
          /\ is("Accepted", "True", "Accepted") /\ is("Resolved", "True", "Resolved")
      BY <2>1, <3>1, ReconciledVerdicts
    <3>3. /\ IsTrue(s.conditions, "AgentReady") <=> dep.available
          /\ IsTrue(s.conditions, "Ready")
               <=> dep.available /\ IsTrue(s.conditions, "TunnelReady")
      BY <2>1, <3>1, ReconciledVerdicts
    <3>4. dep.gen = api.gen
      BY <1>1, <2>4 DEF Applied
    <3>5. s.conditions["Accepted"]
            = [status |-> "True", reason |-> "Accepted", gen |-> api.gen]
      BY <3>2, Zenon DEF Says
    <3>6. s.conditions["Resolved"]
            = [status |-> "True", reason |-> "Resolved", gen |-> api.gen]
      BY <3>2, Zenon DEF Says
    <3>7. Verdict("Accepted") = <<"True", "Accepted", api.gen>>
      <4> HIDE DEF is
      <4> QED
        BY <3>5 DEF Verdict
    <3>8. Verdict("Resolved") = <<"True", "Resolved", api.gen>>
      <4> HIDE DEF is
      <4> QED
        BY <3>6 DEF Verdict
    <3> QED
      BY <2>4, <3>2, <3>3, <3>4, <3>7, <3>8, Zenon DEF ReconciledIsReported
  <2> QED
    BY <1>1, <2>2, <2>3, <2>4 DEF Blocked, BlockReason, TypeOK, RefStates
<1> QED
  BY <1>1

LEMMA SettledInvariant == Spec => [](TypeOK /\ SettledInv)
<1>1. Init => SettledInv
  BY DEF Init, SettledInv, CachesFollow, Quiet
<1>2. TypeOK /\ SettledInv /\ [Next]_vars => SettledInv'
  BY CachesStep, PassStep DEF SettledInv
<1> QED
  BY <1>1, <1>2, InitTyped, StepTyped, PTL DEF Spec

\* When the manager has nothing left to do, the status of a tunnel that is not
\* blocked is that of the stored spec, references and Deployment, for any number of
\* edits, crashes, restarts and failed patches of both writers.
THEOREM ReconciledSettles == Spec => []SettledReconciledIsCurrent
<1>1. TypeOK /\ SettledInv => SettledReconciledIsCurrent
  <2> SUFFICES ASSUME TypeOK, SettledInv, Settled, ~Blocked
               PROVE  api.status.observed = api.gen /\ ReconciledIsReported
    BY DEF SettledReconciledIsCurrent
  <2>1. api.status = ManagerStatus(api, OutcomeNow) /\ Applied
    BY DEF SettledInv, Quiet, Settled, PassIsCurrent, MayBeDropped
  <2> QED
    BY <2>1, FixedPointIsCurrent
<1> QED
  BY <1>1, SettledInvariant, PTL

\* So is that of a blocked tunnel, if no status patch of the manager fails: Reconcile
\* drops that error of a blocked tunnel.
THEOREM StatusSettles ==
  ASSUME "managerError" \notin Disturbances
  PROVE  Spec => []SettledStatusIsCurrent
<1>1. TypeOK /\ SettledInv => SettledStatusIsCurrent
  <2> SUFFICES ASSUME TypeOK, SettledInv, Settled
               PROVE  /\ api.status.observed = api.gen
                      /\ IF Blocked THEN BlockIsReported ELSE ReconciledIsReported
    BY DEF SettledStatusIsCurrent
  <2>1. api.status = ManagerStatus(api, OutcomeNow) /\ Applied
    BY DEF SettledInv, Quiet, Settled, PassIsCurrent, MayBeDropped
  <2> QED
    BY <2>1, FixedPointIsCurrent
<1> QED
  BY <1>1, SettledInvariant, PTL

\* So a missing reference is reported unless the error of a patch was dropped: that is
\* the only way in which it is not.
THEOREM MissingIsReported ==
  ASSUME "managerError" \notin Disturbances
  PROVE  Spec => []MissingReferenceIsReported
<1>1. SettledStatusIsCurrent => MissingReferenceIsReported
  BY DEF SettledStatusIsCurrent, MissingReferenceIsReported, Blocked, BlockIsReported,
         BlockReason
<1> QED BY <1>1, StatusSettles, PTL
=============================================================================
