------------------------ MODULE TunnelLifecycleProofs ------------------------
(***************************************************************************)
(* Proofs about TunnelLifecycle, for every set of managers and kinds and   *)
(* any number of incarnations and disturbances; those about orphans and    *)
(* about what a Deployment needs are about one manager.                    *)
(***************************************************************************)
EXTENDS TunnelLifecycle, TLAPS

Copy == Tunnel \cup {NoTunnel}

-----------------------------------------------------------------------------
(* Types                                                                   *)

LEMMA CopyTyped ==
  /\ NoTunnel \in Copy
  /\ \A uid \in Incarnations : [NoTunnel EXCEPT !.uid = uid] \in Tunnel
  /\ \A t \in Tunnel, b \in BOOLEAN : /\ [t EXCEPT !.deleting = b] \in Tunnel
                                      /\ [t EXCEPT !.finalizer = b] \in Tunnel
                                      /\ [t EXCEPT !.finalizing = b] \in Tunnel
  BY DEF Copy, NoTunnel, Tunnel

\* Only NoTunnel has the UID of nobody.
LEMMA CopyFields ==
  ASSUME NEW copy \in Copy
  PROVE  /\ copy.uid \in Nat /\ copy.uid <= MaxIncarnations
         /\ copy.deleting \in BOOLEAN /\ copy.finalizer \in BOOLEAN
         /\ copy.uid = 0 <=> copy = NoTunnel
         /\ copy # NoTunnel => copy \in Tunnel
         /\ copy = NoTunnel => ~copy.deleting /\ ~copy.finalizer
<1>1. copy.deleting \in BOOLEAN /\ copy.finalizer \in BOOLEAN
  <2>1. CASE copy = NoTunnel
    BY <2>1 DEF NoTunnel
  <2>2. CASE copy \in Tunnel
    BY <2>2 DEF Tunnel
  <2> QED
    BY <2>1, <2>2 DEF Copy
<1>2. /\ copy.uid \in Nat /\ copy.uid <= MaxIncarnations
      /\ copy.uid = 0 <=> copy = NoTunnel
      /\ copy # NoTunnel => copy \in Tunnel
  BY LifecycleAssumption DEF Copy, NoTunnel, Tunnel, Incarnations
<1>3. copy = NoTunnel => ~copy.deleting /\ ~copy.finalizer
  BY DEF NoTunnel
<1> QED
  BY <1>1, <1>2, <1>3

LEMMA StoreTunnelTyped ==
  ASSUME TypeOK, NEW value \in Copy, StoreTunnel(value)
  PROVE  /\ tunnel' \in Copy /\ children' \subseteq Child
         /\ unseen' \in [Managers -> SUBSET (Kinds \cup {"Tunnel"})]
         /\ cache' \in [Managers -> Copy] /\ seen' \in [Managers -> SUBSET Child]
  BY DEF TypeOK, StoreTunnel, Copy

LEMMA StoreChildrenTyped ==
  ASSUME TypeOK, NEW value \in SUBSET Child, StoreChildren(value)
  PROVE  /\ tunnel' \in Copy /\ children' \subseteq Child
         /\ unseen' \in [Managers -> SUBSET (Kinds \cup {"Tunnel"})]
         /\ cache' \in [Managers -> Copy] /\ seen' \in [Managers -> SUBSET Child]
  BY DEF TypeOK, StoreChildren, Copy

LEMMA IdleTyped == Idle \in Reconciler
  BY DEF Idle, Reconciler, Tunnel, NoTunnel

\* What Reconcile makes of its own state and of the queue.
LEMMA ReconcilerTyped ==
  ASSUME TypeOK, NEW m \in Managers
  PROVE  /\ Return(m) => mgr' \in [Managers -> Reconciler] /\ queued' = queued
         /\ Fail(m) => /\ mgr' \in [Managers -> Reconciler]
                       /\ queued' \in [Managers -> BOOLEAN]
         /\ \A kind \in Kinds : Done(m, kind) =>
              mgr' \in [Managers -> Reconciler] /\ queued' = queued
         /\ Marked(m) => mgr' \in [Managers -> Reconciler] /\ queued' = queued
         /\ \A pc \in {"adopt", "blocked", "apply", "mark"}, todo \in SUBSET Kinds :
              Begin(m, pc, todo) => mgr' \in [Managers -> Reconciler]
<1>1. Return(m) => mgr' \in [Managers -> Reconciler] /\ queued' = queued
  BY IdleTyped DEF TypeOK, Return
<1>2. Fail(m) => mgr' \in [Managers -> Reconciler]
  BY IdleTyped DEF TypeOK, Fail
<1>3. Fail(m) => queued' \in [Managers -> BOOLEAN]
  BY DEF TypeOK, Fail
<1>4. ASSUME NEW kind \in Kinds, Done(m, kind)
      PROVE  mgr' \in [Managers -> Reconciler] /\ queued' = queued
  BY <1>4 DEF TypeOK, Done, Reconciler
<1>5. Marked(m) => mgr' \in [Managers -> Reconciler] /\ queued' = queued
  BY SMTT(60) DEF TypeOK, Marked, Reconciler
<1>6. ASSUME NEW pc \in {"adopt", "blocked", "apply", "mark"},
             NEW todo \in SUBSET Kinds, Begin(m, pc, todo)
      PROVE  mgr' \in [Managers -> Reconciler]
  <2>1. [pc |-> pc, read |-> cache[m], todo |-> todo] \in Reconciler
    BY DEF TypeOK, Reconciler
  <2> QED
    BY <1>6, <2>1 DEF TypeOK, Begin
<1> QED
  BY <1>1, <1>2, <1>3, <1>4, <1>5, <1>6

LEMMA PatchTyped ==
  ASSUME TypeOK, NEW m \in Managers, NEW f \in BOOLEAN, PatchStatus(m, f)
  PROVE  /\ tunnel' \in Copy /\ children' \subseteq Child
         /\ unseen' \in [Managers -> SUBSET (Kinds \cup {"Tunnel"})]
         /\ cache' \in [Managers -> Copy] /\ seen' \in [Managers -> SUBSET Child]
<1>1. CASE UNCHANGED <<tunnel, children, caches>>
  BY <1>1 DEF TypeOK, caches, Copy
<1>2. CASE tunnel # NoTunnel /\ StoreTunnel([tunnel EXCEPT !.finalizing = f])
  <2>1. [tunnel EXCEPT !.finalizing = f] \in Copy
    BY <1>2, CopyTyped DEF TypeOK, Copy
  <2> QED
    BY <1>2, <2>1, StoreTunnelTyped
<1> QED
  BY <1>1, <1>2 DEF PatchStatus

LEMMA InitTyped == Init => TypeOK
  BY IdleTyped, LifecycleAssumption DEF Init, TypeOK

\* Whoever does something to a tunnel has read one: an update that adds the
\* finalizer never starts from nothing.  Types are not inductive without it.
ReadsTunnel == \A m \in Managers : mgr[m].pc # "idle" => mgr[m].read # NoTunnel

LEMMA StepReads == TypeOK /\ ReadsTunnel /\ [Next]_vars => ReadsTunnel'
<1> SUFFICES ASSUME TypeOK, ReadsTunnel, [Next]_vars PROVE ReadsTunnel'
  OBVIOUS
<1>1. ASSUME NEW m \in Managers, Return(m) \/ Fail(m) \/ mgr' = [mgr EXCEPT ![m] = Idle]
      PROVE  ReadsTunnel'
  BY <1>1 DEF Return, Fail, Idle, ReadsTunnel, TypeOK
<1>2. ASSUME NEW m \in Managers, NEW kind \in Kinds, Done(m, kind),
             mgr[m].pc # "idle"
      PROVE  ReadsTunnel'
  BY <1>2 DEF Done, ReadsTunnel, TypeOK, Reconciler
<1>3. ASSUME NEW m \in Managers, NEW pc,
             mgr' = [mgr EXCEPT ![m].pc = pc], mgr[m].pc # "idle"
      PROVE  ReadsTunnel'
  BY <1>3 DEF ReadsTunnel, TypeOK, Reconciler
<1>4. ASSUME NEW m \in Managers, StartReconcile(m) PROVE ReadsTunnel'
  <2>1. cache[m] \in Copy
    BY DEF TypeOK, Copy
  <2>2. UNCHANGED mgr => ReadsTunnel'
    BY DEF ReadsTunnel
  <2>3. ASSUME NEW pc, NEW todo, Begin(m, pc, todo), cache[m] # NoTunnel
        PROVE  ReadsTunnel'
    BY <2>3 DEF Begin, ReadsTunnel, TypeOK
  <2> QED
    BY <1>4, <2>1, <2>2, <2>3, CopyFields DEF StartReconcile
<1>5. UNCHANGED mgr => ReadsTunnel'
  BY DEF ReadsTunnel
<1>6. ASSUME NEW m \in Managers, AddFinalizer(m) \/ MarkBlocked(m) \/ MarkReconciled(m)
      PROVE  ReadsTunnel'
  BY <1>6, <1>1 DEF AddFinalizer, MarkBlocked, MarkReconciled
<1>7. ASSUME NEW m \in Managers, ApplyChild(m) \/ DeleteNext(m) PROVE ReadsTunnel'
  BY <1>7, <1>1, <1>2 DEF ApplyChild, DeleteNext
<1>8. ASSUME NEW m \in Managers, CheckDeployment(m) PROVE ReadsTunnel'
  BY <1>8, <1>1, <1>3 DEF CheckDeployment
<1>9. ASSUME NEW m \in Managers, MarkFinalizing(m) PROVE ReadsTunnel'
  BY <1>9, <1>3 DEF MarkFinalizing, Marked
<1>10. ASSUME NEW m \in Managers, RemoveFinalizer(m) PROVE ReadsTunnel'
  BY <1>10, <1>1 DEF RemoveFinalizer
<1>11. ASSUME NEW m \in Managers, CallFails(m) PROVE ReadsTunnel'
  BY <1>11, <1>1, <1>3 DEF CallFails, Marked
<1>12. ASSUME NEW m \in Managers, RestartManager(m) PROVE ReadsTunnel'
  BY <1>12, <1>1 DEF RestartManager
<1>13. CASE CreateTunnel \/ DeleteTunnel \/ DeleteChild \/ Collect
  BY <1>13, <1>5 DEF CreateTunnel, DeleteTunnel, DeleteChild, Collect
<1>14. ASSUME NEW m \in Managers, SyncTunnel(m) \/ SyncChildren(m) PROVE ReadsTunnel'
  BY <1>14, <1>5 DEF SyncTunnel, SyncChildren, SeeChildren
<1>15. CASE UNCHANGED vars
  BY <1>15, <1>5 DEF vars
<1> QED
  BY <1>4, <1>6, <1>7, <1>8, <1>9, <1>10, <1>11, <1>12, <1>13, <1>14, <1>15
     DEF Next, Reconcile

\* One step for each action: what it stores and what the reconciler keeps are
\* typed, and so is the rest.
LEMMA StepTyped == TypeOK /\ ReadsTunnel /\ [Next]_vars => TypeOK'
<1> SUFFICES ASSUME TypeOK, ReadsTunnel, [Next]_vars PROVE TypeOK'
  OBVIOUS
<1> DEFINE Typed ==
      /\ tunnel' \in Copy /\ children' \subseteq Child
      /\ unseen' \in [Managers -> SUBSET (Kinds \cup {"Tunnel"})]
      /\ cache' \in [Managers -> Copy] /\ seen' \in [Managers -> SUBSET Child]
<1>1. ASSUME Typed, mgr' \in [Managers -> Reconciler],
             queued' \in [Managers -> BOOLEAN],
             UNCHANGED <<created, resolved>>, left' \in 0 .. MaxDisturbances
      PROVE  TypeOK'
  BY <1>1 DEF TypeOK, Copy
<1>2. UNCHANGED <<tunnel, children, caches>> => Typed
  BY DEF TypeOK, caches, Copy
<1>3. UNCHANGED left => left' \in 0 .. MaxDisturbances
  BY DEF TypeOK
<1>4. \A kind : Disturb(kind) => left' \in 0 .. MaxDisturbances
  BY LifecycleAssumption DEF TypeOK, Disturb
<1>5. UNCHANGED <<queued, mgr>> => /\ mgr' \in [Managers -> Reconciler]
                                  /\ queued' \in [Managers -> BOOLEAN]
  BY DEF TypeOK
<1>6. queued \in [Managers -> BOOLEAN]
  BY DEF TypeOK
<1>7. \A uid \in Incarnations, kind \in Kinds : ChildOf(uid, kind) \in Child
  BY DEF ChildOf, Child, NameOf, Names
<1>8. CASE CreateTunnel
  <2>1. created + 1 \in Incarnations
    BY <1>8, LifecycleAssumption DEF TypeOK, CreateTunnel, Incarnations
  <2>2. [NoTunnel EXCEPT !.uid = created + 1] \in Copy
    BY <2>1, CopyTyped DEF Copy
  <2>3. Typed
    BY <1>8, <2>2, StoreTunnelTyped DEF CreateTunnel
  <2>4. created' \in 0 .. MaxIncarnations
    BY <1>8, <2>1, LifecycleAssumption DEF CreateTunnel, Incarnations, TypeOK
  <2> QED
    BY <1>8, <1>3, <1>5, <2>3, <2>4 DEF CreateTunnel, TypeOK, Copy
<1>9. CASE DeleteTunnel
  <2>1. (IF tunnel.finalizer THEN [tunnel EXCEPT !.deleting = TRUE] ELSE NoTunnel)
          \in Copy
    BY <1>9, CopyTyped DEF DeleteTunnel, TypeOK, Copy
  <2>2. Typed
    BY <1>9, <2>1, StoreTunnelTyped DEF DeleteTunnel
  <2> QED
    BY <1>9, <2>2, <1>1, <1>3, <1>5 DEF DeleteTunnel
<1>10. CASE DeleteChild
  <2>1. PICK child \in children :
          Disturb(child.kind) /\ StoreChildren(children \ {child})
    BY <1>10 DEF DeleteChild
  <2>2. children \ {child} \in SUBSET Child
    BY DEF TypeOK
  <2>3. Typed
    BY <2>1, <2>2, StoreChildrenTyped
  <2> QED
    BY <1>10, <2>1, <2>3, <1>1, <1>4, <1>5 DEF DeleteChild
<1>11. CASE Collect
  <2>1. PICK child \in children : StoreChildren(children \ {child})
    BY <1>11 DEF Collect
  <2>2. children \ {child} \in SUBSET Child
    BY DEF TypeOK
  <2>3. Typed
    BY <2>1, <2>2, StoreChildrenTyped
  <2> QED
    BY <1>11, <2>3, <1>1, <1>3, <1>5 DEF Collect
<1>12. ASSUME NEW m \in Managers, SyncTunnel(m) PROVE TypeOK'
  <2>1. queued' \in [Managers -> BOOLEAN]
    BY <1>12, <1>6 DEF SyncTunnel
  <2>2. Typed
    BY <1>12 DEF SyncTunnel, cluster, TypeOK, Copy
  <2>3. mgr' \in [Managers -> Reconciler] /\ UNCHANGED <<created, resolved, left>>
    BY <1>12 DEF SyncTunnel, cluster, TypeOK
  <2> QED
    BY <2>1, <2>2, <2>3, <1>1, <1>3
<1>13. ASSUME NEW m \in Managers, SyncChildren(m) PROVE TypeOK'
  <2>1. queued' \in [Managers -> BOOLEAN]
    BY <1>13, <1>6 DEF SyncChildren
  <2>2. PICK kind \in Kinds :
          /\ unseen' = [unseen EXCEPT ![m] = @ \ {kind}]
          /\ seen' = [seen EXCEPT ![m] = (@ \ OfKind(@, kind)) \cup OfKind(children, kind)]
    BY <1>13 DEF SyncChildren, SeeChildren
  <2>3. OfKind(children, kind) \subseteq Child
    BY DEF TypeOK, OfKind
  <2>4. Typed
    BY <1>13, <2>2, <2>3 DEF SyncChildren, SeeChildren, cluster, TypeOK, Copy
  <2>5. mgr' \in [Managers -> Reconciler] /\ UNCHANGED <<created, resolved, left>>
    BY <1>13 DEF SyncChildren, SeeChildren, cluster, TypeOK
  <2> QED
    BY <2>1, <2>4, <2>5, <1>1, <1>3
<1>14. ASSUME NEW m \in Managers, RestartManager(m) PROVE TypeOK'
  <2>1. queued' \in [Managers -> BOOLEAN]
    BY <1>14, <1>6 DEF RestartManager
  <2>2. Typed
    BY <1>14 DEF RestartManager, cluster, TypeOK, Copy
  <2>3. mgr' \in [Managers -> Reconciler] /\ UNCHANGED <<created, resolved>>
    BY <1>14, IdleTyped DEF RestartManager, cluster, TypeOK
  <2> QED
    BY <1>14, <2>1, <2>2, <2>3, <1>1, <1>4 DEF RestartManager
<1>15. ASSUME NEW m \in Managers, StartReconcile(m) PROVE TypeOK'
  <2>1. queued' \in [Managers -> BOOLEAN]
    BY <1>15, <1>6 DEF StartReconcile
  <2>2. \/ UNCHANGED mgr
        \/ \E pc \in {"adopt", "blocked", "apply", "mark"}, todo \in SUBSET Kinds :
             Begin(m, pc, todo)
    BY <1>15 DEF StartReconcile, Deleted
  <2>3. mgr' \in [Managers -> Reconciler]
    BY <2>2, ReconcilerTyped DEF TypeOK
  <2>4. UNCHANGED <<tunnel, children, caches, created, resolved, left>>
    BY <1>15 DEF StartReconcile, cluster, caches
  <2> QED
    BY <2>1, <2>3, <2>4, <1>1, <1>2, <1>3
<1>16. ASSUME NEW m \in Managers, AddFinalizer(m) PROVE TypeOK'
  <2>1. CASE mgr[m].read = tunnel /\ Return(m)
             /\ StoreTunnel([tunnel EXCEPT !.finalizer = TRUE])
    <3>1. tunnel \in Tunnel
      BY <1>16, <2>1 DEF AddFinalizer, TypeOK, ReadsTunnel
    <3>2. [tunnel EXCEPT !.finalizer = TRUE] \in Copy
      BY <3>1, CopyTyped DEF Copy
    <3> QED
      BY <1>16, <2>1, <3>2, <1>1, <1>3, <1>6, StoreTunnelTyped, ReconcilerTyped
         DEF AddFinalizer
  <2>2. CASE Fail(m) /\ UNCHANGED <<tunnel, children, caches>>
    BY <1>16, <2>2, <1>1, <1>2, <1>3, ReconcilerTyped DEF AddFinalizer
  <2> QED
    BY <1>16, <2>1, <2>2 DEF AddFinalizer
<1>17. ASSUME NEW m \in Managers, NEW finalizing \in BOOLEAN,
              PatchStatus(m, finalizing), Return(m) \/ Fail(m) \/ Marked(m),
              UNCHANGED <<created, resolved, left>>
       PROVE  TypeOK'
  BY <1>17, <1>1, <1>3, <1>6, PatchTyped, ReconcilerTyped
<1>18. ASSUME NEW m \in Managers, MarkBlocked(m) PROVE TypeOK'
  BY <1>18, <1>17 DEF MarkBlocked
<1>19. ASSUME NEW m \in Managers, MarkReconciled(m) PROVE TypeOK'
  BY <1>19, <1>17 DEF MarkReconciled
<1>20. ASSUME NEW m \in Managers, MarkFinalizing(m) PROVE TypeOK'
  BY <1>20, <1>17 DEF MarkFinalizing
<1>21. ASSUME NEW m \in Managers, ApplyChild(m) PROVE TypeOK'
  <2>1. PICK kind \in Kinds :
          LET child == ChildOf(mgr[m].read.uid, kind)
          IN  \/ /\ StoreChildren(children \cup {child})
                 /\ mgr[m].read # NoTunnel /\ Done(m, kind)
              \/ Done(m, kind) /\ UNCHANGED <<tunnel, children, caches>>
              \/ Fail(m) /\ UNCHANGED <<tunnel, children, caches>>
    BY <1>21 DEF ApplyChild, ReadsTunnel
  <2>2. UNCHANGED <<created, resolved, left>>
    BY <1>21 DEF ApplyChild
  <2>3. CASE /\ StoreChildren(children \cup {ChildOf(mgr[m].read.uid, kind)})
             /\ mgr[m].read # NoTunnel /\ Done(m, kind)
    <3>1. mgr[m].read \in Tunnel
      BY <2>3 DEF TypeOK, Reconciler
    <3>2. children \cup {ChildOf(mgr[m].read.uid, kind)} \in SUBSET Child
      BY <3>1, <1>7 DEF TypeOK, Tunnel
    <3> QED
      BY <2>2, <2>3, <3>2, <1>1, <1>3, <1>6, StoreChildrenTyped, ReconcilerTyped
  <2> QED
    BY <2>1, <2>2, <2>3, <1>1, <1>2, <1>3, <1>6, ReconcilerTyped
<1>22. ASSUME NEW m \in Managers, CheckDeployment(m) PROVE TypeOK'
  <2>1. Typed /\ UNCHANGED <<created, resolved, left>>
    BY <1>22, <1>2 DEF CheckDeployment, cluster
  <2>2. mgr' = [mgr EXCEPT ![m].pc = "ready"] => mgr' \in [Managers -> Reconciler]
    BY SMTT(60) DEF TypeOK, Reconciler
  <2> QED
    BY <1>22, <2>1, <2>2, <1>1, <1>3, <1>6, ReconcilerTyped DEF CheckDeployment
<1>23. ASSUME NEW m \in Managers, DeleteNext(m) PROVE TypeOK'
  <2>1. PICK kind \in Kinds :
          /\ StoreChildren(children \ {ChildOf(mgr[m].read.uid, kind)})
          /\ Done(m, kind)
    BY <1>23 DEF DeleteNext
  <2>2. children \ {ChildOf(mgr[m].read.uid, kind)} \in SUBSET Child
    BY DEF TypeOK
  <2> QED
    BY <1>23, <2>1, <2>2, <1>1, <1>3, <1>6, StoreChildrenTyped, ReconcilerTyped
       DEF DeleteNext
<1>24. ASSUME NEW m \in Managers, RemoveFinalizer(m) PROVE TypeOK'
  <2>1. CASE (Return(m) \/ Fail(m)) /\ UNCHANGED <<tunnel, children, caches>>
    BY <1>24, <2>1, <1>1, <1>2, <1>3, <1>6, ReconcilerTyped DEF RemoveFinalizer
  <2>2. CASE /\ tunnel.finalizer /\ Return(m)
             /\ StoreTunnel(IF tunnel.deleting THEN NoTunnel
                                               ELSE [tunnel EXCEPT !.finalizer = FALSE])
    <3>1. tunnel \in Tunnel
      BY <2>2, CopyFields DEF TypeOK, Copy
    <3>2. (IF tunnel.deleting THEN NoTunnel ELSE [tunnel EXCEPT !.finalizer = FALSE])
            \in Copy
      BY <3>1, CopyTyped DEF Copy
    <3> QED
      BY <1>24, <2>2, <3>2, <1>1, <1>3, <1>6, StoreTunnelTyped, ReconcilerTyped
         DEF RemoveFinalizer
  <2> QED
    BY <1>24, <2>1, <2>2 DEF RemoveFinalizer
<1>25. ASSUME NEW m \in Managers, CallFails(m) PROVE TypeOK'
  <2>1. Typed /\ UNCHANGED <<created, resolved>>
    BY <1>25, <1>2 DEF CallFails, cluster
  <2> QED
    BY <1>25, <2>1, <1>1, <1>4, <1>6, ReconcilerTyped DEF CallFails
<1>26. CASE UNCHANGED vars
  BY <1>26, <1>1, <1>2, <1>3, <1>5 DEF vars, caches
<1> QED
  BY <1>8, <1>9, <1>10, <1>11, <1>12, <1>13, <1>14, <1>15, <1>16, <1>18, <1>19,
     <1>20, <1>21, <1>22, <1>23, <1>24, <1>25, <1>26
     DEF Next, Reconcile

LEMMA InitReads == Init => ReadsTunnel
  BY DEF Init, ReadsTunnel, Idle

\* Every reachable state is well typed.
THEOREM TypeCorrect == Spec => []TypeOK
<1>1. Spec => [](TypeOK /\ ReadsTunnel)
  BY InitTyped, InitReads, StepTyped, StepReads, PTL DEF Spec
<1> QED
  BY <1>1, PTL

-----------------------------------------------------------------------------
(* Finalizing spares the children of other tunnels                         *)

\* A copy of a tunnel is never ahead of the API server: it is of an incarnation
\* that was created, and when it is deleted so is the stored one of that UID.
Known(copy) ==
  /\ copy.uid <= created
  /\ copy.deleting /\ copy.uid = tunnel.uid => tunnel.deleting

CopiesKnown ==
  /\ tunnel.uid <= created
  /\ \A m \in Managers : Known(cache[m]) /\ Known(mgr[m].read)

\* finalize runs for a tunnel that was read as deleted.
FinalizesDeleted ==
  \A m \in Managers : mgr[m].pc \in {"mark", "delete"} => mgr[m].read.deleting

SparesInv == TypeOK /\ ReadsTunnel /\ CopiesKnown /\ FinalizesDeleted

LEMMA InitSpares == Init => CopiesKnown /\ FinalizesDeleted
  BY DEF Init, CopiesKnown, FinalizesDeleted, Known, Idle, NoTunnel

\* What a step may make of the stored tunnel: a deletion is not taken back, and
\* another tunnel has a UID that was never used.
Evolves ==
  \/ /\ tunnel'.uid = tunnel.uid /\ created' = created
     /\ tunnel.deleting => tunnel'.deleting
  \/ tunnel' = NoTunnel /\ created' = created
  \/ tunnel'.uid = created + 1 /\ created' = created + 1

LEMMA StepEvolves == TypeOK /\ ReadsTunnel /\ [Next]_vars => Evolves
<1> SUFFICES ASSUME TypeOK, ReadsTunnel, [Next]_vars PROVE Evolves
  OBVIOUS
<1>1. UNCHANGED <<tunnel, created>> => Evolves
  BY DEF Evolves
<1>2. ASSUME NEW t \in Tunnel,
             tunnel \in Tunnel => t = tunnel
      PROVE  /\ [t EXCEPT !.finalizer = TRUE].uid = t.uid
             /\ [t EXCEPT !.finalizer = TRUE].deleting = t.deleting
             /\ [t EXCEPT !.finalizer = FALSE].uid = t.uid
             /\ [t EXCEPT !.finalizer = FALSE].deleting = t.deleting
             /\ [t EXCEPT !.deleting = TRUE].uid = t.uid
             /\ [t EXCEPT !.deleting = TRUE].deleting
             /\ \A b \in BOOLEAN : /\ [t EXCEPT !.finalizing = b].uid = t.uid
                                   /\ [t EXCEPT !.finalizing = b].deleting = t.deleting
  BY DEF Tunnel
<1>3. tunnel # NoTunnel => tunnel \in Tunnel
  BY DEF TypeOK
<1>4. CASE CreateTunnel
  BY <1>4 DEF CreateTunnel, StoreTunnel, Evolves, NoTunnel
<1>5. CASE DeleteTunnel
  BY <1>5, <1>2, <1>3 DEF DeleteTunnel, StoreTunnel, Evolves
<1>6. CASE DeleteChild \/ Collect
  BY <1>6, <1>1 DEF DeleteChild, Collect, StoreChildren
<1>7. ASSUME NEW m \in Managers,
             SyncTunnel(m) \/ SyncChildren(m) \/ RestartManager(m) \/ CallFails(m)
               \/ StartReconcile(m) \/ CheckDeployment(m)
      PROVE  Evolves
  BY <1>7, <1>1 DEF SyncTunnel, SyncChildren, SeeChildren, RestartManager, CallFails,
     StartReconcile, CheckDeployment, cluster
<1>8. ASSUME NEW m \in Managers, ApplyChild(m) \/ DeleteNext(m) PROVE Evolves
  BY <1>8, <1>1 DEF ApplyChild, DeleteNext, StoreChildren
<1>9. ASSUME NEW m \in Managers, AddFinalizer(m) PROVE Evolves
  <2>1. CASE UNCHANGED tunnel
    BY <1>9, <2>1, <1>1 DEF AddFinalizer
  <2>2. CASE mgr[m].read = tunnel /\ StoreTunnel([tunnel EXCEPT !.finalizer = TRUE])
    <3>1. tunnel \in Tunnel
      BY <1>9, <2>2, <1>3 DEF AddFinalizer, ReadsTunnel
    <3> QED
      BY <1>9, <2>2, <3>1, <1>2 DEF AddFinalizer, StoreTunnel, Evolves
  <2> QED
    BY <1>9, <2>1, <2>2 DEF AddFinalizer
<1>10. ASSUME NEW m \in Managers, NEW finalizing \in BOOLEAN,
              PatchStatus(m, finalizing), UNCHANGED created
       PROVE  Evolves
  <2>1. CASE UNCHANGED tunnel
    BY <1>10, <2>1, <1>1
  <2>2. CASE /\ tunnel # NoTunnel
             /\ StoreTunnel([tunnel EXCEPT !.finalizing = finalizing])
    BY <1>10, <2>2, <1>2, <1>3 DEF StoreTunnel, Evolves
  <2> QED
    BY <1>10, <2>1, <2>2 DEF PatchStatus
<1>11. ASSUME NEW m \in Managers, MarkBlocked(m) \/ MarkReconciled(m) \/ MarkFinalizing(m)
       PROVE  Evolves
  BY <1>11, <1>10 DEF MarkBlocked, MarkReconciled, MarkFinalizing
<1>12. ASSUME NEW m \in Managers, RemoveFinalizer(m) PROVE Evolves
  <2>1. CASE UNCHANGED tunnel
    BY <1>12, <2>1, <1>1 DEF RemoveFinalizer
  <2>2. CASE /\ tunnel.finalizer
             /\ StoreTunnel(IF tunnel.deleting THEN NoTunnel
                                               ELSE [tunnel EXCEPT !.finalizer = FALSE])
    <3>1. tunnel \in Tunnel
      BY <2>2, CopyFields DEF TypeOK, Copy
    <3> QED
      BY <1>12, <2>2, <3>1, <1>2 DEF RemoveFinalizer, StoreTunnel, Evolves
  <2> QED
    BY <1>12, <2>1, <2>2 DEF RemoveFinalizer
<1>13. CASE UNCHANGED vars
  BY <1>13, <1>1 DEF vars
<1> QED
  BY <1>4, <1>5, <1>6, <1>7, <1>8, <1>9, <1>11, <1>12, <1>13 DEF Next, Reconcile

\* What was known stays known, and the stored tunnel is known.
LEMMA KnownStays ==
  ASSUME TypeOK, TypeOK', tunnel.uid <= created, Evolves
  PROVE  /\ tunnel'.uid <= created'
         /\ \A copy \in Copy : Known(copy) =>
              /\ copy.uid <= created'
              /\ copy.deleting /\ copy.uid = tunnel'.uid => tunnel'.deleting
<1>1. created \in Nat /\ created' \in Nat /\ tunnel \in Copy /\ tunnel' \in Copy
  BY LifecycleAssumption DEF TypeOK, Copy
<1>2. tunnel.uid \in Nat
  BY <1>1, CopyFields
<1>3. tunnel'.uid <= created'
  BY <1>1, <1>2 DEF Evolves, NoTunnel
<1>4. ASSUME NEW copy \in Copy, Known(copy)
      PROVE  /\ copy.uid <= created'
             /\ copy.deleting /\ copy.uid = tunnel'.uid => tunnel'.deleting
  <2>1. copy.uid \in Nat /\ copy.deleting \in BOOLEAN
    BY CopyFields
  <2>2. copy.uid = 0 => ~copy.deleting
    BY CopyFields
  <2>3. CASE tunnel'.uid = tunnel.uid /\ created' = created
             /\ (tunnel.deleting => tunnel'.deleting)
    BY <1>4, <2>3 DEF Known
  <2>4. CASE tunnel' = NoTunnel /\ created' = created
    BY <1>4, <2>2, <2>4 DEF Known, NoTunnel
  <2>5. CASE tunnel'.uid = created + 1 /\ created' = created + 1
    BY <1>1, <1>4, <2>1, <2>5 DEF Known
  <2> QED
    BY <2>3, <2>4, <2>5 DEF Evolves
<1> QED
  BY <1>3, <1>4

\* What a step makes of the copies: a cache takes the stored tunnel, which the
\* step leaves alone, and a reconciler takes the cached one.
Copies ==
  \A m \in Managers :
    /\ cache'[m] # cache[m] => cache'[m] = tunnel /\ tunnel' = tunnel
    /\ mgr'[m].read \in {mgr[m].read, cache[m], NoTunnel}
    /\ mgr'[m].pc \in {"mark", "delete"} =>
         \/ mgr[m].pc \in {"mark", "delete"} /\ mgr'[m].read = mgr[m].read
         \/ mgr'[m].read.deleting

LEMMA StepCopies == TypeOK /\ [Next]_vars => Copies
<1> SUFFICES ASSUME TypeOK, [Next]_vars PROVE Copies
  OBVIOUS
<1> DEFINE Cached == \A n \in Managers :
                       cache'[n] # cache[n] => cache'[n] = tunnel /\ tunnel' = tunnel
           Read == \A n \in Managers :
                     /\ mgr'[n].read \in {mgr[n].read, cache[n], NoTunnel}
                     /\ mgr'[n].pc \in {"mark", "delete"} =>
                          \/ /\ mgr[n].pc \in {"mark", "delete"}
                             /\ mgr'[n].read = mgr[n].read
                          \/ mgr'[n].read.deleting
<1>1. Cached /\ Read => Copies
  BY DEF Copies
<1>2. UNCHANGED cache => Cached
  OBVIOUS
<1>3. UNCHANGED mgr => Read
  OBVIOUS
<1>4. ASSUME NEW m \in Managers, Return(m) \/ Fail(m) \/ mgr' = [mgr EXCEPT ![m] = Idle]
      PROVE  Read
  BY <1>4 DEF Return, Fail, Idle, TypeOK
<1>5. ASSUME NEW m \in Managers, NEW kind, Done(m, kind) PROVE Read
  BY <1>5 DEF Done, TypeOK, Reconciler
<1>6. ASSUME NEW m \in Managers, Marked(m), mgr[m].pc = "mark" PROVE Read
  BY <1>6 DEF Marked, TypeOK, Reconciler
<1>7. ASSUME NEW m \in Managers, mgr' = [mgr EXCEPT ![m].pc = "ready"] PROVE Read
  BY <1>7 DEF TypeOK, Reconciler
<1>8. ASSUME NEW m \in Managers, NEW pc, NEW todo, Begin(m, pc, todo),
             pc \in {"mark", "delete"} => cache[m].deleting
      PROVE  Read
  BY <1>8 DEF Begin, TypeOK
<1>9. \A t : StoreTunnel(t) => Cached
  BY <1>2 DEF StoreTunnel
<1>10. \A set : StoreChildren(set) => Cached
  BY <1>2 DEF StoreChildren
<1>11. UNCHANGED caches => Cached
  BY <1>2 DEF caches
<1>12. CASE CreateTunnel \/ DeleteTunnel \/ DeleteChild \/ Collect
  BY <1>12, <1>1, <1>3, <1>9, <1>10 DEF CreateTunnel, DeleteTunnel, DeleteChild, Collect
<1>13. ASSUME NEW m \in Managers, SyncTunnel(m) PROVE Copies
  <2>1. Cached
    BY <1>13 DEF SyncTunnel, cluster, TypeOK
  <2> QED
    BY <1>13, <2>1, <1>1, <1>3 DEF SyncTunnel
<1>14. ASSUME NEW m \in Managers, SyncChildren(m) PROVE Copies
  BY <1>14, <1>1, <1>2, <1>3 DEF SyncChildren, SeeChildren
<1>15. ASSUME NEW m \in Managers, RestartManager(m) PROVE Copies
  <2>1. Cached
    BY <1>15 DEF RestartManager, cluster, TypeOK
  <2> QED
    BY <1>15, <2>1, <1>1, <1>4 DEF RestartManager
<1>16. ASSUME NEW m \in Managers, StartReconcile(m) PROVE Copies
  <2>1. Read
    BY <1>16, <1>3, <1>8 DEF StartReconcile
  <2> QED
    BY <1>16, <2>1, <1>1, <1>11 DEF StartReconcile
<1>17. ASSUME NEW m \in Managers, AddFinalizer(m) \/ RemoveFinalizer(m) PROVE Copies
  BY <1>17, <1>1, <1>4, <1>9, <1>11 DEF AddFinalizer, RemoveFinalizer
<1>18. ASSUME NEW m \in Managers, MarkBlocked(m) \/ MarkReconciled(m) PROVE Copies
  BY <1>18, <1>1, <1>4, <1>9, <1>11 DEF MarkBlocked, MarkReconciled, PatchStatus
<1>19. ASSUME NEW m \in Managers, MarkFinalizing(m) PROVE Copies
  BY <1>19, <1>1, <1>6, <1>9, <1>11 DEF MarkFinalizing, PatchStatus
<1>20. ASSUME NEW m \in Managers, ApplyChild(m) \/ DeleteNext(m) PROVE Copies
  BY <1>20, <1>1, <1>4, <1>5, <1>10, <1>11 DEF ApplyChild, DeleteNext
<1>21. ASSUME NEW m \in Managers, CheckDeployment(m) PROVE Copies
  BY <1>21, <1>1, <1>4, <1>7, <1>11 DEF CheckDeployment
<1>22. ASSUME NEW m \in Managers, CallFails(m) PROVE Copies
  BY <1>22, <1>1, <1>4, <1>6, <1>11 DEF CallFails
<1>23. CASE UNCHANGED vars
  BY <1>23, <1>1, <1>2, <1>3 DEF vars
<1> QED
  BY <1>12, <1>13, <1>14, <1>15, <1>16, <1>17, <1>18, <1>19, <1>20, <1>21, <1>22,
     <1>23 DEF Next, Reconcile

LEMMA StepKnown ==
  TypeOK /\ TypeOK' /\ ReadsTunnel /\ CopiesKnown /\ FinalizesDeleted /\ [Next]_vars
    => CopiesKnown' /\ FinalizesDeleted'
<1> SUFFICES ASSUME TypeOK, TypeOK', ReadsTunnel, CopiesKnown, FinalizesDeleted,
                    [Next]_vars
             PROVE  CopiesKnown' /\ FinalizesDeleted'
  OBVIOUS
<1>1. Evolves /\ Copies
  BY StepEvolves, StepCopies
<1>2. tunnel'.uid <= created'
  BY <1>1, KnownStays DEF CopiesKnown
<1>3. ASSUME NEW m \in Managers
      PROVE  Known(cache[m])' /\ Known(mgr[m].read)'
  <2> DEFINE KnownNext(copy) ==
        /\ copy.uid <= created'
        /\ copy.deleting /\ copy.uid = tunnel'.uid => tunnel'.deleting
  <2>1. \A copy \in Copy : Known(copy) => KnownNext(copy)
    BY <1>1, KnownStays DEF CopiesKnown
  <2>2. cache[m] \in Copy /\ mgr[m].read \in Copy /\ NoTunnel \in Copy /\ tunnel \in Copy
    BY DEF TypeOK, Copy, Reconciler
  <2>3. Known(tunnel) /\ Known(cache[m]) /\ Known(mgr[m].read)
    BY DEF CopiesKnown, Known
  <2>4. Known(NoTunnel)
    <3>1. created \in Nat
      BY LifecycleAssumption DEF TypeOK
    <3> QED
      BY <3>1 DEF Known, NoTunnel
  <2>5. KnownNext(tunnel) /\ KnownNext(cache[m]) /\ KnownNext(mgr[m].read)
          /\ KnownNext(NoTunnel)
    BY <2>1, <2>2, <2>3, <2>4
  <2>6. cache'[m] \in {cache[m], tunnel}
        /\ mgr'[m].read \in {mgr[m].read, cache[m], NoTunnel}
    BY <1>1 DEF Copies
  <2>7. KnownNext(cache'[m]) /\ KnownNext(mgr'[m].read)
    BY <2>5, <2>6
  <2> QED
    BY <2>7 DEF Known
<1>4. FinalizesDeleted'
  BY <1>1 DEF Copies, FinalizesDeleted
<1> QED
  BY <1>2, <1>3, <1>4 DEF CopiesKnown

\* A reconciler in finalize deletes children of the UID it has read, which is
\* deleted and therefore is not the UID of a stored tunnel that is not.
LEMMA DeletesOfDeleted ==
  ASSUME TypeOK, CopiesKnown, FinalizesDeleted, NEW m \in Managers, DeleteNext(m),
         tunnel # NoTunnel, ~tunnel.deleting
  PROVE  ChildrenOf(tunnel.uid) \cap children \subseteq children'
<1>1. mgr[m].read.uid # tunnel.uid
  BY DEF DeleteNext, FinalizesDeleted, CopiesKnown, Known
<1>2. PICK kind \in Kinds :
        StoreChildren(children \ {ChildOf(mgr[m].read.uid, kind)})
  BY DEF DeleteNext
<1>3. ChildOf(mgr[m].read.uid, kind) \notin ChildrenOf(tunnel.uid)
  BY <1>1 DEF ChildrenOf, ChildOf, NameOf
<1> QED
  BY <1>2, <1>3 DEF StoreChildren

\* However many managers run and however far their caches lag, reconciling never
\* deletes a child of a stored tunnel that is not being deleted.
THEOREM SparesOthers == Spec => FinalizeSparesOthers
<1>1. Init => SparesInv
  BY InitTyped, InitReads, InitSpares DEF SparesInv
<1>2. SparesInv /\ [Next]_vars => SparesInv'
  BY StepTyped, StepReads, StepKnown DEF SparesInv
<1>3. SparesInv /\ [Next]_vars =>
        [(\E m \in Managers : DeleteNext(m)) /\ tunnel # NoTunnel /\ ~tunnel.deleting
           => ChildrenOf(tunnel.uid) \cap children \subseteq children']_vars
  BY DeletesOfDeleted DEF SparesInv
<1> QED
  BY <1>1, <1>2, <1>3, PTL DEF Spec, FinalizeSparesOthers

-----------------------------------------------------------------------------
(* One manager: the children and their tunnel                              *)

\* What the copies and the reconciler of the only manager tell of the stored tunnel.
\* Nobody else adds or removes a finalizer.
Owned(m) ==
  LET rec == mgr[m]
  IN  /\ ChildrenHaveOwner
      /\ tunnel.deleting => tunnel.finalizer
      /\ cache[m].finalizer /\ ~cache[m].deleting =>
           cache[m].uid = tunnel.uid /\ tunnel.finalizer
      /\ cache[m].deleting /\ tunnel.finalizer =>
           cache[m].uid = tunnel.uid /\ tunnel.deleting
      /\ rec.pc = "adopt" =>
           /\ ~rec.read.deleting /\ ~rec.read.finalizer
           /\ rec.read.uid = tunnel.uid =>
                cache[m].uid = tunnel.uid /\ (cache[m].deleting => tunnel.deleting)
      /\ rec.pc \in {"apply", "ready", "blocked"} =>
           rec.read.uid = tunnel.uid /\ tunnel.finalizer
      /\ rec.pc \in {"mark", "delete"} /\ tunnel.finalizer =>
           rec.read.uid = tunnel.uid /\ tunnel.deleting
      /\ rec.pc = "mark" => rec.todo = Kinds
      /\ rec.pc = "delete" => children \subseteq {ChildOf(rec.read.uid, kind) : kind \in rec.todo}

\* What the steps of Reconcile make of the manager's own state.
LEMMA RecNow ==
  ASSUME TypeOK, NEW m \in Managers
  PROVE  /\ Return(m) \/ Fail(m) \/ mgr' = [mgr EXCEPT ![m] = Idle] => mgr'[m] = Idle
         /\ \A kind : Done(m, kind) =>
              /\ mgr'[m].pc = mgr[m].pc /\ mgr'[m].read = mgr[m].read
              /\ mgr'[m].todo = mgr[m].todo \ {kind}
         /\ \A pc : mgr' = [mgr EXCEPT ![m].pc = pc] =>
              mgr'[m].pc = pc /\ mgr'[m].read = mgr[m].read /\ mgr'[m].todo = mgr[m].todo
         /\ \A pc, todo : Begin(m, pc, todo) =>
              mgr'[m].pc = pc /\ mgr'[m].read = cache[m] /\ mgr'[m].todo = todo
  BY DEF TypeOK, Reconciler, Return, Fail, Done, Begin

\* What the updates of a tunnel leave as it is.
LEMMA TunnelNow ==
  ASSUME NEW t \in Tunnel, NEW b \in BOOLEAN
  PROVE  /\ LET u == [t EXCEPT !.finalizing = b]
            IN  u.uid = t.uid /\ u.deleting = t.deleting /\ u.finalizer = t.finalizer
         /\ LET u == [t EXCEPT !.finalizer = b]
            IN  u.uid = t.uid /\ u.deleting = t.deleting /\ u.finalizer = b
         /\ LET u == [t EXCEPT !.deleting = b]
            IN  u.uid = t.uid /\ u.deleting = b /\ u.finalizer = t.finalizer
  BY DEF Tunnel

\* A status patch moves nothing but the status.
SameTunnel ==
  tunnel'.uid = tunnel.uid /\ tunnel'.deleting = tunnel.deleting
    /\ tunnel'.finalizer = tunnel.finalizer

LEMMA PatchNow ==
  ASSUME TypeOK, NEW m \in Managers, NEW f \in BOOLEAN, PatchStatus(m, f)
  PROVE  SameTunnel /\ UNCHANGED <<children, cache, seen>>
<1>1. CASE UNCHANGED <<tunnel, children, caches>>
  BY <1>1 DEF SameTunnel, caches
<1>2. CASE tunnel # NoTunnel /\ StoreTunnel([tunnel EXCEPT !.finalizing = f])
  <2>1. tunnel \in Tunnel
    BY <1>2 DEF TypeOK
  <2> QED
    BY <1>2, <2>1, TunnelNow DEF StoreTunnel, SameTunnel
<1> QED
  BY <1>1, <1>2 DEF PatchStatus

\* Children that go, a reconciler that goes on or stops.
LEMMA OwnedKept ==
  ASSUME NEW m, Owned(m), SameTunnel, children' \subseteq children, UNCHANGED cache,
         mgr'[m] = Idle \/ mgr'[m] = mgr[m]
  PROVE  Owned(m)'
<1>1. ChildrenHaveOwner'
  BY DEF Owned, ChildrenHaveOwner, SameTunnel, NoTunnel
<1>2. CASE mgr'[m] = Idle
  BY <1>1, <1>2 DEF Owned, SameTunnel, Idle
<1>3. CASE mgr'[m] = mgr[m]
  BY <1>1, <1>3 DEF Owned, SameTunnel
<1> QED
  BY <1>2, <1>3

LEMMA OwnedInit == ASSUME NEW m \in Managers PROVE Init => Owned(m)
  BY DEF Init, Owned, ChildrenHaveOwner, NoTunnel, Idle

LEMMA OwnedStep ==
  ASSUME SparesInv, NEW m, Managers = {m}, Owned(m), [Next]_vars
  PROVE  Owned(m)'
<1>1. TypeOK /\ m \in Managers /\ tunnel \in Copy /\ cache[m] \in Copy /\ mgr[m] \in Reconciler
      /\ mgr[m].read \in Copy
  BY DEF SparesInv, TypeOK, Copy, Reconciler
<1>2. /\ tunnel.uid <= created /\ tunnel.uid \in Nat /\ created \in Nat
      /\ mgr[m].read.uid <= created /\ mgr[m].read.uid \in Nat
      /\ mgr[m].pc # "idle" => mgr[m].read.uid # 0
      /\ cache[m].uid <= created /\ cache[m].uid \in Nat
  BY <1>1, CopyFields, LifecycleAssumption DEF SparesInv, CopiesKnown, Known, ReadsTunnel, TypeOK
<1>3. tunnel # NoTunnel => tunnel \in Tunnel
  BY <1>1 DEF Copy
<1>4. CASE CreateTunnel
  <2>1. /\ ~tunnel.finalizer /\ UNCHANGED <<children, cache, mgr>>
        /\ tunnel'.uid = created + 1 /\ ~tunnel'.finalizer /\ ~tunnel'.deleting
    BY <1>4 DEF CreateTunnel, StoreTunnel, NoTunnel
  <2>2. children = {} /\ mgr[m].read.uid # tunnel'.uid
    BY <1>2, <2>1 DEF Owned, ChildrenHaveOwner
  <2> QED
    BY <2>1, <2>2 DEF Owned, ChildrenHaveOwner
<1>5. CASE DeleteTunnel
  <2>1. UNCHANGED <<children, cache, mgr>> /\ tunnel # NoTunnel
    BY <1>5 DEF DeleteTunnel, StoreTunnel
  <2>2. CASE tunnel.finalizer
    <3>1. tunnel'.uid = tunnel.uid /\ tunnel'.deleting /\ tunnel'.finalizer
      BY <1>3, <1>5, <2>1, <2>2, TunnelNow DEF DeleteTunnel, StoreTunnel
    <3>2. ChildrenHaveOwner'
      BY <2>1, <3>1 DEF Owned, ChildrenHaveOwner, NoTunnel
    <3> QED
      BY <2>1, <2>2, <3>1, <3>2 DEF Owned
  <2>3. CASE ~tunnel.finalizer
    <3>1. tunnel' = NoTunnel
      BY <1>5, <2>3 DEF DeleteTunnel, StoreTunnel
    <3>2. children = {}
      BY <2>3 DEF Owned, ChildrenHaveOwner
    <3> QED
      BY <1>2, <2>1, <2>3, <3>1, <3>2 DEF Owned, ChildrenHaveOwner, NoTunnel
  <2> QED
    BY <2>2, <2>3
<1>6. CASE DeleteChild \/ Collect
  <2>1. children' \subseteq children /\ UNCHANGED <<tunnel, cache, mgr>>
    BY <1>6 DEF DeleteChild, Collect, StoreChildren
  <2> QED
    BY <2>1, OwnedKept DEF SameTunnel
<1>7. CASE SyncTunnel(m)
  <2>1. UNCHANGED <<tunnel, children, mgr>> /\ cache'[m] = tunnel
    BY <1>1, <1>7 DEF SyncTunnel, cluster, TypeOK
  <2> QED
    BY <2>1 DEF Owned, ChildrenHaveOwner
<1>8. CASE SyncChildren(m)
  BY <1>8, OwnedKept DEF SyncChildren, SeeChildren, cluster, SameTunnel
<1>9. CASE RestartManager(m)
  <2>1. UNCHANGED <<tunnel, children>> /\ cache'[m] = tunnel /\ mgr'[m] = Idle
    BY <1>1, <1>9 DEF RestartManager, cluster, TypeOK
  <2> QED
    BY <2>1 DEF Owned, ChildrenHaveOwner, Idle
<1>10. CASE StartReconcile(m)
  <2>1. UNCHANGED <<tunnel, children, cache>>
    BY <1>10 DEF StartReconcile, cluster, caches
  <2>2. CASE UNCHANGED mgr
    BY <2>1, <2>2, OwnedKept DEF SameTunnel
  <2>3. CASE ~cache[m].deleting /\ ~cache[m].finalizer /\ Begin(m, "adopt", {})
    <3>1. mgr'[m].pc = "adopt" /\ mgr'[m].read = cache[m]
      BY <1>1, <2>3, RecNow
    <3> QED
      BY <2>1, <2>3, <3>1 DEF Owned, ChildrenHaveOwner
  <2>4. CASE /\ ~cache[m].deleting /\ cache[m].finalizer
             /\ Begin(m, "apply", Kinds) \/ Begin(m, "blocked", {})
    <3>1. mgr'[m].pc \in {"apply", "blocked"} /\ mgr'[m].read = cache[m]
      BY <1>1, <2>4, RecNow
    <3> QED
      BY <2>1, <2>4, <3>1 DEF Owned, ChildrenHaveOwner
  <2>5. CASE cache[m].deleting /\ Begin(m, "mark", Deleted)
    <3>1. mgr'[m].pc = "mark" /\ mgr'[m].read = cache[m] /\ mgr'[m].todo = Kinds
      BY <1>1, <2>5, RecNow DEF Deleted
    <3> QED
      BY <2>1, <2>5, <3>1 DEF Owned, ChildrenHaveOwner
  <2> QED
    BY <1>10, <2>2, <2>3, <2>4, <2>5 DEF StartReconcile
<1>11. CASE AddFinalizer(m)
  <2>1. CASE mgr[m].read = tunnel /\ Return(m)
             /\ StoreTunnel([tunnel EXCEPT !.finalizer = TRUE])
    <3>1. mgr[m].pc = "adopt" /\ tunnel \in Tunnel
      BY <1>2, <1>3, <1>11, <2>1 DEF AddFinalizer, NoTunnel
    <3>2. /\ tunnel'.uid = tunnel.uid /\ tunnel'.deleting = tunnel.deleting /\ tunnel'.finalizer
          /\ UNCHANGED <<children, cache>> /\ mgr'[m] = Idle
      BY <1>1, <2>1, <3>1, TunnelNow, RecNow DEF StoreTunnel
    <3>3. children = {}
      BY <2>1, <3>1 DEF Owned, ChildrenHaveOwner
    <3> QED
      BY <2>1, <3>1, <3>2, <3>3 DEF Owned, ChildrenHaveOwner, Idle
  <2>2. CASE Fail(m) /\ UNCHANGED <<tunnel, children, caches>>
    BY <1>1, <2>2, RecNow, OwnedKept DEF caches, SameTunnel
  <2> QED
    BY <1>11, <2>1, <2>2 DEF AddFinalizer
<1>12. CASE MarkBlocked(m) \/ MarkReconciled(m)
  BY <1>1, <1>12, PatchNow, RecNow, OwnedKept DEF MarkBlocked, MarkReconciled
<1>13. ASSUME mgr[m].pc = "mark", Marked(m), SameTunnel, UNCHANGED <<children, cache>>
       PROVE  Owned(m)'
  <2>1. /\ mgr'[m].pc = "delete" /\ mgr'[m].read = mgr[m].read /\ mgr'[m].todo = Kinds
    BY <1>1, <1>13, RecNow DEF Marked, Owned
  <2>2. ChildrenHaveOwner'
    BY <1>13 DEF Owned, ChildrenHaveOwner, SameTunnel, NoTunnel
  <2>3. children' \subseteq ChildrenOf(mgr[m].read.uid)
    BY <1>13 DEF Owned, ChildrenHaveOwner
  <2> QED
    BY <1>13, <2>1, <2>2, <2>3 DEF Owned, ChildrenOf, SameTunnel
<1>14. CASE MarkFinalizing(m)
  BY <1>1, <1>13, <1>14, PatchNow DEF MarkFinalizing
<1>15. CASE ApplyChild(m)
  <2>1. PICK kind \in Kinds :
          \/ StoreChildren(children \cup {ChildOf(mgr[m].read.uid, kind)}) /\ Done(m, kind)
          \/ Done(m, kind) /\ UNCHANGED <<tunnel, children, caches>>
          \/ Fail(m) /\ UNCHANGED <<tunnel, children, caches>>
    BY <1>15 DEF ApplyChild
  <2>2. CASE Fail(m) /\ UNCHANGED <<tunnel, children, caches>>
    BY <1>1, <2>2, RecNow, OwnedKept DEF caches, SameTunnel
  <2>3. CASE Done(m, kind)
    <3>1. /\ mgr[m].pc = "apply" /\ mgr'[m].pc = "apply" /\ mgr'[m].read = mgr[m].read
          /\ UNCHANGED <<tunnel, cache>>
          /\ children' \subseteq children \cup {ChildOf(mgr[m].read.uid, kind)}
      BY <1>1, <1>15, <2>1, <2>3, RecNow DEF ApplyChild, StoreChildren, Fail, caches
    <3>2. tunnel.finalizer /\ tunnel # NoTunnel
      BY <3>1 DEF Owned, NoTunnel
    <3>3. ChildOf(mgr[m].read.uid, kind) \in ChildrenOf(tunnel.uid)
      BY <3>1 DEF Owned, ChildrenOf
    <3>4. ChildrenHaveOwner'
      BY <3>1, <3>2, <3>3 DEF Owned, ChildrenHaveOwner
    <3> QED
      BY <3>1, <3>4 DEF Owned
  <2> QED
    BY <2>1, <2>2, <2>3
<1>16. CASE CheckDeployment(m)
  <2>1. mgr[m].pc = "apply" /\ UNCHANGED <<tunnel, children, cache>>
    BY <1>16 DEF CheckDeployment, cluster, caches
  <2>2. CASE Fail(m)
    BY <1>1, <2>1, <2>2, RecNow, OwnedKept DEF SameTunnel
  <2>3. CASE mgr' = [mgr EXCEPT ![m].pc = "ready"]
    <3>1. mgr'[m].pc = "ready" /\ mgr'[m].read = mgr[m].read
      BY <1>1, <2>3, RecNow
    <3> QED
      BY <2>1, <3>1 DEF Owned, ChildrenHaveOwner
  <2> QED
    BY <1>16, <2>2, <2>3 DEF CheckDeployment
<1>17. CASE DeleteNext(m)
  <2>1. PICK kind \in Kinds :
          StoreChildren(children \ {ChildOf(mgr[m].read.uid, kind)}) /\ Done(m, kind)
    BY <1>17 DEF DeleteNext
  <2>2. /\ mgr[m].pc = "delete" /\ mgr'[m].pc = "delete" /\ mgr'[m].read = mgr[m].read
        /\ mgr'[m].todo = mgr[m].todo \ {kind}
        /\ UNCHANGED <<tunnel, cache>>
        /\ children' = children \ {ChildOf(mgr[m].read.uid, kind)}
    BY <1>1, <1>17, <2>1, RecNow DEF DeleteNext, StoreChildren
  <2>3. children \subseteq {ChildOf(mgr[m].read.uid, k) : k \in mgr[m].todo}
    BY <2>2 DEF Owned
  <2>4. children' \subseteq {ChildOf(mgr'[m].read.uid, k) : k \in mgr'[m].todo}
    BY <2>2, <2>3
  <2>5. ChildrenHaveOwner'
    BY <2>2 DEF Owned, ChildrenHaveOwner
  <2> QED
    BY <2>2, <2>4, <2>5 DEF Owned
<1>18. CASE RemoveFinalizer(m)
  <2>1. mgr[m].pc = "delete" /\ mgr[m].todo = {}
    BY <1>18 DEF RemoveFinalizer
  <2>2. CASE (Return(m) \/ Fail(m)) /\ UNCHANGED <<tunnel, children, caches>>
    BY <1>1, <2>2, RecNow, OwnedKept DEF caches, SameTunnel
  <2>3. CASE /\ cache[m] = tunnel /\ tunnel.finalizer /\ Return(m)
             /\ StoreTunnel(IF tunnel.deleting THEN NoTunnel
                                               ELSE [tunnel EXCEPT !.finalizer = FALSE])
    <3>1. tunnel.deleting /\ children = {}
      BY <2>1, <2>3 DEF Owned
    <3>2. tunnel' = NoTunnel /\ UNCHANGED <<children, cache>> /\ mgr'[m] = Idle
      BY <1>1, <2>3, <3>1, RecNow DEF StoreTunnel
    <3> QED
      BY <2>3, <3>1, <3>2 DEF Owned, ChildrenHaveOwner, NoTunnel, Idle
  <2> QED
    BY <1>18, <2>2, <2>3 DEF RemoveFinalizer
<1>19. CASE CallFails(m)
  <2>1. UNCHANGED <<tunnel, children, cache>>
    BY <1>19 DEF CallFails, cluster, caches
  <2>2. CASE Fail(m) \/ Return(m)
    BY <1>1, <2>1, <2>2, RecNow, OwnedKept DEF SameTunnel
  <2>3. CASE mgr[m].pc = "mark" /\ Marked(m)
    BY <1>13, <2>1, <2>3 DEF SameTunnel
  <2> QED
    BY <1>19, <2>2, <2>3 DEF CallFails
<1>20. CASE UNCHANGED vars
  BY <1>20, OwnedKept DEF vars, SameTunnel
<1> QED
  BY <1>4, <1>5, <1>6, <1>7, <1>8, <1>9, <1>10, <1>11, <1>12, <1>14, <1>15, <1>16, <1>17,
     <1>18, <1>19, <1>20 DEF Next, Reconcile

\* With one manager no child outlives its tunnel, and none is created before the finalizer
\* that will delete it is stored.
THEOREM NoOrphans ==
  ASSUME NEW m, Managers = {m}
  PROVE  Spec => []ChildrenHaveOwner
<1>1. Spec => []SparesInv
  BY InitTyped, InitReads, InitSpares, StepTyped, StepReads, StepKnown, PTL DEF Spec, SparesInv
<1>2. Init => Owned(m)
  BY OwnedInit
<1>3. SparesInv /\ Owned(m) /\ [Next]_vars => Owned(m)'
  BY OwnedStep
<1>4. Owned(m) => ChildrenHaveOwner
  BY DEF Owned
<1> QED
  BY <1>1, <1>2, <1>3, <1>4, PTL DEF Spec

-----------------------------------------------------------------------------
(* One manager: the Deployment and what its pod starts with                *)

Equipment == Kinds \ {"Deployment"}

\* Until the deletion of the stored tunnel has reached the manager, the equipment in its
\* cache is stored too: an update of it is not one of something that is gone.
Equipped(m) ==
  LET rec == mgr[m]
  IN  /\ DeploymentIsEquipped
      /\ \A child \in seen[m] : child.name <= created
      /\ \A child \in children : child.name <= created
      /\ rec.pc = "apply" \/ ~(cache[m].deleting /\ cache[m].uid = tunnel.uid) =>
           \A kind \in Equipment :
             ChildOf(tunnel.uid, kind) \in seen[m] => ChildOf(tunnel.uid, kind) \in children
      /\ rec.pc = "apply" =>
           \A kind \in Equipment \ rec.todo : ChildOf(rec.read.uid, kind) \in children
      /\ rec.pc \in {"mark", "delete"} /\ rec.read.uid = tunnel.uid =>
           cache[m].uid = tunnel.uid /\ cache[m].deleting

\* The Deployment is created last and deleted first.
LEMMA Ranks ==
  ASSUME NEW m, mgr[m].todo \subseteq Kinds
  PROVE  /\ IsNext(m, "Deployment", CreateRank) => mgr[m].todo = {"Deployment"}
         /\ \A kind \in Equipment :
              IsNext(m, kind, DeleteRank) => "Deployment" \notin mgr[m].todo
<1>1. Kinds \subseteq {"ConfigMap", "ServiceAccount", "Role", "RoleBinding", "Deployment"}
  BY LifecycleAssumption
<1>2. /\ CreateRank["Deployment"] = 5
      /\ CreateRank["ConfigMap"] = 1 /\ CreateRank["ServiceAccount"] = 2
      /\ CreateRank["Role"] = 3 /\ CreateRank["RoleBinding"] = 4
  BY DEF CreateRank
<1>3. /\ DeleteRank["Deployment"] = 1
      /\ DeleteRank["ConfigMap"] = 2 /\ DeleteRank["ServiceAccount"] = 5
      /\ DeleteRank["Role"] = 4 /\ DeleteRank["RoleBinding"] = 3
  BY DEF DeleteRank
<1>4. ASSUME IsNext(m, "Deployment", CreateRank) PROVE mgr[m].todo = {"Deployment"}
  <2>1. \A other \in mgr[m].todo : other = "Deployment"
    <3> SUFFICES ASSUME NEW other \in mgr[m].todo PROVE other = "Deployment"
      OBVIOUS
    <3>1. CreateRank["Deployment"] <= CreateRank[other]
      BY <1>4 DEF IsNext
    <3>2. other \in {"ConfigMap", "ServiceAccount", "Role", "RoleBinding", "Deployment"}
      BY <1>1
    <3> QED
      BY <1>2, <3>1, <3>2
  <2> QED
    BY <1>4, <2>1 DEF IsNext
<1>5. ASSUME NEW kind \in Equipment, IsNext(m, kind, DeleteRank)
      PROVE  "Deployment" \notin mgr[m].todo
  <2> SUFFICES ASSUME "Deployment" \in mgr[m].todo PROVE FALSE
    OBVIOUS
  <2>1. DeleteRank[kind] <= DeleteRank["Deployment"]
    BY <1>5 DEF IsNext
  <2>2. kind \in {"ConfigMap", "ServiceAccount", "Role", "RoleBinding"}
    BY <1>1 DEF Equipment
  <2> QED
    BY <1>3, <2>1, <2>2
<1> QED
  BY <1>4, <1>5

\* Copies of children have names of the past.
LEMMA NamesOfPast ==
  ASSUME NEW m, Equipped(m), created \in Nat, NEW uid, uid \in Nat, uid > created,
         seen[m] \subseteq Child
  PROVE  \A kind : ChildOf(uid, kind) \notin seen[m]
<1> SUFFICES ASSUME NEW kind, ChildOf(uid, kind) \in seen[m] PROVE FALSE
  OBVIOUS
<1>1. ChildOf(uid, kind).name = uid
  BY DEF ChildOf, NameOf
<1> QED
  BY <1>1 DEF Equipped

\* What the tunnel, its children and the copies of both have in common stays.
LEMMA EquippedKept ==
  ASSUME NEW m, Equipped(m), tunnel'.uid = tunnel.uid,
         UNCHANGED <<children, cache, seen, created>>,
         mgr'[m] = Idle \/ mgr'[m] = mgr[m]
  PROVE  Equipped(m)'
<1>1. DeploymentIsEquipped'
  BY DEF Equipped, DeploymentIsEquipped, OfKind
<1>2. CASE mgr'[m] = Idle
  BY <1>1, <1>2 DEF Equipped, Idle
<1>3. CASE mgr'[m] = mgr[m]
  BY <1>1, <1>3 DEF Equipped
<1> QED
  BY <1>2, <1>3

LEMMA EquippedInit == ASSUME NEW m \in Managers PROVE Init => Equipped(m)
  BY DEF Init, Equipped, DeploymentIsEquipped, OfKind, NoTunnel, Idle

LEMMA EquippedStep ==
  ASSUME SparesInv, NEW m, Managers = {m}, Owned(m), Owned(m)', Equipped(m), [Next]_vars,
         Disturbances \cap Kinds \subseteq {"Deployment"}
  PROVE  Equipped(m)'
<1>1. /\ TypeOK /\ m \in Managers /\ tunnel \in Copy /\ cache[m] \in Copy
      /\ mgr[m] \in Reconciler /\ mgr[m].read \in Copy
      /\ mgr[m].todo \subseteq Kinds /\ seen[m] \subseteq Child /\ children \subseteq Child
  BY DEF SparesInv, TypeOK, Copy, Reconciler
<1>2. /\ tunnel.uid <= created /\ tunnel.uid \in Nat /\ created \in Nat
      /\ mgr[m].read.uid <= created /\ mgr[m].read.uid \in Nat
      /\ mgr[m].pc # "idle" => mgr[m].read.uid # 0
      /\ cache[m].uid <= created /\ cache[m].uid \in Nat
  BY <1>1, CopyFields, LifecycleAssumption DEF SparesInv, CopiesKnown, Known, ReadsTunnel, TypeOK
<1>3. tunnel # NoTunnel => tunnel \in Tunnel
  BY <1>1 DEF Copy
<1>4. CASE CreateTunnel
  <2>1. /\ tunnel = NoTunnel /\ tunnel'.uid = created + 1 /\ created' = created + 1
        /\ UNCHANGED <<children, cache, seen, mgr>>
    BY <1>4 DEF CreateTunnel, StoreTunnel, NoTunnel
  <2>2. \A kind : ChildOf(created + 1, kind) \notin seen[m]
    BY <1>1, <1>2, NamesOfPast
  <2>3. mgr[m].pc # "apply"
    BY <2>1 DEF Owned, NoTunnel
  <2>4. \A child \in seen[m] \cup children : child.name <= created'
    <3>1. \A child \in seen[m] \cup children : child.name \in Nat /\ child.name <= created
      BY <1>1 DEF Equipped, Child, Names, Incarnations
    <3> QED
      BY <1>2, <2>1, <3>1
  <2>5. mgr[m].read.uid # tunnel'.uid
    BY <1>2, <2>1
  <2>6. DeploymentIsEquipped'
    BY <2>1 DEF Equipped, DeploymentIsEquipped, OfKind
  <2> QED
    BY <2>1, <2>2, <2>3, <2>4, <2>5, <2>6 DEF Equipped
<1>5. CASE DeleteTunnel
  <2>1. UNCHANGED <<children, cache, seen, created, mgr>> /\ tunnel # NoTunnel
    BY <1>5 DEF DeleteTunnel, StoreTunnel
  <2>2. CASE tunnel.finalizer
    <3>1. tunnel'.uid = tunnel.uid
      BY <1>3, <1>5, <2>1, <2>2, TunnelNow DEF DeleteTunnel, StoreTunnel
    <3> QED
      BY <2>1, <3>1, EquippedKept
  <2>3. CASE ~tunnel.finalizer
    <3>1. tunnel'.uid = 0
      BY <1>5, <2>3 DEF DeleteTunnel, StoreTunnel, NoTunnel
    <3>2. \A kind : ChildOf(0, kind) \notin seen[m]
      BY <1>1 DEF ChildOf, NameOf, Child, Names, Incarnations
    <3>3. mgr[m].pc # "apply" /\ (mgr[m].pc # "idle" => mgr[m].read.uid # tunnel'.uid)
      BY <1>2, <2>3, <3>1 DEF Owned
    <3>4. DeploymentIsEquipped'
      BY <2>1 DEF Equipped, DeploymentIsEquipped, OfKind
    <3> QED
      BY <2>1, <3>1, <3>2, <3>3, <3>4 DEF Equipped
  <2> QED
    BY <2>2, <2>3
<1>6. CASE DeleteChild
  <2>1. PICK gone \in children : Disturb(gone.kind) /\ StoreChildren(children \ {gone})
    BY <1>6 DEF DeleteChild
  <2>2. gone.kind = "Deployment" /\ children' = children \ {gone}
    BY <1>1, <2>1 DEF Disturb, Child, StoreChildren
  <2>3. UNCHANGED <<tunnel, cache, seen, created, mgr>>
    BY <1>6, <2>1 DEF DeleteChild, StoreChildren
  <2>4. \A uid : \A kind \in Equipment :
          ChildOf(uid, kind) \in children => ChildOf(uid, kind) \in children'
    BY <2>2 DEF ChildOf, Equipment
  <2>5. DeploymentIsEquipped'
    <3> SUFFICES ASSUME NEW child \in children', child.kind = "Deployment", NEW kind \in Kinds
                 PROVE  [child EXCEPT !.kind = kind] \in children'
      BY DEF DeploymentIsEquipped, OfKind
    <3>1. child \in children /\ child \in Child
      BY <1>1, <2>2
    <3>2. [child EXCEPT !.kind = kind] \in children /\ [child EXCEPT !.kind = kind].kind = kind
      BY <3>1 DEF Equipped, DeploymentIsEquipped, OfKind, Child
    <3>3. kind = "Deployment" => [child EXCEPT !.kind = kind] = child
      BY <3>1 DEF Child
    <3> QED
      BY <2>2, <3>2, <3>3
  <2>6. \A child \in children' : child.name <= created'
    BY <2>2, <2>3 DEF Equipped
  <2>7. (mgr[m].pc = "apply" \/ ~(cache[m].deleting /\ cache[m].uid = tunnel.uid)) =>
          \A kind \in Equipment :
            ChildOf(tunnel.uid, kind) \in seen[m] => ChildOf(tunnel.uid, kind) \in children'
    BY <2>4 DEF Equipped
  <2>8. mgr[m].pc = "apply" =>
          \A kind \in Equipment \ mgr[m].todo : ChildOf(mgr[m].read.uid, kind) \in children'
    BY <2>4 DEF Equipped
  <2> QED
    BY <2>3, <2>5, <2>6, <2>7, <2>8 DEF Equipped
<1>7. CASE Collect
  <2>1. PICK child \in children : OwnerOf(child) \notin {Nobody, tunnel.uid}
    BY <1>7 DEF Collect
  <2>2. child \in ChildrenOf(tunnel.uid) /\ tunnel # NoTunnel
    BY <2>1 DEF Owned, ChildrenHaveOwner
  <2>3. child.name = tunnel.uid /\ tunnel.uid \in Incarnations
    BY <1>3, <2>2 DEF ChildrenOf, ChildOf, NameOf, Tunnel
  <2>4. OwnerOf(child) = tunnel.uid
    BY <2>3 DEF OwnerOf, NameOf
  <2> QED
    BY <2>1, <2>4
<1>8. CASE SyncTunnel(m)
  <2>1. UNCHANGED <<tunnel, children, created, seen, mgr>> /\ cache'[m] = tunnel
    BY <1>1, <1>8 DEF SyncTunnel, cluster, TypeOK
  <2>2. cache[m].deleting /\ cache[m].uid = tunnel.uid => tunnel.deleting
    BY <1>1 DEF SparesInv, CopiesKnown, Known
  <2>3. mgr[m].pc \in {"mark", "delete"} /\ mgr[m].read.uid = tunnel.uid => tunnel.deleting
    BY <1>1 DEF SparesInv, CopiesKnown, Known, FinalizesDeleted
  <2>4. DeploymentIsEquipped'
    BY <2>1 DEF Equipped, DeploymentIsEquipped, OfKind
  <2> QED
    BY <2>1, <2>2, <2>3, <2>4 DEF Equipped
<1>9. CASE SyncChildren(m)
  <2>1. PICK kind \in Kinds :
          seen'[m] = (seen[m] \ OfKind(seen[m], kind)) \cup OfKind(children, kind)
    BY <1>1, <1>9 DEF SyncChildren, SeeChildren, TypeOK
  <2>2. UNCHANGED <<tunnel, children, created, cache, mgr>>
    BY <1>9 DEF SyncChildren, SeeChildren, cluster
  <2>3. seen'[m] \subseteq seen[m] \cup children
    BY <2>1 DEF OfKind
  <2>4. DeploymentIsEquipped'
    BY <2>2 DEF Equipped, DeploymentIsEquipped, OfKind
  <2> QED
    BY <2>2, <2>3, <2>4 DEF Equipped
<1>10. CASE RestartManager(m)
  <2>1. UNCHANGED <<tunnel, children, created>> /\ seen'[m] = children /\ mgr'[m] = Idle
    BY <1>1, <1>10, RecNow DEF RestartManager, cluster, TypeOK
  <2>2. DeploymentIsEquipped'
    BY <2>1 DEF Equipped, DeploymentIsEquipped, OfKind
  <2> QED
    BY <2>1, <2>2 DEF Equipped, Idle
<1>11. CASE StartReconcile(m)
  <2>1. UNCHANGED <<tunnel, children, created, cache, seen>>
    BY <1>11 DEF StartReconcile, cluster, caches
  <2>2. CASE UNCHANGED mgr
    BY <2>1, <2>2, EquippedKept
  <2>3. CASE Begin(m, "adopt", {}) \/ Begin(m, "blocked", {})
    <3>1. mgr'[m].pc \in {"adopt", "blocked"} /\ mgr[m].pc = "idle"
      BY <1>1, <1>11, <2>3, RecNow DEF StartReconcile
    <3> QED
      BY <2>1, <3>1 DEF Equipped, DeploymentIsEquipped, OfKind
  <2>4. CASE ~cache[m].deleting /\ Begin(m, "apply", Kinds)
    <3>1. mgr'[m].pc = "apply" /\ mgr'[m].todo = Kinds
      BY <1>1, <2>4, RecNow
    <3>2. Equipment \ Kinds = {}
      BY DEF Equipment
    <3> QED
      BY <2>1, <2>4, <3>1, <3>2 DEF Equipped, DeploymentIsEquipped, OfKind
  <2>5. CASE cache[m].deleting /\ Begin(m, "mark", Deleted)
    <3>1. mgr'[m].pc = "mark" /\ mgr'[m].read = cache[m] /\ mgr[m].pc = "idle"
      BY <1>1, <1>11, <2>5, RecNow DEF StartReconcile
    <3> QED
      BY <2>1, <2>5, <3>1 DEF Equipped, DeploymentIsEquipped, OfKind
  <2> QED
    BY <1>11, <2>2, <2>3, <2>4, <2>5 DEF StartReconcile
<1>12. CASE AddFinalizer(m)
  <2>1. CASE Return(m) /\ tunnel \in Tunnel /\ StoreTunnel([tunnel EXCEPT !.finalizer = TRUE])
    BY <1>1, <1>12, <2>1, TunnelNow, RecNow, EquippedKept DEF AddFinalizer, StoreTunnel
  <2>2. CASE Fail(m) /\ UNCHANGED <<tunnel, children, caches>>
    BY <1>1, <1>12, <2>2, RecNow, EquippedKept DEF AddFinalizer, caches
  <2>3. mgr[m].read = tunnel => tunnel \in Tunnel
    BY <1>2, <1>3, <1>12 DEF AddFinalizer, NoTunnel
  <2> QED
    BY <1>12, <2>1, <2>2, <2>3 DEF AddFinalizer
<1>13. CASE MarkBlocked(m) \/ MarkReconciled(m)
  BY <1>1, <1>13, PatchNow, RecNow, EquippedKept DEF MarkBlocked, MarkReconciled, SameTunnel
<1>14. ASSUME mgr[m].pc = "mark", Marked(m), SameTunnel,
              UNCHANGED <<children, cache, seen, created>>
       PROVE  Equipped(m)'
  <2>1. mgr'[m].pc = "delete" /\ mgr'[m].read = mgr[m].read
    BY <1>1, <1>14, RecNow DEF Marked
  <2> QED
    BY <1>14, <2>1 DEF Equipped, SameTunnel, DeploymentIsEquipped, OfKind
<1>15. CASE MarkFinalizing(m)
  BY <1>1, <1>14, <1>15, PatchNow DEF MarkFinalizing
<1>16. CASE ApplyChild(m)
  <2> DEFINE child(kind) == ChildOf(mgr[m].read.uid, kind)
  <2>1. PICK kind \in Kinds :
          /\ IsNext(m, kind, CreateRank)
          /\ \/ StoreChildren(children \cup {child(kind)}) /\ Done(m, kind)
             \/ /\ child(kind) \in seen[m] /\ Done(m, kind)
                /\ UNCHANGED <<tunnel, children, caches>>
             \/ Fail(m) /\ UNCHANGED <<tunnel, children, caches>>
    BY <1>16 DEF ApplyChild
  <2>2. mgr[m].pc = "apply" /\ mgr[m].read.uid = tunnel.uid /\ UNCHANGED created
    BY <1>16 DEF ApplyChild, Owned
  <2>3. CASE Fail(m) /\ UNCHANGED <<tunnel, children, caches>>
    BY <1>1, <2>2, <2>3, RecNow, EquippedKept DEF caches
  <2>4. CASE Done(m, kind)
    <3>1. /\ mgr'[m].pc = "apply" /\ mgr'[m].read = mgr[m].read
          /\ mgr'[m].todo = mgr[m].todo \ {kind}
          /\ UNCHANGED <<tunnel, cache, seen>>
      BY <1>1, <2>1, <2>2, <2>4, RecNow DEF StoreChildren, Fail, caches
    <3>2. /\ children \subseteq children' /\ children' \subseteq children \cup {child(kind)}
          /\ child(kind) \in children' \cup seen[m]
          /\ children' # children => child(kind) \in children'
      BY <1>1, <2>1, <2>2, <2>4, RecNow DEF StoreChildren, Fail, caches, Idle
    <3>3. kind \in Equipment => child(kind) \in children'
      BY <2>2, <3>2 DEF Equipped
    <3>4. \A k \in Equipment \ mgr'[m].todo : child(k) \in children'
      BY <2>2, <3>1, <3>2, <3>3 DEF Equipped
    <3>5. DeploymentIsEquipped'
      <4> SUFFICES ASSUME NEW c \in children', c.kind = "Deployment", NEW k \in Kinds
                   PROVE  [c EXCEPT !.kind = k] \in children'
        BY DEF DeploymentIsEquipped, OfKind
      <4>1. CASE c \in children
        BY <3>2, <4>1 DEF Equipped, DeploymentIsEquipped, OfKind
      <4>2. CASE c = child(kind) /\ c \notin children
        <5>1. kind = "Deployment"
          BY <4>2 DEF ChildOf
        <5>2. mgr[m].todo = {"Deployment"}
          BY <1>1, <2>1, <5>1, Ranks
        <5>3. [c EXCEPT !.kind = k] = child(k)
          BY <4>2 DEF ChildOf
        <5>4. k # "Deployment" => child(k) \in children'
          BY <2>2, <3>2, <5>2 DEF Equipped, Equipment
        <5> QED
          BY <4>2, <5>1, <5>3, <5>4
      <4> QED
        BY <3>2, <4>1, <4>2
    <3>6. child(kind).name <= created
      BY <1>2 DEF ChildOf, NameOf
    <3> QED
      BY <2>2, <3>1, <3>2, <3>4, <3>5, <3>6 DEF Equipped
  <2> QED
    BY <2>1, <2>3, <2>4
<1>17. CASE CheckDeployment(m)
  <2>1. mgr[m].pc = "apply" /\ UNCHANGED <<tunnel, children, created, cache, seen>>
    BY <1>17 DEF CheckDeployment, cluster, caches
  <2>2. CASE Fail(m)
    BY <1>1, <2>1, <2>2, RecNow, EquippedKept
  <2>3. CASE mgr' = [mgr EXCEPT ![m].pc = "ready"]
    <3>1. mgr'[m].pc = "ready"
      BY <1>1, <2>3, RecNow
    <3> QED
      BY <2>1, <3>1 DEF Equipped, DeploymentIsEquipped, OfKind
  <2> QED
    BY <1>17, <2>2, <2>3 DEF CheckDeployment
<1>18. CASE DeleteNext(m)
  <2>1. PICK kind \in Kinds :
          /\ IsNext(m, kind, DeleteRank)
          /\ StoreChildren(children \ {ChildOf(mgr[m].read.uid, kind)}) /\ Done(m, kind)
    BY <1>18 DEF DeleteNext
  <2>2. /\ mgr[m].pc = "delete" /\ mgr'[m].pc = "delete" /\ mgr'[m].read = mgr[m].read
        /\ UNCHANGED <<tunnel, cache, seen, created>>
        /\ children' = children \ {ChildOf(mgr[m].read.uid, kind)}
    BY <1>1, <1>18, <2>1, RecNow DEF DeleteNext, StoreChildren
  <2>3. children \subseteq {ChildOf(mgr[m].read.uid, k) : k \in mgr[m].todo}
    BY <2>2 DEF Owned
  <2>4. DeploymentIsEquipped'
    <3>1. \A c \in children' : c.kind # "Deployment"
      <4>1. CASE kind = "Deployment"
        BY <2>2, <2>3, <4>1 DEF ChildOf
      <4>2. CASE kind # "Deployment"
        <5>1. "Deployment" \notin mgr[m].todo
          BY <1>1, <2>1, <4>2, Ranks DEF Equipment
        <5> QED
          BY <2>2, <2>3, <5>1 DEF ChildOf
      <4> QED
        BY <4>1, <4>2
    <3> QED
      BY <3>1 DEF DeploymentIsEquipped, OfKind
  <2>5. CASE mgr[m].read.uid = tunnel.uid
    BY <2>2, <2>4, <2>5 DEF Equipped
  <2>6. CASE mgr[m].read.uid # tunnel.uid
    <3>1. children = {}
      BY <2>2, <2>6 DEF Owned, ChildrenHaveOwner
    <3> QED
      BY <2>2, <2>4, <2>6, <3>1 DEF Equipped
  <2> QED
    BY <2>5, <2>6
<1>19. CASE RemoveFinalizer(m)
  <2>1. mgr[m].pc = "delete" /\ UNCHANGED created
    BY <1>19 DEF RemoveFinalizer
  <2>2. CASE (Return(m) \/ Fail(m)) /\ UNCHANGED <<tunnel, children, caches>>
    BY <1>1, <2>1, <2>2, RecNow, EquippedKept DEF caches
  <2>3. CASE /\ cache[m] = tunnel /\ tunnel.finalizer /\ Return(m)
             /\ StoreTunnel(IF tunnel.deleting THEN NoTunnel
                                               ELSE [tunnel EXCEPT !.finalizer = FALSE])
    <3>1. tunnel.deleting
      BY <2>1, <2>3 DEF Owned
    <3>2. /\ tunnel'.uid = 0 /\ mgr'[m] = Idle
          /\ UNCHANGED <<children, cache, seen, created>>
      BY <1>1, <2>1, <2>3, <3>1, RecNow DEF StoreTunnel, NoTunnel
    <3>3. \A kind : ChildOf(0, kind) \notin seen[m]
      BY <1>1 DEF ChildOf, NameOf, Child, Names, Incarnations
    <3>4. DeploymentIsEquipped'
      BY <3>2 DEF Equipped, DeploymentIsEquipped, OfKind
    <3> QED
      BY <3>2, <3>3, <3>4 DEF Equipped, Idle
  <2> QED
    BY <1>19, <2>2, <2>3 DEF RemoveFinalizer
<1>20. CASE CallFails(m)
  <2>1. UNCHANGED <<tunnel, children, created, cache, seen>>
    BY <1>20 DEF CallFails, cluster, caches
  <2>2. CASE Fail(m) \/ Return(m)
    BY <1>1, <2>1, <2>2, RecNow, EquippedKept
  <2>3. CASE mgr[m].pc = "mark" /\ Marked(m)
    BY <1>14, <2>1, <2>3 DEF SameTunnel
  <2> QED
    BY <1>20, <2>2, <2>3 DEF CallFails
<1>21. CASE UNCHANGED vars
  BY <1>21, EquippedKept DEF vars
<1> QED
  BY <1>4, <1>5, <1>6, <1>7, <1>8, <1>9, <1>10, <1>11, <1>12, <1>13, <1>15, <1>16, <1>17,
     <1>18, <1>19, <1>20, <1>21 DEF Next, Reconcile

\* With one manager a Deployment exists only together with all that its pod starts with,
\* for any kinds of children, if users delete no child but Deployments.
THEOREM AlwaysEquipped ==
  ASSUME NEW m, Managers = {m}, Disturbances \cap Kinds \subseteq {"Deployment"}
  PROVE  Spec => []DeploymentIsEquipped
<1>1. Spec => []SparesInv
  BY InitTyped, InitReads, InitSpares, StepTyped, StepReads, StepKnown, PTL DEF Spec, SparesInv
<1>2. Init => Owned(m) /\ Equipped(m)
  BY OwnedInit, EquippedInit
<1>3. SparesInv /\ Owned(m) /\ Equipped(m) /\ [Next]_vars => Owned(m)' /\ Equipped(m)'
  BY OwnedStep, EquippedStep
<1>4. Equipped(m) => DeploymentIsEquipped
  BY DEF Equipped
<1> QED
  BY <1>1, <1>2, <1>3, <1>4, PTL DEF Spec

-----------------------------------------------------------------------------
(* What was written to the wrong tunnel is corrected                       *)

\* The errors that markTunnelBlocked and markTargetBlocked drop.
MayBeDropped == ~resolved /\ "call" \in Disturbances

\* A manager that has seen every event of the tunnel, and has no key in its queue,
\* is in a pass that ends with a patch of Ready, or there is nothing to correct.
Corrects(m) ==
  /\ "Tunnel" \notin unseen[m] => cache[m] = tunnel
  /\ mgr[m].pc = "blocked" => ~resolved
  /\ "Tunnel" \notin unseen[m] /\ ~queued[m] /\ ~MayBeDropped
     /\ tunnel.finalizing /\ ~tunnel.deleting
       => mgr[m].pc \in {"adopt", "apply", "ready", "blocked"}

\* An event of the tunnel is under way to every manager.
Announced == UNCHANGED resolved /\ \A n \in Managers : "Tunnel" \in unseen'[n]

LEMMA StoreAnnounces ==
  ASSUME TypeOK, NEW t, StoreTunnel(t), UNCHANGED resolved
  PROVE  Announced
  BY DEF TypeOK, StoreTunnel, Announced

LEMMA AnnouncedCorrects ==
  ASSUME NEW n \in Managers, Corrects(n), Announced,
         mgr'[n] = mgr[n] \/ mgr'[n].pc # "blocked"
  PROVE  Corrects(n)'
  BY DEF Announced, Corrects

\* The tunnel, and what a manager that does nothing knows of it, are as they were.
Unmoved(n) ==
  /\ UNCHANGED <<tunnel, resolved>> /\ cache'[n] = cache[n]
  /\ "Tunnel" \in unseen'[n] <=> "Tunnel" \in unseen[n]

LEMMA UnmovedCorrects ==
  ASSUME NEW n \in Managers, Corrects(n), Unmoved(n), queued'[n] = queued[n],
         mgr'[n] = mgr[n]
  PROVE  Corrects(n)'
  BY DEF Unmoved, Corrects, MayBeDropped

\* So they are when children are stored, and when nothing is.
LEMMA ChildrenUnmoved ==
  ASSUME TypeOK, NEW set, StoreChildren(set), UNCHANGED resolved, NEW n \in Managers
  PROVE  Unmoved(n)
<1>1. "Tunnel" \notin Kinds
  BY LifecycleAssumption
<1> QED
  BY <1>1 DEF TypeOK, StoreChildren, Unmoved

LEMMA NothingUnmoved ==
  ASSUME UNCHANGED <<tunnel, caches, resolved>>, NEW n \in Managers
  PROVE  Unmoved(n)
  BY DEF caches, Unmoved

\* What a manager does to its own state is nothing to another one.
LEMMA OthersGoOn ==
  ASSUME TypeOK, NEW m \in Managers, NEW n \in Managers, n # m,
         Reconcile(m) \/ CallFails(m) \/ SyncTunnel(m) \/ SyncChildren(m) \/ RestartManager(m)
  PROVE  mgr'[n] = mgr[n] /\ queued'[n] = queued[n]
<1>2. mgr \in [Managers -> Reconciler] /\ queued \in [Managers -> BOOLEAN]
  BY DEF TypeOK
<1>3. Return(m) \/ Fail(m) \/ Marked(m) => mgr'[n] = mgr[n] /\ queued'[n] = queued[n]
  BY <1>2 DEF Return, Fail, Marked
<1>4. \A kind : Done(m, kind) => mgr'[n] = mgr[n] /\ queued'[n] = queued[n]
  BY <1>2 DEF Done
<1>5. CASE StartReconcile(m)
  <2>1. \A pc, todo : Begin(m, pc, todo) => mgr'[n] = mgr[n]
    BY <1>2 DEF Begin
  <2> QED
    BY <1>2, <1>5, <2>1 DEF StartReconcile
<1>6. CASE CheckDeployment(m)
  BY <1>2, <1>3, <1>6 DEF CheckDeployment
<1>7. CASE AddFinalizer(m) \/ MarkBlocked(m) \/ ApplyChild(m) \/ MarkReconciled(m)
           \/ MarkFinalizing(m) \/ DeleteNext(m) \/ RemoveFinalizer(m) \/ CallFails(m)
  BY <1>3, <1>4, <1>7 DEF AddFinalizer, MarkBlocked, ApplyChild, MarkReconciled,
     MarkFinalizing, DeleteNext, RemoveFinalizer, CallFails
<1>8. CASE SyncTunnel(m) \/ SyncChildren(m) \/ RestartManager(m)
  BY <1>2, <1>8 DEF SyncTunnel, SyncChildren, SeeChildren, RestartManager
<1> QED
  BY <1>5, <1>6, <1>7, <1>8 DEF Reconcile

\* What a manager does is either announced or moves nothing another one knows.
LEMMA OthersSee ==
  ASSUME TypeOK, NEW m \in Managers, NEW n \in Managers, n # m,
         Reconcile(m) \/ CallFails(m) \/ SyncTunnel(m) \/ SyncChildren(m) \/ RestartManager(m)
  PROVE  Announced \/ Unmoved(n)
<1>1. CASE StartReconcile(m) \/ CheckDeployment(m) \/ CallFails(m)
  BY <1>1, NothingUnmoved DEF StartReconcile, CheckDeployment, CallFails, cluster
<1>2. CASE AddFinalizer(m) \/ RemoveFinalizer(m)
  BY <1>2, NothingUnmoved, StoreAnnounces DEF AddFinalizer, RemoveFinalizer
<1>3. CASE MarkBlocked(m) \/ MarkReconciled(m) \/ MarkFinalizing(m)
  BY <1>3, NothingUnmoved, StoreAnnounces
     DEF MarkBlocked, MarkReconciled, MarkFinalizing, PatchStatus
<1>4. CASE ApplyChild(m) \/ DeleteNext(m)
  BY <1>4, NothingUnmoved, ChildrenUnmoved DEF ApplyChild, DeleteNext
<1>5. CASE SyncTunnel(m) \/ SyncChildren(m) \/ RestartManager(m)
  <2>1. UNCHANGED <<tunnel, resolved>> /\ cache'[n] = cache[n]
    BY <1>5 DEF SyncTunnel, SyncChildren, SeeChildren, RestartManager, cluster, TypeOK
  <2>2. unseen'[n] = unseen[n]
    <3>1. \E set : unseen' = [unseen EXCEPT ![m] = set]
      BY <1>5 DEF SyncTunnel, SyncChildren, SeeChildren, RestartManager
    <3> QED
      BY <3>1 DEF TypeOK
  <2> QED
    BY <2>1, <2>2 DEF Unmoved
<1> QED
  BY <1>1, <1>2, <1>3, <1>4, <1>5 DEF Reconcile

\* A patch that a manager sends when it has seen everything leaves Ready as it says.
LEMMA PatchCorrects ==
  ASSUME TypeOK, NEW m \in Managers, NEW f \in BOOLEAN, Corrects(m), PatchStatus(m, f),
         UNCHANGED resolved
  PROVE  \/ Announced
         \/ /\ Unmoved(m)
            /\ "Tunnel" \notin unseen[m] => tunnel = NoTunnel \/ tunnel.finalizing = f
<1>1. CASE /\ \/ tunnel = NoTunnel \/ cache[m] = NoTunnel
              \/ f \in {cache[m].finalizing, tunnel.finalizing}
           /\ UNCHANGED <<tunnel, children, caches>>
  BY <1>1, NothingUnmoved DEF Corrects
<1>2. CASE StoreTunnel([tunnel EXCEPT !.finalizing = f])
  BY <1>2, StoreAnnounces
<1> QED
  BY <1>1, <1>2 DEF PatchStatus

\* What a manager's own step makes of it.
LEMMA ManagerCorrects ==
  ASSUME TypeOK, NEW m \in Managers, Corrects(m),
         Reconcile(m) \/ CallFails(m) \/ SyncTunnel(m) \/ SyncChildren(m) \/ RestartManager(m)
  PROVE  Corrects(m)'
<1>1. /\ mgr \in [Managers -> Reconciler] /\ queued \in [Managers -> BOOLEAN]
      /\ ~NoTunnel.finalizing
  BY DEF TypeOK, NoTunnel
<1>2. Return(m) => mgr'[m].pc = "idle" /\ queued'[m] = queued[m]
  BY <1>1 DEF Return, Idle
<1>3. Fail(m) => mgr'[m].pc = "idle" /\ queued'[m]
  BY <1>1 DEF Fail, Idle
<1>4. ASSUME Unmoved(m), Fail(m) PROVE Corrects(m)'
  BY <1>3, <1>4 DEF Corrects, Unmoved
<1>5. CASE StartReconcile(m)
  <2>1. Unmoved(m) /\ queued[m]
    BY <1>5, NothingUnmoved DEF StartReconcile, cluster
  <2>2. CASE "Tunnel" \in unseen[m]
    <3>1. mgr'[m].pc = "blocked" => ~resolved
      BY <1>5, RecNow DEF StartReconcile, Corrects
    <3> QED
      BY <2>1, <2>2, <3>1 DEF Corrects, Unmoved
  <2>3. CASE "Tunnel" \notin unseen[m]
    <3>1. cache[m] = tunnel
      BY <2>3 DEF Corrects
    <3>2. /\ mgr'[m].pc = "blocked" => ~resolved
          /\ tunnel.finalizing /\ ~tunnel.deleting
               => mgr'[m].pc \in {"adopt", "apply", "blocked"}
      BY <1>1, <1>5, <3>1, RecNow DEF StartReconcile, Corrects
    <3> QED
      BY <2>1, <3>1, <3>2 DEF Corrects, Unmoved
  <2> QED
    BY <2>2, <2>3
<1>6. CASE AddFinalizer(m)
  <2>1. CASE Return(m) /\ Announced
    BY <1>2, <2>1, AnnouncedCorrects
  <2>2. CASE Fail(m) /\ Unmoved(m)
    BY <1>4, <2>2
  <2> QED
    BY <1>6, <2>1, <2>2, StoreAnnounces, NothingUnmoved DEF AddFinalizer
<1>7. CASE MarkBlocked(m) \/ MarkReconciled(m)
  <2>1. PatchStatus(m, FALSE) /\ UNCHANGED resolved /\ (Return(m) \/ Fail(m))
    BY <1>7 DEF MarkBlocked, MarkReconciled
  <2>2. mgr'[m].pc = "idle"
    BY <1>2, <1>3, <2>1
  <2>3. CASE Announced
    BY <2>2, <2>3, AnnouncedCorrects
  <2>4. CASE /\ Unmoved(m)
             /\ "Tunnel" \notin unseen[m] => tunnel = NoTunnel \/ tunnel.finalizing = FALSE
    BY <1>1, <2>2, <2>4 DEF Corrects, Unmoved
  <2> QED
    BY <2>1, <2>3, <2>4, PatchCorrects
<1>8. CASE ApplyChild(m)
  <2>1. mgr[m].pc = "apply" /\ Unmoved(m)
    BY <1>8, NothingUnmoved, ChildrenUnmoved DEF ApplyChild
  <2>2. CASE Fail(m)
    BY <1>4, <2>1, <2>2
  <2>3. ASSUME NEW kind, Done(m, kind) PROVE Corrects(m)'
    <3>1. mgr'[m].pc = "apply"
      BY <2>1, <2>3, RecNow
    <3> QED
      BY <2>1, <3>1 DEF Corrects, Unmoved
  <2> QED
    BY <1>8, <2>2, <2>3 DEF ApplyChild
<1>9. CASE CheckDeployment(m)
  <2>1. Unmoved(m)
    BY <1>9, NothingUnmoved DEF CheckDeployment, cluster
  <2>2. CASE Fail(m)
    BY <1>4, <2>1, <2>2
  <2>3. CASE mgr' = [mgr EXCEPT ![m].pc = "ready"]
    <3>1. mgr'[m].pc = "ready"
      BY <2>3, RecNow
    <3> QED
      BY <2>1, <3>1 DEF Corrects, Unmoved
  <2> QED
    BY <1>9, <2>2, <2>3 DEF CheckDeployment
<1>10. ASSUME mgr[m].pc = "mark", Marked(m), Unmoved(m) PROVE Corrects(m)'
  <2>1. mgr'[m].pc = "delete" /\ queued'[m] = queued[m]
    BY <1>10, RecNow DEF Marked
  <2> QED
    BY <1>10, <2>1 DEF Corrects, Unmoved, MayBeDropped
<1>11. CASE MarkFinalizing(m)
  <2>1. PatchStatus(m, TRUE) /\ Marked(m) /\ mgr[m].pc = "mark" /\ UNCHANGED resolved
    BY <1>11 DEF MarkFinalizing
  <2>2. mgr'[m].pc = "delete"
    BY <2>1, RecNow DEF Marked
  <2>3. CASE Announced
    BY <2>2, <2>3, AnnouncedCorrects
  <2>4. CASE Unmoved(m)
    BY <1>10, <2>1, <2>4
  <2> QED
    BY <2>1, <2>3, <2>4, PatchCorrects
<1>12. CASE DeleteNext(m)
  <2>1. mgr[m].pc = "delete" /\ Unmoved(m)
    BY <1>12, ChildrenUnmoved DEF DeleteNext
  <2>2. mgr'[m].pc = "delete" /\ queued'[m] = queued[m]
    BY <1>12, <2>1, RecNow DEF DeleteNext, Done
  <2> QED
    BY <2>1, <2>2 DEF Corrects, Unmoved, MayBeDropped
<1>13. CASE RemoveFinalizer(m)
  <2>1. mgr[m].pc = "delete"
    BY <1>13 DEF RemoveFinalizer
  <2>2. CASE Return(m) /\ Announced
    BY <1>2, <2>2, AnnouncedCorrects
  <2>3. CASE Fail(m) /\ Unmoved(m)
    BY <1>4, <2>3
  <2>4. CASE Return(m) /\ Unmoved(m)
    BY <1>2, <2>1, <2>4 DEF Corrects, Unmoved, MayBeDropped
  <2> QED
    BY <1>13, <2>2, <2>3, <2>4, StoreAnnounces, NothingUnmoved DEF RemoveFinalizer
<1>14. CASE CallFails(m)
  <2>1. Unmoved(m) /\ "call" \in Disturbances
    BY <1>14, NothingUnmoved DEF CallFails, cluster, Disturb
  <2>2. CASE Fail(m)
    BY <1>4, <2>1, <2>2
  <2>3. CASE mgr[m].pc = "blocked" /\ Return(m)
    BY <1>2, <2>1, <2>3 DEF Corrects, Unmoved, MayBeDropped
  <2>4. CASE mgr[m].pc = "mark" /\ Marked(m)
    BY <1>10, <2>1, <2>4
  <2> QED
    BY <1>14, <2>2, <2>3, <2>4 DEF CallFails
<1>15. CASE SyncTunnel(m) \/ RestartManager(m)
  <2>1. /\ cache'[m] = tunnel' /\ queued'[m] /\ UNCHANGED resolved
        /\ mgr'[m] = mgr[m] \/ mgr'[m].pc = "idle"
    BY <1>1, <1>15 DEF SyncTunnel, RestartManager, cluster, TypeOK, Idle
  <2> QED
    BY <2>1 DEF Corrects
<1>16. CASE SyncChildren(m)
  <2>1. "Tunnel" \notin Kinds
    BY LifecycleAssumption
  <2>2. Unmoved(m) /\ queued'[m] /\ UNCHANGED mgr
    BY <1>1, <1>16, <2>1 DEF SyncChildren, SeeChildren, cluster, TypeOK, Unmoved
  <2> QED
    BY <2>2 DEF Corrects, Unmoved
<1> QED
  BY <1>5, <1>6, <1>7, <1>8, <1>9, <1>11, <1>12, <1>13, <1>14, <1>15, <1>16 DEF Reconcile

LEMMA StepCorrects ==
  ASSUME TypeOK, NEW n \in Managers, Corrects(n), [Next]_vars
  PROVE  Corrects(n)'
<1>1. CASE CreateTunnel \/ DeleteTunnel
  <2>1. Announced /\ UNCHANGED mgr
    BY <1>1, StoreAnnounces DEF CreateTunnel, DeleteTunnel
  <2> QED
    BY <2>1, AnnouncedCorrects
<1>2. CASE DeleteChild \/ Collect
  <2>1. Unmoved(n) /\ UNCHANGED <<mgr, queued>>
    BY <1>2, ChildrenUnmoved DEF DeleteChild, Collect
  <2> QED
    BY <2>1, UnmovedCorrects
<1>3. ASSUME NEW m \in Managers,
             Reconcile(m) \/ CallFails(m) \/ SyncTunnel(m) \/ SyncChildren(m)
               \/ RestartManager(m)
      PROVE  Corrects(n)'
  <2>1. CASE n = m
    BY <1>3, <2>1, ManagerCorrects
  <2>2. CASE n # m
    <3>1. mgr'[n] = mgr[n] /\ queued'[n] = queued[n]
      BY <1>3, <2>2, OthersGoOn
    <3>2. Announced \/ Unmoved(n)
      BY <1>3, <2>2, OthersSee
    <3> QED
      BY <3>1, <3>2, AnnouncedCorrects, UnmovedCorrects
  <2> QED
    BY <2>1, <2>2
<1>4. CASE UNCHANGED vars
  BY <1>4, NothingUnmoved, UnmovedCorrects DEF vars, caches
<1> QED
  BY <1>1, <1>2, <1>3, <1>4 DEF Next

\* However many managers there are and whatever one of them wrote to the status of the
\* wrong tunnel, nothing of it is left once they have nothing to do; only an error of
\* the patch that says why a tunnel is blocked, which Reconcile drops, can keep it.
THEOREM SettledIsCorrected ==
  Spec => [](resolved \/ "call" \notin Disturbances => SettledIsNotFinalizing)
<1> DEFINE Inv == \A m \in Managers : Corrects(m)
<1>1. Init => Inv
  BY DEF Init, Corrects, Idle, NoTunnel
<1>2. TypeOK /\ Inv /\ [Next]_vars => Inv'
  BY StepCorrects
<1>3. TypeOK /\ Inv => (resolved \/ "call" \notin Disturbances => SettledIsNotFinalizing)
  BY LifecycleAssumption DEF SettledIsNotFinalizing, Corrects, MayBeDropped
<1>4. Spec => []TypeOK
  BY TypeCorrect
<1> QED
  BY <1>1, <1>2, <1>3, <1>4, PTL DEF Spec
=============================================================================
