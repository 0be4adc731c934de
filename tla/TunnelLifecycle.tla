-------------------------- MODULE TunnelLifecycle ---------------------------
(***************************************************************************)
(* The life of the RstreamTunnels that bear one name, one after the other: *)
(* the finalizer, the five children the manager creates for a tunnel in    *)
(* order, and the deletion of these children before the finalizer goes.    *)
(* A manager reads the tunnel and the children through caches that lag,    *)
(* writes to the API server, and may die at any time.  Without             *)
(* --leader-elect, the flag's default, there may be several managers.      *)
(*                                                                         *)
(* An incarnation is the UID of a tunnel.  What the children contain is    *)
(* left out.  Of the status, which TunnelStatus models, only one thing is  *)
(* kept: whether Ready says Finalizing, a write of which moves the version *)
(* that an update of the finalizer has to start from.                      *)
(***************************************************************************)
EXTENDS Naturals

CONSTANTS
  Kinds,            \* the kinds of children that are looked at
  Managers,         \* the managers that reconcile
  MaxIncarnations,  \* tunnels users create under the name
  MaxDeletions,     \* how many of them, the first ones, users delete
  Disturbances,     \* what may happen: restart, call, or a child that is deleted
  MaxDisturbances   \* how many of them, of all kinds together

ASSUME LifecycleAssumption ==
  /\ Kinds \subseteq {"ConfigMap", "ServiceAccount", "Role", "RoleBinding",
                     "Deployment"}
  /\ Managers # {}
  /\ Disturbances \subseteq Kinds \cup {"restart", "call"}
  /\ MaxIncarnations \in Nat \ {0} /\ MaxDeletions \in Nat
  /\ MaxDisturbances \in Nat

VARIABLES
  tunnel,    \* the tunnel the API server stores, or NoTunnel
  children,  \* the children the API server stores
  created,   \* how many incarnations there have been
  resolved,  \* its connection, Secrets and Service exist
  unseen,    \* per manager: the kinds with a watch event it has not seen
  cache,     \* per manager: the cached tunnel
  seen,      \* per manager: the cached children
  queued,    \* per manager: the name is in the work queue
  mgr,       \* per manager: the reconciler
  left       \* disturbances that may still happen

vars == <<tunnel, children, created, resolved, unseen, cache, seen, queued, mgr,
          left>>
cluster == <<tunnel, children, created, resolved>>
caches == <<unseen, cache, seen>>

-----------------------------------------------------------------------------
CreateRank == [ConfigMap |-> 1, ServiceAccount |-> 2, Role |-> 3, RoleBinding |-> 4,
               Deployment |-> 5]

\* Mutant: deleted in the order of creation.
SameRank == CreateRank

DeleteRank == [Deployment |-> 1, ConfigMap |-> 2, RoleBinding |-> 3, Role |-> 4,
               ServiceAccount |-> 5]

Deleted == Kinds

Incarnations == 1 .. MaxIncarnations
Nobody == 0
NoTunnel == [uid |-> 0, deleting |-> FALSE, finalizer |-> FALSE, finalizing |-> FALSE]
Tunnel == [uid : Incarnations, deleting : BOOLEAN, finalizer : BOOLEAN,
           finalizing : BOOLEAN]
Names == Incarnations
Child == [name : Names, kind : Kinds]

\* Mutant: the names of the children derive from the tunnel's name alone.
NameOfName(uid) == 1

\* The names of the children derive from a hash of the UID.
NameOf(uid) == uid

ChildOf(uid, kind) == [name |-> NameOf(uid), kind |-> kind]

\* Mutant: the children bear no reference to their tunnel.
NoOwner(child) == Nobody

\* The controller reference a child is created with holds the UID.
OwnerOf(child) == CHOOSE uid \in Incarnations : NameOf(uid) = child.name

ChildrenOf(uid) == {ChildOf(uid, kind) : kind \in Kinds}
OfKind(set, kind) == {child \in set : child.kind = kind}

\* todo holds the kinds that are yet to be applied or deleted.
Reconciler == [pc : {"idle", "adopt", "blocked", "apply", "ready", "mark", "delete"},
               read : Tunnel \cup {NoTunnel}, todo : SUBSET Kinds]
Idle == [pc |-> "idle", read |-> NoTunnel, todo |-> {}]

Init ==
  /\ tunnel = NoTunnel /\ children = {} /\ created = 0
  /\ resolved \in BOOLEAN
  /\ unseen = [m \in Managers |-> {}]
  /\ cache = [m \in Managers |-> NoTunnel] /\ seen = [m \in Managers |-> {}]
  /\ queued = [m \in Managers |-> FALSE]
  /\ mgr = [m \in Managers |-> Idle]
  /\ left = MaxDisturbances

Disturb(kind) == kind \in Disturbances /\ left > 0 /\ left' = left - 1

\* What the API server stores; a change sends an event to every manager.
StoreTunnel(value) ==
  /\ tunnel' = value
  /\ unseen' = [m \in Managers |-> unseen[m] \cup {"Tunnel"}]
  /\ UNCHANGED <<children, cache, seen>>

StoreChildren(value) ==
  /\ children' = value
  /\ unseen' = [m \in Managers |->
                  unseen[m] \cup {kind \in Kinds :
                                    OfKind(children, kind) # OfKind(value, kind)}]
  /\ UNCHANGED <<tunnel, cache, seen>>

-----------------------------------------------------------------------------
(* Users, and Kubernetes' garbage collector                                *)

CreateTunnel ==
  /\ tunnel = NoTunnel
  /\ created < MaxIncarnations /\ created' = created + 1
  /\ StoreTunnel([NoTunnel EXCEPT !.uid = created + 1])
  /\ UNCHANGED <<resolved, queued, mgr, left>>

\* A tunnel with the finalizer is marked, another one is gone.
DeleteTunnel ==
  /\ tunnel # NoTunnel /\ ~tunnel.deleting /\ tunnel.uid <= MaxDeletions
  /\ StoreTunnel(IF tunnel.finalizer THEN [tunnel EXCEPT !.deleting = TRUE]
                                     ELSE NoTunnel)
  /\ UNCHANGED <<created, resolved, queued, mgr, left>>

\* A user deletes a child of a tunnel.
DeleteChild ==
  /\ \E child \in children :
       Disturb(child.kind) /\ StoreChildren(children \ {child})
  /\ UNCHANGED <<created, resolved, queued, mgr>>

\* A child whose owner is gone is collected.
Collect ==
  /\ \E child \in children :
       /\ OwnerOf(child) \notin {Nobody, tunnel.uid}
       /\ StoreChildren(children \ {child})
  /\ UNCHANGED <<created, resolved, queued, mgr, left>>

-----------------------------------------------------------------------------
(* The watches: For the tunnel, Owns the five kinds of children            *)

\* Mutant: an event of a status write is filtered out.
SyncUnlessStatus(m) ==
  /\ "Tunnel" \in unseen[m]
  /\ unseen' = [unseen EXCEPT ![m] = @ \ {"Tunnel"}]
  /\ cache' = [cache EXCEPT ![m] = tunnel]
  /\ queued' = [queued EXCEPT ![m] =
                  @ \/ [tunnel EXCEPT !.finalizing = cache[m].finalizing] # cache[m]]
  /\ UNCHANGED <<cluster, seen, mgr, left>>

SyncTunnel(m) ==
  /\ "Tunnel" \in unseen[m]
  /\ unseen' = [unseen EXCEPT ![m] = @ \ {"Tunnel"}]
  /\ cache' = [cache EXCEPT ![m] = tunnel]
  /\ queued' = [queued EXCEPT ![m] = TRUE]
  /\ UNCHANGED <<cluster, seen, mgr, left>>

SeeChildren(m) ==
  /\ \E kind \in Kinds \cap unseen[m] :
       /\ unseen' = [unseen EXCEPT ![m] = @ \ {kind}]
       /\ seen' = [seen EXCEPT ![m] = (@ \ OfKind(@, kind)) \cup OfKind(children, kind)]
  /\ UNCHANGED <<cluster, cache, mgr, left>>

\* Mutant: the children are cached, but not owned.
CacheChildren(m) == SeeChildren(m) /\ UNCHANGED queued

SyncChildren(m) == SeeChildren(m) /\ queued' = [queued EXCEPT ![m] = TRUE]

\* The manager dies; its successor lists everything and enqueues the tunnel.
RestartManager(m) ==
  /\ Disturb("restart")
  /\ unseen' = [unseen EXCEPT ![m] = {}]
  /\ cache' = [cache EXCEPT ![m] = tunnel]
  /\ seen' = [seen EXCEPT ![m] = children]
  /\ queued' = [queued EXCEPT ![m] = TRUE]
  /\ mgr' = [mgr EXCEPT ![m] = Idle]
  /\ UNCHANGED cluster

-----------------------------------------------------------------------------
(* Reconcile                                                               *)

Return(m) == mgr' = [mgr EXCEPT ![m] = Idle] /\ UNCHANGED queued

\* An error is returned, and the key goes back into the queue.
Fail(m) ==
  /\ mgr' = [mgr EXCEPT ![m] = Idle]
  /\ queued' = [queued EXCEPT ![m] = TRUE]

\* The status is patched by name, with no check of the version, from the cached
\* tunnel; the conditions are replaced when they differ from the cached ones, in
\* what is kept here or in something else.
PatchStatus(m, finalizing) ==
  \/ /\ tunnel # NoTunnel /\ cache[m] # NoTunnel
     /\ tunnel.finalizing # finalizing
     /\ StoreTunnel([tunnel EXCEPT !.finalizing = finalizing])
  \/ /\ \/ tunnel = NoTunnel \/ cache[m] = NoTunnel
        \/ finalizing \in {cache[m].finalizing, tunnel.finalizing}
     /\ UNCHANGED <<tunnel, children, caches>>

Begin(m, pc, todo) == mgr' = [mgr EXCEPT ![m] = [pc |-> pc, read |-> cache[m], todo |-> todo]]

\* kind is the next one of an order.
IsNext(m, kind, rank) ==
  kind \in mgr[m].todo /\ \A other \in mgr[m].todo : rank[kind] <= rank[other]

Done(m, kind) == mgr' = [mgr EXCEPT ![m].todo = @ \ {kind}] /\ UNCHANGED queued

\* Mutant: the children are created in the pass that adds the finalizer, and
\* before it.
ReconcileWithoutFinalizer(m) ==
  /\ mgr[m].pc = "idle"
  /\ queued[m] /\ queued' = [queued EXCEPT ![m] = FALSE]
  /\ \/ cache[m].deleting /\ cache[m].finalizer /\ Begin(m, "mark", Deleted)
     \/ cache[m] # NoTunnel /\ ~cache[m].deleting /\ resolved /\ Begin(m, "apply", Kinds)
     \/ cache[m] = NoTunnel /\ UNCHANGED mgr
  /\ UNCHANGED <<cluster, caches, left>>

\* Reconcile reads the cached tunnel and decides what to do with it.  A tunnel
\* whose references do not resolve keeps its children as they are.
StartReconcile(m) ==
  /\ mgr[m].pc = "idle"
  /\ queued[m] /\ queued' = [queued EXCEPT ![m] = FALSE]
  /\ \/ cache[m] = NoTunnel /\ UNCHANGED mgr
     \/ cache[m].deleting /\ ~cache[m].finalizer /\ UNCHANGED mgr
     \/ cache[m].deleting /\ cache[m].finalizer /\ Begin(m, "mark", Deleted)
     \/ /\ cache[m] # NoTunnel /\ ~cache[m].deleting
        /\ \/ ~cache[m].finalizer /\ Begin(m, "adopt", {})
           \/ cache[m].finalizer /\ resolved /\ Begin(m, "apply", Kinds)
           \/ cache[m].finalizer /\ ~resolved /\ Begin(m, "blocked", {})
  /\ UNCHANGED <<cluster, caches, left>>

\* Mutant: the finalizer is added to whatever is stored.
AddFinalizerBlindly(m) ==
  /\ mgr[m].pc = "adopt"
  /\ StoreTunnel([tunnel EXCEPT !.finalizer = TRUE])
  /\ Return(m)
  /\ UNCHANGED <<created, resolved, left>>

\* An update is refused unless it starts from the stored version.
AddFinalizer(m) ==
  /\ mgr[m].pc = "adopt"
  /\ \/ /\ mgr[m].read = tunnel
        /\ StoreTunnel([tunnel EXCEPT !.finalizer = TRUE])
        /\ Return(m)
     \/ mgr[m].read # tunnel /\ Fail(m) /\ UNCHANGED <<tunnel, children, caches>>
  /\ UNCHANGED <<created, resolved, left>>

\* CreateOrUpdate of the next child.  One that is cached is updated when it
\* differs, which fails when it is gone; one that is not is created, which
\* fails when it exists.
ApplyChild(m) ==
  /\ mgr[m].pc = "apply"
  /\ \E kind \in Kinds :
       LET child == ChildOf(mgr[m].read.uid, kind)
       IN  /\ IsNext(m, kind, CreateRank)
           /\ \/ /\ child \notin seen[m] \cup children
                 /\ StoreChildren(children \cup {child})
                 /\ Done(m, kind)
              \/ /\ child \in seen[m]
                 /\ Done(m, kind)
                 /\ UNCHANGED <<tunnel, children, caches>>
              \/ /\ (child \in seen[m]) # (child \in children)
                 /\ Fail(m)
                 /\ UNCHANGED <<tunnel, children, caches>>
  /\ UNCHANGED <<created, resolved, left>>

\* markTunnelBlocked and markTargetBlocked; an error is dropped.
MarkBlocked(m) ==
  /\ mgr[m].pc = "blocked"
  /\ PatchStatus(m, FALSE)
  /\ Return(m)
  /\ UNCHANGED <<created, resolved, left>>

\* deploymentReady reads the cached Deployment.
CheckDeployment(m) ==
  /\ mgr[m].pc = "apply" /\ mgr[m].todo = {}
  /\ IF ChildOf(mgr[m].read.uid, "Deployment") \in seen[m]
       THEN mgr' = [mgr EXCEPT ![m].pc = "ready"] /\ UNCHANGED queued
       ELSE Fail(m)
  /\ UNCHANGED <<cluster, caches, left>>

\* markReconciled; a tunnel that is gone is an error unless the cache knows.
MarkReconciled(m) ==
  /\ mgr[m].pc = "ready"
  /\ PatchStatus(m, FALSE)
  /\ IF tunnel = NoTunnel /\ cache[m] # NoTunnel THEN Fail(m) ELSE Return(m)
  /\ UNCHANGED <<created, resolved, left>>

Marked(m) == mgr' = [mgr EXCEPT ![m].pc = "delete"] /\ UNCHANGED queued

\* finalize first patches the status, by name; an error is dropped.
MarkFinalizing(m) ==
  /\ mgr[m].pc = "mark"
  /\ PatchStatus(m, TRUE)
  /\ Marked(m)
  /\ UNCHANGED <<created, resolved, left>>

\* Mutant: a child that is already gone is an error.
DeleteNextOrFail(m) ==
  /\ mgr[m].pc = "delete"
  /\ \E kind \in Kinds :
       LET child == ChildOf(mgr[m].read.uid, kind)
       IN  /\ IsNext(m, kind, DeleteRank)
           /\ StoreChildren(children \ {child})
           /\ IF child \in children THEN Done(m, kind) ELSE Fail(m)
  /\ UNCHANGED <<created, resolved, left>>

\* finalize deletes the next child; one that is gone already is no error.
DeleteNext(m) ==
  /\ mgr[m].pc = "delete"
  /\ \E kind \in Kinds :
       /\ IsNext(m, kind, DeleteRank)
       /\ StoreChildren(children \ {ChildOf(mgr[m].read.uid, kind)})
       /\ Done(m, kind)
  /\ UNCHANGED <<created, resolved, left>>

\* finalize reads the cache again, by name, and updates what it finds there,
\* which may be a later incarnation.
RemoveFinalizer(m) ==
  /\ mgr[m].pc = "delete" /\ mgr[m].todo = {}
  /\ LET latest == cache[m]
     IN  \/ /\ latest = NoTunnel \/ (latest = tunnel /\ ~tunnel.finalizer)
            /\ Return(m)
            /\ UNCHANGED <<tunnel, children, caches>>
         \/ /\ latest = tunnel /\ tunnel.finalizer
            /\ StoreTunnel(IF tunnel.deleting THEN NoTunnel
                                              ELSE [tunnel EXCEPT !.finalizer = FALSE])
            /\ Return(m)
         \/ /\ latest # NoTunnel /\ latest # tunnel
            /\ Fail(m)
            /\ UNCHANGED <<tunnel, children, caches>>
  /\ UNCHANGED <<created, resolved, left>>

\* A call to the API server fails.
CallFails(m) ==
  /\ Disturb("call")
  /\ \/ mgr[m].pc \notin {"idle", "blocked", "mark"} /\ Fail(m)
     \/ mgr[m].pc = "blocked" /\ Return(m)
     \/ mgr[m].pc = "mark" /\ Marked(m)
  /\ UNCHANGED <<cluster, caches>>

-----------------------------------------------------------------------------
Reconcile(m) ==
  \/ StartReconcile(m) \/ AddFinalizer(m) \/ MarkBlocked(m)
  \/ ApplyChild(m) \/ CheckDeployment(m) \/ MarkReconciled(m)
  \/ MarkFinalizing(m) \/ DeleteNext(m) \/ RemoveFinalizer(m)

Next ==
  \/ CreateTunnel \/ DeleteTunnel \/ DeleteChild \/ Collect
  \/ \E m \in Managers : \/ SyncTunnel(m) \/ SyncChildren(m) \/ RestartManager(m)
                         \/ Reconcile(m) \/ CallFails(m)

Spec == Init /\ [][Next]_vars

\* The watches deliver and the workers run; the garbage collector runs too.
Fairness ==
  /\ WF_vars(Collect)
  /\ \A m \in Managers : /\ WF_vars(SyncTunnel(m)) /\ WF_vars(SyncChildren(m))
                         /\ WF_vars(Reconcile(m))

FairSpec == Spec /\ Fairness

-----------------------------------------------------------------------------
(* Properties                                                              *)

\* Every variable keeps its type.
TypeOK ==
  /\ tunnel \in Tunnel \cup {NoTunnel} /\ children \subseteq Child
  /\ created \in 0 .. MaxIncarnations /\ resolved \in BOOLEAN
  /\ unseen \in [Managers -> SUBSET (Kinds \cup {"Tunnel"})]
  /\ cache \in [Managers -> Tunnel \cup {NoTunnel}]
  /\ seen \in [Managers -> SUBSET Child]
  /\ queued \in [Managers -> BOOLEAN] /\ mgr \in [Managers -> Reconciler]
  /\ left \in 0 .. MaxDisturbances

\* With one manager the finalizer deletes the managed children before it
\* removes itself: no child outlives its tunnel, and none is created before
\* the finalizer that will delete it is stored.
ChildrenHaveOwner ==
  children # {} => /\ tunnel # NoTunnel /\ tunnel.finalizer
                   /\ children \subseteq ChildrenOf(tunnel.uid)

\* With one manager the agent's Deployment exists only together with the
\* configuration, the identity and the rights its pod starts with, while it is
\* created and while it is deleted, unless a user deletes one of these: whichever
\* call failed, whenever the manager died and whoever deleted the Deployment.
DeploymentIsEquipped ==
  \A child \in OfKind(children, "Deployment") :
    \A kind \in Kinds : [child EXCEPT !.kind = kind] \in children

\* Whatever a manager that finalizes the previous tunnel from a stale cache writes
\* to the status of the next one, which is patched by name, has been corrected
\* once nothing is left to do.
SettledIsNotFinalizing ==
  /\ \A m \in Managers : unseen[m] = {} /\ ~queued[m] /\ mgr[m].pc = "idle"
  /\ ~tunnel.deleting
  => ~tunnel.finalizing

\* Reconciling never deletes a child of a tunnel that is not being deleted: not
\* by finalizing an incarnation that is only in a stale cache.
FinalizeSparesOthers ==
  [][(\E m \in Managers : DeleteNext(m)) /\ tunnel # NoTunnel /\ ~tunnel.deleting
       => ChildrenOf(tunnel.uid) \cap children \subseteq children']_vars

\* A tunnel that is being deleted is gone in the end, whether its references
\* resolve or not, whatever failed and whoever else reconciles it.
DeletionCompletes ==
  \A uid \in Incarnations :
    (tunnel.uid = uid /\ tunnel.deleting) ~> (tunnel.uid # uid)

\* A tunnel that stays has all its children in the end, and nothing else
\* is left, whatever users deleted and whoever else reconciles it.
ChildrenConverge ==
  \A uid \in Incarnations :
    <>[](tunnel.uid = uid /\ ~tunnel.deleting /\ resolved)
      => <>[](children = ChildrenOf(uid))

\* When the name is unused in the end, so are the names of the children.
NothingRemains == <>[](tunnel = NoTunnel) => <>[](children = {})
=============================================================================
