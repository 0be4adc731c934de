-------------------------- MODULE ConnectionStatus --------------------------
(***************************************************************************)
(* The status of one RstreamConnection.  Its reconciler reads the          *)
(* connection and the Secrets it references through caches, asks the       *)
(* Control plane for the engine of the project, and patches the status.    *)
(* An event of a Secret wakes the connections that the cache says          *)
(* reference it; nothing tells the manager that the Control plane has      *)
(* changed or is back, short of the informers' periodic resync.            *)
(*                                                                         *)
(* The connection exists.  An engine stands for everything a resolution    *)
(* returns but the region, and a Secret for the values of its keys.        *)
(***************************************************************************)
EXTENDS Naturals

CONSTANTS
  Secrets,          \* the names of Secrets
  Keys,             \* the keys in them
  Regions,          \* regions a connection may ask for
  Engines,          \* addresses of engines
  AutoRegion,       \* stands for auto, or no region
  None,             \* no reference, no engine or no region
  Specs,            \* the specs users give the connection
  Planes,           \* what the Control plane may answer
  MaxDisturbances   \* changes, failed calls and manager restarts

Refs == [name : Secrets, key : Keys]

\* Of the spec: the references to the token, to mTLS files and the proxy's
\* credentials, and to the header values; the explicit engine; the region.
SecretRefs(spec) == ({spec.token} \ {None}) \cup spec.files \cup spec.headers

\* Mutant: a Secret only wakes the connections whose token it holds.
TokenIsIn(spec, secret) == \E ref \in {spec.token} \ {None} : ref.name = secret

ReferencesSecret(spec, secret) == \E ref \in SecretRefs(spec) : ref.name = secret

\* What the CRD's validation lets in.  It implies that there are references.
ConnectionSpec ==
  {spec \in [token : Refs \cup {None}, files : SUBSET Refs, headers : SUBSET Refs,
             engine : Engines \cup {None}, region : Regions \cup {AutoRegion}] :
     /\ spec.token = None => spec.files # {} /\ spec.engine # None
     /\ spec.engine # None => spec.headers = {} /\ spec.region = AutoRegion}

ASSUME ConnectionAssumption ==
  /\ Specs \subseteq ConnectionSpec /\ Specs # {}
  /\ Planes \subseteq [Regions \cup {AutoRegion} -> Engines \cup {None}]
  /\ None \notin Refs \cup Engines \cup Regions \cup {AutoRegion}
  /\ "connection" \notin Secrets /\ MaxDisturbances \in Nat

VARIABLES
  connection,   \* the stored connection
  secrets,      \* the stored Secrets: the value of each reference
  plane,        \* the engine the Control plane has for a region, if it answers
  unseen,       \* what has a watch event the manager has not seen
  cache,        \* the cached connection
  secretsSeen,  \* the cached Secrets
  queued,       \* the connection's key is in the work queue
  rec,          \* the reconciler
  left          \* disturbances that may still happen

vars == <<connection, secrets, plane, unseen, cache, secretsSeen, queued, rec, left>>
caches == <<unseen, cache, secretsSeen>>
stored == <<connection, secrets, plane>>

-----------------------------------------------------------------------------
\* A key, or its Secret, is absent; its value is blank, or accepted.
Values == {"absent", "blank", "accepted"}

Ready == [status : {"Unknown", "True", "False"},
          reason : {"", "SecretMissing", "InvalidSpec", "Ready"}, gen : Nat]
Status == [observed : Nat, ready : Ready, engine : Engines \cup {None},
           region : Regions \cup {AutoRegion, None}]
Connection == [gen : Nat, spec : Specs, status : Status]

NewStatus == [observed |-> 0, ready |-> [status |-> "Unknown", reason |-> "", gen |-> 0],
              engine |-> None, region |-> None]

\* What a reconciliation finds out: why not, or the engine and the region.
Outcome == [reason : {"", "SecretMissing", "InvalidSpec", "Ready"},
            engine : Engines \cup {None}, region : Regions \cup {AutoRegion, None}]
Failed(reason) == [reason |-> reason, engine |-> None, region |-> None]
Resolved(engine, region) == [reason |-> "Ready", engine |-> engine, region |-> region]

\* Mutant: a region that is not given is reported as it is.
RegionAsGiven(spec, values, answer) ==
  IF spec.engine # None THEN Resolved(spec.engine, None)
  ELSE IF \/ \E ref \in {spec.token} \cup spec.headers : values[ref] = "blank"
          \/ answer[spec.region] = None
  THEN Failed("InvalidSpec")
  ELSE Resolved(answer[spec.region], IF spec.region = AutoRegion THEN "" ELSE spec.region)

\* Resolve.  An explicit engine is taken as it is.  A project needs a token, and
\* the Control plane refuses a header without a value.
Resolution(spec, values, answer) ==
  IF spec.engine # None THEN Resolved(spec.engine, None)
  ELSE IF \/ \E ref \in {spec.token} \cup spec.headers : values[ref] = "blank"
          \/ answer[spec.region] = None
  THEN Failed("InvalidSpec")
  ELSE Resolved(answer[spec.region], spec.region)

\* markConnection clears what markConnectionReady sets.
Marked(object, outcome) ==
  [observed |-> object.gen,
   ready |-> [status |-> IF outcome.reason = "Ready" THEN "True" ELSE "False",
              reason |-> outcome.reason, gen |-> object.gen],
   engine |-> outcome.engine, region |-> outcome.region]

\* The status after a merge patch with what differs between before and after.
Patched(status, before, after) ==
  [f \in DOMAIN status |-> IF after[f] = before[f] THEN status[f] ELSE after[f]]

Reconciler == [pc : {"idle", "read", "resolve", "patch"}, spec : Specs,
               todo : SUBSET Refs, values : [Refs -> Values], outcome : Outcome]

NothingRead == [ref \in Refs |-> "absent"]
IdleWith(spec) == [pc |-> "idle", spec |-> spec, todo |-> {}, values |-> NothingRead,
                   outcome |-> Failed("")]

Init ==
  /\ \E spec \in Specs :
       /\ connection = [gen |-> 1, spec |-> spec, status |-> NewStatus]
       /\ rec = IdleWith(spec)
  /\ secrets \in [Refs -> {"absent", "accepted"}]
  /\ plane \in Planes
  /\ cache = connection /\ secretsSeen = secrets
  /\ unseen = {} /\ queued = TRUE
  /\ left = MaxDisturbances

Disturb == left > 0 /\ left' = left - 1

StoreConnection(value) ==
  /\ connection' = value
  /\ unseen' = IF value = connection THEN unseen ELSE unseen \cup {"connection"}

-----------------------------------------------------------------------------
(* Users, and the Control plane                                            *)

EditSpec ==
  /\ Disturb
  /\ \E spec \in Specs \ {connection.spec} :
       StoreConnection([connection EXCEPT !.gen = @ + 1, !.spec = spec])
  /\ UNCHANGED <<secrets, plane, cache, secretsSeen, queued, rec>>

\* A Secret is created, changed or deleted.
ChangeSecret ==
  /\ Disturb
  /\ \E ref \in Refs, value \in Values :
       /\ value # secrets[ref]
       /\ secrets' = [secrets EXCEPT ![ref] = value]
       /\ unseen' = unseen \cup {ref.name}
  /\ UNCHANGED <<connection, plane, cache, secretsSeen, queued, rec>>

\* The Control plane stops answering, answers again, or moves the project.
ChangePlane ==
  /\ Disturb
  /\ plane' \in Planes \ {plane}
  /\ UNCHANGED <<connection, secrets, caches, queued, rec>>

-----------------------------------------------------------------------------
(* The watches                                                             *)

SyncConnection ==
  /\ "connection" \in unseen /\ unseen' = unseen \ {"connection"}
  /\ cache' = connection
  /\ queued' = TRUE
  /\ UNCHANGED <<stored, secretsSeen, rec, left>>

\* mapSecretToConnections looks for the Secret in the cached connection.
SyncSecret ==
  /\ \E name \in Secrets \cap unseen :
       /\ unseen' = unseen \ {name}
       /\ secretsSeen' = [ref \in Refs |-> IF ref.name = name THEN secrets[ref]
                                                             ELSE secretsSeen[ref]]
       /\ queued' = (queued \/ ReferencesSecret(cache.spec, name))
  /\ UNCHANGED <<stored, cache, rec, left>>

\* The informer resends what it has cached, after some hours.
Resync ==
  /\ queued' = TRUE
  /\ UNCHANGED <<stored, caches, rec, left>>

RestartManager ==
  /\ Disturb
  /\ cache' = connection /\ secretsSeen' = secrets /\ unseen' = {}
  /\ queued' = TRUE
  /\ rec' = IdleWith(connection.spec)
  /\ UNCHANGED stored

-----------------------------------------------------------------------------
(* Reconcile                                                               *)

Decide(outcome) ==
  rec' = [rec EXCEPT !.pc = "patch", !.todo = {}, !.values = NothingRead,
                     !.outcome = outcome]

\* Mutant: a generation that has been observed is not looked at again.
StartUnlessObserved ==
  /\ rec.pc = "idle"
  /\ queued /\ queued' = FALSE
  /\ IF cache.status.observed = cache.gen THEN UNCHANGED rec
     ELSE rec' = [IdleWith(cache.spec) EXCEPT !.pc = "read", !.todo = SecretRefs(cache.spec)]
  /\ UNCHANGED <<stored, caches, left>>

StartReconcile ==
  /\ rec.pc = "idle"
  /\ queued /\ queued' = FALSE
  /\ rec' = [IdleWith(cache.spec) EXCEPT !.pc = "read", !.todo = SecretRefs(cache.spec)]
  /\ UNCHANGED <<stored, caches, left>>

\* The references are read one after the other, in any order; the code sorts
\* them.  The first one that is absent ends the reconciliation.
ReadSecret ==
  /\ rec.pc = "read"
  /\ \E ref \in rec.todo :
       IF secretsSeen[ref] = "absent" THEN Decide(Failed("SecretMissing"))
       ELSE rec' = [rec EXCEPT !.pc = IF rec.todo = {ref} THEN "resolve" ELSE "read",
                               !.todo = @ \ {ref}, !.values[ref] = secretsSeen[ref]]
  /\ UNCHANGED <<stored, caches, queued, left>>

\* Any error, a Control plane that does not answer included, becomes a status.
Resolve ==
  /\ rec.pc = "resolve"
  /\ Decide(Resolution(rec.spec, rec.values, plane))
  /\ UNCHANGED <<stored, caches, queued, left>>

\* patchConnectionStatus reads the cache again: generation and status may be
\* those of a later spec than the one that was resolved.
PatchStatus ==
  /\ rec.pc = "patch"
  /\ StoreConnection([connection EXCEPT !.status =
                        Patched(@, cache.status, Marked(cache, rec.outcome))])
  /\ rec' = IdleWith(rec.spec)
  /\ UNCHANGED <<secrets, plane, cache, secretsSeen, queued, left>>

\* The error of the patch is returned, and the key goes back into the queue.
PatchFails ==
  /\ rec.pc = "patch"
  /\ Disturb
  /\ queued' = TRUE
  /\ rec' = IdleWith(rec.spec)
  /\ UNCHANGED <<stored, caches>>

-----------------------------------------------------------------------------
Reconcile == StartReconcile \/ ReadSecret \/ Resolve \/ PatchStatus

Next ==
  \/ EditSpec \/ ChangeSecret \/ ChangePlane
  \/ SyncConnection \/ SyncSecret \/ Resync \/ RestartManager
  \/ Reconcile \/ PatchFails

Spec == Init /\ [][Next]_vars

\* The watches deliver, the worker runs, and the informer resyncs.
Fairness ==
  /\ WF_vars(SyncConnection) /\ WF_vars(SyncSecret) /\ WF_vars(Resync)
  /\ WF_vars(Reconcile)

FairSpec == Spec /\ Fairness

-----------------------------------------------------------------------------
(* Properties                                                              *)

\* Every variable keeps its type.
TypeOK ==
  /\ connection \in Connection /\ cache \in Connection
  /\ secrets \in [Refs -> Values] /\ secretsSeen \in [Refs -> Values]
  /\ plane \in Planes /\ unseen \subseteq Secrets \cup {"connection"}
  /\ queued \in BOOLEAN /\ rec \in Reconciler /\ left \in Nat

\* The status that goes with what is stored, if the Control plane gives answer.
ExpectedStatus(answer) ==
  LET refs == SecretRefs(connection.spec)
  IN  Marked(connection, IF \E ref \in refs : secrets[ref] = "absent"
                         THEN Failed("SecretMissing")
                         ELSE Resolution(connection.spec, secrets, answer))

\* The stored status is the expected one.  The region is that "used for the last
\* successful resolution" (rstreamconnection_types.go:96), so it has to be the
\* expected one while the resolution succeeds; after a failure it is left open.
Reports(expected) ==
  LET status == connection.status
  IN  /\ status.observed = expected.observed /\ status.ready = expected.ready
      /\ status.engine = expected.engine
      /\ expected.ready.status = "True" => status.region = expected.region

\* When the manager has nothing left to do, the status is that of the stored spec
\* and Secrets and of one answer of the Control plane: no event was lost because
\* the cache did not yet know of a reference, no field comes from an earlier patch
\* and no generation is reported with the outcome of another.
SettledStatusIsCurrent ==
  rec.pc = "idle" /\ ~queued /\ unseen = {}
    => \E answer \in Planes : Reports(ExpectedStatus(answer))

\* The status is in the end that of the Control plane too: with no requeue after
\* an outage it takes a resync.
StatusConverges == <>[]Reports(ExpectedStatus(plane))
=============================================================================
