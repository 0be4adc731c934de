----------------------- MODULE ConnectionStatusProofs -----------------------
(***************************************************************************)
(* Theorems about ConnectionStatus, for any Secrets, specs, Control planes *)
(* and number of disturbances: types, and that the settled status is that  *)
(* of what is stored.                                                      *)
(***************************************************************************)
EXTENDS ConnectionStatus, TLAPS

\* What the reconciler should find out if its reads gave values, and the Control
\* plane answer.
OutcomeOf(spec, values, answer) ==
  IF \E ref \in SecretRefs(spec) : values[ref] = "absent"
    THEN Failed("SecretMissing") ELSE Resolution(spec, values, answer)

\* A cached object is the stored one unless its event is under way.
CachesFollow ==
  /\ "connection" \notin unseen => cache = connection
  /\ \A ref \in Refs : ref.name \notin unseen => secretsSeen[ref] = secrets[ref]

\* Neither a key in the queue nor an event that will put it there.
Quiet ==
  /\ ~queued /\ "connection" \notin unseen
  /\ \A ref \in SecretRefs(connection.spec) : ref.name \notin unseen

\* What the reconciler has done so far is what it would do with what is stored now.
Current ==
  /\ rec.pc \in {"read", "resolve"} =>
       /\ rec.spec = connection.spec
       /\ \A ref \in SecretRefs(connection.spec) : ref \notin rec.todo =>
            rec.values[ref] = secrets[ref] /\ secrets[ref] # "absent"
  /\ rec.pc = "read" => rec.todo \subseteq SecretRefs(connection.spec)
  /\ rec.pc = "resolve" => rec.todo = {}
  /\ rec.pc = "patch" =>
       \E answer \in Planes : rec.outcome = OutcomeOf(connection.spec, secrets, answer)
  /\ rec.pc = "idle" => \E answer \in Planes : connection.status = ExpectedStatus(answer)

\* A difference between the status and what is stored is bound to be repaired: by an
\* event, by the queue or by the reconciliation that runs.
Inv == TypeOK /\ CachesFollow /\ (Quiet => Current)

-----------------------------------------------------------------------------
(* The operators                                                           *)

\* A spec refers to keys of Secrets, and a project's spec has a token.
LEMMA SpecRefs ==
  ASSUME NEW spec \in Specs
  PROVE  /\ SecretRefs(spec) \subseteq Refs
         /\ spec.engine = None =>
              spec.token \in SecretRefs(spec) /\ spec.headers \subseteq SecretRefs(spec)
         /\ spec.engine \in Engines \cup {None} /\ spec.region \in Regions \cup {AutoRegion}
  BY ConnectionAssumption DEF SecretRefs, ConnectionSpec

\* A resolution gives a typed outcome.
LEMMA OutcomeTyped ==
  ASSUME NEW spec \in Specs, NEW values \in [Refs -> Values], NEW answer \in Planes
  PROVE  Resolution(spec, values, answer) \in Outcome
<1>1. answer[spec.region] \in Engines \cup {None}
  BY SpecRefs, ConnectionAssumption
<1> QED BY <1>1, SpecRefs DEF Resolution, Outcome, Resolved, Failed

\* It depends on the values of the references only.
LEMMA OutcomeOfReferences ==
  ASSUME NEW spec \in Specs, NEW answer, NEW values, NEW others,
         \A ref \in SecretRefs(spec) : values[ref] = others[ref]
  PROVE  OutcomeOf(spec, values, answer) = OutcomeOf(spec, others, answer)
<1>1. spec.engine = None =>
        \A ref \in {spec.token} \cup spec.headers : values[ref] = others[ref]
  BY SpecRefs
<1> QED BY <1>1 DEF OutcomeOf, Resolution

\* A mark is a status.
LEMMA MarkedTyped ==
  ASSUME NEW object \in Connection, NEW outcome \in Outcome
  PROVE  Marked(object, outcome) \in Status
  BY DEF Marked, Connection, Outcome, Status, Ready

\* A patch computed from the stored status stores what was computed.
LEMMA FreshPatch ==
  ASSUME NEW status \in Status, NEW after \in Status
  PROVE  Patched(status, status, after) = after
<1>1. Patched(status, status, after) = [f \in DOMAIN status |-> after[f]]
  BY Zenon DEF Patched
<1>2. DOMAIN status = DOMAIN after /\ after = [f \in DOMAIN after |-> after[f]]
  BY DEF Status
<1> QED BY <1>1, <1>2

\* A patch keeps the type.
LEMMA PatchedTyped ==
  ASSUME NEW status \in Status, NEW before \in Status, NEW after \in Status
  PROVE  Patched(status, before, after) \in Status
<1> DEFINE pick(s, b, a) == IF a = b THEN s ELSE a
           o == pick(status.observed, before.observed, after.observed)
           r == pick(status.ready, before.ready, after.ready)
           e == pick(status.engine, before.engine, after.engine)
           g == pick(status.region, before.region, after.region)
<1>1. Patched(status, before, after) = [observed |-> o, ready |-> r, engine |-> e, region |-> g]
  <2>1. DOMAIN status = {"observed", "ready", "engine", "region"}
    BY DEF Status
  <2>2. Patched(status, before, after)
          = [f \in {"observed", "ready", "engine", "region"} |->
               pick(status[f], before[f], after[f])]
    BY <2>1, Zenon DEF Patched
  <2> QED BY <2>2
<1>2. /\ o \in Nat /\ r \in Ready /\ e \in Engines \cup {None}
      /\ g \in Regions \cup {AutoRegion, None}
  BY DEF Status
<1> HIDE DEF o, r, e, g
<1> QED BY <1>1, <1>2 DEF Status

\* Storing a connection keeps types and caches coherent.
LEMMA StoreKeeps ==
  ASSUME TypeOK, CachesFollow, NEW value \in Connection, StoreConnection(value),
         UNCHANGED <<cache, secrets, secretsSeen>>
  PROVE  /\ connection' \in Connection /\ unseen' \subseteq Secrets \cup {"connection"}
         /\ CachesFollow'
         /\ "connection" \notin unseen' => value = connection /\ unseen' = unseen
  BY ConnectionAssumption DEF StoreConnection, TypeOK, CachesFollow, Refs

\* A reconciler that rests has its type.
LEMMA IdleTyped == ASSUME NEW spec \in Specs PROVE IdleWith(spec) \in Reconciler
  BY DEF IdleWith, Reconciler, NothingRead, Values, Failed, Outcome

-----------------------------------------------------------------------------
(* The steps                                                               *)

LEMMA InitInv == Init => Inv
<1> SUFFICES ASSUME Init PROVE Inv
  OBVIOUS
<1>1. PICK spec \in Specs : /\ connection = [gen |-> 1, spec |-> spec, status |-> NewStatus]
                            /\ rec = IdleWith(spec)
  BY DEF Init
<1>2. NewStatus \in Status
  BY DEF NewStatus, Status, Ready
<1>3. connection \in Connection /\ cache \in Connection
  BY <1>1, <1>2 DEF Init, Connection
<1>4. secrets \in [Refs -> Values] /\ secretsSeen \in [Refs -> Values]
  BY DEF Init, Values
<1>5. TypeOK
  BY <1>1, <1>3, <1>4, IdleTyped, ConnectionAssumption DEF Init, TypeOK
<1> QED BY <1>5 DEF Init, Inv, CachesFollow, Quiet

LEMMA EditSpecInv == ASSUME Inv, EditSpec PROVE Inv'
<1>1. PICK spec \in Specs \ {connection.spec} :
        StoreConnection([connection EXCEPT !.gen = @ + 1, !.spec = spec])
  BY DEF EditSpec
<1> DEFINE value == [connection EXCEPT !.gen = @ + 1, !.spec = spec]
<1>2. value \in Connection /\ value # connection
  <2>1. connection.gen \in Nat /\ connection.status \in Status /\ connection \in Connection
    BY DEF Inv, TypeOK, Connection
  <2>2. spec \in Specs
    OBVIOUS
  <2> DEFINE gen == connection.gen + 1
  <2>3. gen \in Nat
    BY <2>1
  <2> HIDE DEF gen
  <2>4. value = [connection EXCEPT !.gen = gen, !.spec = spec]
    BY DEF gen
  <2> HIDE DEF value
  <2>5. value = [gen |-> gen, spec |-> spec, status |-> connection.status]
    BY <2>1, <2>2, <2>4 DEF Connection
  <2>6. value.spec = spec /\ spec # connection.spec
    BY <2>5
  <2> QED BY <2>1, <2>2, <2>3, <2>5, <2>6 DEF Connection
<1>3. StoreConnection(value)
  BY <1>1
<1> HIDE DEF value
<1>4. /\ connection' \in Connection /\ unseen' \subseteq Secrets \cup {"connection"}
      /\ CachesFollow' /\ "connection" \in unseen'
  BY <1>2, <1>3, StoreKeeps DEF EditSpec, Inv
<1> QED BY <1>4 DEF EditSpec, Disturb, Inv, TypeOK, Quiet

LEMMA ChangeSecretInv == ASSUME Inv, ChangeSecret PROVE Inv'
<1>1. PICK changed \in Refs, value \in Values :
        /\ secrets' = [secrets EXCEPT ![changed] = value]
        /\ unseen' = unseen \cup {changed.name}
  BY DEF ChangeSecret
<1>2. TypeOK'
  BY <1>1 DEF ChangeSecret, Disturb, Inv, TypeOK, Refs
<1>3. \A ref \in Refs : ref # changed => secrets'[ref] = secrets[ref]
  BY <1>1 DEF Inv, TypeOK
<1>4. CachesFollow'
  BY <1>1, <1>3, ConnectionAssumption DEF ChangeSecret, Inv, CachesFollow, Refs
<1>5. ASSUME Quiet' PROVE Current'
  <2>1. Quiet /\ changed \notin SecretRefs(connection.spec)
    BY <1>1, <1>5 DEF Quiet, ChangeSecret
  <2>2. connection.spec \in Specs
    BY DEF Inv, TypeOK, Connection
  <2>3. \A ref \in SecretRefs(connection.spec) : secrets'[ref] = secrets[ref]
    BY <1>3, <2>1, <2>2, SpecRefs
  <2>4. \A answer \in Planes :
          OutcomeOf(connection.spec, secrets', answer)
            = OutcomeOf(connection.spec, secrets, answer)
    BY <2>2, <2>3, OutcomeOfReferences
  <2>5. \A answer \in Planes : ExpectedStatus(answer)' = ExpectedStatus(answer)
    BY <2>4 DEF ExpectedStatus, OutcomeOf, ChangeSecret
  <2> QED BY <2>1, <2>3, <2>4, <2>5 DEF Inv, Current, ChangeSecret
<1> QED BY <1>2, <1>4, <1>5 DEF Inv

\* Steps that leave alone what the invariant speaks of, or enqueue the key.
LEMMA ChangePlaneInv == ASSUME Inv, ChangePlane PROVE Inv'
<1>1. TypeOK'
  BY DEF ChangePlane, Disturb, Inv, TypeOK, caches
<1>2. UNCHANGED <<connection, secrets, unseen, cache, secretsSeen, queued, rec>>
  BY DEF ChangePlane, caches
<1>3. CachesFollow'
  BY <1>2 DEF Inv, CachesFollow
<1>4. Quiet' = Quiet /\ \A answer \in Planes : ExpectedStatus(answer)' = ExpectedStatus(answer)
  BY <1>2 DEF Quiet, ExpectedStatus
<1> QED BY <1>1, <1>2, <1>3, <1>4 DEF Inv, Current

LEMMA EnqueueInv ==
  ASSUME Inv, SyncConnection \/ Resync \/ RestartManager \/ PatchFails
  PROVE  Inv'
<1>1. queued'
  BY DEF SyncConnection, Resync, RestartManager, PatchFails
<1>2. TypeOK'
  <2>1. connection.spec \in Specs /\ rec.spec \in Specs
    BY DEF Inv, TypeOK, Connection, Reconciler
  <2>2. rec' \in {rec, IdleWith(connection.spec), IdleWith(rec.spec)}
    BY DEF SyncConnection, Resync, RestartManager, PatchFails
  <2>3. rec' \in Reconciler
    BY <2>1, <2>2, IdleTyped DEF Inv, TypeOK
  <2>4. left' \in Nat
    BY DEF SyncConnection, Resync, RestartManager, PatchFails, Disturb, Inv, TypeOK
  <2> QED BY <2>3, <2>4 DEF SyncConnection, Resync, RestartManager, PatchFails, stored, caches,
                            Inv, TypeOK
<1>3. CachesFollow'
  BY ConnectionAssumption DEF SyncConnection, Resync, RestartManager, PatchFails, stored, caches,
                              Inv, CachesFollow, Refs
<1> QED BY <1>1, <1>2, <1>3 DEF Inv, Quiet

LEMMA SyncSecretInv == ASSUME Inv, SyncSecret PROVE Inv'
<1>1. PICK name \in Secrets \cap unseen :
        /\ unseen' = unseen \ {name}
        /\ secretsSeen' = [ref \in Refs |-> IF ref.name = name THEN secrets[ref]
                                                              ELSE secretsSeen[ref]]
        /\ queued' = (queued \/ ReferencesSecret(cache.spec, name))
  BY DEF SyncSecret
<1>2. UNCHANGED <<connection, secrets, plane, cache, rec, left>>
  BY DEF SyncSecret, stored
<1>3. TypeOK'
  BY <1>1, <1>2 DEF Inv, TypeOK, ReferencesSecret
<1>4. CachesFollow'
  BY <1>1, <1>2, ConnectionAssumption DEF Inv, CachesFollow, Refs
<1>5. ASSUME Quiet' PROVE Current'
  <2>1. "connection" \notin unseen /\ ~queued /\ ~ReferencesSecret(cache.spec, name)
    BY <1>1, <1>5, ConnectionAssumption DEF Quiet
  <2>2. cache = connection
    BY <2>1 DEF Inv, CachesFollow
  <2>3. \A ref \in SecretRefs(connection.spec) : ref.name # name
    BY <2>1, <2>2 DEF ReferencesSecret
  <2>4. Quiet
    BY <1>1, <1>2, <1>5, <2>1, <2>3 DEF Quiet
  <2>5. \A answer \in Planes : ExpectedStatus(answer)' = ExpectedStatus(answer)
    BY <1>2 DEF ExpectedStatus
  <2> QED BY <1>2, <2>4, <2>5 DEF Inv, Current
<1> QED BY <1>3, <1>4, <1>5 DEF Inv

LEMMA StartReconcileInv == ASSUME Inv, StartReconcile PROVE Inv'
<1> DEFINE refs == SecretRefs(cache.spec)
<1>1. cache.spec \in Specs
  BY DEF Inv, TypeOK, Connection
<1>2. refs \subseteq Refs
  BY <1>1, SpecRefs
<1>3. /\ rec'.pc = "read" /\ rec'.spec = cache.spec /\ rec'.todo = refs
      /\ rec' \in Reconciler
  BY <1>1, <1>2, IdleTyped DEF StartReconcile, IdleWith, Reconciler
<1>4. UNCHANGED <<connection, secrets, plane, unseen, cache, secretsSeen, left>> /\ ~queued'
  BY DEF StartReconcile, stored, caches
<1>5. TypeOK' /\ CachesFollow'
  <2>1. queued' \in BOOLEAN
    BY DEF StartReconcile
  <2>2. TypeOK'
    BY <1>3, <1>4, <2>1 DEF Inv, TypeOK
  <2>3. CachesFollow'
    BY <1>4 DEF Inv, CachesFollow
  <2> QED BY <2>2, <2>3
<1>6. Quiet' => cache = connection
  BY <1>4 DEF Quiet, Inv, CachesFollow
<1> QED BY <1>3, <1>4, <1>5, <1>6 DEF Inv, Current

LEMMA ReadSecretInv == ASSUME Inv, ReadSecret PROVE Inv'
<1>1. PICK read \in rec.todo :
        IF secretsSeen[read] = "absent" THEN Decide(Failed("SecretMissing"))
        ELSE rec' = [rec EXCEPT !.pc = IF rec.todo = {read} THEN "resolve" ELSE "read",
                                !.todo = @ \ {read}, !.values[read] = secretsSeen[read]]
  BY DEF ReadSecret
<1>2. UNCHANGED <<connection, secrets, plane, unseen, cache, secretsSeen, queued, left>>
  BY DEF ReadSecret, stored, caches
<1>3. rec.pc = "read" /\ rec \in Reconciler /\ read \in Refs /\ connection.spec \in Specs
  BY DEF ReadSecret, Inv, TypeOK, Reconciler, Connection
<1>4. CachesFollow' /\ Quiet' = Quiet
  BY <1>2 DEF Inv, CachesFollow, Quiet
<1>5. Quiet => secretsSeen[read] = secrets[read] /\ read \in SecretRefs(connection.spec)
  BY <1>3 DEF Inv, CachesFollow, Quiet, Current
<1>6. CASE secretsSeen[read] = "absent"
  <2>1. /\ rec' \in Reconciler /\ rec'.pc = "patch"
        /\ rec'.outcome = Failed("SecretMissing")
    <3>1. Decide(Failed("SecretMissing"))
      BY <1>1, <1>6
    <3>2. Failed("SecretMissing") \in Outcome /\ NothingRead \in [Refs -> Values]
      BY DEF Failed, Outcome, NothingRead, Values
    <3>3. rec' = [pc |-> "patch", spec |-> rec.spec, todo |-> {}, values |-> NothingRead,
                  outcome |-> Failed("SecretMissing")]
      BY <1>3, <3>1 DEF Decide, Reconciler
    <3> QED BY <1>3, <3>2, <3>3 DEF Reconciler
  <2>2. TypeOK'
    BY <1>2, <2>1 DEF Inv, TypeOK
  <2>3. Quiet => OutcomeOf(connection.spec, secrets, plane) = Failed("SecretMissing")
    BY <1>5, <1>6 DEF OutcomeOf
  <2>4. plane \in Planes
    BY DEF Inv, TypeOK
  <2> QED BY <1>2, <1>4, <2>1, <2>2, <2>3, <2>4 DEF Inv, Current
<1>7. CASE secretsSeen[read] # "absent"
  <2>1. /\ rec'.pc = IF rec.todo = {read} THEN "resolve" ELSE "read"
        /\ rec'.spec = rec.spec /\ rec'.todo = rec.todo \ {read}
        /\ rec'.values = [rec.values EXCEPT ![read] = secretsSeen[read]]
        /\ rec'.outcome = rec.outcome
        /\ rec' \in Reconciler
    <3> DEFINE values == [rec.values EXCEPT ![read] = secretsSeen[read]]
               pc == IF rec.todo = {read} THEN "resolve" ELSE "read"
    <3>1. /\ rec.values \in [Refs -> Values] /\ secretsSeen \in [Refs -> Values]
          /\ rec.todo \in SUBSET Refs /\ rec.spec \in Specs /\ rec.outcome \in Outcome
      BY <1>3 DEF Inv, TypeOK, Reconciler
    <3>2. values \in [Refs -> Values] /\ pc \in {"read", "resolve"}
      BY <1>3, <3>1
    <3>3. rec' = [rec EXCEPT !.pc = pc, !.todo = rec.todo \ {read}, !.values = values]
      BY <1>1, <1>7
    <3> HIDE DEF values, pc
    <3>4. rec' = [pc |-> pc, spec |-> rec.spec, todo |-> rec.todo \ {read}, values |-> values,
                  outcome |-> rec.outcome]
      BY <1>3, <3>3 DEF Reconciler
    <3>5. rec.todo \ {read} \in SUBSET Refs
      BY <3>1
    <3>6. rec' \in Reconciler
      BY <3>1, <3>2, <3>4, <3>5 DEF Reconciler
    <3> QED BY <3>4, <3>6 DEF values, pc
  <2>2. TypeOK'
    BY <1>2, <2>1 DEF Inv, TypeOK
  <2>3. \A ref \in Refs : rec'.values[ref] = IF ref = read THEN secretsSeen[read]
                                                           ELSE rec.values[ref]
    BY <1>3, <2>1 DEF Reconciler
  <2>4. SecretRefs(connection.spec) \subseteq Refs
    BY <1>3, SpecRefs
  <2>5. Quiet => Current'
    BY <1>2, <1>3, <1>5, <1>7, <2>1, <2>3, <2>4 DEF Inv, Current
  <2> QED BY <1>4, <2>2, <2>5 DEF Inv
<1> QED BY <1>6, <1>7

LEMMA ResolveInv == ASSUME Inv, Resolve PROVE Inv'
<1> DEFINE outcome == Resolution(rec.spec, rec.values, plane)
<1>1. UNCHANGED <<connection, secrets, plane, unseen, cache, secretsSeen, queued, left>>
  BY DEF Resolve, stored, caches
<1>2. /\ rec.pc = "resolve" /\ rec \in Reconciler /\ plane \in Planes
      /\ rec.spec \in Specs /\ rec.values \in [Refs -> Values] /\ connection.spec \in Specs
  BY DEF Resolve, Inv, TypeOK, Reconciler, Connection
<1>3. outcome \in Outcome
  BY <1>2, OutcomeTyped
<1>4. Decide(outcome)
  BY DEF Resolve
<1>5. Quiet => outcome = OutcomeOf(connection.spec, secrets, plane)
  <2> SUFFICES ASSUME Quiet PROVE outcome = OutcomeOf(connection.spec, secrets, plane)
    OBVIOUS
  <2>1. /\ rec.spec = connection.spec
        /\ \A ref \in SecretRefs(connection.spec) :
             rec.values[ref] = secrets[ref] /\ secrets[ref] # "absent"
    BY <1>2 DEF Inv, Current
  <2>2. OutcomeOf(connection.spec, secrets, plane)
          = OutcomeOf(connection.spec, rec.values, plane)
    BY <1>2, <2>1, OutcomeOfReferences
  <2> QED BY <2>1, <2>2 DEF OutcomeOf
<1> HIDE DEF outcome
<1>6. rec'.pc = "patch" /\ rec'.outcome = outcome /\ rec' \in Reconciler
  BY <1>2, <1>3, <1>4 DEF Decide, Reconciler, NothingRead, Values
<1>7. TypeOK' /\ CachesFollow' /\ Quiet' = Quiet
  BY <1>1, <1>6 DEF Inv, TypeOK, CachesFollow, Quiet
<1> QED BY <1>1, <1>2, <1>5, <1>6, <1>7 DEF Inv, Current

LEMMA PatchStatusInv == ASSUME Inv, PatchStatus PROVE Inv'
<1> DEFINE after == Marked(cache, rec.outcome)
           status == Patched(connection.status, cache.status, after)
           value == [connection EXCEPT !.status = status]
<1>1. /\ rec.pc = "patch" /\ rec.spec \in Specs /\ rec.outcome \in Outcome
      /\ connection \in Connection /\ cache \in Connection
      /\ connection.status \in Status /\ cache.status \in Status
  BY DEF PatchStatus, Inv, TypeOK, Reconciler, Connection
<1>2. after \in Status
  BY <1>1, MarkedTyped
<1>3. status \in Status
  BY <1>1, <1>2, PatchedTyped
<1>4. value \in Connection /\ value.status = status
  BY <1>1, <1>3 DEF Connection
<1>5. StoreConnection(value) /\ rec' = IdleWith(rec.spec)
      /\ UNCHANGED <<secrets, plane, cache, secretsSeen, queued, left>>
  BY DEF PatchStatus
<1>6. cache = connection => status = Marked(connection, rec.outcome)
  BY <1>1, <1>2, FreshPatch
<1> HIDE DEF value, status, after
<1>7. /\ connection' \in Connection /\ unseen' \subseteq Secrets \cup {"connection"}
      /\ CachesFollow'
      /\ "connection" \notin unseen' => value = connection /\ unseen' = unseen
  BY <1>4, <1>5, StoreKeeps DEF Inv
<1>8. TypeOK'
  BY <1>1, <1>5, <1>7, IdleTyped DEF Inv, TypeOK
<1>9. ASSUME Quiet' PROVE Current'
  <2>1. value = connection /\ unseen' = unseen /\ connection' = connection
    BY <1>5, <1>7, <1>9 DEF Quiet, StoreConnection
  <2>2. Quiet /\ cache = connection
    BY <1>5, <1>9, <2>1 DEF Quiet, Inv, CachesFollow
  <2>3. connection.status = Marked(connection, rec.outcome)
    BY <1>4, <1>6, <2>1, <2>2
  <2>4. PICK answer \in Planes : rec.outcome = OutcomeOf(connection.spec, secrets, answer)
    BY <1>1, <2>2 DEF Inv, Current
  <2>5. connection'.status = ExpectedStatus(answer)'
    BY <1>5, <2>1, <2>3, <2>4 DEF ExpectedStatus, OutcomeOf
  <2>6. rec'.pc = "idle"
    BY <1>5 DEF IdleWith
  <2> QED BY <2>5, <2>6 DEF Current
<1> QED BY <1>7, <1>8, <1>9 DEF Inv

\* The invariant is inductive.
LEMMA NextInv == Inv /\ [Next]_vars => Inv'
<1> SUFFICES ASSUME Inv, [Next]_vars PROVE Inv'
  OBVIOUS
<1>1. CASE UNCHANGED vars
  BY <1>1 DEF vars, Inv, TypeOK, CachesFollow, Quiet, Current, ExpectedStatus
<1>2. CASE Next
  BY <1>2, EditSpecInv, ChangeSecretInv, ChangePlaneInv, EnqueueInv, SyncSecretInv,
     StartReconcileInv, ReadSecretInv, ResolveInv, PatchStatusInv DEF Next, Reconcile
<1> QED BY <1>1, <1>2

-----------------------------------------------------------------------------
(* Theorems                                                                *)

\* Every reachable state is well typed, the merge of two reconciliations included.
THEOREM TypeCorrect == Spec => []TypeOK
<1>1. Inv => TypeOK
  BY DEF Inv
<1> QED BY <1>1, InitInv, NextInv, PTL DEF Spec

\* When the manager has nothing left to do, the status of the connection is that of the
\* stored spec and Secrets, whatever changed, failed or restarted in which order.
THEOREM SettledIsCurrent == Spec => []SettledStatusIsCurrent
<1>1. Inv => SettledStatusIsCurrent
  BY DEF Inv, Quiet, Current, SettledStatusIsCurrent, Reports
<1> QED BY <1>1, InitInv, NextInv, PTL DEF Spec
=============================================================================
