--------------------------- MODULE OrderedRollout ---------------------------
(***************************************************************************)
(* What a rollout promises of the versions of a configuration, however far *)
(* the caches are behind: a version is never replaced by an older one, a   *)
(* template is stamped with the version that is published at that moment,  *)
(* and the pod of a template runs a version that was published then or     *)
(* later.                                                                  *)
(***************************************************************************)
CONSTANTS
  Versions,         \* the versions there may be
  None,             \* no version
  NotNewer(_, _)    \* the first version is not newer than the second

VARIABLES
  published,   \* the version a container that starts now reads
  template,    \* the version the pod template is stamped with
  made,        \* the version of the template the pod was made from
  runs         \* the version the agent in the pod runs with

vars == <<published, template, made, runs>>

Init ==
  /\ published = None /\ template = None
  /\ made = None /\ runs = None

Publish ==
  /\ \E version \in Versions : NotNewer(published, version) /\ published' = version
  /\ UNCHANGED <<template, made, runs>>

Stamp ==
  /\ published # None /\ template' = published
  /\ UNCHANGED <<published, made, runs>>

StartPod ==
  /\ made = None /\ template # None
  /\ made' = template /\ runs' = published
  /\ UNCHANGED <<published, template>>

RestartAgent ==
  /\ made # None /\ runs' = published
  /\ UNCHANGED <<published, template, made>>

StopPod ==
  /\ made # None /\ made' = None /\ runs' = None
  /\ UNCHANGED <<published, template>>

Next == Publish \/ Stamp \/ StartPod \/ RestartAgent \/ StopPod

Spec == Init /\ [][Next]_vars
=============================================================================
