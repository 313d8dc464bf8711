------------------------------- MODULE Cluster -------------------------------
(***************************************************************************)
(* The Kubernetes cluster as the operator's reconciler sees it: the        *)
(* objects held by the API server, the manager's informer caches (which    *)
(* lag behind the API server), the work queue the watches feed, the users  *)
(* who create, edit and delete Authorino resources, and the garbage        *)
(* collector.  The operator itself is in AuthorinoReconcile.               *)
(*                                                                         *)
(* Simplifications:                                                        *)
(*  - An informer that lags catches up with the latest version at once;    *)
(*    it may do so after every single write.  As that would hide a         *)
(*    Deployment made and deleted in between, users delete only those that *)
(*    the informer has shown.                                              *)
(*  - Objects are abstracted to what the properties tell apart: an owned   *)
(*    object to its controlling owner, a ClusterRoleBinding to its         *)
(*    subjects, a Deployment to its scope and its Available condition.     *)
(*  - Versions of an Authorino resource are not numbered: `latest' records *)
(*    who holds the version now on the API server.                         *)
(***************************************************************************)
EXTENDS Naturals, FiniteSets

CONSTANTS
  Instances,      \* the Authorino resources, by namespace and name
  Namespaces,     \* the namespaces they live in
  NamespaceOf,    \* the namespace of each instance
  Bindings,       \* stems of ClusterRoleBinding names
  BindingName,    \* the namespace-qualified stem <namespace>.<name>
  LegacyName,     \* the stem older operators used, <name>
  Upgraded,       \* instances that an older operator provisioned
  CertSpecs,      \* the sets of TLS secrets a spec may ask for
  LateSecrets,    \* TLS secrets that users create and remove while it runs
  Reinstalled,    \* ClusterRoles that administrators install late or remove
  Laggy,          \* kinds whose informer lag is explored (see Laggables)
  Lingering,      \* kinds the garbage collector takes one object at a time
  Drifting,       \* owned kinds that users may delete behind the operator
  FaultKinds,     \* what may fail: API calls, by kind, and the operator itself
  MaxFaults,      \* bound: failing API calls and operator restarts
  MaxDisruptions, \* bound: user and environment actions
  None, Ghost     \* no owner; an owner that no longer exists

Suffixes     == {"manager", "k8sAuth"}
Services     == {"authService", "oidcService", "metricsService"}
OwnKinds     == Services \cup {"serviceAccount", "managerRoleBinding",
                               "leaderRoleBinding", "deployment"}
Objects      == (Instances \X OwnKinds) \cup (Namespaces \X {"leaderRole"})
Kinds        == OwnKinds \cup {"leaderRole"}
Laggables    == (Kinds \ {"deployment"}) \cup {"clusterRoleBinding"}
Faultable    == {"read", "create", "update", "delete", "finalizer", "status", "restart"}
Secrets      == (UNION CertSpecs) \cup LateSecrets
StatusValues == {"None", "Ready", "NotReady", "Failed"}

ASSUME NamesAssumption ==
  /\ NamespaceOf \in [Instances -> Namespaces]
  /\ BindingName \in [Instances -> Bindings]
  /\ LegacyName  \in [Instances -> Bindings]

\* A namespace has no ".", so two instances never share the qualified name.
ASSUME BindingNameInjective ==
  \A i, j \in Instances : BindingName[i] = BindingName[j] => i = j

\* A CR is never its own legacy namesake: <name> is shorter than <ns>.<name>.
ASSUME LegacyNameDiffers == \A i \in Instances : LegacyName[i] # BindingName[i]

ASSUME OwnersAssumption == /\ None \notin Instances
                           /\ Ghost \notin Instances
                           /\ None # Ghost
                           /\ Instances \cap Namespaces = {}

ASSUME BoundsAssumption == /\ Upgraded \subseteq Instances
                           /\ Reinstalled \subseteq Suffixes
                           /\ Laggy \subseteq Laggables
                           /\ Lingering \subseteq Kinds
                           /\ Drifting \subseteq OwnKinds
                           /\ FaultKinds \subseteq Faultable
                           /\ MaxFaults \in Nat
                           /\ MaxDisruptions \in Nat

VARIABLES
  cr,           \* the Authorino resources on the API server
  obj,          \* the controlling owner of each owned object, or None
  dep,          \* scope and Available condition of each Deployment
  crb,          \* the subjects of each ClusterRoleBinding, {} when absent
  secrets,      \* the TLS secrets that exist, per namespace
  clusterRoles, \* the ClusterRoles installed with the operator
  view,         \* cached Authorino resources
  latest,       \* who holds the latest version of a resource: cache, pass
  seenObj,      \* cached presence of the owned objects of the laggy kinds
  seenDep,      \* cached Deployments
  seenCrb,      \* cached ClusterRoleBindings
  queue,        \* the work queue: the instances to reconcile
  faults,       \* failures so far
  disruptions   \* user and environment actions so far

apiVars   == <<cr, obj, dep, crb>>
siteVars  == <<secrets, clusterRoles>>
cacheVars == <<view, latest, seenObj, seenDep, seenCrb>>
clusterVars == <<apiVars, siteVars, cacheVars, queue, faults, disruptions>>

NoCR == [exists |-> FALSE, deleting |-> FALSE, finalizer |-> FALSE,
         held |-> FALSE, wide |-> FALSE, certs |-> {}, status |-> "None"]
NoDep == [wide |-> FALSE, avail |-> FALSE]

CRs == [exists : BOOLEAN, deleting : BOOLEAN, finalizer : BOOLEAN,
        held : BOOLEAN, wide : BOOLEAN, certs : SUBSET Secrets,
        status : StatusValues]

ClusterTypeOK ==
  /\ cr \in [Instances -> CRs]
  /\ obj \in [Objects -> Instances \cup {None, Ghost}]
  /\ dep \in [Instances -> [wide : BOOLEAN, avail : BOOLEAN]]
  /\ crb \in [Suffixes -> [Bindings -> SUBSET Instances]]
  /\ secrets \subseteq Namespaces \X Secrets
  /\ clusterRoles \subseteq Suffixes
  /\ view \in [Instances -> CRs]
  /\ latest \in [Instances -> SUBSET {"cache", "pass"}]
  /\ seenObj \in [Objects -> BOOLEAN]
  /\ seenDep \in [Instances -> [found : BOOLEAN, wide : BOOLEAN, avail : BOOLEAN]]
  /\ seenCrb \in [Suffixes -> [Bindings -> SUBSET Instances]]
  /\ queue \subseteq Instances
  /\ faults \in 0 .. MaxFaults
  /\ disruptions \in 0 .. MaxDisruptions

(***************************************************************************)
(* The objects of an instance, and what the caches show of them.           *)
(***************************************************************************)

\* The Role for leader election has a fixed name: one per namespace.
Key(i, k) == IF k = "leaderRole" THEN <<NamespaceOf[i], k>> ELSE <<i, k>>

DepSeen(i) == [found |-> obj[<<i, "deployment">>] # None,
               wide  |-> dep[i].wide,
               avail |-> dep[i].avail]

\* Whether a cached read finds the object.
Found(i, k) ==
  IF k = "deployment" THEN seenDep[i].found
  ELSE IF k \in Laggy THEN seenObj[Key(i, k)] ELSE obj[Key(i, k)] # None

\* The subjects of a ClusterRoleBinding as a cached read returns them.
CachedBinding(s, b) ==
  IF "clusterRoleBinding" \in Laggy THEN seenCrb[s][b] ELSE crb[s][b]

\* A write to the resource leaves every earlier copy of it out of date.
Touch(i) == latest' = [latest EXCEPT ![i] = {}]

\* The owner is gone: what it owned now names an owner that does not exist.
Orphaned(i) == [k \in Objects |-> IF obj[k] = i THEN Ghost ELSE obj[k]]

Disrupt == /\ disruptions < MaxDisruptions
           /\ disruptions' = disruptions + 1

(***************************************************************************)
(* Initial states: the operator starts in a cluster where an older one has *)
(* provisioned the instances of Upgraded, with legacy ClusterRoleBindings. *)
(***************************************************************************)
ClusterInit ==
  /\ \E w \in [Upgraded -> BOOLEAN], owner \in [Namespaces -> Upgraded \cup {None}] :
       /\ \A n \in Namespaces :
            IF owner[n] = None THEN \A i \in Upgraded : NamespaceOf[i] # n
                               ELSE NamespaceOf[owner[n]] = n
       /\ cr = [i \in Instances |->
                  IF i \in Upgraded
                  THEN [NoCR EXCEPT !.exists = TRUE, !.finalizer = TRUE,
                                    !.wide = w[i], !.status = "Ready"]
                  ELSE NoCR]
       /\ dep = [i \in Instances |->
                   IF i \in Upgraded THEN [wide |-> w[i], avail |-> TRUE] ELSE NoDep]
       /\ crb = [s \in Suffixes |-> [b \in Bindings |->
                   {i \in Upgraded : LegacyName[i] = b
                                     /\ (s = "manager" => w[i])}]]
       /\ obj = [k \in Objects |->
                   IF k[2] = "leaderRole" THEN owner[k[1]]
                   ELSE IF k[1] \notin Upgraded
                           \/ (k[2] = "managerRoleBinding" /\ w[k[1]])
                        THEN None ELSE k[1]]
  /\ secrets = Namespaces \X ((UNION CertSpecs) \ LateSecrets)
  /\ \E missing \in SUBSET Reinstalled : clusterRoles = Suffixes \ missing
  /\ view = cr
  /\ latest = [i \in Instances |-> {"cache"}]
  /\ seenObj = [k \in Objects |-> k[2] \in Laggy /\ obj[k] # None]
  /\ seenDep = [i \in Instances |-> DepSeen(i)]
  /\ seenCrb = crb
  /\ queue = Upgraded
  /\ faults = 0
  /\ disruptions = 0

(***************************************************************************)
(* Users and administrators.                                               *)
(***************************************************************************)
CreateCR(i, w, c) ==
  /\ ~cr[i].exists
  /\ Disrupt
  /\ cr' = [cr EXCEPT ![i] = [NoCR EXCEPT !.exists = TRUE, !.wide = w, !.certs = c]]
  /\ Touch(i)
  /\ UNCHANGED <<obj, dep, crb, siteVars, view, seenObj, seenDep, seenCrb,
                 queue, faults>>

EditSpec(i, w, c) ==
  /\ cr[i].exists
  /\ <<w, c>> # <<cr[i].wide, cr[i].certs>>
  /\ Disrupt
  /\ cr' = [cr EXCEPT ![i].wide = w, ![i].certs = c]
  /\ Touch(i)
  /\ UNCHANGED <<obj, dep, crb, siteVars, view, seenObj, seenDep, seenCrb,
                 queue, faults>>

\* Deletion waits for finalizers; in the foreground it also waits for the
\* garbage collector to delete the dependents.
DeleteCR(i, foreground) ==
  /\ cr[i].exists
  /\ ~cr[i].deleting
  /\ Disrupt
  /\ IF cr[i].finalizer \/ foreground
     THEN /\ cr' = [cr EXCEPT ![i].deleting = TRUE, ![i].held = foreground]
          /\ obj' = obj
     ELSE /\ cr' = [cr EXCEPT ![i] = NoCR]
          /\ obj' = Orphaned(i)
  /\ Touch(i)
  /\ UNCHANGED <<dep, crb, siteVars, view, seenObj, seenDep, seenCrb,
                 queue, faults>>

\* A user deletes an object the operator owns.
Drift(k) ==
  /\ k[2] \in Drifting
  /\ obj[k] # None
  /\ k[2] = "deployment" => seenDep[k[1]].found
  /\ Disrupt
  /\ obj' = [obj EXCEPT ![k] = None]
  /\ dep' = IF k[2] = "deployment" THEN [dep EXCEPT ![k[1]] = NoDep] ELSE dep
  /\ UNCHANGED <<cr, crb, siteVars, cacheVars, queue, faults>>

CreateSecret(n, c) ==
  /\ <<n, c>> \notin secrets
  /\ Disrupt
  /\ secrets' = secrets \cup {<<n, c>>}
  /\ UNCHANGED <<apiVars, clusterRoles, cacheVars, queue, faults>>

DeleteSecret(n, c) ==
  /\ <<n, c>> \in secrets
  /\ Disrupt
  /\ secrets' = secrets \ {<<n, c>>}
  /\ UNCHANGED <<apiVars, clusterRoles, cacheVars, queue, faults>>

\* The ClusterRoles are installed by the operator's bundle, not by its code.
ReinstallClusterRole(s) ==
  /\ Disrupt
  /\ clusterRoles' = IF s \in clusterRoles THEN clusterRoles \ {s}
                                           ELSE clusterRoles \cup {s}
  /\ UNCHANGED <<apiVars, secrets, cacheVars, queue, faults>>

Users ==
  \/ \E i \in Instances, w \in BOOLEAN, c \in CertSpecs : CreateCR(i, w, c)
  \/ \E i \in Instances, w \in BOOLEAN, c \in CertSpecs : EditSpec(i, w, c)
  \/ \E i \in Instances, foreground \in BOOLEAN : DeleteCR(i, foreground)
  \/ \E k \in Objects : Drift(k)
  \/ \E n \in Namespaces, c \in LateSecrets : CreateSecret(n, c)
  \/ \E n \in Namespaces, c \in LateSecrets : DeleteSecret(n, c)
  \/ \E s \in Reinstalled : ReinstallClusterRole(s)

(***************************************************************************)
(* Kubernetes controllers: Deployments roll out or become unavailable, the *)
(* garbage collector deletes dependents.                                   *)
(***************************************************************************)
RollOut(i) ==
  /\ obj[<<i, "deployment">>] # None
  /\ ~dep[i].avail
  /\ dep' = [dep EXCEPT ![i].avail = TRUE]
  /\ UNCHANGED <<cr, obj, crb, siteVars, cacheVars, queue, faults, disruptions>>

BecomeUnavailable(i) ==
  /\ dep[i].avail
  /\ Disrupt
  /\ dep' = [dep EXCEPT ![i].avail = FALSE]
  /\ UNCHANGED <<cr, obj, crb, siteVars, cacheVars, queue, faults>>

Collectable(k) ==
  \/ obj[k] = Ghost
  \/ obj[k] \in Instances /\ cr[obj[k]].held

\* Dependents are deleted in any order; to bound that, the kinds that are not
\* Lingering go in one step.
GarbageCollect(ks) ==
  /\ ks # {}
  /\ obj' = [k \in Objects |-> IF k \in ks THEN None ELSE obj[k]]
  /\ dep' = [i \in Instances |-> IF <<i, "deployment">> \in ks THEN NoDep ELSE dep[i]]
  /\ UNCHANGED <<cr, crb, siteVars, cacheVars, queue, faults, disruptions>>

CollectOne(k)  == k[2] \in Lingering /\ Collectable(k) /\ GarbageCollect({k})
CollectTheRest == GarbageCollect({k \in Objects : k[2] \notin Lingering /\ Collectable(k)})

\* The dependents are gone: the foreground-deletion finalizer is removed.
ReleaseHold(i) ==
  /\ cr[i].held
  /\ \A k \in Objects : obj[k] # i
  /\ cr' = [cr EXCEPT ![i] = IF @.finalizer THEN [@ EXCEPT !.held = FALSE] ELSE NoCR]
  /\ Touch(i)
  /\ UNCHANGED <<obj, dep, crb, siteVars, view, seenObj, seenDep, seenCrb,
                 queue, faults, disruptions>>

(***************************************************************************)
(* The manager's informers.  The controller watches Authorino resources    *)
(* and the Deployments they own, nothing else: only these two enqueue.     *)
(***************************************************************************)
SyncCR(i) ==
  /\ "cache" \notin latest[i]
  /\ view' = [view EXCEPT ![i] = cr[i]]
  /\ latest' = [latest EXCEPT ![i] = {"cache"}]
  /\ queue' = queue \cup {i}
  /\ UNCHANGED <<apiVars, siteVars, seenObj, seenDep, seenCrb, faults, disruptions>>

\* Mutant: the controller does not watch the Deployments it owns.
SyncUnwatchedDeployment(i) ==
  /\ seenDep[i] # DepSeen(i)
  /\ seenDep' = [seenDep EXCEPT ![i] = DepSeen(i)]
  /\ UNCHANGED <<apiVars, siteVars, view, latest, seenObj, seenCrb, queue,
                 faults, disruptions>>

SyncDeployment(i) ==
  /\ seenDep[i] # DepSeen(i)
  /\ seenDep' = [seenDep EXCEPT ![i] = DepSeen(i)]
  /\ queue' = queue \cup {i}
  /\ UNCHANGED <<apiVars, siteVars, view, latest, seenObj, seenCrb, faults, disruptions>>

SyncObject(k) ==
  /\ k[2] \in Laggy
  /\ seenObj[k] # (obj[k] # None)
  /\ seenObj' = [seenObj EXCEPT ![k] = ~@]
  /\ UNCHANGED <<apiVars, siteVars, view, latest, seenDep, seenCrb, queue,
                 faults, disruptions>>

SyncClusterRoleBinding(s, b) ==
  /\ "clusterRoleBinding" \in Laggy
  /\ seenCrb[s][b] # crb[s][b]
  /\ seenCrb' = [seenCrb EXCEPT ![s][b] = crb[s][b]]
  /\ UNCHANGED <<apiVars, siteVars, view, latest, seenObj, seenDep, queue,
                 faults, disruptions>>

\* The periodic resync of the informer re-delivers what is cached.
Resync(i) ==
  /\ view[i].exists
  /\ i \notin queue
  /\ Disrupt
  /\ queue' = queue \cup {i}
  /\ UNCHANGED <<apiVars, siteVars, cacheVars, faults>>

Controllers ==
  \/ \E i \in Instances : RollOut(i) \/ BecomeUnavailable(i) \/ ReleaseHold(i)
  \/ \E k \in Objects : CollectOne(k)
  \/ CollectTheRest

Informers ==
  \/ \E i \in Instances : SyncCR(i) \/ SyncDeployment(i) \/ Resync(i)
  \/ \E k \in Objects : SyncObject(k)
  \/ \E s \in Suffixes, b \in Bindings : SyncClusterRoleBinding(s, b)

ClusterNext == Users \/ Controllers \/ Informers
=============================================================================
