-------------------------- MODULE AuthorinoReconcile --------------------------
(***************************************************************************)
(* The reconciler of the Authorino operator: one worker that takes an      *)
(* instance from the work queue and makes one pass over it.  Every action  *)
(* is one call the pass makes to the API server, together with the code up *)
(* to the next call; everything in Cluster may happen in between.          *)
(***************************************************************************)
EXTENDS Cluster

VARIABLES
  pc,   \* the next call of the pass
  cur,  \* the instance being reconciled
  mem   \* the pass's copy of the resource, read when the pass began

passVars == <<pc, cur, mem>>
vars     == <<clusterVars, passVars>>

Cleaning     == {"cleanupManager", "cleanupK8sAuth", "removeFinalizer"}
Provisioning == Services \cup
  {"preflight", "serviceAccount", "managerClusterRoleBinding", "markUnrevoked",
   "managerRoleBinding", "k8sAuthClusterRoleBinding", "leaderRole",
   "leaderRoleBinding", "legacyManager", "legacyK8sAuth", "deployment",
   "markFailed", "markReady", "markNotReady"}
Steps == {"idle", "addFinalizer"} \cup Cleaning \cup Provisioning

\* A pass is at one of its calls, for an instance, with a copy of its resource.
TypeOK ==
  /\ ClusterTypeOK
  /\ pc \in Steps
  /\ cur \in Instances \cup {None}
  /\ mem \in CRs

(***************************************************************************)
(* Calls to the API server.  Each call returns the error it reports (ok),  *)
(* whether it took effect (done) and the budget it spent (cost): a failing *)
(* write may have taken effect, as when its response is lost.              *)
(***************************************************************************)
Fails(call) == call \in FaultKinds /\ faults < MaxFaults

Write(call, accepted) ==
  {[crud |-> call, ok |-> accepted, done |-> accepted, cost |-> 0]}
  \cup {[crud |-> call, ok |-> FALSE, done |-> d, cost |-> 1] :
          d \in IF Fails(call) THEN {FALSE, accepted} ELSE {}}

ReadError == IF Fails("read")
             THEN {[crud |-> "read", ok |-> FALSE, done |-> FALSE, cost |-> 1]}
             ELSE {}

NothingToDo == [crud |-> "read", ok |-> TRUE, done |-> FALSE, cost |-> 0]

\* reconcileResource: read the cache, then create, delete or apply.  A create
\* finds the object already there and a delete finds it gone when the cache is
\* behind; an apply may be refused (contested) when another owner controls it.
ReconcileResource(found, present, tagged, contested) ==
  ReadError \cup
  CASE ~found /\ tagged  -> {NothingToDo}
    [] ~found /\ ~tagged -> Write("create", ~present)
    [] found /\ tagged   -> Write("delete", present)
    [] found /\ ~tagged  -> Write("update", TRUE) \cup
                            (IF contested THEN Write("update", FALSE) ELSE {})

Spend(r) == faults' = faults + r.cost

(***************************************************************************)
(* The pass.                                                               *)
(***************************************************************************)

\* Mutant: legacy bindings go before the instance has its own.
LegacyFirst(step) ==
  CASE step = "serviceAccount"            -> "legacyManager"
    [] step = "legacyManager"             -> "legacyK8sAuth"
    [] step = "legacyK8sAuth"             -> "managerClusterRoleBinding"
    [] step = "managerClusterRoleBinding" -> "managerRoleBinding"
    [] step = "managerRoleBinding"        -> "k8sAuthClusterRoleBinding"
    [] step = "k8sAuthClusterRoleBinding" -> "leaderRole"
    [] step = "leaderRole"                -> "leaderRoleBinding"
    [] step = "leaderRoleBinding"         -> "deployment"
    [] step = "preflight"                 -> "serviceAccount"

\* The order of the provisioning calls.
After(step) ==
  CASE step = "preflight"                 -> "authService"
    [] step = "authService"               -> "oidcService"
    [] step = "oidcService"               -> "metricsService"
    [] step = "metricsService"            -> "serviceAccount"
    [] step = "serviceAccount"            -> "managerClusterRoleBinding"
    [] step = "managerClusterRoleBinding" -> "managerRoleBinding"
    [] step = "managerRoleBinding"        -> "k8sAuthClusterRoleBinding"
    [] step = "k8sAuthClusterRoleBinding" -> "leaderRole"
    [] step = "leaderRole"                -> "leaderRoleBinding"
    [] step = "leaderRoleBinding"         -> "legacyManager"
    [] step = "legacyManager"             -> "legacyK8sAuth"
    [] step = "legacyK8sAuth"             -> "deployment"

Goto(step) == pc' = step /\ UNCHANGED <<cur, mem>>

\* Errors not in `reported' are dropped and the pass goes on.
ProceedOr(r, reported, failed) ==
  Goto(IF r.ok \/ r.crud \notin reported THEN After(pc) ELSE failed)
Proceed(r, reported) == ProceedOr(r, reported, "markFailed")

\* Mutants: a failed pass is not repeated; the request put back is an empty one.
ReturnForGood(ok) == pc' = "idle" /\ cur' = None /\ mem' = NoCR /\ queue' = queue
ReturnEmpty(ok)   == /\ pc' = "idle" /\ cur' = None /\ mem' = NoCR
                     /\ queue' = IF ok THEN queue ELSE queue \cup {None}

\* The pass returns; with an error, the instance goes back to the queue.
Return(ok) ==
  /\ pc' = "idle" /\ cur' = None /\ mem' = NoCR
  /\ queue' = IF ok THEN queue ELSE queue \cup {cur}

\* The pass ends without having made a new version of the resource.
LetGo == latest' = [latest EXCEPT ![cur] = @ \ {"pass"}]

\* Mutants: provision without a finalizer; remove it without the cleanup.
EntryUnprotected(v) == IF ~v.exists THEN "idle"
                       ELSE IF ~v.deleting THEN "preflight"
                       ELSE IF v.finalizer THEN "cleanupManager" ELSE "idle"
EntryUnclean(v) == IF ~v.exists THEN "idle"
                   ELSE IF v.deleting
                        THEN IF v.finalizer THEN "removeFinalizer" ELSE "idle"
                   ELSE IF v.finalizer THEN "preflight" ELSE "addFinalizer"

\* The first step, by what the cached resource says.
Entry(v) == IF ~v.exists THEN "idle"
            ELSE IF v.deleting
                 THEN IF v.finalizer THEN "cleanupManager" ELSE "idle"
            ELSE IF v.finalizer THEN "preflight" ELSE "addFinalizer"

Reconcile(i) ==
  /\ pc = "idle"
  /\ i \in queue
  /\ queue' = queue \ {i}
  /\ pc' = Entry(view[i])
  /\ IF Entry(view[i]) = "idle"
     THEN UNCHANGED <<cur, mem, latest>>
     ELSE /\ cur' = i
          /\ mem' = view[i]
          /\ latest' = [latest EXCEPT ![i] = IF "cache" \in @ THEN @ \cup {"pass"} ELSE @]
  /\ UNCHANGED <<apiVars, siteVars, view, seenObj, seenDep, seenCrb, faults, disruptions>>

\* The resource cannot be read: the request is put back.
ReconcileReadError(i) ==
  /\ pc = "idle"
  /\ i \in queue
  /\ Fails("read")
  /\ faults' = faults + 1
  /\ UNCHANGED <<apiVars, siteVars, cacheVars, queue, disruptions, passVars>>

\* Deletion by name, without looking at the binding; the error is only logged.
CleanupClusterScopedPermissions(s, step, next) ==
  /\ pc = step
  /\ \E r \in Write("delete", crb[s][BindingName[cur]] # {}) :
       /\ crb' = IF r.done THEN [crb EXCEPT ![s][BindingName[cur]] = {}] ELSE crb
       /\ Spend(r)
  /\ Goto(next)
  /\ UNCHANGED <<cr, obj, dep, siteVars, cacheVars, queue, disruptions>>

\* Mutant: the update carries no resource version.
UpdateBlindly == TRUE

\* Update carries the resource version the pass read, so it is refused when
\* the resource has changed since.
UpdateAccepted == "pass" \in latest[cur]

\* The resource an accepted update leaves: the pass's copy, status aside.
Updated(finalizer) == [cr[cur] EXCEPT !.wide = mem.wide, !.certs = mem.certs,
                                      !.finalizer = finalizer]

RemoveFinalizer ==
  /\ pc = "removeFinalizer"
  /\ \E r \in Write("finalizer", UpdateAccepted) :
       /\ IF r.done
          THEN /\ cr' = [cr EXCEPT ![cur] = IF @.held THEN Updated(FALSE) ELSE NoCR]
               /\ obj' = IF cr[cur].held THEN obj ELSE Orphaned(cur)
               /\ Touch(cur)
          ELSE /\ LetGo
               /\ UNCHANGED <<cr, obj>>
       /\ Spend(r)
       /\ Return(r.ok)
  /\ UNCHANGED <<dep, crb, siteVars, view, seenObj, seenDep, seenCrb, disruptions>>

AddFinalizer ==
  /\ pc = "addFinalizer"
  /\ \E r \in Write("finalizer", UpdateAccepted) :
       /\ IF r.done
          THEN /\ cr' = [cr EXCEPT ![cur] = Updated(TRUE)]
               /\ Touch(cur)
          ELSE /\ LetGo
               /\ UNCHANGED cr
       /\ Spend(r)
       /\ Return(r.ok)
  /\ UNCHANGED <<obj, dep, crb, siteVars, view, seenObj, seenDep, seenCrb, disruptions>>

\* Every TLS secret the spec names must exist in the instance's namespace.
InstallationPreflightCheck ==
  /\ pc = "preflight"
  /\ \E r \in {NothingToDo} \cup (IF mem.certs # {} THEN ReadError ELSE {}) :
       /\ Goto(IF r.ok /\ {NamespaceOf[cur]} \X mem.certs \subseteq secrets
               THEN After(pc) ELSE "markFailed")
       /\ Spend(r)
  /\ UNCHANGED <<apiVars, siteVars, cacheVars, queue, disruptions>>

\* One owned object; the owner reference set on it is the current instance.
ReconcileOwned(k, tagged, reported) ==
  LET key == Key(cur, k)
  IN  \E r \in ReconcileResource(Found(cur, k), obj[key] # None, tagged,
                                 obj[key] \notin {None, cur}) :
        /\ obj' = IF r.done THEN [obj EXCEPT ![key] = IF tagged THEN None ELSE cur]
                            ELSE obj
        /\ Spend(r)
        /\ Proceed(r, reported)
        /\ UNCHANGED <<cr, dep, crb, siteVars, cacheVars, queue, disruptions>>

\* Mutants: a refused apply, or a failed create, is not reported.
ReconcileServiceOnce(k) ==
  /\ pc = k
  /\ ReconcileOwned(k, FALSE, {"read", "create"})
ServiceAccountOnceExisting ==
  /\ pc = "serviceAccount"
  /\ ReconcileOwned("serviceAccount", FALSE, {"read", "update"})

ReconcileService(k) ==
  /\ pc = k
  /\ ReconcileOwned(k, FALSE, {"read", "create", "update"})

ReconcileAuthorinoServiceAccount ==
  /\ pc = "serviceAccount"
  /\ ReconcileOwned("serviceAccount", FALSE, {"read", "create", "update"})

\* Mutant: a failed create is not reported either.
BindingReadErrors == {"read", "update"}

\* clusterRoleStatus: a failed delete is not among the reported errors.
BindingErrors == {"read", "create", "update"}

\* Mutant: the pass goes on without the ClusterRole.
ClusterRoleIgnored(s) ==
  /\ s \notin clusterRoles /\ faults' = faults
  /\ Goto(After(pc))
  /\ UNCHANGED <<apiVars, siteVars, cacheVars, queue, disruptions>>

\* checkClusterRoleExists fails: absent, or not readable.
ClusterRoleMissing(s) ==
  /\ \/ s \notin clusterRoles /\ faults' = faults
     \/ Fails("read") /\ faults' = faults + 1
  /\ Goto("markFailed")
  /\ UNCHANGED <<apiVars, siteVars, cacheVars, queue, disruptions>>

\* One ClusterRoleBinding, under its namespace-qualified name.  Applying it
\* replaces whatever subjects a binding of that name had.
ReconcileClusterRoleBinding(s, tagged, failed) ==
  LET b == BindingName[cur]
  IN  /\ s \in clusterRoles
      /\ \E r \in ReconcileResource(CachedBinding(s, b) # {}, crb[s][b] # {},
                                    tagged, FALSE) :
           /\ crb' = IF r.done THEN [crb EXCEPT ![s][b] = IF tagged THEN {} ELSE {cur}]
                               ELSE crb
           /\ Spend(r)
           /\ ProceedOr(r, BindingErrors, failed)
      /\ UNCHANGED <<cr, obj, dep, siteVars, cacheVars, queue, disruptions>>

\* A namespaced instance must not hold the cluster-wide binding: it is tagged,
\* and deleted if it is found.  The error of that is dropped, but one of those
\* reported has been written to the status by then.
ReconcileManagerClusterRoleBinding ==
  /\ pc = "managerClusterRoleBinding"
  /\ \/ ClusterRoleMissing("manager")
     \/ ReconcileClusterRoleBinding("manager", ~mem.wide,
                                    IF mem.wide THEN "markFailed" ELSE "markUnrevoked")

\* Mutant: a cluster-wide instance keeps the RoleBinding.
RoleBindingKept ==
  /\ pc = "managerRoleBinding"
  /\ \/ ClusterRoleMissing("manager")
     \/ "manager" \in clusterRoles
        /\ ReconcileOwned("managerRoleBinding", FALSE, BindingErrors)

ReconcileManagerRoleBinding ==
  /\ pc = "managerRoleBinding"
  /\ \/ ClusterRoleMissing("manager")
     \/ "manager" \in clusterRoles
        /\ ReconcileOwned("managerRoleBinding", mem.wide, BindingErrors)

ReconcileManagerAuthClusterRoleBinding ==
  /\ pc = "k8sAuthClusterRoleBinding"
  /\ \/ ClusterRoleMissing("k8sAuth")
     \/ ReconcileClusterRoleBinding("k8sAuth", FALSE, "markFailed")

\* Shared by the instances of a namespace; a refused apply is not reported.
ReconcileLeaderElectionRole ==
  /\ pc = "leaderRole"
  /\ ReconcileOwned("leaderRole", FALSE, {"read", "create"})

ReconcileLeaderElectionRoleBinding ==
  /\ pc = "leaderRoleBinding"
  /\ ReconcileOwned("leaderRoleBinding", FALSE, BindingErrors)

\* Mutants: delete by name whatever is there now; delete without looking at it.
NoPreconditions(s, b) == crb[s][b] # {}
AnySubject(s, b)      == CachedBinding(s, b) # {}

\* The UID and resource version preconditions: the binding on the API server
\* is still the one that was read.
PreconditionsHold(s, b) == crb[s][b] = CachedBinding(s, b)

\* The binding that was read names this instance's ServiceAccount.
SubjectIncluded(s, b) == cur \in CachedBinding(s, b)

\* Best effort: a legacy binding is deleted if it names this instance.
CleanupLegacyClusterRoleBinding(s, step) ==
  LET b == LegacyName[cur]
  IN  /\ pc = step
      /\ \E r \in ReadError \cup
                  IF SubjectIncluded(s, b)
                  THEN Write("delete", PreconditionsHold(s, b)) ELSE {NothingToDo} :
           /\ crb' = IF r.done THEN [crb EXCEPT ![s][b] = {}] ELSE crb
           /\ Spend(r)
           /\ Proceed(r, {})
      /\ UNCHANGED <<cr, obj, dep, siteVars, cacheVars, queue, disruptions>>

\* Ready is decided by the Deployment as it was read, before it was applied.
ReconcileDeployment ==
  LET key == <<cur, "deployment">>
  IN  /\ pc = "deployment"
      /\ \E r \in ReconcileResource(seenDep[cur].found, obj[key] # None, FALSE,
                                    obj[key] \notin {None, cur}) :
           /\ obj' = IF r.done THEN [obj EXCEPT ![key] = cur] ELSE obj
           /\ dep' = IF r.done THEN [dep EXCEPT ![cur].wide = mem.wide] ELSE dep
           /\ Spend(r)
           /\ Goto(IF ~r.ok THEN "markFailed"
                   ELSE IF r.crud = "update" /\ seenDep[cur].avail THEN "markReady"
                   ELSE "markNotReady")
      /\ UNCHANGED <<cr, crb, siteVars, cacheVars, queue, disruptions>>

\* Whether the condition sent makes a new version of the resource.  It is
\* computed from the copy the pass holds: if that has the condition already, it
\* is sent as it is, otherwise with a new time.  Two failures may differ in
\* reason or message.
ConditionChanges(status, changed) ==
  /\ changed => status = "Failed" \/ {cr[cur].status, mem.status} # {status}
  /\ cr[cur].status # status => changed

\* The failure that the pass does not return with: the status says so until the
\* pass writes its last one, and the error of the write itself is only logged.
SetStatusFailed ==
  /\ pc = "markUnrevoked"
  /\ \E r \in Write("status", cr[cur].exists), changed \in BOOLEAN :
       /\ IF r.done THEN ConditionChanges("Failed", changed) ELSE ~changed
       /\ IF changed
          THEN cr' = [cr EXCEPT ![cur].status = "Failed"] /\ Touch(cur)
          ELSE UNCHANGED <<cr, latest>>
       /\ Spend(r)
  /\ Goto(After("managerClusterRoleBinding"))
  /\ UNCHANGED <<obj, dep, crb, siteVars, view, seenObj, seenDep, seenCrb, queue, disruptions>>

\* A server-side apply of the status, not tied to the version that was read.
UpdateStatusConditions(step, status, failed) ==
  /\ pc = step
  /\ \E r \in Write("status", cr[cur].exists), changed \in BOOLEAN :
       /\ IF r.done THEN ConditionChanges(status, changed) ELSE ~changed
       /\ IF changed
          THEN cr' = [cr EXCEPT ![cur].status = status] /\ Touch(cur)
          ELSE LetGo /\ UNCHANGED cr
       /\ Spend(r)
       /\ Return(r.ok /\ ~failed)
  /\ UNCHANGED <<obj, dep, crb, siteVars, view, seenObj, seenDep, seenCrb, disruptions>>

\* The operator stops at any point and starts again: the pass is lost, caches
\* are listed afresh and every resource is queued.
Restart ==
  /\ Fails("restart")
  /\ faults' = faults + 1
  /\ pc' = "idle" /\ cur' = None /\ mem' = NoCR
  /\ view' = cr
  /\ latest' = [i \in Instances |-> {"cache"}]
  /\ seenObj' = [k \in Objects |-> k[2] \in Laggy /\ obj[k] # None]
  /\ seenDep' = [i \in Instances |-> DepSeen(i)]
  /\ seenCrb' = crb
  /\ queue' = {i \in Instances : cr[i].exists}
  /\ UNCHANGED <<apiVars, siteVars, disruptions>>

Pass ==
  \/ CleanupClusterScopedPermissions("manager", "cleanupManager", "cleanupK8sAuth")
  \/ CleanupClusterScopedPermissions("k8sAuth", "cleanupK8sAuth", "removeFinalizer")
  \/ RemoveFinalizer
  \/ AddFinalizer
  \/ InstallationPreflightCheck
  \/ \E k \in Services : ReconcileService(k)
  \/ ReconcileAuthorinoServiceAccount
  \/ ReconcileManagerClusterRoleBinding
  \/ SetStatusFailed
  \/ ReconcileManagerRoleBinding
  \/ ReconcileManagerAuthClusterRoleBinding
  \/ ReconcileLeaderElectionRole
  \/ ReconcileLeaderElectionRoleBinding
  \/ CleanupLegacyClusterRoleBinding("manager", "legacyManager")
  \/ CleanupLegacyClusterRoleBinding("k8sAuth", "legacyK8sAuth")
  \/ ReconcileDeployment
  \/ UpdateStatusConditions("markFailed", "Failed", TRUE)
  \/ UpdateStatusConditions("markReady", "Ready", FALSE)
  \/ UpdateStatusConditions("markNotReady", "NotReady", FALSE)

Init == /\ ClusterInit
        /\ pc = "idle" /\ cur = None /\ mem = NoCR

Next == \/ \E i \in Instances : Reconcile(i) \/ ReconcileReadError(i)
        \/ Pass
        \/ Restart
        \/ ClusterNext /\ UNCHANGED passVars

Spec == Init /\ [][Next]_vars

(***************************************************************************)
(* Fairness: the worker makes its calls, the queue is served in order of   *)
(* arrival (an instance that keeps being queued is eventually taken), the  *)
(* informers catch up, and Kubernetes rolls out and collects.  Nothing is  *)
(* assumed of users, of failures or of restarts.                           *)
(***************************************************************************)
Quietly(A) == A /\ UNCHANGED passVars

Fairness ==
  /\ WF_vars(Pass)
  /\ \A i \in Instances :
       /\ SF_vars(Reconcile(i))
       /\ WF_vars(Quietly(SyncCR(i)))
       /\ WF_vars(Quietly(SyncDeployment(i)))
       /\ WF_vars(Quietly(RollOut(i)))
       /\ WF_vars(Quietly(ReleaseHold(i)))
  /\ WF_vars(Quietly(\E k \in Objects : CollectOne(k)))
  /\ WF_vars(Quietly(CollectTheRest))
  /\ WF_vars(Quietly(\E k \in Objects : SyncObject(k)))
  /\ WF_vars(Quietly(\E s \in Suffixes, b \in Bindings : SyncClusterRoleBinding(s, b)))

FairSpec == Spec /\ Fairness

(***************************************************************************)
(* Safety.                                                                 *)
(***************************************************************************)

Live(i) == cr[i].exists /\ ~cr[i].deleting

\* ClusterRoleBindings have no owner reference, so nothing but the finalizer's
\* cleanup removes them: an instance named by its own binding still exists and
\* still has the finalizer, even when the two are written passes apart.
BindingNeedsFinalizer ==
  \A i \in Instances, s \in Suffixes :
    i \in crb[s][BindingName[i]] => cr[i].exists /\ cr[i].finalizer

\* Cluster-wide access of an instance, under either name.
Access(i, s) == i \in crb[s][BindingName[i]] \/ i \in crb[s][LegacyName[i]]
Wanted(s)    == s = "k8sAuth" \/ mem.wide

\* A provisioning pass never takes away access that the spec it works on asks
\* for, not even while it moves the instance from the legacy name to the new one.
RequestedAccessKept ==
  [][\A i \in Instances, s \in Suffixes :
       pc \in Provisioning /\ cur = i /\ Wanted(s) /\ Access(i, s) => Access(i, s)']_vars

\* No pass over one instance removes another instance from that instance's own
\* binding, whatever legacy names coincide with it.
OthersKeepAccess ==
  [][\A j \in Instances \ {cur}, s \in Suffixes :
       j \in crb[s][BindingName[j]] => j \in crb'[s][BindingName[j]]]_vars

\* The legacy cleanup removes a binding only while that binding names the
\* instance under reconciliation, however old the cached copy it validated.
LegacyCleanupConfirmed ==
  [][\A s \in Suffixes, b \in Bindings :
       pc \in {"legacyManager", "legacyK8sAuth"} /\ crb'[s][b] # crb[s][b]
         => cur \in crb[s][b]]_vars

\* Once a pass has written the Deployment of a live instance, what the new pods
\* run with is in place: the ServiceAccount, and the bindings for the scope the
\* Deployment was given.
RolloutBacked ==
  [][pc = "deployment" /\ pc' \in {"markReady", "markNotReady"} /\ Live(cur)
       => /\ obj[<<cur, "serviceAccount">>] # None
          /\ cur \in crb["k8sAuth"][BindingName[cur]]
          /\ IF dep'[cur].wide THEN cur \in crb["manager"][BindingName[cur]]
                               ELSE obj[<<cur, "managerRoleBinding">>] # None]_vars

\* Only users change a spec: the finalizer's updates, which send the whole
\* resource, never write back an older one.
SpecKept ==
  [][\A i \in Instances :
       cr[i].exists /\ cr'[i].exists /\ disruptions' = disruptions
         => cr'[i].wide = cr[i].wide /\ cr'[i].certs = cr[i].certs]_vars

\* Nothing is left to do: no pass, no request, no event on its way.
Settled ==
  /\ pc = "idle" /\ queue = {}
  /\ \A i \in Instances : "cache" \in latest[i] /\ seenDep[i] = DepSeen(i)

\* The objects an instance has to itself are there as its spec asks.
Provided(i) ==
  /\ \A k \in OwnKinds : ~(k = "managerRoleBinding" /\ cr[i].wide) => obj[<<i, k>>] = i
  /\ dep[i].wide = cr[i].wide
  /\ i \in crb["k8sAuth"][BindingName[i]]
  /\ cr[i].wide => i \in crb["manager"][BindingName[i]]

\* The binding for the scope that its spec does not ask for is not there.
Revoked(i) == IF cr[i].wide THEN obj[<<i, "managerRoleBinding">>] # i
                            ELSE i \notin crb["manager"][BindingName[i]]

Provisioned(i) == Provided(i) /\ Revoked(i)

\* When the operator has nothing left to do, every live instance is provisioned
\* as its spec says, whatever calls failed on the way but deletions after an edit of
\* the scope, whose errors are dropped.
SettledMatchesSpec ==
  Settled => \A i \in Instances : Live(i) => Provisioned(i)

\* When the operator has nothing left to do, Ready is reported exactly when the
\* Deployment is available, though every pass computes it from an old copy.
SettledStatus ==
  Settled => \A i \in Instances : Live(i) => (cr[i].status = "Ready" <=> dep[i].avail)

(***************************************************************************)
(* Refinement: what the passes do to resources, finalizers and bindings    *)
(* amounts to granting access under a guard.                               *)
(***************************************************************************)
LifeOf(i) == IF ~cr[i].exists THEN "absent"
             ELSE IF cr[i].deleting THEN "leaving" ELSE "live"

Life    == [i \in Instances |-> LifeOf(i)]
Guarded == [i \in Instances |-> cr[i].exists /\ cr[i].finalizer]
Granted == {g \in Instances \X Suffixes : g[1] \in crb[g[2]][BindingName[g[1]]]}

Abstract == INSTANCE Grants WITH Principals <- Instances, Scopes <- Suffixes,
                                 Optional <- {"manager"}, life <- Life,
                                 guarded <- Guarded, granted <- Granted

\* If no deletion fails, every step of the operator, of users and of Kubernetes
\* is a step of Grants or changes nothing it speaks of: a stale pass neither
\* guards an instance that is leaving, nor grants without a guard, nor takes
\* from a live instance what it must have, nor lets one go that has access.
GrantsImplemented == Abstract!Spec

(***************************************************************************)
(* Claims of the repository's comments and tests that the code breaks.     *)
(***************************************************************************)

\* "if switching from cluster-wide to namespaced, delete the
\* ClusterRoleBinding": a settled namespaced instance holds no cluster-wide one.
ScopeSwitchRevokes ==
  Settled => \A i \in Instances :
    Live(i) /\ cr[i].status = "Ready" /\ ~cr[i].wide
      => i \notin crb["manager"][BindingName[i]]

\* The test that deletes an instance expects its ClusterRoleBinding to be gone.
DeletionRevokes ==
  Settled => \A i \in Instances, s \in Suffixes :
    ~cr[i].exists => i \notin crb[s][BindingName[i]]

\* The cleanup on deletion is for "cluster-scoped role bindings", those that
\* garbage collection leaves: none may name an instance that is gone.
DeletionRevokesLegacy ==
  Settled => \A i \in Instances, s \in Suffixes :
    ~cr[i].exists => i \notin crb[s][LegacyName[i]]

\* The tests expect an instance to have the leader election Role it binds.
LeaderRolePresent ==
  Settled => \A i \in Instances :
    Live(i) /\ cr[i].status = "Ready" => obj[Key(i, "leaderRole")] # None

(***************************************************************************)
(* Liveness.                                                               *)
(***************************************************************************)

\* A deleted instance goes away: the finalizer never holds it for good.
DeletionCompletes == \A i \in Instances : cr[i].deleting ~> ~cr[i].deleting

\* A live instance with its TLS secrets and the ClusterRoles in place.
Provisionable(i) == /\ Live(i)
                    /\ {NamespaceOf[i]} \X cr[i].certs \subseteq secrets
                    /\ clusterRoles = Suffixes

\* An instance that stays provisionable, whatever failed before, ends up
\* provisioned as its spec says, with a status that says whether it is ready.
Converges ==
  \A i \in Instances :
    <>[]Provisionable(i) => <>[](Provisioned(i) /\ (cr[i].status = "Ready" <=> dep[i].avail))
=============================================================================
