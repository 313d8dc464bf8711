--------------------------- MODULE FinalizerProofs ---------------------------
(***************************************************************************)
(* The ClusterRoleBindings and the finalizer that guards them are written  *)
(* in different passes, from cached copies of the resource that may be out *)
(* of date, while users edit and delete it and the operator restarts.      *)
(* Whatever fails, only an instance with the finalizer is provisioned, and *)
(* no update undoes an edit; as long as no deletion fails, an instance     *)
(* never loses the finalizer while a binding still names it.               *)
(***************************************************************************)
EXTENDS AuthorinoReconcileProofs

Protected(i) == cr[i].exists /\ cr[i].finalizer

\* Whoever holds the latest version of a resource has it right, and a pass
\* that does read it from the cache.
Coherent ==
  \A i \in Instances :
    /\ "cache" \in latest[i] => view[i] = cr[i]
    /\ "pass" \in latest[i] => "cache" \in latest[i] /\ pc # "idle" /\ cur = i /\ mem = cr[i]

\* The cache may be behind, but not by the loss of a finalizer.
CachedFinalizer ==
  \A i \in Instances :
    view[i].exists /\ ~view[i].deleting /\ view[i].finalizer => Protected(i)

\* Only an instance with the finalizer is provisioned, and only one that was
\* seen leaving is cleaned up.
PassGuards ==
  /\ pc \in Provisioning => Protected(cur)
  /\ pc \in Cleaning => mem.deleting

\* A finalizer removed by the pass was removed after the cleanup.
CleanedUp ==
  /\ pc \in {"cleanupK8sAuth", "removeFinalizer"} => crb["manager"][BindingName[cur]] = {}
  /\ pc = "removeFinalizer" => crb["k8sAuth"][BindingName[cur]] = {}

\* What needs deletions not to fail, and what holds whatever fails.
NoDeleteFails == "delete" \notin FaultKinds
AccessGuarded == CleanedUp /\ BindingNeedsFinalizer

GuardInv ==
  /\ TypeInv /\ Coherent /\ CachedFinalizer /\ PassGuards
  /\ NoDeleteFails => AccessGuarded

(***************************************************************************)
(* Calls of a provisioning pass.                                           *)
(***************************************************************************)

\* The only name such a call may add to a binding is the current instance.
LEMMA ProvisionSafe ==
  ASSUME GuardInv, TypeInv', pc \in Provisioning, pc' \in Provisioning,
         UNCHANGED <<cr, view, latest, cur, mem>>,
         \A i \in Instances, s \in Suffixes :
           i \in crb'[s][BindingName[i]] => i \in crb[s][BindingName[i]] \/ i = cur
  PROVE  GuardInv'
<1>1. Coherent'
  BY StepsDiffer DEF GuardInv, Coherent
<1>2. CachedFinalizer'
  BY DEF GuardInv, CachedFinalizer, Protected
<1>3. PassGuards'
  BY StepsDiffer DEF GuardInv, PassGuards, Protected, Cleaning
<1>4. NoDeleteFails => AccessGuarded'
  BY StepsDiffer DEF GuardInv, AccessGuarded, CleanedUp, BindingNeedsFinalizer, PassGuards,
     Protected, Cleaning
<1> QED BY <1>1, <1>2, <1>3, <1>4 DEF GuardInv

LEMMA OwnedSafe ==
  ASSUME GuardInv, pc \in Sequential, NEW k \in Kinds, NEW tagged \in BOOLEAN, NEW reported,
         ReconcileOwned(k, tagged, reported)
  PROVE  GuardInv'
<1>1. TypeInv' /\ pc' \in Provisioning
  BY ReconcileOwnedType DEF GuardInv
<1>2. UNCHANGED <<cr, crb, view, latest, cur, mem>>
  BY DEF ReconcileOwned, Proceed, ProceedOr, Goto, cacheVars
<1> QED BY <1>1, <1>2, ProvisionSafe DEF Sequential

LEMMA RoleMissingSafe ==
  ASSUME GuardInv, pc \in Sequential, NEW s, ClusterRoleMissing(s)
  PROVE  GuardInv'
<1>1. TypeInv' /\ pc' \in Provisioning
  BY ClusterRoleMissingType DEF GuardInv
<1>2. UNCHANGED <<cr, crb, view, latest, cur, mem>>
  BY DEF ClusterRoleMissing, Goto, apiVars, cacheVars
<1> QED BY <1>1, <1>2, ProvisionSafe DEF Sequential

LEMMA BindingSafe ==
  ASSUME GuardInv, pc \in Sequential, NEW s \in Suffixes, NEW tagged \in BOOLEAN,
         NEW failed \in Provisioning, ReconcileClusterRoleBinding(s, tagged, failed)
  PROVE  GuardInv'
<1> DEFINE b == BindingName[cur]
<1>1. TypeInv' /\ pc' \in Provisioning
  BY ReconcileClusterRoleBindingType DEF GuardInv
<1>2. PICK r \in ReconcileResource(CachedBinding(s, b) # {}, crb[s][b] # {},
                                   tagged, FALSE) :
           /\ crb' = IF r.done THEN [crb EXCEPT ![s][b] = IF tagged THEN {} ELSE {cur}]
                               ELSE crb
           /\ Spend(r)
           /\ ProceedOr(r, BindingErrors, failed)
  BY DEF ReconcileClusterRoleBinding
<1>3. UNCHANGED <<cr, view, latest, cur, mem>>
  BY DEF ReconcileClusterRoleBinding, ProceedOr, Goto, cacheVars
<1>4. ASSUME NEW i \in Instances, NEW t \in Suffixes, i \in crb'[t][BindingName[i]]
      PROVE  i \in crb[t][BindingName[i]] \/ i = cur
  BY <1>2, <1>4, NamesAssumption DEF GuardInv, TypeInv, TypeOK, ClusterTypeOK
<1> QED BY <1>1, <1>3, <1>4, ProvisionSafe DEF Sequential

LEMMA LegacySafe ==
  ASSUME GuardInv, NEW s \in Suffixes, NEW step \in {"legacyManager", "legacyK8sAuth"},
         CleanupLegacyClusterRoleBinding(s, step)
  PROVE  GuardInv'
<1> DEFINE b == LegacyName[cur]
<1>1. TypeInv' /\ pc' \in Provisioning
  BY LegacyType DEF GuardInv
<1>2. pc \in Provisioning
  BY DEF CleanupLegacyClusterRoleBinding, Provisioning
<1>3. PICK r \in ReadError \cup
                  IF SubjectIncluded(s, b)
                  THEN Write("delete", PreconditionsHold(s, b)) ELSE {NothingToDo} :
           /\ crb' = IF r.done THEN [crb EXCEPT ![s][b] = {}] ELSE crb
           /\ Spend(r)
           /\ Proceed(r, {})
  BY DEF CleanupLegacyClusterRoleBinding
<1>4. UNCHANGED <<cr, view, latest, cur, mem>>
  BY <1>3 DEF CleanupLegacyClusterRoleBinding, Proceed, ProceedOr, Goto, cacheVars
<1>5. ASSUME NEW i \in Instances, NEW t \in Suffixes, i \in crb'[t][BindingName[i]]
      PROVE  i \in crb[t][BindingName[i]]
  BY <1>3, <1>5, NamesAssumption DEF GuardInv, TypeInv, TypeOK, ClusterTypeOK
<1> QED BY <1>1, <1>2, <1>4, <1>5, ProvisionSafe

LEMMA PreflightSafe == GuardInv /\ InstallationPreflightCheck => GuardInv'
<1> SUFFICES ASSUME GuardInv, InstallationPreflightCheck PROVE GuardInv'
  OBVIOUS
<1>1. pc \in Provisioning /\ pc' \in Provisioning
  BY AfterType DEF InstallationPreflightCheck, Goto, Sequential, Provisioning, Services
<1>2. UNCHANGED <<cr, crb, view, latest, cur, mem>>
  BY DEF InstallationPreflightCheck, Goto, apiVars, cacheVars
<1> QED BY <1>1, <1>2, PreflightType, ProvisionSafe DEF GuardInv

LEMMA DeploymentSafe == GuardInv /\ ReconcileDeployment => GuardInv'
<1> SUFFICES ASSUME GuardInv, ReconcileDeployment PROVE GuardInv'
  OBVIOUS
<1>1. pc \in Provisioning /\ pc' \in Provisioning
  BY DEF ReconcileDeployment, Goto, Provisioning
<1>2. UNCHANGED <<cr, crb, view, latest, cur, mem>>
  BY DEF ReconcileDeployment, Goto, cacheVars
<1> QED BY <1>1, <1>2, DeploymentType, ProvisionSafe DEF GuardInv

LEMMA OwnProvisionSafe ==
  ASSUME GuardInv,
         \/ \E k \in Services : ReconcileService(k)
         \/ ReconcileAuthorinoServiceAccount
         \/ ReconcileManagerClusterRoleBinding
         \/ ReconcileManagerRoleBinding
         \/ ReconcileManagerAuthClusterRoleBinding
         \/ ReconcileLeaderElectionRole
         \/ ReconcileLeaderElectionRoleBinding
  PROVE  GuardInv'
<1>0. mem.wide \in BOOLEAN /\ (~mem.wide) \in BOOLEAN
  BY DEF GuardInv, TypeInv, TypeOK, CRs
<1> USE DEF Sequential, Provisioning, Services, Kinds, OwnKinds, Suffixes
<1>1. CASE \E k \in Services : ReconcileService(k)
  BY <1>1, OwnedSafe DEF ReconcileService
<1>2. CASE ReconcileAuthorinoServiceAccount
  BY <1>2, OwnedSafe DEF ReconcileAuthorinoServiceAccount
<1>3. CASE ReconcileManagerClusterRoleBinding
  <2> DEFINE tagged == ~mem.wide
             failed == IF mem.wide THEN "markFailed" ELSE "markUnrevoked"
  <2>1. /\ pc = "managerClusterRoleBinding"
        /\ \/ ClusterRoleMissing("manager")
           \/ ReconcileClusterRoleBinding("manager", tagged, failed)
    BY <1>3 DEF ReconcileManagerClusterRoleBinding
  <2>2. tagged \in BOOLEAN /\ failed \in Provisioning
    BY <1>0
  <2> HIDE DEF tagged, failed
  <2> QED BY <2>1, <2>2, BindingSafe, RoleMissingSafe
<1>4. CASE ReconcileManagerRoleBinding
  <2> DEFINE tagged == mem.wide
  <2>1. /\ pc = "managerRoleBinding"
        /\ \/ ClusterRoleMissing("manager")
           \/ ReconcileOwned("managerRoleBinding", tagged, BindingErrors)
    BY <1>4 DEF ReconcileManagerRoleBinding
  <2>2. tagged \in BOOLEAN
    BY <1>0
  <2> HIDE DEF tagged
  <2> QED BY <2>1, <2>2, OwnedSafe, RoleMissingSafe
<1>5. CASE ReconcileManagerAuthClusterRoleBinding
  BY <1>5, BindingSafe, RoleMissingSafe DEF ReconcileManagerAuthClusterRoleBinding
<1>6. CASE ReconcileLeaderElectionRole
  BY <1>6, OwnedSafe DEF ReconcileLeaderElectionRole
<1>7. CASE ReconcileLeaderElectionRoleBinding
  BY <1>7, OwnedSafe DEF ReconcileLeaderElectionRoleBinding
<1> QED BY <1>1, <1>2, <1>3, <1>4, <1>5, <1>6, <1>7

(***************************************************************************)
(* The cleanup.  A deletion that is not refused leaves no binding: this is *)
(* where the theorem needs deletions not to fail.                          *)
(***************************************************************************)
LEMMA CleanupSafe ==
  ASSUME GuardInv,
         NEW s \in Suffixes, NEW step \in Cleaning, NEW next \in Cleaning,
         \/ s = "manager" /\ step = "cleanupManager" /\ next = "cleanupK8sAuth"
         \/ s = "k8sAuth" /\ step = "cleanupK8sAuth" /\ next = "removeFinalizer",
         CleanupClusterScopedPermissions(s, step, next)
  PROVE  GuardInv'
<1> DEFINE b == BindingName[cur]
<1> USE DEF GuardInv
<1>1. /\ pc = step /\ pc # "idle" /\ pc' = next /\ pc' # "idle"
      /\ UNCHANGED <<cr, view, latest, cur, mem>>
  BY DEF CleanupClusterScopedPermissions, Goto, Cleaning, cacheVars
<1>2. cur \in Instances /\ b \in Bindings
  BY <1>1, NamesAssumption DEF TypeInv
<1>3. PICK r \in Write("delete", crb[s][b] # {}) :
        crb' = IF r.done THEN [crb EXCEPT ![s][b] = {}] ELSE crb
  BY DEF CleanupClusterScopedPermissions
<1>4. NoDeleteFails => r.done = (crb[s][b] # {})
  BY <1>3, WriteResult DEF NoDeleteFails, TypeInv, TypeOK, ClusterTypeOK
<1>5. /\ NoDeleteFails => crb'[s][b] = {}
      /\ \A t \in Suffixes, c \in Bindings : crb'[t][c] \in {crb[t][c], {}}
  BY <1>2, <1>3, <1>4 DEF TypeInv, TypeOK, ClusterTypeOK
<1>6. TypeInv'
  BY CleanupType
<1>7. Coherent'
  BY <1>1 DEF Coherent
<1>8. CachedFinalizer'
  BY <1>1 DEF CachedFinalizer, Protected
<1>9. PassGuards'
  BY <1>1, StepsDiffer DEF PassGuards
<1>10. ASSUME NoDeleteFails PROVE AccessGuarded'
  <2>1. CleanedUp'
    BY <1>1, <1>2, <1>5, <1>10 DEF AccessGuarded, CleanedUp, Suffixes
  <2>2. BindingNeedsFinalizer'
    BY <1>1, <1>5, <1>10, NamesAssumption DEF AccessGuarded, BindingNeedsFinalizer
  <2> QED BY <2>1, <2>2 DEF AccessGuarded
<1> QED BY <1>6, <1>7, <1>8, <1>9, <1>10

(***************************************************************************)
(* Steps that end the pass, start it, or take place beside it.             *)
(***************************************************************************)

\* The resource changes, without losing the finalizer it may have: by the pass,
\* which then ends or goes on provisioning, or by somebody else.
LEMMA ChangeSafe ==
  ASSUME GuardInv, TypeInv', NEW i \in Instances, NEW v,
         cr' = [cr EXCEPT ![i] = v], Touch(i), UNCHANGED <<view, crb>>,
         \/ UNCHANGED passVars
         \/ pc' = "idle" /\ i = cur
         \/ pc \in Provisioning /\ pc' \in Provisioning /\ i = cur /\ UNCHANGED <<cur, mem>>,
         Protected(i) => v.exists /\ v.finalizer
  PROVE  GuardInv'
<1> USE DEF GuardInv
<1>1. /\ latest'[i] = {}
      /\ \A j \in Instances \ {i} : latest'[j] = latest[j] /\ cr'[j] = cr[j]
      /\ cr'[i] = v
  BY DEF Touch, TypeInv, TypeOK, ClusterTypeOK
<1>2. \A j \in Instances : Protected(j) => Protected(j)'
  BY <1>1 DEF Protected
<1>3. Coherent'
  BY <1>1, StepsDiffer DEF Coherent, passVars
<1>4. CachedFinalizer'
  BY <1>2 DEF CachedFinalizer
<1>5. PassGuards'
  <2>1. CASE UNCHANGED passVars
    BY <1>2, <2>1, StepsDiffer DEF PassGuards, passVars, TypeInv
  <2>2. CASE pc' = "idle"
    BY <2>2, StepsDiffer DEF PassGuards
  <2>3. CASE pc \in Provisioning /\ pc' \in Provisioning /\ UNCHANGED <<cur, mem>>
    BY <1>2, <2>3, StepsDiffer DEF PassGuards, TypeInv
  <2> QED BY <2>1, <2>2, <2>3
<1>6. NoDeleteFails => AccessGuarded'
  BY <1>2, StepsDiffer DEF Cleaning, AccessGuarded, CleanedUp, BindingNeedsFinalizer, Protected, passVars
<1> QED BY <1>3, <1>4, <1>5, <1>6

\* The pass ends and leaves the resource as it is.
LEMMA LetGoSafe ==
  ASSUME GuardInv, TypeInv', LetGo, pc' = "idle", cur \in Instances, UNCHANGED <<cr, view, crb>>
  PROVE  GuardInv'
<1> USE DEF GuardInv
<1>1. \A j \in Instances : latest'[j] \subseteq latest[j] /\ "pass" \notin latest'[j]
  BY DEF LetGo, Coherent, TypeInv, TypeOK, ClusterTypeOK
<1>2. Coherent'
  BY <1>1 DEF Coherent
<1>3. CachedFinalizer' /\ (NoDeleteFails => AccessGuarded')
  BY DEF CachedFinalizer, AccessGuarded, CleanedUp, BindingNeedsFinalizer, Protected
<1>4. PassGuards'
  BY StepsDiffer DEF PassGuards
<1> QED BY <1>2, <1>3, <1>4

LEMMA AddFinalizerSafe == GuardInv /\ AddFinalizer => GuardInv'
<1> SUFFICES ASSUME GuardInv, AddFinalizer PROVE GuardInv'
  OBVIOUS
<1>1. TypeInv' /\ cur \in Instances /\ pc' = "idle" /\ UNCHANGED <<view, crb>>
  BY AddFinalizerType DEF AddFinalizer, Return, GuardInv, TypeInv
<1>2. CASE cr' = [cr EXCEPT ![cur] = Updated(TRUE)] /\ Touch(cur)
  <2>1. cr[cur] \in CRs
    BY <1>1 DEF GuardInv, TypeInv, TypeOK, ClusterTypeOK
  <2>2. Updated(TRUE).exists = cr[cur].exists /\ Updated(TRUE).finalizer = TRUE
    BY <2>1 DEF Updated, CRs
  <2>3. Protected(cur) => Updated(TRUE).exists /\ Updated(TRUE).finalizer
    BY <2>2 DEF Protected
  <2> QED BY <1>1, <1>2, <2>3, ChangeSafe
<1>3. CASE LetGo /\ UNCHANGED cr
  BY <1>1, <1>3, LetGoSafe
<1> QED BY <1>2, <1>3 DEF AddFinalizer

LEMMA UpdateStatusConditionsSafe ==
  ASSUME GuardInv, NEW step \in Provisioning, NEW status \in StatusValues,
         NEW failed \in BOOLEAN, UpdateStatusConditions(step, status, failed)
  PROVE  GuardInv'
<1>1. TypeInv' /\ cur \in Instances /\ pc' = "idle" /\ UNCHANGED <<view, crb>>
  <2>1. TypeInv'
    BY UpdateStatusConditionsType DEF GuardInv
  <2>2. pc = step /\ step # "idle"
    BY StepsDiffer DEF UpdateStatusConditions
  <2>3. pc' = "idle"
    BY DEF UpdateStatusConditions, Return
  <2>4. UNCHANGED <<view, crb>>
    BY DEF UpdateStatusConditions
  <2> QED BY <2>1, <2>2, <2>3, <2>4 DEF GuardInv, TypeInv
<1>2. CASE cr' = [cr EXCEPT ![cur].status = status] /\ Touch(cur)
  <2> DEFINE v == [cr[cur] EXCEPT !.status = status]
  <2>1. cr[cur] \in CRs
    BY <1>1 DEF GuardInv, TypeInv, TypeOK, ClusterTypeOK
  <2>2. v.exists = cr[cur].exists /\ v.finalizer = cr[cur].finalizer
    BY <2>1 DEF CRs
  <2>3. Protected(cur) => v.exists /\ v.finalizer
    BY <2>2 DEF Protected
  <2>4. cr' = [cr EXCEPT ![cur] = v]
    BY <1>2
  <2> QED BY <1>1, <1>2, <2>3, <2>4, ChangeSafe
<1>3. CASE LetGo /\ UNCHANGED cr
  BY <1>1, <1>3, LetGoSafe
<1> QED BY <1>2, <1>3 DEF UpdateStatusConditions

LEMMA SetStatusFailedSafe == GuardInv /\ SetStatusFailed => GuardInv'
<1> SUFFICES ASSUME GuardInv, SetStatusFailed PROVE GuardInv'
  OBVIOUS
<1>1. /\ TypeInv' /\ cur \in Instances /\ pc \in Provisioning /\ pc' \in Provisioning
      /\ UNCHANGED <<view, crb, cur, mem>>
  BY SetStatusFailedType, StepsDiffer DEF SetStatusFailed, Goto, GuardInv, TypeInv, Provisioning
<1>2. CASE cr' = [cr EXCEPT ![cur].status = "Failed"] /\ Touch(cur)
  <2> DEFINE v == [cr[cur] EXCEPT !.status = "Failed"]
  <2>1. cr[cur] \in CRs
    BY <1>1 DEF GuardInv, TypeInv, TypeOK, ClusterTypeOK
  <2>2. Protected(cur) => v.exists /\ v.finalizer
    BY <2>1 DEF CRs, Protected
  <2>3. cr' = [cr EXCEPT ![cur] = v]
    BY <1>2
  <2> QED BY <1>1, <1>2, <2>2, <2>3, ChangeSafe
<1>3. CASE UNCHANGED <<cr, latest>>
  BY <1>1, <1>3, ProvisionSafe
<1> QED BY <1>2, <1>3 DEF SetStatusFailed

\* An accepted update was made from the version now cached, which is being
\* deleted, and after a cleanup that has left no binding.
LEMMA RemoveFinalizerSafe == GuardInv /\ RemoveFinalizer => GuardInv'
<1> SUFFICES ASSUME GuardInv, RemoveFinalizer PROVE GuardInv'
  OBVIOUS
<1> USE DEF GuardInv
<1>1. /\ TypeInv' /\ cur \in Instances /\ pc' = "idle" /\ UNCHANGED <<view, crb>>
      /\ pc = "removeFinalizer" /\ UpdateAccepted \in BOOLEAN
  <2>1. TypeInv'
    BY RemoveFinalizerType
  <2>2. pc = "removeFinalizer" /\ pc' = "idle" /\ UNCHANGED <<view, crb>>
    BY DEF RemoveFinalizer, Return
  <2>3. UpdateAccepted \in BOOLEAN
    BY DEF UpdateAccepted
  <2> QED BY <2>1, <2>2, <2>3 DEF TypeInv
<1>2. PICK r \in Write("finalizer", UpdateAccepted) :
        IF r.done
        THEN /\ cr' = [cr EXCEPT ![cur] = IF cr[cur].held THEN Updated(FALSE) ELSE NoCR]
             /\ Touch(cur)
        ELSE LetGo /\ UNCHANGED cr
  BY DEF RemoveFinalizer
<1>3. CASE ~r.done
  BY <1>1, <1>2, <1>3, LetGoSafe
<1>4. CASE r.done
  <2>1. UpdateAccepted
    BY <1>1, <1>2, <1>4, WriteResult DEF TypeInv, TypeOK, ClusterTypeOK
  <2>2. /\ view[cur].deleting
        /\ latest'[cur] = {}
        /\ \A j \in Instances \ {cur} :
             cr'[j] = cr[j] /\ latest'[j] = latest[j] /\ "pass" \notin latest[j]
    BY <1>1, <1>2, <1>4, <2>1
    DEF UpdateAccepted, Coherent, PassGuards, Cleaning, Touch, TypeInv, TypeOK, ClusterTypeOK
  <2>3. Coherent'
    BY <1>1, <2>2 DEF Coherent
  <2>4. CachedFinalizer'
    BY <1>1, <2>2 DEF CachedFinalizer, Protected
  <2>5. PassGuards'
    BY <1>1, StepsDiffer DEF PassGuards
  <2>6. NoDeleteFails => AccessGuarded'
    BY <1>1, <2>2 DEF AccessGuarded, BindingNeedsFinalizer, CleanedUp, Suffixes
  <2> QED BY <1>1, <2>3, <2>4, <2>5, <2>6
<1> QED BY <1>3, <1>4

LEMMA ReconcileSafe == ASSUME GuardInv, NEW i \in Instances, Reconcile(i) PROVE GuardInv'
<1> USE DEF GuardInv
<1>1. /\ TypeInv' /\ pc = "idle" /\ pc' = Entry(view[i])
      /\ UNCHANGED <<cr, crb, view>>
  BY ReconcileType DEF Reconcile, apiVars
<1>2. CachedFinalizer' /\ (NoDeleteFails => BindingNeedsFinalizer')
  BY <1>1 DEF CachedFinalizer, AccessGuarded, BindingNeedsFinalizer, Protected
<1>3. CASE Entry(view[i]) = "idle"
  <2>1. UNCHANGED <<pc, cur, mem, latest>>
    BY <1>1, <1>3 DEF Reconcile
  <2> QED BY <1>1, <1>2, <2>1, StepsDiffer DEF Coherent, PassGuards, CleanedUp, AccessGuarded
<1>4. CASE Entry(view[i]) # "idle"
  <2>1. /\ cur' = i /\ mem' = view[i]
        /\ latest' = [latest EXCEPT ![i] = IF "cache" \in latest[i]
                                           THEN latest[i] \cup {"pass"} ELSE latest[i]]
    BY <1>4 DEF Reconcile
  <2>2. Coherent'
    BY <1>1, <1>4, <2>1 DEF Coherent, TypeInv, TypeOK, ClusterTypeOK
  <2>3. PassGuards'
    <3>1. CASE view[i].deleting
      <4>1. pc' = "cleanupManager"
        BY <1>1, <1>4, <3>1 DEF Entry
      <4> QED BY <2>1, <3>1, <4>1, StepsDiffer DEF PassGuards, Cleaning
    <3>2. CASE ~view[i].deleting /\ view[i].finalizer
      <4>1. pc' = "preflight" /\ view[i].exists
        BY <1>1, <1>4, <3>2 DEF Entry
      <4>2. Protected(i)
        BY <3>2, <4>1 DEF CachedFinalizer
      <4> QED BY <1>1, <2>1, <4>1, <4>2 DEF PassGuards, Cleaning, Protected
    <3>3. CASE ~view[i].deleting /\ ~view[i].finalizer
      <4>1. pc' = "addFinalizer"
        BY <1>1, <1>4, <3>3 DEF Entry
      <4> QED BY <4>1, StepsDiffer DEF PassGuards
    <3> QED BY <3>1, <3>2, <3>3
  <2>4. CleanedUp'
    BY <1>1 DEF CleanedUp, Entry
  <2> QED BY <1>1, <1>2, <2>2, <2>3, <2>4 DEF AccessGuarded
<1> QED BY <1>3, <1>4

LEMMA RestartSafe == GuardInv /\ Restart => GuardInv'
<1> SUFFICES ASSUME GuardInv, Restart PROVE GuardInv'
  OBVIOUS
<1>1. /\ TypeInv' /\ pc' = "idle" /\ view' = cr
      /\ latest' = [i \in Instances |-> {"cache"}]
      /\ UNCHANGED <<cr, crb>>
  BY RestartType DEF Restart, GuardInv, apiVars
<1> QED
  BY <1>1, StepsDiffer
  DEF GuardInv, Coherent, CachedFinalizer, PassGuards,
      AccessGuarded, CleanedUp, BindingNeedsFinalizer, Protected

LEMMA ClusterNextSafe == GuardInv /\ ClusterNext /\ UNCHANGED passVars => GuardInv'
<1> SUFFICES ASSUME GuardInv, ClusterNext, UNCHANGED passVars PROVE GuardInv'
  OBVIOUS
<1> USE DEF GuardInv
<1>1. TypeInv'
  BY ClusterNextType DEF TypeInv, TypeOK, passVars
<1>2. CASE UNCHANGED <<cr, crb, view, latest>>
  BY <1>1, <1>2
  DEF passVars, Coherent, CachedFinalizer, PassGuards,
      AccessGuarded, CleanedUp, BindingNeedsFinalizer, Protected
<1>3. ASSUME NEW i \in Instances, NEW w \in BOOLEAN, NEW c \in CertSpecs,
             CreateCR(i, w, c) \/ EditSpec(i, w, c)
      PROVE  GuardInv'
  <2>1. CASE CreateCR(i, w, c)
    BY <1>1, <2>1, ChangeSafe DEF CreateCR, Protected
  <2>2. CASE EditSpec(i, w, c)
    <3> DEFINE v == [cr[i] EXCEPT !.wide = w, !.certs = c]
    <3>1. cr[i] \in CRs
      BY DEF TypeInv, TypeOK, ClusterTypeOK
    <3>2. v.exists = cr[i].exists /\ v.finalizer = cr[i].finalizer
      BY <3>1 DEF CRs
    <3>3. cr' = [cr EXCEPT ![i] = v] /\ Touch(i) /\ UNCHANGED <<view, crb>>
      BY <2>2 DEF EditSpec
    <3> HIDE DEF v
    <3> QED BY <1>1, <3>2, <3>3, ChangeSafe DEF Protected
  <2> QED BY <1>3, <2>1, <2>2
<1>4. ASSUME NEW i \in Instances, NEW foreground \in BOOLEAN, DeleteCR(i, foreground)
      PROVE  GuardInv'
  <2> DEFINE v == [cr[i] EXCEPT !.deleting = TRUE, !.held = foreground]
  <2>1. cr[i] \in CRs
    BY DEF TypeInv, TypeOK, ClusterTypeOK
  <2>2. v.exists = cr[i].exists /\ v.finalizer = cr[i].finalizer
    BY <2>1 DEF CRs
  <2>3. \/ cr' = [cr EXCEPT ![i] = v]
        \/ cr' = [cr EXCEPT ![i] = NoCR] /\ ~cr[i].finalizer
    BY <1>4 DEF DeleteCR
  <2>4. Touch(i) /\ UNCHANGED <<view, crb>>
    BY <1>4 DEF DeleteCR
  <2> HIDE DEF v
  <2> QED BY <1>1, <2>2, <2>3, <2>4, ChangeSafe DEF Protected
<1>5. ASSUME NEW i \in Instances, ReleaseHold(i) PROVE GuardInv'
  <2> DEFINE v == [cr[i] EXCEPT !.held = FALSE]
  <2>1. cr[i] \in CRs
    BY DEF TypeInv, TypeOK, ClusterTypeOK
  <2>2. v.exists = cr[i].exists /\ v.finalizer = cr[i].finalizer
    BY <2>1 DEF CRs
  <2>3. cr' = [cr EXCEPT ![i] = IF cr[i].finalizer THEN v ELSE NoCR]
    BY <1>5 DEF ReleaseHold
  <2>4. Touch(i) /\ UNCHANGED <<view, crb>>
    BY <1>5 DEF ReleaseHold
  <2> HIDE DEF v
  <2> QED BY <1>1, <2>2, <2>3, <2>4, ChangeSafe DEF Protected
<1>6. ASSUME NEW i \in Instances, SyncCR(i) PROVE GuardInv'
  <2>1. /\ view' = [view EXCEPT ![i] = cr[i]]
        /\ latest' = [latest EXCEPT ![i] = {"cache"}]
        /\ UNCHANGED <<cr, crb>>
    BY <1>6 DEF SyncCR, apiVars
  <2>2. Coherent'
    BY <2>1 DEF Coherent, passVars, TypeInv, TypeOK, ClusterTypeOK
  <2>3. CachedFinalizer'
    BY <2>1 DEF CachedFinalizer, Protected, TypeInv, TypeOK, ClusterTypeOK
  <2>4. PassGuards' /\ (NoDeleteFails => AccessGuarded')
    BY <2>1 DEF PassGuards, AccessGuarded, CleanedUp, BindingNeedsFinalizer, Protected, passVars
  <2> QED BY <1>1, <2>2, <2>3, <2>4
<1>7. CASE Users
  <2>1. \/ \E i \in Instances, w \in BOOLEAN, c \in CertSpecs : CreateCR(i, w, c)
        \/ \E i \in Instances, w \in BOOLEAN, c \in CertSpecs : EditSpec(i, w, c)
        \/ \E i \in Instances, foreground \in BOOLEAN : DeleteCR(i, foreground)
        \/ UNCHANGED <<cr, crb, view, latest>>
    BY <1>7 DEF Users, Drift, CreateSecret, DeleteSecret, ReinstallClusterRole, apiVars, cacheVars
  <2> QED BY <1>2, <1>3, <1>4, <2>1
<1>8. CASE Controllers
  <2>1. \/ \E i \in Instances : ReleaseHold(i)
        \/ UNCHANGED <<cr, crb, view, latest>>
    BY <1>8 DEF Controllers, RollOut, BecomeUnavailable, CollectOne, CollectTheRest,
       GarbageCollect, cacheVars
  <2> QED BY <1>2, <1>5, <2>1
<1>9. CASE Informers
  <2>1. \/ \E i \in Instances : SyncCR(i)
        \/ UNCHANGED <<cr, crb, view, latest>>
    BY <1>9 DEF Informers, SyncDeployment, Resync, SyncObject, SyncClusterRoleBinding,
       apiVars, cacheVars
  <2> QED BY <1>2, <1>6, <2>1
<1> QED BY <1>7, <1>8, <1>9 DEF ClusterNext

(***************************************************************************)
(* The theorem.                                                            *)
(***************************************************************************)
LEMMA InitSafe == Init => GuardInv
<1> SUFFICES ASSUME Init PROVE GuardInv
  OBVIOUS
<1>1. /\ TypeInv /\ pc = "idle" /\ view = cr
      /\ latest = [i \in Instances |-> {"cache"}]
  BY InitType DEF Init, ClusterInit
<1>2. BindingNeedsFinalizer
  <2>1. PICK w \in [Upgraded -> BOOLEAN] :
          crb = [s \in Suffixes |-> [b \in Bindings |->
                   {i \in Upgraded : LegacyName[i] = b /\ (s = "manager" => w[i])}]]
    BY DEF Init, ClusterInit
  <2>2. ASSUME NEW s \in Suffixes, NEW i \in Instances, i \in crb[s][BindingName[i]]
        PROVE  FALSE
    <3>1. LegacyName[i] = BindingName[i]
      BY <2>1, <2>2, NamesAssumption
    <3> QED BY <3>1, LegacyNameDiffers
  <2> QED BY <2>2 DEF BindingNeedsFinalizer
<1> QED
  BY <1>1, <1>2, StepsDiffer DEF GuardInv, Coherent, CachedFinalizer, PassGuards,
     AccessGuarded, CleanedUp, Protected

LEMMA NextSafe == GuardInv /\ [Next]_vars => GuardInv'
<1> SUFFICES ASSUME GuardInv, [Next]_vars PROVE GuardInv'
  OBVIOUS
<1>1. ASSUME NEW i \in Instances, Reconcile(i) PROVE GuardInv'
  BY <1>1, ReconcileSafe
<1>2. ASSUME NEW i \in Instances, ReconcileReadError(i) PROVE GuardInv'
  <2>1. UNCHANGED <<cr, crb, view, latest, pc, cur, mem>>
    BY <1>2 DEF ReconcileReadError, apiVars, cacheVars, passVars
  <2> QED
    BY <1>2, <2>1, ReconcileReadErrorType
    DEF GuardInv, Coherent, CachedFinalizer, PassGuards,
        AccessGuarded, CleanedUp, BindingNeedsFinalizer, Protected
<1>3. CASE Pass
  <2>1. CASE CleanupClusterScopedPermissions("manager", "cleanupManager", "cleanupK8sAuth")
    BY <2>1, CleanupSafe DEF Cleaning, Suffixes
  <2>2. CASE CleanupClusterScopedPermissions("k8sAuth", "cleanupK8sAuth", "removeFinalizer")
    BY <2>2, CleanupSafe DEF Cleaning, Suffixes
  <2>3. CASE CleanupLegacyClusterRoleBinding("manager", "legacyManager")
    BY <2>3, LegacySafe DEF Suffixes
  <2>4. CASE CleanupLegacyClusterRoleBinding("k8sAuth", "legacyK8sAuth")
    BY <2>4, LegacySafe DEF Suffixes
  <2>5. CASE UpdateStatusConditions("markFailed", "Failed", TRUE)
    BY <2>5, UpdateStatusConditionsSafe DEF Provisioning, StatusValues
  <2>6. CASE UpdateStatusConditions("markReady", "Ready", FALSE)
    BY <2>6, UpdateStatusConditionsSafe DEF Provisioning, StatusValues
  <2>7. CASE UpdateStatusConditions("markNotReady", "NotReady", FALSE)
    BY <2>7, UpdateStatusConditionsSafe DEF Provisioning, StatusValues
  <2> QED
    BY <1>3, <2>1, <2>2, <2>3, <2>4, <2>5, <2>6, <2>7, RemoveFinalizerSafe, AddFinalizerSafe,
       PreflightSafe, SetStatusFailedSafe, DeploymentSafe, OwnProvisionSafe
    DEF Pass
<1>4. CASE Restart
  BY <1>4, RestartSafe
<1>5. CASE ClusterNext /\ UNCHANGED passVars
  BY <1>5, ClusterNextSafe
<1>6. CASE UNCHANGED vars
  <2>1. UNCHANGED <<cr, crb, view, latest, pc, cur, mem>>
    BY <1>6 DEF vars, clusterVars, passVars, apiVars, cacheVars
  <2> QED
    BY <1>6, <2>1, NextType
    DEF GuardInv, Coherent, CachedFinalizer, PassGuards,
        AccessGuarded, CleanedUp, BindingNeedsFinalizer, Protected
<1> QED BY <1>1, <1>2, <1>3, <1>4, <1>5, <1>6 DEF Next

\* ClusterRoleBindings have no owner, so only the finalizer's cleanup removes
\* them.  If the API server refuses no deletion, then however passes, edits,
\* deletions, other failures and restarts interleave, an instance named by its
\* own binding exists and has the finalizer.  Without the assumption this is
\* false: the cleanup's errors are only logged (see the run `deletion').
THEOREM BindingsGuarded ==
  ASSUME "delete" \notin FaultKinds
  PROVE  Spec => []BindingNeedsFinalizer
<1>1. GuardInv => BindingNeedsFinalizer
  BY DEF GuardInv, NoDeleteFails, AccessGuarded
<1> QED BY <1>1, InitSafe, NextSafe, PTL DEF Spec

(***************************************************************************)
(* The finalizer's updates send the whole resource, from a copy that may   *)
(* be old.                                                                 *)
(***************************************************************************)
SameSpec(i) == /\ cr'[i].wide = cr[i].wide
               /\ cr'[i].certs = cr[i].certs

\* One that is accepted was made from the version it replaces.
LEMMA UpdateFromLatest ==
  ASSUME GuardInv, cur \in Instances, UpdateAccepted, NEW finalizer \in BOOLEAN
  PROVE  /\ Updated(finalizer).wide = cr[cur].wide
         /\ Updated(finalizer).certs = cr[cur].certs
<1>1. mem = cr[cur] /\ cr[cur] \in CRs
  BY DEF UpdateAccepted, GuardInv, Coherent, TypeInv, TypeOK, ClusterTypeOK
<1> QED BY <1>1 DEF Updated, CRs

LEMMA PassKeepsSpec ==
  ASSUME GuardInv, Pass, NEW i \in Instances, cr[i].exists, cr'[i].exists
  PROVE  SameSpec(i)
<1> USE DEF GuardInv, TypeInv, TypeOK, ClusterTypeOK
<1>1. CASE UNCHANGED cr
  BY <1>1 DEF SameSpec
<1>2. CASE AddFinalizer \/ RemoveFinalizer
  <2>0. pc # "idle"
    BY <1>2 DEF AddFinalizer, RemoveFinalizer
  <2>1. cur \in Instances /\ UpdateAccepted \in BOOLEAN
    BY <2>0 DEF UpdateAccepted
  <2>2. PICK r \in Write("finalizer", UpdateAccepted) :
          \/ UNCHANGED cr
          \/ r.done /\ \E f \in BOOLEAN : \/ cr' = [cr EXCEPT ![cur] = Updated(f)]
                                         \/ cr' = [cr EXCEPT ![cur] = NoCR]
    BY <1>2 DEF AddFinalizer, RemoveFinalizer
  <2>3. r.done => UpdateAccepted
    BY <2>1, WriteResult
  <2>4. ~NoCR.exists
    BY DEF NoCR
  <2> QED BY <2>1, <2>2, <2>3, <2>4, UpdateFromLatest DEF SameSpec
<1>3. CASE \/ UpdateStatusConditions("markFailed", "Failed", TRUE)
           \/ UpdateStatusConditions("markReady", "Ready", FALSE)
           \/ UpdateStatusConditions("markNotReady", "NotReady", FALSE)
           \/ SetStatusFailed
  <2>1. cur \in Instances
    BY <1>3 DEF UpdateStatusConditions, SetStatusFailed
  <2>2. UNCHANGED cr \/ \E status : cr' = [cr EXCEPT ![cur].status = status]
    BY <1>3 DEF UpdateStatusConditions, SetStatusFailed
  <2>3. cr[cur] \in CRs
    BY <2>1
  <2> QED BY <2>1, <2>2, <2>3 DEF SameSpec, CRs
<1>4. CASE \/ \E s \in Suffixes, step, next \in Cleaning :
                CleanupClusterScopedPermissions(s, step, next)
           \/ InstallationPreflightCheck
           \/ \E k \in Services : ReconcileService(k)
           \/ ReconcileAuthorinoServiceAccount
           \/ ReconcileManagerClusterRoleBinding
           \/ ReconcileManagerRoleBinding
           \/ ReconcileManagerAuthClusterRoleBinding
           \/ ReconcileLeaderElectionRole
           \/ ReconcileLeaderElectionRoleBinding
           \/ \E s \in Suffixes, step \in Provisioning : CleanupLegacyClusterRoleBinding(s, step)
           \/ ReconcileDeployment
  <2>1. UNCHANGED cr
    BY <1>4 DEF CleanupClusterScopedPermissions, InstallationPreflightCheck, ReconcileService,
       ReconcileAuthorinoServiceAccount, ReconcileManagerClusterRoleBinding,
       ReconcileManagerRoleBinding, ReconcileManagerAuthClusterRoleBinding,
       ReconcileLeaderElectionRole, ReconcileLeaderElectionRoleBinding, ReconcileOwned,
       ReconcileClusterRoleBinding, ClusterRoleMissing, CleanupLegacyClusterRoleBinding,
       ReconcileDeployment, apiVars
  <2> QED BY <1>1, <2>1
<1> QED BY <1>2, <1>3, <1>4 DEF Pass, Suffixes, Cleaning, Provisioning

LEMMA OnlyUsersEdit ==
  ASSUME GuardInv, [Next]_vars, NEW i \in Instances, cr[i].exists, cr'[i].exists,
         disruptions' = disruptions
  PROVE  SameSpec(i)
<1> USE DEF GuardInv, TypeInv, TypeOK, ClusterTypeOK
<1>1. CASE UNCHANGED cr
  BY <1>1 DEF SameSpec
<1>2. CASE Pass
  BY <1>2, PassKeepsSpec
<1>3. CASE ClusterNext
  <2>1. ~Disrupt
    BY DEF Disrupt
  <2>2. CASE \E j \in Instances : ReleaseHold(j)
    <3>1. PICK j \in Instances :
            cr' = [cr EXCEPT ![j] = IF cr[j].finalizer THEN [cr[j] EXCEPT !.held = FALSE]
                                                       ELSE NoCR]
      BY <2>2 DEF ReleaseHold
    <3>2. cr[j] \in CRs /\ ~NoCR.exists
      BY DEF NoCR
    <3> QED BY <3>1, <3>2 DEF SameSpec, CRs
  <2>3. CASE Users
    BY <2>1, <2>3 DEF Users, CreateCR, EditSpec, DeleteCR, Drift, CreateSecret, DeleteSecret,
       ReinstallClusterRole
  <2>4. CASE Informers
    BY <1>1, <2>4 DEF Informers, SyncCR, SyncDeployment, Resync, SyncObject,
       SyncClusterRoleBinding, apiVars
  <2>5. CASE Controllers
    BY <1>1, <2>2, <2>5 DEF Controllers, RollOut, BecomeUnavailable, CollectOne, CollectTheRest,
       GarbageCollect
  <2> QED BY <1>3, <2>3, <2>4, <2>5 DEF ClusterNext
<1>4. CASE (\E j \in Instances : Reconcile(j) \/ ReconcileReadError(j)) \/ Restart \/ UNCHANGED vars
  BY <1>1, <1>4 DEF Reconcile, ReconcileReadError, Restart, vars, clusterVars, apiVars
<1> QED BY <1>2, <1>3, <1>4 DEF Next

\* Whatever lags, fails or restarts, only users change the spec of a resource:
\* an update of the finalizer never writes back an older one.
THEOREM EditsStay == Spec => SpecKept
<1>1. GuardInv /\ [Next]_vars =>
        [\A i \in Instances :
           cr[i].exists /\ cr'[i].exists /\ disruptions' = disruptions
             => cr'[i].wide = cr[i].wide /\ cr'[i].certs = cr[i].certs]_vars
  BY OnlyUsersEdit DEF SameSpec
<1> QED BY <1>1, InitSafe, NextSafe, PTL DEF Spec, SpecKept
=============================================================================
