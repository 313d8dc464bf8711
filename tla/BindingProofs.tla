---------------------------- MODULE BindingProofs ----------------------------
(***************************************************************************)
(* No pass over one instance takes a ClusterRoleBinding from another.  The *)
(* names of bindings are all that keeps instances apart, and legacy names  *)
(* (<name>) may coincide with each other and with qualified ones           *)
(* (<namespace>.<name>); nothing is assumed here of failures, lag or of    *)
(* how many instances there are.                                           *)
(***************************************************************************)
EXTENDS AuthorinoReconcileProofs

LegacySteps == {"legacyManager", "legacyK8sAuth"}

\* The ways a step may write ClusterRoleBindings.
OwnSteps == Cleaning \cup {"managerClusterRoleBinding", "k8sAuthClusterRoleBinding"}
Revocable(s) == pc \in Cleaning \/ (s = "manager" /\ ~mem.wide)
Grantable(s) == s = "manager" => pc = "managerClusterRoleBinding" /\ mem.wide
OwnWritten ==
  /\ cur \in Instances /\ pc \in OwnSteps
  /\ \E s \in Suffixes, new \in {{}, {cur}} :
       /\ crb' = [crb EXCEPT ![s][BindingName[cur]] = new]
       /\ new = {} => Revocable(s)
       /\ new # {} => Grantable(s)
LegacyDeleted ==
  /\ cur \in Instances
  /\ \E s \in Suffixes :
       /\ cur \in crb[s][LegacyName[cur]]
       /\ crb' = [crb EXCEPT ![s][LegacyName[cur]] = {}]

LEMMA CleanupWrites ==
  ASSUME TypeInv, NEW s \in Suffixes, NEW step \in Cleaning, NEW next,
         CleanupClusterScopedPermissions(s, step, next)
  PROVE  UNCHANGED crb \/ OwnWritten
<1>1. cur \in Instances /\ pc \in OwnSteps /\ Revocable(s)
  BY DEF CleanupClusterScopedPermissions, TypeInv, Cleaning, OwnSteps, Revocable
<1>2. crb' = crb \/ crb' = [crb EXCEPT ![s][BindingName[cur]] = {}]
  BY DEF CleanupClusterScopedPermissions
<1> QED BY <1>1, <1>2 DEF OwnWritten

LEMMA BindingWrites ==
  ASSUME TypeInv, NEW s \in Suffixes, NEW tagged \in BOOLEAN, NEW failed,
         pc \in {"managerClusterRoleBinding", "k8sAuthClusterRoleBinding"},
         IF tagged THEN Revocable(s) ELSE Grantable(s),
         ReconcileClusterRoleBinding(s, tagged, failed)
  PROVE  UNCHANGED crb \/ OwnWritten
<1>1. cur \in Instances /\ pc \in OwnSteps
  BY DEF TypeInv, OwnSteps
<1>2. \/ crb' = crb
      \/ crb' = [crb EXCEPT ![s][BindingName[cur]] = IF tagged THEN {} ELSE {cur}]
  BY DEF ReconcileClusterRoleBinding
<1>3. /\ (IF tagged THEN {} ELSE {cur}) \in {{}, {cur}}
      /\ (IF tagged THEN {} ELSE {cur}) = {} <=> tagged
  OBVIOUS
<1> QED BY <1>1, <1>2, <1>3 DEF OwnWritten

\* What the cleanup read named the current instance, and the preconditions say
\* that it is still what the API server has.
LEMMA LegacyWrites ==
  ASSUME TypeInv, NEW s \in Suffixes, NEW step \in LegacySteps,
         CleanupLegacyClusterRoleBinding(s, step)
  PROVE  UNCHANGED crb \/ LegacyDeleted
<1> DEFINE b == LegacyName[cur]
<1>1. cur \in Instances
  BY DEF CleanupLegacyClusterRoleBinding, TypeInv, LegacySteps
<1>2. PICK r \in ReadError \cup
                  IF SubjectIncluded(s, b)
                  THEN Write("delete", PreconditionsHold(s, b)) ELSE {NothingToDo} :
           crb' = IF r.done THEN [crb EXCEPT ![s][b] = {}] ELSE crb
  BY DEF CleanupLegacyClusterRoleBinding
<1>3. CASE ~r.done
  BY <1>2, <1>3
<1>4. CASE r.done
  <2>1. faults \in 0 .. MaxFaults /\ PreconditionsHold(s, b) \in BOOLEAN
    BY DEF TypeInv, TypeOK, ClusterTypeOK, PreconditionsHold
  <2>2. r \notin ReadError /\ r # NothingToDo
    BY <1>4, <2>1, ReadErrorResult, NothingToDoResult
  <2>3. SubjectIncluded(s, b) /\ r \in Write("delete", PreconditionsHold(s, b))
    BY <1>2, <2>2
  <2>4. PreconditionsHold(s, b)
    BY <1>4, <2>1, <2>3, WriteResult
  <2> QED BY <1>1, <1>2, <1>4, <2>3, <2>4 DEF SubjectIncluded, PreconditionsHold, LegacyDeleted
<1> QED BY <1>3, <1>4

LEMMA ClusterKeepsBindings == ClusterNext => UNCHANGED crb
<1>1. CASE Users
  BY <1>1 DEF Users, CreateCR, EditSpec, DeleteCR, Drift, CreateSecret, DeleteSecret,
     ReinstallClusterRole, apiVars
<1>2. CASE Controllers
  BY <1>2 DEF Controllers, RollOut, BecomeUnavailable, ReleaseHold, CollectOne,
     CollectTheRest, GarbageCollect
<1>3. CASE Informers
  BY <1>3 DEF Informers, SyncCR, SyncDeployment, Resync, SyncObject,
     SyncClusterRoleBinding, apiVars
<1> QED BY <1>1, <1>2, <1>3 DEF ClusterNext

LEMMA StepWrites ==
  ASSUME TypeInv, [Next]_vars
  PROVE  UNCHANGED crb \/ OwnWritten \/ (pc \in LegacySteps /\ LegacyDeleted)
<1>1. CASE \/ \E i \in Instances : Reconcile(i) \/ ReconcileReadError(i)
           \/ Restart
           \/ UNCHANGED vars
  BY <1>1 DEF Reconcile, ReconcileReadError, Restart, vars, clusterVars, apiVars
<1>2. CASE ClusterNext
  BY <1>2, ClusterKeepsBindings
<1>3. CASE Pass
  <2>1. CASE CleanupClusterScopedPermissions("manager", "cleanupManager", "cleanupK8sAuth")
    BY <2>1, CleanupWrites DEF Suffixes, Cleaning
  <2>2. CASE CleanupClusterScopedPermissions("k8sAuth", "cleanupK8sAuth", "removeFinalizer")
    BY <2>2, CleanupWrites DEF Suffixes, Cleaning
  <2>3. CASE ReconcileManagerClusterRoleBinding
    <3> DEFINE tagged == ~mem.wide
               failed == IF mem.wide THEN "markFailed" ELSE "markUnrevoked"
    <3>1. /\ pc = "managerClusterRoleBinding"
          /\ \/ ClusterRoleMissing("manager")
             \/ ReconcileClusterRoleBinding("manager", tagged, failed)
      BY <2>3 DEF ReconcileManagerClusterRoleBinding
    <3>2. /\ tagged \in BOOLEAN
          /\ IF tagged THEN Revocable("manager") ELSE Grantable("manager")
      BY <3>1 DEF TypeInv, TypeOK, CRs, Revocable, Grantable
    <3>3. ClusterRoleMissing("manager") => UNCHANGED crb
      BY DEF ClusterRoleMissing, apiVars
    <3> HIDE DEF tagged, failed
    <3> QED BY <3>1, <3>2, <3>3, BindingWrites DEF Suffixes
  <2>4. CASE ReconcileManagerAuthClusterRoleBinding
    <3> DEFINE tagged == FALSE
    <3>1. /\ pc = "k8sAuthClusterRoleBinding"
          /\ \/ ClusterRoleMissing("k8sAuth")
             \/ ReconcileClusterRoleBinding("k8sAuth", tagged, "markFailed")
      BY <2>4 DEF ReconcileManagerAuthClusterRoleBinding
    <3>2. tagged \in BOOLEAN /\ ~tagged /\ Grantable("k8sAuth")
      BY DEF Grantable
    <3>3. ClusterRoleMissing("k8sAuth") => UNCHANGED crb
      BY DEF ClusterRoleMissing, apiVars
    <3> HIDE DEF tagged
    <3> QED BY <3>1, <3>2, <3>3, BindingWrites DEF Suffixes
  <2>5. CASE CleanupLegacyClusterRoleBinding("manager", "legacyManager")
    BY <2>5, LegacyWrites DEF CleanupLegacyClusterRoleBinding, LegacySteps, Suffixes
  <2>6. CASE CleanupLegacyClusterRoleBinding("k8sAuth", "legacyK8sAuth")
    BY <2>6, LegacyWrites DEF CleanupLegacyClusterRoleBinding, LegacySteps, Suffixes
  <2>7. CASE \/ RemoveFinalizer \/ AddFinalizer \/ InstallationPreflightCheck
             \/ ReconcileDeployment
    BY <2>7 DEF RemoveFinalizer, AddFinalizer, InstallationPreflightCheck,
       ReconcileDeployment, apiVars
  <2>8. CASE \/ \E k \in Services : ReconcileService(k)
             \/ ReconcileAuthorinoServiceAccount
             \/ ReconcileManagerRoleBinding
             \/ ReconcileLeaderElectionRole
             \/ ReconcileLeaderElectionRoleBinding
    BY <2>8 DEF ReconcileService, ReconcileAuthorinoServiceAccount,
       ReconcileManagerRoleBinding, ReconcileLeaderElectionRole,
       ReconcileLeaderElectionRoleBinding, ReconcileOwned, ClusterRoleMissing, apiVars
  <2>9. CASE \/ UpdateStatusConditions("markFailed", "Failed", TRUE)
             \/ UpdateStatusConditions("markReady", "Ready", FALSE)
             \/ UpdateStatusConditions("markNotReady", "NotReady", FALSE)
             \/ SetStatusFailed
    BY <2>9 DEF UpdateStatusConditions, SetStatusFailed
  <2> QED BY <1>3, <2>1, <2>2, <2>3, <2>4, <2>5, <2>6, <2>7, <2>8, <2>9 DEF Pass
<1> QED BY <1>1, <1>2, <1>3 DEF Next

(***************************************************************************)
(* A binding of an instance's own name is that instance's alone, once it   *)
(* names it: applying it replaced whatever subjects it had.                *)
(***************************************************************************)
OwnAlone ==
  \A j \in Instances, s \in Suffixes :
    j \in crb[s][BindingName[j]] => crb[s][BindingName[j]] = {j}

BindingInv == TypeInv /\ OwnAlone

LEMMA InitBinding == Init => BindingInv
<1> SUFFICES ASSUME Init PROVE OwnAlone
  BY InitType DEF BindingInv
<1>1. PICK w \in [Upgraded -> BOOLEAN] :
        crb = [s \in Suffixes |-> [b \in Bindings |->
                 {i \in Upgraded : LegacyName[i] = b /\ (s = "manager" => w[i])}]]
  BY DEF Init, ClusterInit
<1>2. ASSUME NEW j \in Instances, NEW s \in Suffixes, j \in crb[s][BindingName[j]]
      PROVE  FALSE
  <2>1. LegacyName[j] = BindingName[j]
    BY <1>1, <1>2, NamesAssumption
  <2> QED BY <2>1, LegacyNameDiffers
<1> QED BY <1>2 DEF OwnAlone

LEMMA NextBinding == BindingInv /\ [Next]_vars => BindingInv'
<1> SUFFICES ASSUME BindingInv, [Next]_vars PROVE OwnAlone'
  BY NextType DEF BindingInv
<1> USE DEF BindingInv
<1>1. CASE UNCHANGED crb
  BY <1>1 DEF OwnAlone
<1>2. CASE OwnWritten
  <2>1. PICK s \in Suffixes, new \in {{}, {cur}} :
          crb' = [crb EXCEPT ![s][BindingName[cur]] = new]
    BY <1>2 DEF OwnWritten
  <2>2. ASSUME NEW j \in Instances, NEW t \in Suffixes, j \in crb'[t][BindingName[j]]
        PROVE  crb'[t][BindingName[j]] = {j}
    <3>1. \/ crb'[t][BindingName[j]] = crb[t][BindingName[j]]
          \/ crb'[t][BindingName[j]] = new
      BY <2>1, NamesAssumption DEF TypeInv, TypeOK, ClusterTypeOK
    <3> QED BY <2>2, <3>1 DEF OwnAlone
  <2> QED BY <2>2 DEF OwnAlone
<1>3. CASE LegacyDeleted
  <2>1. PICK s \in Suffixes : crb' = [crb EXCEPT ![s][LegacyName[cur]] = {}]
    BY <1>3 DEF LegacyDeleted
  <2>2. ASSUME NEW j \in Instances, NEW t \in Suffixes, j \in crb'[t][BindingName[j]]
        PROVE  crb'[t][BindingName[j]] = crb[t][BindingName[j]]
    BY <2>1, <2>2, NamesAssumption DEF TypeInv, TypeOK, ClusterTypeOK
  <2> QED BY <2>2 DEF OwnAlone
<1> QED BY <1>1, <1>2, <1>3, StepWrites

LEMMA NobodyEvicted ==
  ASSUME BindingInv, [Next]_vars, NEW j \in Instances \ {cur}, NEW s \in Suffixes,
         j \in crb[s][BindingName[j]]
  PROVE  j \in crb'[s][BindingName[j]]
<1> USE DEF BindingInv
<1>1. CASE UNCHANGED crb
  BY <1>1
<1>2. CASE OwnWritten
  <2>1. cur \in Instances /\ BindingName[cur] # BindingName[j]
    BY <1>2, BindingNameInjective DEF OwnWritten
  <2> QED BY <1>2, <2>1, NamesAssumption DEF OwnWritten, TypeInv, TypeOK, ClusterTypeOK
<1>3. CASE LegacyDeleted
  <2>1. PICK t \in Suffixes : /\ cur \in crb[t][LegacyName[cur]]
                              /\ crb' = [crb EXCEPT ![t][LegacyName[cur]] = {}]
    BY <1>3 DEF LegacyDeleted
  <2>2. cur \notin crb[s][BindingName[j]]
    BY DEF OwnAlone
  <2>3. t # s \/ LegacyName[cur] # BindingName[j]
    BY <2>1, <2>2
  <2> QED BY <1>3, <2>1, <2>3, NamesAssumption DEF LegacyDeleted, TypeInv, TypeOK, ClusterTypeOK
<1> QED BY <1>1, <1>2, <1>3, StepWrites

LEMMA LegacyConfirmed ==
  ASSUME BindingInv, [Next]_vars, NEW s \in Suffixes, NEW b \in Bindings,
         pc \in LegacySteps, crb'[s][b] # crb[s][b]
  PROVE  cur \in crb[s][b]
<1>1. LegacyDeleted
  BY StepWrites DEF BindingInv, OwnWritten, OwnSteps, Cleaning, LegacySteps
<1>2. PICK t \in Suffixes : /\ cur \in crb[t][LegacyName[cur]]
                            /\ crb' = [crb EXCEPT ![t][LegacyName[cur]] = {}]
  BY <1>1 DEF LegacyDeleted
<1>3. s = t /\ b = LegacyName[cur]
  BY <1>1, <1>2, NamesAssumption
  DEF LegacyDeleted, BindingInv, TypeInv, TypeOK, ClusterTypeOK
<1> QED BY <1>2, <1>3

(***************************************************************************)
(* What a provisioning pass has granted is there for as long as it lasts.  *)
(***************************************************************************)
OwnBound ==
  /\ Past("managerClusterRoleBinding") /\ mem.wide => cur \in crb["manager"][BindingName[cur]]
  /\ Past("k8sAuthClusterRoleBinding") => cur \in crb["k8sAuth"][BindingName[cur]]

\* A call that reports no error has made the binding name the instance.
LEMMA BoundByCall ==
  ASSUME TypeInv, pc \in Sequential, NEW s \in Suffixes,
         ClusterRoleMissing(s) \/ ReconcileClusterRoleBinding(s, FALSE, "markFailed"),
         pc' # "markFailed"
  PROVE  cur \in crb'[s][BindingName[cur]]
<1> DEFINE b == BindingName[cur]
<1>1. cur \in Instances /\ b \in Bindings
  BY StepsDiffer, NamesAssumption DEF TypeInv, Sequential
<1>2. PICK r \in ReconcileResource(CachedBinding(s, b) # {}, crb[s][b] # {}, FALSE, FALSE) :
           /\ crb' = IF r.done THEN [crb EXCEPT ![s][b] = {cur}] ELSE crb
           /\ ProceedOr(r, BindingErrors, "markFailed")
  BY DEF ReconcileClusterRoleBinding, ClusterRoleMissing, Goto
<1>3. r.crud \in BindingErrors /\ (r.ok => r.done)
  BY <1>2, ResourceWritten DEF BindingErrors, TypeInv, TypeOK, ClusterTypeOK
<1>4. r.ok
  BY <1>2, <1>3 DEF ProceedOr, Goto
<1> QED BY <1>1, <1>2, <1>3, <1>4 DEF TypeInv, TypeOK, ClusterTypeOK

\* No call between two others takes the binding away.
LEMMA OwnKept ==
  ASSUME TypeInv, [Next]_vars, cur \in Instances, NEW s \in Suffixes,
         pc \notin Cleaning, s = "manager" => mem.wide, cur \in crb[s][BindingName[cur]]
  PROVE  cur \in crb'[s][BindingName[cur]]
<1>1. CASE UNCHANGED crb
  BY <1>1
<1>2. CASE OwnWritten
  BY <1>2, NamesAssumption DEF OwnWritten, Revocable, TypeInv, TypeOK, ClusterTypeOK
<1>3. CASE LegacyDeleted
  BY <1>3, LegacyNameDiffers, NamesAssumption
  DEF LegacyDeleted, TypeInv, TypeOK, ClusterTypeOK
<1> QED BY <1>1, <1>2, <1>3, StepWrites

LEMMA InitBound == Init => OwnBound
BY StepsDiffer DEF Init, OwnBound, Past

LEMMA NextBound == TypeInv /\ OwnBound /\ [Next]_vars => OwnBound'
<1> SUFFICES ASSUME TypeInv, OwnBound, [Next]_vars PROVE OwnBound'
  OBVIOUS
<1> USE DEF Suffixes
<1>1. /\ "managerClusterRoleBinding" \in Sequential /\ "k8sAuthClusterRoleBinding" \in Sequential
      /\ pc \in Provisioning => cur \in Instances /\ pc \notin Cleaning
  BY StepsDiffer DEF Sequential, Provisioning, TypeInv
<1>2. ASSUME Past("managerClusterRoleBinding")', mem'.wide
      PROVE  cur' \in crb'["manager"][BindingName[cur']]
  <2>1. /\ pc \in Provisioning /\ UNCHANGED <<cur, mem>>
        /\ \/ Past("managerClusterRoleBinding")
           \/ SequentialCall /\ pc = "managerClusterRoleBinding" /\ pc' # "markFailed"
    BY <1>1, <1>2, PastGrows
  <2>2. CASE Past("managerClusterRoleBinding")
    BY <1>1, <1>2, <2>1, <2>2, OwnKept DEF OwnBound
  <2>3. CASE SequentialCall /\ pc = "managerClusterRoleBinding" /\ pc' # "markFailed"
    <3>1. ReconcileManagerClusterRoleBinding
      BY <2>3, CallAt
    <3>2. mem.wide /\ (~mem.wide) = FALSE
      BY <1>2, <2>1
    <3>3. \/ ClusterRoleMissing("manager")
          \/ ReconcileClusterRoleBinding("manager", FALSE, "markFailed")
      BY <3>1, <3>2 DEF ReconcileManagerClusterRoleBinding
    <3> QED BY <1>1, <2>1, <2>3, <3>3, BoundByCall
  <2> QED BY <2>1, <2>2, <2>3
<1>3. ASSUME Past("k8sAuthClusterRoleBinding")'
      PROVE  cur' \in crb'["k8sAuth"][BindingName[cur']]
  <2>1. /\ pc \in Provisioning /\ UNCHANGED <<cur, mem>>
        /\ \/ Past("k8sAuthClusterRoleBinding")
           \/ SequentialCall /\ pc = "k8sAuthClusterRoleBinding" /\ pc' # "markFailed"
    BY <1>1, <1>3, PastGrows
  <2>2. CASE Past("k8sAuthClusterRoleBinding")
    BY <1>1, <2>1, <2>2, OwnKept DEF OwnBound
  <2>3. CASE SequentialCall /\ pc = "k8sAuthClusterRoleBinding" /\ pc' # "markFailed"
    <3>1. ReconcileManagerAuthClusterRoleBinding
      BY <2>3, CallAt
    <3> QED
      BY <1>1, <2>1, <2>3, <3>1, BoundByCall DEF ReconcileManagerAuthClusterRoleBinding
  <2> QED BY <2>1, <2>2, <2>3
<1> QED BY <1>2, <1>3 DEF OwnBound

LEMMA AccessStays ==
  ASSUME TypeInv, OwnBound, [Next]_vars, NEW s \in Suffixes,
         cur \in Instances, pc \in Provisioning, Wanted(s), Access(cur, s)
  PROVE  cur \in crb'[s][BindingName[cur]] \/ cur \in crb'[s][LegacyName[cur]]
<1>1. pc \notin Cleaning /\ (s = "manager" => mem.wide)
  BY StepsDiffer DEF Wanted
<1>2. CASE cur \in crb[s][BindingName[cur]]
  BY <1>1, <1>2, OwnKept
<1>3. CASE cur \notin crb[s][BindingName[cur]] /\ cur \in crb[s][LegacyName[cur]]
  <2>1. CASE UNCHANGED crb
    BY <1>3, <2>1
  <2>2. CASE OwnWritten
    BY <1>3, <2>2, LegacyNameDiffers, NamesAssumption
    DEF OwnWritten, TypeInv, TypeOK, ClusterTypeOK
  <2>3. CASE pc \in LegacySteps
    <3>1. Past("managerClusterRoleBinding") /\ Past("k8sAuthClusterRoleBinding")
      BY <2>3, Places DEF Past, LegacySteps
    <3> QED BY <1>1, <1>3, <3>1 DEF OwnBound, Suffixes
  <2> QED BY <2>1, <2>2, <2>3, StepWrites
<1> QED BY <1>2, <1>3 DEF Access

\* However many instances there are and whatever legacy names coincide with
\* them, no pass over one instance takes another's own binding away from it.
THEOREM NoEviction == Spec => OthersKeepAccess
<1>1. BindingInv /\ [Next]_vars =>
        [\A j \in Instances \ {cur}, s \in Suffixes :
           j \in crb[s][BindingName[j]] => j \in crb'[s][BindingName[j]]]_vars
  BY NobodyEvicted
<1> QED BY <1>1, InitBinding, NextBinding, PTL DEF Spec, OthersKeepAccess

\* However old the cached copy it has validated, the legacy cleanup deletes a
\* binding only while the binding on the API server names the instance at hand.
THEOREM LegacyDeletionsConfirmed == Spec => LegacyCleanupConfirmed
<1>1. BindingInv /\ [Next]_vars =>
        [\A s \in Suffixes, b \in Bindings :
           pc \in {"legacyManager", "legacyK8sAuth"} /\ crb'[s][b] # crb[s][b]
             => cur \in crb[s][b]]_vars
  BY LegacyConfirmed DEF LegacySteps
<1> QED BY <1>1, InitBinding, NextBinding, PTL DEF Spec, LegacyCleanupConfirmed

\* Whatever fails, lags or restarts, and whatever names coincide, a provisioning
\* pass never leaves its instance without cluster-wide access that its spec asks
\* for and that it had, not even between the new binding and the legacy one.
THEOREM AccessKept == Spec => RequestedAccessKept
<1>1. TypeInv /\ OwnBound /\ [Next]_vars =>
        [\A i \in Instances, s \in Suffixes :
           pc \in Provisioning /\ cur = i /\ Wanted(s) /\ Access(i, s) => Access(i, s)']_vars
  BY AccessStays DEF Access
<1>2. Init => TypeInv /\ OwnBound
  BY InitType, InitBound
<1> QED BY <1>1, <1>2, NextType, NextBound, PTL DEF Spec, RequestedAccessKept
=============================================================================
