---------------------------- MODULE SettledProofs ----------------------------
(***************************************************************************)
(* What a pass leaves behind.  The calls of a pass are far apart: while it *)
(* is under way, and after it, resources are edited and deleted, objects   *)
(* collected or deleted, Deployments become available or not, and other    *)
(* instances are reconciled.  The invariants here say what is in place at  *)
(* each point of a pass, and what must be so of an instance for which      *)
(* nothing is on its way: no pass, no request, no newer version.           *)
(***************************************************************************)
EXTENDS FinalizerProofs, BindingProofs

(***************************************************************************)
(* What a step may do to owned objects.                                    *)
(***************************************************************************)

\* What a pass makes of the object it is at.
Made(k) == IF k = "managerRoleBinding" /\ mem.wide THEN None ELSE cur

OwnObjectWritten ==
  /\ cur \in Instances /\ pc \in Kinds
  /\ obj' = [obj EXCEPT ![Key(cur, pc)] = Made(pc)]

Abandoned == \E i \in Instances : obj' = Orphaned(i) /\ cr' = [cr EXCEPT ![i] = NoCR]
Collected == \E ks : (\A k \in ks : Collectable(k)) /\ GarbageCollect(ks)
Drifted   == \E k \in Objects : Drift(k)

LEMMA OwnedWrites ==
  ASSUME TypeInv, pc \in Kinds \cap Sequential, NEW reported,
         NEW tagged \in BOOLEAN, tagged = (pc = "managerRoleBinding" /\ mem.wide),
         ReconcileOwned(pc, tagged, reported)
  PROVE  /\ UNCHANGED obj \/ OwnObjectWritten
         /\ ~tagged /\ {"read", "create", "update"} \subseteq reported /\ pc' # "markFailed"
              => OwnObjectWritten
<1> DEFINE key == Key(cur, pc)
<1>1. cur \in Instances /\ key \in Objects /\ Found(cur, pc) \in BOOLEAN
  <2>1. cur \in Instances
    BY StepsDiffer DEF TypeInv, Sequential
  <2> QED BY <2>1, KeyIsObject DEF Found, TypeInv, TypeOK, ClusterTypeOK
<1>2. PICK r \in ReconcileResource(Found(cur, pc), obj[key] # None, tagged,
                                   obj[key] \notin {None, cur}) :
        /\ obj' = IF r.done THEN [obj EXCEPT ![key] = IF tagged THEN None ELSE cur]
                            ELSE obj
        /\ Proceed(r, reported)
  BY DEF ReconcileOwned
<1>3. (IF tagged THEN None ELSE cur) = Made(pc)
  BY DEF Made
<1>4. UNCHANGED obj \/ OwnObjectWritten
  BY <1>1, <1>2, <1>3 DEF OwnObjectWritten
<1>5. ASSUME ~tagged, {"read", "create", "update"} \subseteq reported, pc' # "markFailed"
      PROVE  OwnObjectWritten
  <2>1. tagged = FALSE
    BY <1>5
  <2>2. r.crud \in {"read", "create", "update"} /\ (r.ok => r.done)
    BY <1>1, <1>2, <2>1, ResourceWritten DEF TypeInv, TypeOK, ClusterTypeOK
  <2>3. r.ok
    BY <1>2, <1>5, <2>2 DEF Proceed, ProceedOr, Goto
  <2> QED BY <1>1, <1>2, <1>3, <2>2, <2>3 DEF OwnObjectWritten
<1> QED BY <1>4, <1>5

LEMMA SequentialWrites ==
  ASSUME TypeInv, SequentialCall
  PROVE  /\ UNCHANGED obj \/ OwnObjectWritten
         /\ /\ pc \in OwnKinds /\ pc' # "markFailed"
            /\ ~(pc = "managerRoleBinding" /\ mem.wide)
            => OwnObjectWritten
<1>0. pc \in Sequential /\ {"read", "create", "update"} \subseteq BindingErrors
  BY SequentialStep DEF BindingErrors
<1>1. CASE pc \in Services
  BY <1>0, <1>1, CallAt, OwnedWrites DEF ReconcileService, Services, Kinds, OwnKinds
<1>2. CASE pc = "serviceAccount"
  BY <1>0, <1>2, CallAt, OwnedWrites DEF ReconcileAuthorinoServiceAccount, Kinds, OwnKinds
<1>3. CASE pc = "managerRoleBinding"
  <2> DEFINE tagged == mem.wide
  <2>1. tagged \in BOOLEAN /\ tagged = (pc = "managerRoleBinding" /\ mem.wide)
    BY <1>3 DEF TypeInv, TypeOK, CRs
  <2>2. \/ ClusterRoleMissing("manager")
        \/ ReconcileOwned(pc, tagged, BindingErrors)
    BY <1>3, CallAt DEF ReconcileManagerRoleBinding
  <2>3. ClusterRoleMissing("manager") => UNCHANGED obj /\ pc' = "markFailed"
    BY DEF ClusterRoleMissing, Goto, apiVars
  <2>4. pc \in Kinds
    BY <1>3 DEF Kinds, OwnKinds
  <2> HIDE DEF tagged
  <2> QED BY <1>0, <2>1, <2>2, <2>3, <2>4, OwnedWrites
<1>4. CASE pc = "leaderRole"
  BY <1>0, <1>4, CallAt, OwnedWrites DEF ReconcileLeaderElectionRole, Kinds, OwnKinds, Services
<1>5. CASE pc = "leaderRoleBinding"
  BY <1>0, <1>5, CallAt, OwnedWrites DEF ReconcileLeaderElectionRoleBinding, Kinds, OwnKinds
<1>6. CASE pc \notin Kinds
  <2>1. UNCHANGED obj
    BY <1>6 DEF SequentialCall, InstallationPreflightCheck, ReconcileService, Services,
       ReconcileAuthorinoServiceAccount, ReconcileManagerClusterRoleBinding,
       ReconcileManagerRoleBinding, ReconcileManagerAuthClusterRoleBinding,
       ReconcileLeaderElectionRole, ReconcileLeaderElectionRoleBinding,
       CleanupLegacyClusterRoleBinding, ReconcileClusterRoleBinding, ClusterRoleMissing,
       Kinds, OwnKinds, apiVars
  <2> QED BY <1>6, <2>1 DEF Kinds
<1> QED BY <1>0, <1>1, <1>2, <1>3, <1>4, <1>5, <1>6 DEF Kinds, OwnKinds, Sequential

LEMMA ObjectWrites ==
  ASSUME TypeInv, [Next]_vars
  PROVE  \/ UNCHANGED obj
         \/ OwnObjectWritten /\ pc \in Provisioning /\ UNCHANGED cr
         \/ Abandoned \/ Collected \/ Drifted
<1>1. CASE SequentialCall
  BY <1>1, SequentialWrites, SequentialStep DEF Sequential
<1>2. CASE ReconcileDeployment
  <2>1. pc = "deployment" /\ cur \in Instances /\ UNCHANGED cr
    BY <1>2 DEF ReconcileDeployment, TypeInv
  <2>2. UNCHANGED obj \/ obj' = [obj EXCEPT ![<<cur, "deployment">>] = cur]
    BY <1>2 DEF ReconcileDeployment
  <2> QED BY <2>1, <2>2 DEF OwnObjectWritten, Made, Key, Kinds, OwnKinds, Provisioning
<1>3. CASE RemoveFinalizer
  <2>1. pc # "idle"
    BY <1>3 DEF RemoveFinalizer
  <2>2. \/ UNCHANGED obj
        \/ obj' = Orphaned(cur) /\ cr' = [cr EXCEPT ![cur] = NoCR]
    BY <1>3 DEF RemoveFinalizer
  <2> QED BY <2>1, <2>2 DEF Abandoned, TypeInv
<1>4. CASE Users
  BY <1>4 DEF Users, CreateCR, EditSpec, DeleteCR, CreateSecret, DeleteSecret,
     ReinstallClusterRole, apiVars, Abandoned, Drifted
<1>5. CASE Controllers
  BY <1>5 DEF Controllers, RollOut, BecomeUnavailable, ReleaseHold, CollectOne, CollectTheRest,
     Collected
<1>6. CASE Informers
  BY <1>6 DEF Informers, SyncCR, SyncDeployment, Resync, SyncObject, SyncClusterRoleBinding, apiVars
<1>7. CASE \/ \E i \in Instances : Reconcile(i) \/ ReconcileReadError(i)
           \/ Restart
           \/ UNCHANGED vars
           \/ \E s, step, next : CleanupClusterScopedPermissions(s, step, next)
           \/ AddFinalizer
           \/ SetStatusFailed
           \/ \E step, status, failed : UpdateStatusConditions(step, status, failed)
  BY <1>7 DEF Reconcile, ReconcileReadError, Restart, vars, clusterVars, apiVars,
     CleanupClusterScopedPermissions, AddFinalizer, SetStatusFailed, UpdateStatusConditions
<1> QED
  BY <1>1, <1>2, <1>3, <1>4, <1>5, <1>6, <1>7 DEF Next, Pass, ClusterNext, SequentialCall

(***************************************************************************)
(* What a step may do to a resource.                                       *)
(***************************************************************************)

\* The garbage collector takes the objects of no instance that stays.
HeldLeaves == \A i \in Instances : cr[i].held => cr[i].deleting

\* A new version of one resource: the cache has it no longer, and a resource
\* that is leaving does not come back.
Rewritten(i) ==
  /\ Touch(i)
  /\ \A j \in Instances \ {i} : cr'[j] = cr[j]
  /\ cr'[i].held => cr'[i].deleting
  /\ cr[i].exists /\ cr[i].deleting => ~cr'[i].exists \/ cr'[i].deleting

LEMMA ResourceWrites ==
  ASSUME TypeInv, HeldLeaves, [Next]_vars
  PROVE  UNCHANGED cr \/ \E i \in Instances : Rewritten(i)
<1> USE DEF TypeInv, TypeOK, ClusterTypeOK
<1>1. CASE SequentialCall
  BY <1>1, SequentialStep
<1>2. CASE AddFinalizer \/ RemoveFinalizer
  <2>1. cur \in Instances
    BY <1>2 DEF AddFinalizer, RemoveFinalizer
  <2>2. ASSUME NEW finalizer \in BOOLEAN
        PROVE  /\ Updated(finalizer).held = cr[cur].held
               /\ Updated(finalizer).deleting = cr[cur].deleting
               /\ Updated(finalizer).exists = cr[cur].exists
    <3>1. cr[cur] \in CRs
      BY <2>1
    <3> QED BY <3>1 DEF Updated, CRs
  <2>3. \/ UNCHANGED cr
        \/ Touch(cur) /\ \E v : /\ v \in {Updated(TRUE), Updated(FALSE), NoCR}
                                /\ cr' = [cr EXCEPT ![cur] = v]
    BY <1>2 DEF AddFinalizer, RemoveFinalizer
  <2>4. ~NoCR.held /\ ~NoCR.exists
    BY DEF NoCR
  <2>5. ASSUME NEW v, v \in {Updated(TRUE), Updated(FALSE), NoCR},
               Touch(cur), cr' = [cr EXCEPT ![cur] = v]
        PROVE  Rewritten(cur)
    <3>1. cr'[cur] = v /\ \A j \in Instances \ {cur} : cr'[j] = cr[j]
      BY <2>1, <2>5
    <3>2. v.held => v.deleting
      BY <2>1, <2>2, <2>4, <2>5 DEF HeldLeaves
    <3>3. cr[cur].exists /\ cr[cur].deleting => ~v.exists \/ v.deleting
      BY <2>2, <2>4, <2>5
    <3> QED BY <2>5, <3>1, <3>2, <3>3 DEF Rewritten
  <2> QED BY <2>1, <2>3, <2>5
<1>3. ASSUME NEW step, NEW status, NEW failed, step # "idle",
             \/ UpdateStatusConditions(step, status, failed)
             \/ SetStatusFailed /\ status = "Failed"
      PROVE  UNCHANGED cr \/ \E i \in Instances : Rewritten(i)
  <2>1. cur \in Instances /\ cr[cur] \in CRs
    BY <1>3 DEF UpdateStatusConditions, SetStatusFailed
  <2>2. \/ UNCHANGED cr
        \/ Touch(cur) /\ cr' = [cr EXCEPT ![cur] = [cr[cur] EXCEPT !.status = status]]
    BY <1>3 DEF UpdateStatusConditions, SetStatusFailed
  <2>3. /\ [cr[cur] EXCEPT !.status = status].held = cr[cur].held
        /\ [cr[cur] EXCEPT !.status = status].deleting = cr[cur].deleting
        /\ [cr[cur] EXCEPT !.status = status].exists = cr[cur].exists
    BY <2>1 DEF CRs
  <2> QED BY <2>1, <2>2, <2>3 DEF Rewritten, HeldLeaves
<1>4. ASSUME NEW i \in Instances, NEW w \in BOOLEAN, NEW c, CreateCR(i, w, c) \/ EditSpec(i, w, c)
      PROVE  Rewritten(i)
  <2>1. cr[i] \in CRs
    OBVIOUS
  <2>2. CASE CreateCR(i, w, c)
    BY <2>1, <2>2 DEF CreateCR, Rewritten, NoCR
  <2>3. CASE EditSpec(i, w, c)
    <3>1. cr' = [cr EXCEPT ![i] = [cr[i] EXCEPT !.wide = w, !.certs = c]]
      BY <2>3 DEF EditSpec
    <3>2. /\ cr'[i].held = cr[i].held /\ cr'[i].deleting = cr[i].deleting
          /\ cr'[i].exists = cr[i].exists
      BY <2>1, <3>1 DEF CRs
    <3> QED BY <2>3, <3>1, <3>2 DEF EditSpec, Rewritten, HeldLeaves
  <2> QED BY <1>4, <2>2, <2>3
<1>5. ASSUME NEW i \in Instances, NEW foreground \in BOOLEAN, DeleteCR(i, foreground)
      PROVE  Rewritten(i)
  <2>1. cr[i] \in CRs
    OBVIOUS
  <2>2. CASE cr' = [cr EXCEPT ![i] = NoCR]
    BY <1>5, <2>2 DEF DeleteCR, Rewritten, NoCR
  <2>3. CASE cr' = [cr EXCEPT ![i].deleting = TRUE, ![i].held = foreground]
    <3>1. cr' = [cr EXCEPT ![i] = [cr[i] EXCEPT !.deleting = TRUE, !.held = foreground]]
      BY <2>3
    <3>2. cr'[i].deleting
      BY <2>1, <3>1 DEF CRs
    <3> QED BY <1>5, <3>1, <3>2 DEF DeleteCR, Rewritten
  <2> QED BY <1>5, <2>2, <2>3 DEF DeleteCR
<1>6. ASSUME NEW i \in Instances, ReleaseHold(i) PROVE Rewritten(i)
  <2>1. cr[i] \in CRs /\ cr[i].deleting
    BY <1>6 DEF ReleaseHold, HeldLeaves
  <2>2. cr' = [cr EXCEPT ![i] = IF cr[i].finalizer THEN [cr[i] EXCEPT !.held = FALSE] ELSE NoCR]
    BY <1>6 DEF ReleaseHold
  <2>3. cr'[i].held = FALSE /\ (cr'[i].exists => cr'[i].deleting)
    BY <2>1, <2>2 DEF NoCR, CRs
  <2> QED BY <1>6, <2>1, <2>2, <2>3 DEF ReleaseHold, Rewritten
<1>7. CASE Users
  BY <1>4, <1>5, <1>7 DEF Users, Drift, CreateSecret, DeleteSecret, ReinstallClusterRole, apiVars
<1>8. CASE Controllers
  BY <1>6, <1>8 DEF Controllers, RollOut, BecomeUnavailable, CollectOne, CollectTheRest,
     GarbageCollect
<1>9. CASE Informers
  BY <1>9 DEF Informers, SyncCR, SyncDeployment, Resync, SyncObject, SyncClusterRoleBinding, apiVars
<1>10. CASE \/ \E i \in Instances : Reconcile(i) \/ ReconcileReadError(i)
            \/ Restart
            \/ UNCHANGED vars
            \/ ReconcileDeployment
            \/ \E s, step, next : CleanupClusterScopedPermissions(s, step, next)
  BY <1>10 DEF Reconcile, ReconcileReadError, Restart, vars, clusterVars, apiVars,
     ReconcileDeployment, CleanupClusterScopedPermissions
<1> QED
  BY <1>1, <1>2, <1>3, <1>7, <1>8, <1>9, <1>10 DEF Next, Pass, ClusterNext, SequentialCall

LEMMA InitHeld == Init => HeldLeaves
<1> SUFFICES ASSUME Init, NEW i \in Instances PROVE ~cr[i].held
  BY DEF HeldLeaves
<1>1. PICK w \in [Upgraded -> BOOLEAN] :
        cr = [j \in Instances |->
                IF j \in Upgraded
                THEN [NoCR EXCEPT !.exists = TRUE, !.finalizer = TRUE,
                                  !.wide = w[j], !.status = "Ready"]
                ELSE NoCR]
  BY DEF Init, ClusterInit
<1> QED BY <1>1 DEF NoCR

LEMMA NextHeld == TypeInv /\ HeldLeaves /\ [Next]_vars => HeldLeaves'
<1> SUFFICES ASSUME TypeInv, HeldLeaves, [Next]_vars PROVE HeldLeaves'
  OBVIOUS
<1> QED BY ResourceWrites DEF HeldLeaves, Rewritten

\* A resource that is there and stays was not leaving before.
LEMMA LiveBefore ==
  ASSUME TypeInv, HeldLeaves, [Next]_vars, NEW i \in Instances, cr[i].exists,
         cr'[i].exists, ~cr'[i].deleting
  PROVE  Live(i)
<1>1. CASE UNCHANGED cr
  BY <1>1 DEF Live
<1>2. ASSUME NEW j \in Instances, Rewritten(j) PROVE Live(i)
  <2>1. CASE i = j
    BY <1>2, <2>1 DEF Live, Rewritten
  <2>2. CASE i # j
    BY <1>2, <2>2 DEF Live, Rewritten
  <2> QED BY <2>1, <2>2
<1> QED BY <1>1, <1>2, ResourceWrites

\* A resource that the cache is up to date with has not just been written.
LEMMA Unwritten ==
  ASSUME TypeInv, HeldLeaves, [Next]_vars, NEW i \in Instances, "cache" \in latest'[i]
  PROVE  cr'[i] = cr[i]
<1>1. ASSUME NEW j \in Instances, Rewritten(j) PROVE cr'[i] = cr[i]
  <2>1. j # i
    BY <1>1 DEF Rewritten, Touch, TypeInv, TypeOK, ClusterTypeOK
  <2> QED BY <1>1, <2>1 DEF Rewritten
<1> QED BY <1>1, ResourceWrites

(***************************************************************************)
(* The objects of an instance that stays.                                  *)
(***************************************************************************)
LEMMA OwnKey ==
  ASSUME NEW i \in Instances, NEW k \in OwnKinds
  PROVE  /\ <<i, k>> \in Objects /\ Key(i, k) = <<i, k>>
         /\ \A j \in Instances, l \in Kinds : Key(j, l) = <<i, k>> <=> j = i /\ l = k
BY OwnersAssumption, NamesAssumption DEF Objects, Key, OwnKinds, Services, Kinds

\* They are taken away only by users, or by a pass for a cluster-wide spec.
LEMMA OwnerKept ==
  ASSUME TypeInv, HeldLeaves, [Next]_vars, NEW i \in Instances, NEW k \in OwnKinds \ Drifting,
         obj[<<i, k>>] = i, Live(i), cr'[i].exists,
         ~(pc = k /\ cur = i /\ k = "managerRoleBinding" /\ mem.wide)
  PROVE  obj'[<<i, k>>] = i
<1> USE DEF TypeInv, TypeOK, ClusterTypeOK
<1>1. CASE OwnObjectWritten
  <2>1. CASE Key(cur, pc) = <<i, k>>
    <3>1. cur = i /\ pc = k
      BY <1>1, <2>1, OwnKey DEF OwnObjectWritten
    <3>2. Made(pc) = i
      BY <3>1 DEF Made
    <3> QED BY <1>1, <2>1, <3>2, OwnKey DEF OwnObjectWritten
  <2>2. CASE Key(cur, pc) # <<i, k>>
    BY <1>1, <2>2, OwnKey DEF OwnObjectWritten
  <2> QED BY <2>1, <2>2
<1>2. CASE Abandoned
  <2>1. PICK j \in Instances : obj' = Orphaned(j) /\ cr' = [cr EXCEPT ![j] = NoCR]
    BY <1>2 DEF Abandoned
  <2>2. j # i
    BY <2>1 DEF NoCR
  <2> QED BY <2>1, <2>2, OwnKey DEF Orphaned
<1>3. CASE Collected
  <2>1. ~Collectable(<<i, k>>)
    BY OwnersAssumption DEF Collectable, HeldLeaves, Live
  <2> QED BY <1>3, <2>1, OwnKey DEF Collected, GarbageCollect
<1>4. CASE Drifted
  BY <1>4, OwnKey DEF Drifted, Drift
<1> QED BY <1>1, <1>2, <1>3, <1>4, ObjectWrites

\* They become the instance's only by a call of a pass over it.
LEMMA OwnerNew ==
  ASSUME TypeInv, [Next]_vars, NEW i \in Instances, NEW k \in OwnKinds,
         obj[<<i, k>>] # i, obj'[<<i, k>>] = i
  PROVE  OwnObjectWritten /\ cur = i /\ pc = k /\ pc \in Provisioning
<1> USE DEF TypeInv, TypeOK, ClusterTypeOK
<1>1. CASE OwnObjectWritten /\ pc \in Provisioning
  BY <1>1, OwnKey DEF OwnObjectWritten
<1>2. CASE Abandoned
  BY <1>2, OwnKey, OwnersAssumption DEF Abandoned, Orphaned
<1>3. CASE Collected
  BY <1>3, OwnKey, OwnersAssumption DEF Collected, GarbageCollect
<1>4. CASE Drifted
  BY <1>4, OwnKey, OwnersAssumption DEF Drifted, Drift
<1> QED BY <1>1, <1>2, <1>3, <1>4, ObjectWrites

(***************************************************************************)
(* What a pass over an instance that stays has made is there as long as it *)
(* lasts, unless users delete it.                                          *)
(***************************************************************************)
Backing == OwnKinds \ {"deployment"}

PassOwns ==
  pc \in Provisioning /\ Live(cur) =>
    \A k \in Backing \ Drifting :
      Past(k) /\ ~(k = "managerRoleBinding" /\ mem.wide) => obj[<<cur, k>>] = cur

LEMMA NextOwns ==
  ASSUME GuardInv, HeldLeaves, PassOwns, [Next]_vars
  PROVE  PassOwns'
<1> SUFFICES ASSUME cr'[cur'].exists, ~cr'[cur'].deleting, NEW k \in Backing \ Drifting, Past(k)',
                    ~(k = "managerRoleBinding" /\ mem'.wide)
             PROVE  obj'[<<cur', k>>] = cur'
  BY DEF PassOwns, Live
<1>1. k \in Sequential /\ k \in OwnKinds \ Drifting
  BY DEF Backing, OwnKinds, Services, Sequential, Provisioning
<1>2. /\ pc \in Provisioning /\ UNCHANGED <<cur, mem>>
      /\ Past(k) \/ (SequentialCall /\ pc = k /\ pc' # "markFailed")
  BY <1>1, PastGrows
<1>3. TypeInv /\ cur \in Instances /\ cr[cur].exists
  BY <1>2, StepsDiffer DEF GuardInv, TypeInv, PassGuards, Protected
<1>4. Live(cur)
  BY <1>2, <1>3, LiveBefore
<1>5. CASE Past(k)
  <2>1. obj[<<cur, k>>] = cur
    BY <1>2, <1>4, <1>5 DEF PassOwns
  <2> QED BY <1>1, <1>2, <1>3, <1>4, <2>1, OwnerKept
<1>6. CASE SequentialCall /\ pc = k /\ pc' # "markFailed"
  <2>1. OwnObjectWritten
    BY <1>1, <1>2, <1>3, <1>6, SequentialWrites
  <2>2. Made(pc) = cur
    BY <1>2, <1>6 DEF Made
  <2> QED
    BY <1>1, <1>2, <1>3, <1>6, <2>1, <2>2, OwnKey
    DEF OwnObjectWritten, TypeInv, TypeOK, ClusterTypeOK
<1> QED BY <1>2, <1>5, <1>6

LEMMA InitOwns == Init => PassOwns
BY StepsDiffer DEF Init, PassOwns

\* A pass that reports on the Deployment has written it for its own scope.
LEMMA DeploymentStep ==
  ASSUME TypeInv, [Next]_vars, pc = "deployment", pc' \in {"markReady", "markNotReady"}
  PROVE  /\ UNCHANGED <<cur, mem, cr, crb, seenDep, latest, queue>>
         /\ obj' = [obj EXCEPT ![<<cur, "deployment">>] = cur]
         /\ dep' = [dep EXCEPT ![cur].wide = mem.wide]
         /\ pc' = "markReady" => seenDep[cur].avail
         /\ pc' = "markNotReady" => ~seenDep[cur].found \/ ~seenDep[cur].avail
<1>1. ReconcileDeployment
  <2>1. Pass
    BY StepsDiffer DEF Next, Reconcile, ReconcileReadError, Restart, vars, passVars
  <2>2. "deployment" \notin Cleaning /\ "deployment" \notin Sequential
    BY DEF Cleaning, Sequential
  <2>3. ~SequentialCall
    BY <2>2, SequentialStep
  <2> QED
    BY <2>1, <2>2, <2>3 DEF Pass, SequentialCall, CleanupClusterScopedPermissions,
       RemoveFinalizer, AddFinalizer, SetStatusFailed, UpdateStatusConditions, Cleaning
<1> DEFINE key == <<cur, "deployment">>
<1>2. PICK r \in ReconcileResource(seenDep[cur].found, obj[key] # None, FALSE,
                                   obj[key] \notin {None, cur}) :
        /\ obj' = IF r.done THEN [obj EXCEPT ![key] = cur] ELSE obj
        /\ dep' = IF r.done THEN [dep EXCEPT ![cur].wide = mem.wide] ELSE dep
        /\ Goto(IF ~r.ok THEN "markFailed"
                ELSE IF r.crud = "update" /\ seenDep[cur].avail THEN "markReady"
                ELSE "markNotReady")
  BY <1>1 DEF ReconcileDeployment
<1>3. r.ok => r.done /\ r.crud = IF seenDep[cur].found THEN "update" ELSE "create"
  <2>1. seenDep[cur].found \in BOOLEAN /\ faults \in 0 .. MaxFaults
    BY DEF TypeInv, TypeOK, ClusterTypeOK
  <2> QED BY <1>2, <2>1, ResourceWritten
<1>4. r.ok
  BY <1>2 DEF Goto
<1>5. UNCHANGED <<cr, crb, seenDep, latest, queue>>
  BY <1>1 DEF ReconcileDeployment, cacheVars
<1> QED BY <1>2, <1>3, <1>4, <1>5 DEF Goto

LEMMA DeploymentBacked ==
  ASSUME {"serviceAccount", "managerRoleBinding"} \cap Drifting = {},
         TypeInv, OwnBound, PassOwns, [Next]_vars,
         pc = "deployment", pc' \in {"markReady", "markNotReady"}, Live(cur)
  PROVE  /\ obj[<<cur, "serviceAccount">>] # None
         /\ cur \in crb["k8sAuth"][BindingName[cur]]
         /\ IF dep'[cur].wide THEN cur \in crb["manager"][BindingName[cur]]
                              ELSE obj[<<cur, "managerRoleBinding">>] # None
<1>1. cur \in Instances /\ cur # None /\ pc \in Provisioning
  BY OwnersAssumption DEF TypeInv, Provisioning
<1>2. dep'[cur].wide = mem.wide
  BY <1>1, DeploymentStep DEF TypeInv, TypeOK, ClusterTypeOK
<1>3. \A step \in {"serviceAccount", "managerRoleBinding", "managerClusterRoleBinding",
                   "k8sAuthClusterRoleBinding"} : Past(step)
  BY <1>1, Places DEF Past
<1>4. {"serviceAccount", "managerRoleBinding"} \subseteq Backing \ Drifting
  BY DEF Backing, OwnKinds
<1> QED BY <1>1, <1>2, <1>3, <1>4 DEF OwnBound, PassOwns

\* When a pass over an instance that stays has written its Deployment, what the
\* new pods run with is in place, however long ago in the pass it was made and
\* whatever happened since.  Users who delete a ServiceAccount or a RoleBinding
\* behind the operator are excluded: nothing makes those again in the same pass.
THEOREM RolloutsBacked ==
  ASSUME {"serviceAccount", "managerRoleBinding"} \cap Drifting = {}
  PROVE  Spec => RolloutBacked
<1> DEFINE Inv == GuardInv /\ HeldLeaves /\ OwnBound /\ PassOwns
<1>1. Inv /\ [Next]_vars =>
        [pc = "deployment" /\ pc' \in {"markReady", "markNotReady"} /\ Live(cur)
           => /\ obj[<<cur, "serviceAccount">>] # None
              /\ cur \in crb["k8sAuth"][BindingName[cur]]
              /\ IF dep'[cur].wide THEN cur \in crb["manager"][BindingName[cur]]
                                   ELSE obj[<<cur, "managerRoleBinding">>] # None]_vars
  BY DeploymentBacked DEF GuardInv
<1>2. Init => Inv
  BY InitSafe, InitHeld, InitBound, InitOwns
<1>3. Inv /\ [Next]_vars => Inv'
  BY NextSafe, NextHeld, NextBound, NextOwns DEF GuardInv
<1> QED BY <1>1, <1>2, <1>3, PTL DEF Spec, RolloutBacked

(***************************************************************************)
(* Instances for which nothing is on its way.                              *)
(***************************************************************************)
Quiet(i) == i \notin queue /\ "cache" \in latest[i] /\ ~(pc # "idle" /\ cur = i)

\* The last call of a pass finds the status as it is to be, and ends the pass.
Reported(i) ==
  /\ pc \in {"markReady", "markNotReady"} /\ cur = i /\ i \notin queue
  /\ cr[i].status = IF pc = "markReady" THEN "Ready" ELSE "NotReady"
  /\ UNCHANGED <<obj, dep, crb>>

\* News of an instance, of its resource or of its Deployment, queues it.
LEMMA NewsQueued ==
  ASSUME TypeInv, [Next]_vars, NEW i \in Instances, i \notin queue'
  PROVE  \/ Restart \/ Reconcile(i)
         \/ /\ i \notin queue /\ seenDep'[i] = seenDep[i]
            /\ "cache" \in latest'[i] => "cache" \in latest[i]
<1> USE DEF TypeInv, TypeOK, ClusterTypeOK, cacheVars
<1>0. /\ Touch(cur) \/ LetGo => ("cache" \in latest'[i] => "cache" \in latest[i])
      /\ \A ok : Return(ok) => i \notin queue
  BY DEF Touch, LetGo, Return
<1>1. ASSUME NEW j \in Instances, Reconcile(j) \/ ReconcileReadError(j), ~Reconcile(i)
      PROVE  /\ i \notin queue /\ seenDep'[i] = seenDep[i]
             /\ "cache" \in latest'[i] => "cache" \in latest[i]
  BY <1>1 DEF Reconcile, ReconcileReadError
<1>2. CASE SequentialCall
  BY <1>2, SequentialStep
<1>3. CASE \/ ReconcileDeployment
           \/ \E s, step, next : CleanupClusterScopedPermissions(s, step, next)
  BY <1>3 DEF ReconcileDeployment, CleanupClusterScopedPermissions
<1>4. CASE AddFinalizer \/ RemoveFinalizer
  BY <1>0, <1>4 DEF AddFinalizer, RemoveFinalizer
<1>5. ASSUME NEW step, NEW status, NEW failed,
             UpdateStatusConditions(step, status, failed) \/ SetStatusFailed
      PROVE  /\ i \notin queue /\ seenDep'[i] = seenDep[i]
             /\ "cache" \in latest'[i] => "cache" \in latest[i]
  BY <1>0, <1>5 DEF UpdateStatusConditions, SetStatusFailed
<1>6. CASE Users
  BY <1>6 DEF Users, CreateCR, EditSpec, DeleteCR, Drift, CreateSecret, DeleteSecret,
     ReinstallClusterRole, Touch
<1>7. CASE Controllers
  BY <1>7 DEF Controllers, RollOut, BecomeUnavailable, ReleaseHold, CollectOne, CollectTheRest,
     GarbageCollect, Touch
<1>8. CASE Informers
  BY <1>8 DEF Informers, SyncCR, SyncDeployment, Resync, SyncObject, SyncClusterRoleBinding
<1>9. CASE UNCHANGED vars
  BY <1>9 DEF vars, clusterVars
<1> QED
  BY <1>1, <1>2, <1>3, <1>4, <1>5, <1>6, <1>7, <1>8, <1>9
  DEF Next, Pass, ClusterNext, SequentialCall

\* Only its own last calls end a pass, short of a restart.
LEMMA PassEnds ==
  ASSUME TypeInv, [Next]_vars, pc # "idle", ~Restart, pc' = "idle" \/ cur' # cur
  PROVE  \/ AddFinalizer \/ RemoveFinalizer
         \/ UpdateStatusConditions("markFailed", "Failed", TRUE)
         \/ UpdateStatusConditions("markReady", "Ready", FALSE)
         \/ UpdateStatusConditions("markNotReady", "NotReady", FALSE)
<1>1. ~UNCHANGED passVars
  BY DEF passVars
<1>2. Pass
  BY <1>1 DEF Next, Reconcile, ReconcileReadError, vars
<1>3. ~SequentialCall
  <2>1. ASSUME SequentialCall PROVE pc' \in Provisioning /\ cur' = cur
    BY <2>1, SequentialStep, AfterType DEF HandsOver, Provisioning
  <2> QED BY <2>1, StepsDiffer
<1>4. ~ReconcileDeployment /\ ~SetStatusFailed
  <2>1. ASSUME SetStatusFailed PROVE pc' = "managerRoleBinding" /\ cur' = cur
    BY <2>1, AfterEach DEF SetStatusFailed, Goto
  <2> QED BY <2>1 DEF ReconcileDeployment, Goto
<1>5. /\ ~CleanupClusterScopedPermissions("manager", "cleanupManager", "cleanupK8sAuth")
      /\ ~CleanupClusterScopedPermissions("k8sAuth", "cleanupK8sAuth", "removeFinalizer")
  BY DEF CleanupClusterScopedPermissions, Goto
<1> QED BY <1>2, <1>3, <1>4, <1>5 DEF Pass, SequentialCall

\* A pass that ends with nothing left to follow it has changed nothing at the end.
LEMMA PassEndsQuiet ==
  ASSUME TypeInv, NEW i \in Instances, cur = i, pc # "idle",
         \/ AddFinalizer \/ RemoveFinalizer
         \/ UpdateStatusConditions("markFailed", "Failed", TRUE)
         \/ UpdateStatusConditions("markReady", "Ready", FALSE)
         \/ UpdateStatusConditions("markNotReady", "NotReady", FALSE),
         i \notin queue', "cache" \in latest'[i]
  PROVE  Reported(i)
<1> USE DEF TypeInv, TypeOK, ClusterTypeOK
<1>1. ~Touch(i)
  BY DEF Touch
<1>2. faults \in 0 .. MaxFaults /\ UpdateAccepted \in BOOLEAN /\ cr[i].exists \in BOOLEAN
  BY DEF UpdateAccepted, CRs
<1>3. ~AddFinalizer /\ ~RemoveFinalizer
  <2>1. ASSUME NEW r \in Write("finalizer", UpdateAccepted), Return(r.ok)
        PROVE  r.done
    BY <1>2, <2>1, WriteResult DEF Return
  <2> QED BY <1>1, <2>1 DEF AddFinalizer, RemoveFinalizer
<1>4. ASSUME NEW step, NEW status, NEW failed \in BOOLEAN,
             UpdateStatusConditions(step, status, failed)
      PROVE  /\ pc = step /\ ~failed /\ i \notin queue /\ cr[i].status = status
             /\ UNCHANGED <<obj, dep, crb>>
  <2>1. PICK r \in Write("status", cr[cur].exists), changed \in BOOLEAN :
          /\ IF r.done THEN ConditionChanges(status, changed) ELSE ~changed
          /\ changed => Touch(cur)
          /\ Return(r.ok /\ ~failed)
    BY <1>4 DEF UpdateStatusConditions
  <2>2. r.ok /\ ~failed /\ i \notin queue
    BY <2>1 DEF Return
  <2>3. r.done
    BY <1>2, <2>2, WriteResult
  <2>4. changed = FALSE
    BY <1>1, <2>1
  <2> QED BY <1>4, <2>1, <2>2, <2>3, <2>4 DEF ConditionChanges, UpdateStatusConditions
<1>5. ~UpdateStatusConditions("markFailed", "Failed", TRUE)
  BY <1>4
<1>6. CASE UpdateStatusConditions("markReady", "Ready", FALSE)
  BY <1>4, <1>6 DEF Reported
<1>7. CASE UpdateStatusConditions("markNotReady", "NotReady", FALSE)
  <2>1. /\ pc = "markNotReady" /\ i \notin queue /\ cr[i].status = "NotReady"
        /\ UNCHANGED <<obj, dep, crb>>
    BY <1>4, <1>7
  <2> QED BY <2>1 DEF Reported
<1> QED BY <1>3, <1>5, <1>6, <1>7

\* What is quiet was quiet before, or a pass over it has just ended; either way
\* the step has changed neither the resource nor what is known of the Deployment.
LEMMA QuietSteps ==
  ASSUME GuardInv, HeldLeaves, [Next]_vars, NEW i \in Instances, Quiet(i)',
         cr'[i].exists, ~cr'[i].deleting
  PROVE  /\ cr'[i] = cr[i] /\ seenDep'[i] = seenDep[i] /\ "cache" \in latest[i]
         /\ Quiet(i) \/ Reported(i)
<1>0. TypeInv /\ i \notin queue' /\ "cache" \in latest'[i] /\ ~(pc' # "idle" /\ cur' = i)
  BY DEF GuardInv, Quiet
<1>1. cr'[i] = cr[i]
  BY <1>0, Unwritten
<1>2. ~Restart
  BY <1>0, <1>1 DEF Restart, apiVars
<1>3. ~Reconcile(i)
  <2>1. ASSUME Reconcile(i) PROVE FALSE
    <3>1. Entry(view[i]) = "idle"
      BY <1>0, <2>1 DEF Reconcile
    <3>2. view[i] = cr[i]
      BY <1>0, <2>1, <3>1 DEF Reconcile, GuardInv, Coherent
    <3> QED BY <1>1, <3>1, <3>2 DEF Entry
  <2> QED BY <2>1
<1>4. i \notin queue /\ seenDep'[i] = seenDep[i] /\ "cache" \in latest[i]
  BY <1>0, <1>2, <1>3, NewsQueued
<1>5. ASSUME pc # "idle", cur = i PROVE Reported(i)
  BY <1>0, <1>2, <1>5, PassEnds, PassEndsQuiet
<1> QED BY <1>1, <1>4, <1>5 DEF Quiet

(***************************************************************************)
(* The status of an instance for which nothing is on its way.  A pass      *)
(* reports on the Deployment as its cached copy was when it was written;   *)
(* should the Deployment change later, the instance is queued again.       *)
(***************************************************************************)

\* A Deployment that is not there is not available.
DepPresent ==
  \A i \in Instances : /\ obj[<<i, "deployment">>] = None => ~dep[i].avail
                       /\ ~seenDep[i].found => ~seenDep[i].avail

\* What a pass is about to report is so, or the instance is queued again.
PassStatus ==
  /\ pc = "markReady"    => cur \in queue \/ seenDep[cur].avail
  /\ pc = "markNotReady" => cur \in queue \/ ~seenDep[cur].avail

QuietStatus ==
  \A i \in Instances : Live(i) /\ Quiet(i) => (cr[i].status = "Ready" <=> seenDep[i].avail)

StatusInv == DepPresent /\ PassStatus /\ QuietStatus

LEMMA InitStatus == Init => StatusInv
<1> SUFFICES ASSUME Init PROVE StatusInv
  OBVIOUS
<1>1. PICK w \in [Upgraded -> BOOLEAN], owner \in [Namespaces -> Upgraded \cup {None}] :
       /\ \A n \in Namespaces :
            IF owner[n] = None THEN \A i \in Upgraded : NamespaceOf[i] # n
                               ELSE NamespaceOf[owner[n]] = n
       /\ cr = [i \in Instances |->
                  IF i \in Upgraded
                  THEN [NoCR EXCEPT !.exists = TRUE, !.finalizer = TRUE,
                                    !.wide = w[i], !.status = "Ready"]
                  ELSE NoCR]
       /\ dep = [i \in Instances |->
                   IF i \in Upgraded THEN [wide |-> w[i], avail |-> TRUE] ELSE NoDep]
       /\ crb = [s \in Suffixes |-> [b \in Bindings |->
                   {i \in Upgraded : LegacyName[i] = b
                                     /\ (s = "manager" => w[i])}]]
       /\ obj = [k \in Objects |->
                   IF k[2] = "leaderRole" THEN owner[k[1]]
                   ELSE IF k[1] \notin Upgraded
                           \/ (k[2] = "managerRoleBinding" /\ w[k[1]])
                        THEN None ELSE k[1]]
  BY DEF Init, ClusterInit
<1>2. /\ pc = "idle" /\ queue = Upgraded /\ seenDep = [i \in Instances |-> DepSeen(i)]
  BY DEF Init, ClusterInit
<1>3. ASSUME NEW i \in Instances, obj[<<i, "deployment">>] = None PROVE ~dep[i].avail
  <2>1. <<i, "deployment">> \in Objects
    BY OwnKey DEF OwnKinds
  <2>2. i \notin Upgraded
    BY <1>1, <1>3, <2>1, OwnersAssumption
  <2> QED BY <1>1, <2>2 DEF NoDep
<1>4. DepPresent
  BY <1>2, <1>3 DEF DepPresent, DepSeen
<1>5. ASSUME NEW i \in Instances, Live(i) PROVE ~Quiet(i)
  <2>1. i \in queue
    BY <1>1, <1>2, <1>5 DEF Live, NoCR
  <2> QED BY <2>1 DEF Quiet
<1> QED BY <1>2, <1>4, <1>5 DEF StatusInv, PassStatus, QuietStatus

LEMMA NextPresent == TypeInv /\ DepPresent /\ [Next]_vars => DepPresent'
<1> SUFFICES ASSUME TypeInv, DepPresent, [Next]_vars, NEW i \in Instances
             PROVE  /\ obj'[<<i, "deployment">>] = None => ~dep'[i].avail
                    /\ ~seenDep'[i].found => ~seenDep'[i].avail
  BY DEF DepPresent
<1> DEFINE key == <<i, "deployment">>
           There == obj'[key] = None => ~dep'[i].avail
           Shown == ~seenDep'[i].found => ~seenDep'[i].avail
<1> USE DEF TypeInv, TypeOK, ClusterTypeOK
<1>0. /\ key \in Objects /\ DepSeen(i).found = (obj[key] # None)
      /\ DepSeen(i).avail = dep[i].avail /\ dep[i].avail \in BOOLEAN
  BY OwnKey DEF OwnKinds, DepSeen
<1>1. CASE UNCHANGED <<obj, dep, seenDep>>
  BY <1>1 DEF DepPresent
<1>2. CASE SequentialCall
  <2>1. /\ UNCHANGED <<dep, seenDep>> /\ pc # "deployment"
        /\ UNCHANGED obj \/ OwnObjectWritten
    BY <1>2, SequentialStep, SequentialWrites DEF Sequential
  <2>2. obj'[key] = obj[key]
    BY <1>0, <2>1, OwnKey DEF OwnObjectWritten, OwnKinds
  <2> QED BY <2>1, <2>2 DEF DepPresent
<1>3. CASE ReconcileDeployment
  <2>1. cur \in Instances /\ UNCHANGED seenDep
    BY <1>3 DEF ReconcileDeployment, cacheVars
  <2>2. obj'[key] = obj[key] \/ obj'[key] # None
    BY <1>0, <1>3, <2>1, OwnersAssumption DEF ReconcileDeployment
  <2>3. dep'[i].avail = dep[i].avail
    BY <1>3, <2>1 DEF ReconcileDeployment
  <2> QED BY <2>1, <2>2, <2>3 DEF DepPresent
<1>4. CASE RemoveFinalizer \/ \E j \in Instances, f \in BOOLEAN : DeleteCR(j, f)
  <2>1. UNCHANGED <<dep, seenDep>> /\ \/ UNCHANGED obj
                                      \/ \E j \in Instances : obj' = Orphaned(j)
    BY <1>4 DEF RemoveFinalizer, DeleteCR
  <2>2. obj'[key] = None => obj[key] = None
    BY <1>0, <2>1, OwnersAssumption DEF Orphaned
  <2> QED BY <2>1, <2>2 DEF DepPresent
<1>5. ASSUME NEW k \in Objects, Drift(k) PROVE There /\ Shown
  BY <1>0, <1>5 DEF Drift, NoDep, DepPresent, cacheVars
<1>6. ASSUME NEW ks, GarbageCollect(ks) PROVE There /\ Shown
  BY <1>0, <1>6 DEF GarbageCollect, NoDep, DepPresent, cacheVars
<1>7. ASSUME NEW j \in Instances, RollOut(j) \/ BecomeUnavailable(j) PROVE There /\ Shown
  <2>1. UNCHANGED <<obj, seenDep>>
    BY <1>7 DEF RollOut, BecomeUnavailable, cacheVars
  <2>2. CASE j = i
    BY <1>7, <2>1, <2>2 DEF RollOut, BecomeUnavailable, DepPresent
  <2>3. CASE j # i
    BY <1>7, <2>1, <2>3 DEF RollOut, BecomeUnavailable, DepPresent
  <2> QED BY <2>2, <2>3
<1>8. CASE Restart \/ \E j \in Instances : SyncDeployment(j)
  <2>1. UNCHANGED <<obj, dep>> /\ (seenDep'[i] = seenDep[i] \/ seenDep'[i] = DepSeen(i))
    BY <1>8 DEF Restart, SyncDeployment, apiVars
  <2> QED BY <1>0, <2>1 DEF DepPresent
<1>9. CASE \/ \E j \in Instances : \/ Reconcile(j) \/ ReconcileReadError(j)
                                   \/ ReleaseHold(j) \/ SyncCR(j) \/ Resync(j)
           \/ \E j \in Instances : \E w, c : CreateCR(j, w, c) \/ EditSpec(j, w, c)
           \/ \E n, c : CreateSecret(n, c) \/ DeleteSecret(n, c)
           \/ \E s : ReinstallClusterRole(s)
           \/ \E k \in Objects : SyncObject(k)
           \/ \E s, b : SyncClusterRoleBinding(s, b)
           \/ \E s, step, next : CleanupClusterScopedPermissions(s, step, next)
           \/ AddFinalizer
           \/ SetStatusFailed
           \/ \E step, status, failed : UpdateStatusConditions(step, status, failed)
           \/ UNCHANGED vars
  <2>1. UNCHANGED <<obj, dep, seenDep>>
    BY <1>9 DEF Reconcile, ReconcileReadError, ReleaseHold, SyncCR, Resync, CreateCR, EditSpec,
       CreateSecret, DeleteSecret, ReinstallClusterRole, SyncObject, SyncClusterRoleBinding,
       CleanupClusterScopedPermissions, AddFinalizer, SetStatusFailed, UpdateStatusConditions,
       vars, clusterVars, apiVars, cacheVars
  <2> QED BY <1>1, <2>1
<1> QED
  BY <1>2, <1>3, <1>4, <1>5, <1>6, <1>7, <1>8, <1>9
  DEF Next, Pass, ClusterNext, SequentialCall, Users, Controllers, Informers, CollectOne,
      CollectTheRest

\* A pass comes to its report from the Deployment.
LEMMA ReportReached ==
  ASSUME [Next]_vars, pc' \in {"markReady", "markNotReady"}
  PROVE  UNCHANGED passVars \/ pc = "deployment"
<1>1. pc' \in Provisioning /\ pc' # "preflight"
  BY DEF Provisioning
<1>2. ASSUME SequentialCall PROVE FALSE
  <2>1. pc \in Sequential /\ HandsOver
    BY <1>2, SequentialStep
  <2> QED BY <2>1, AfterEach DEF HandsOver, Sequential, Provisioning, Services
<1>3. CASE Pass /\ ~SequentialCall
  <2>1. ASSUME CleanupClusterScopedPermissions("manager", "cleanupManager", "cleanupK8sAuth")
               \/ CleanupClusterScopedPermissions("k8sAuth", "cleanupK8sAuth", "removeFinalizer")
        PROVE  FALSE
    BY <2>1 DEF CleanupClusterScopedPermissions, Goto
  <2>2. ASSUME NEW step, NEW status, NEW failed, UpdateStatusConditions(step, status, failed)
        PROVE  FALSE
    BY <2>2 DEF UpdateStatusConditions, Return
  <2>3. ASSUME SetStatusFailed PROVE FALSE
    BY <2>3, AfterEach DEF SetStatusFailed, Goto
  <2> QED
    BY <1>3, <2>1, <2>2, <2>3 DEF Pass, SequentialCall, AddFinalizer, RemoveFinalizer, Return,
       ReconcileDeployment
<1>4. ASSUME NEW i \in Instances, Reconcile(i) PROVE FALSE
  BY <1>4 DEF Reconcile, Entry
<1> QED BY <1>2, <1>3, <1>4 DEF Next, ReconcileReadError, Restart, vars

LEMMA NextStatus ==
  ASSUME GuardInv, HeldLeaves, StatusInv, [Next]_vars
  PROVE  StatusInv'
<1>0. TypeInv /\ TypeInv'
  BY NextType DEF GuardInv
<1>1. DepPresent'
  BY <1>0, NextPresent DEF StatusInv
<1>2. ASSUME pc' \in {"markReady", "markNotReady"}, cur' \notin queue'
      PROVE  IF pc' = "markReady" THEN seenDep'[cur'].avail ELSE ~seenDep'[cur'].avail
  <2>1. CASE pc = "deployment"
    <3>1. cur \in Instances /\ (~seenDep[cur].found => ~seenDep[cur].avail)
      BY <1>0, <2>1 DEF TypeInv, StatusInv, DepPresent
    <3> QED BY <1>0, <1>2, <2>1, <3>1, DeploymentStep
  <2>2. CASE UNCHANGED passVars
    <3>1. UNCHANGED <<pc, cur>> /\ cur \in Instances /\ pc # "idle"
      BY <1>0, <1>2, <2>2 DEF passVars, TypeInv
    <3>2. ~Restart /\ ~Reconcile(cur)
      BY <3>1 DEF Restart, Reconcile
    <3>3. cur \notin queue /\ seenDep'[cur] = seenDep[cur]
      BY <1>0, <1>2, <3>1, <3>2, NewsQueued
    <3> QED BY <1>2, <3>1, <3>3 DEF StatusInv, PassStatus
  <2> QED BY <1>2, <2>1, <2>2, ReportReached
<1>3. PassStatus'
  BY <1>2 DEF PassStatus
<1>4. ASSUME NEW i \in Instances, Live(i)', Quiet(i)'
      PROVE  cr'[i].status = "Ready" <=> seenDep'[i].avail
  <2>1. /\ cr'[i] = cr[i] /\ seenDep'[i] = seenDep[i] /\ Live(i)
        /\ Quiet(i) \/ Reported(i)
    BY <1>4, QuietSteps DEF Live
  <2>2. CASE Quiet(i)
    BY <2>1, <2>2 DEF StatusInv, QuietStatus
  <2>3. CASE Reported(i)
    BY <2>1, <2>3 DEF Reported, StatusInv, PassStatus
  <2> QED BY <2>1, <2>2, <2>3
<1>5. QuietStatus'
  BY <1>4 DEF QuietStatus
<1> QED BY <1>1, <1>3, <1>5 DEF StatusInv

LEMMA SettledIsQuiet ==
  ASSUME Settled, NEW i \in Instances
  PROVE  Quiet(i) /\ seenDep[i] = DepSeen(i)
BY DEF Settled, Quiet

\* Whatever calls failed, whatever was edited meanwhile and however often the
\* operator was restarted: when it has nothing left to do, an instance that stays
\* is reported Ready exactly when its Deployment is available.
THEOREM StatusSettles == Spec => []SettledStatus
<1> DEFINE Inv == GuardInv /\ HeldLeaves /\ StatusInv
<1>1. ASSUME Inv PROVE SettledStatus
  <2> SUFFICES ASSUME Settled, NEW i \in Instances, Live(i)
               PROVE  cr[i].status = "Ready" <=> dep[i].avail
    BY DEF SettledStatus
  <2>1. cr[i].status = "Ready" <=> seenDep[i].avail
    BY <1>1, SettledIsQuiet DEF StatusInv, QuietStatus
  <2>2. seenDep[i] = DepSeen(i)
    BY SettledIsQuiet
  <2>3. seenDep[i].avail = dep[i].avail
    BY <2>2 DEF DepSeen
  <2> QED BY <2>1, <2>3
<1>2. Init => Inv
  BY InitSafe, InitHeld, InitStatus
<1>3. Inv /\ [Next]_vars => Inv'
  BY NextSafe, NextHeld, NextStatus DEF GuardInv
<1> QED BY <1>1, <1>2, <1>3, PTL DEF Spec

(***************************************************************************)
(* What is there for an instance for which nothing is on its way.  Of the  *)
(* owned objects only Deployments are watched: others that users delete    *)
(* stay away until the next pass, and are excluded here.                   *)
(***************************************************************************)
UsersLeaveBacking == Drifting \subseteq {"deployment"}

\* The Deployment is there for the scope w, or its absence is news to come.
Deployed(i, w) ==
  \/ obj[<<i, "deployment">>] = i /\ dep[i].wide = w
  \/ obj[<<i, "deployment">>] = None /\ seenDep[i].found

\* What a pass reports on is what it has written, or the instance is queued.
PassDeploys ==
  pc \in {"markReady", "markNotReady"} /\ Live(cur) => Deployed(cur, mem.wide) \/ cur \in queue

\* The scope the pass works on is the one asked for, or a newer version is on
\* its way to the cache, or has come and queued the instance.
PassCurrent ==
  pc \in Provisioning => mem.wide = cr[cur].wide \/ "cache" \notin latest[cur] \/ cur \in queue

LEMMA DeployedKept ==
  ASSUME TypeInv, HeldLeaves, [Next]_vars, NEW i \in Instances, NEW w, Deployed(i, w),
         Live(i), cr'[i].exists, seenDep'[i] = seenDep[i], ~(cur = i /\ pc = "deployment")
  PROVE  \/ obj'[<<i, "deployment">>] = i /\ dep'[i].wide = w
         \/ obj'[<<i, "deployment">>] = None /\ seenDep[i].found
<1> DEFINE key == <<i, "deployment">>
           Kept == obj'[key] = obj[key] /\ dep'[i].wide = dep[i].wide
           Gone == obj'[key] = None /\ seenDep[i].found
<1> USE DEF TypeInv, TypeOK, ClusterTypeOK
<1>0. key \in Objects
  BY OwnKey DEF OwnKinds
<1>1. CASE SequentialCall
  <2>1. /\ UNCHANGED dep /\ pc # "deployment"
        /\ UNCHANGED obj \/ OwnObjectWritten
    BY <1>1, SequentialStep, SequentialWrites DEF Sequential
  <2>2. Kept
    BY <1>0, <2>1, OwnKey DEF OwnObjectWritten, OwnKinds
  <2> QED BY <2>2 DEF Deployed
<1>2. CASE ReconcileDeployment
  <2>1. pc = "deployment" /\ cur \in Instances /\ cur # i
    BY <1>2 DEF ReconcileDeployment
  <2>2. Kept
    BY <1>0, <1>2, <2>1 DEF ReconcileDeployment
  <2> QED BY <2>2 DEF Deployed
<1>3. CASE RemoveFinalizer \/ \E j \in Instances, f \in BOOLEAN : DeleteCR(j, f)
  <2>1. /\ UNCHANGED dep
        /\ \/ UNCHANGED obj
           \/ \E j \in Instances : obj' = Orphaned(j) /\ cr' = [cr EXCEPT ![j] = NoCR]
    BY <1>3 DEF RemoveFinalizer, DeleteCR
  <2>2. ASSUME NEW j \in Instances, obj' = Orphaned(j), cr' = [cr EXCEPT ![j] = NoCR]
        PROVE  Kept
    <3>1. j # i
      BY <2>2 DEF NoCR
    <3> QED BY <1>0, <2>1, <2>2, <3>1, OwnersAssumption DEF Orphaned, Deployed
  <2>3. Kept
    BY <2>1, <2>2
  <2> QED BY <2>3 DEF Deployed
<1>4. ASSUME NEW k \in Objects, Drift(k) PROVE Kept \/ Gone
  <2>1. CASE k = key
    BY <1>0, <1>4, <2>1 DEF Drift
  <2>2. CASE k # key
    <3>1. ~(k[2] = "deployment" /\ k[1] = i)
      BY <2>2 DEF Objects
    <3> QED BY <1>0, <1>4, <2>2, <3>1 DEF Drift
  <2> QED BY <2>1, <2>2
<1>5. ASSUME NEW ks, \A k \in ks : Collectable(k), GarbageCollect(ks)
      PROVE  Kept \/ obj[key] = None
  <2>1. obj[key] = i => ~Collectable(key)
    BY OwnersAssumption DEF Collectable, HeldLeaves, Live
  <2> QED BY <1>0, <1>5, <2>1 DEF GarbageCollect, Deployed
<1>6. ASSUME NEW ks, GarbageCollect(ks), obj[key] = None PROVE obj'[key] = None
  BY <1>0, <1>6 DEF GarbageCollect
<1>7. ASSUME NEW j \in Instances, RollOut(j) \/ BecomeUnavailable(j) PROVE Kept
  <2>1. UNCHANGED obj /\ \E v \in BOOLEAN : dep' = [dep EXCEPT ![j] = [dep[j] EXCEPT !.avail = v]]
    BY <1>7 DEF RollOut, BecomeUnavailable
  <2>2. dep[j] \in [wide : BOOLEAN, avail : BOOLEAN]
    OBVIOUS
  <2> QED BY <2>1, <2>2
<1>8. CASE \/ \E j \in Instances : \/ Reconcile(j) \/ ReconcileReadError(j)
                                   \/ ReleaseHold(j)
           \/ Informers \/ Restart
           \/ \E j \in Instances : \E v, c : CreateCR(j, v, c) \/ EditSpec(j, v, c)
           \/ \E n, c : CreateSecret(n, c) \/ DeleteSecret(n, c)
           \/ \E s : ReinstallClusterRole(s)
           \/ \E s, step, next : CleanupClusterScopedPermissions(s, step, next)
           \/ AddFinalizer
           \/ SetStatusFailed
           \/ \E step, status, failed : UpdateStatusConditions(step, status, failed)
           \/ UNCHANGED vars
  <2>1. UNCHANGED <<obj, dep>>
    BY <1>8 DEF Reconcile, ReconcileReadError, ReleaseHold, Informers, SyncCR, SyncDeployment,
       Resync, SyncObject, SyncClusterRoleBinding, Restart, CreateCR, EditSpec,
       CreateSecret, DeleteSecret, ReinstallClusterRole,
       CleanupClusterScopedPermissions, AddFinalizer, SetStatusFailed, UpdateStatusConditions,
       vars, clusterVars, apiVars
  <2> QED BY <2>1 DEF Deployed
<1>9. \/ SequentialCall \/ ReconcileDeployment \/ RemoveFinalizer
      \/ \E j \in Instances, f \in BOOLEAN : DeleteCR(j, f)
      \/ \E k \in Objects : Drift(k)
      \/ Collected
      \/ \E j \in Instances : RollOut(j) \/ BecomeUnavailable(j)
      \/ \E j \in Instances : \/ Reconcile(j) \/ ReconcileReadError(j) \/ ReleaseHold(j)
      \/ Informers \/ Restart
      \/ \E j \in Instances : \E v, c : CreateCR(j, v, c) \/ EditSpec(j, v, c)
      \/ \E n, c : CreateSecret(n, c) \/ DeleteSecret(n, c)
      \/ \E s : ReinstallClusterRole(s)
      \/ \E s, step, next : CleanupClusterScopedPermissions(s, step, next)
      \/ AddFinalizer \/ SetStatusFailed
      \/ \E step, status, failed : UpdateStatusConditions(step, status, failed)
      \/ UNCHANGED vars
  BY DEF Next, Pass, ClusterNext, SequentialCall, Users, Controllers, CollectOne,
     CollectTheRest, Collected
<1>10. CASE Collected
  <2>1. PICK ks : (\A k \in ks : Collectable(k)) /\ GarbageCollect(ks)
    BY <1>10 DEF Collected
  <2>2. CASE Kept
    BY <2>2 DEF Deployed
  <2>3. CASE obj[key] = None
    <3>1. obj'[key] = None
      BY <1>6, <2>1, <2>3
    <3> QED BY <2>3, <3>1, OwnersAssumption DEF Deployed
  <2> QED BY <1>5, <2>1, <2>2, <2>3
<1>11. Kept \/ Gone => \/ obj'[key] = i /\ dep'[i].wide = w
                       \/ obj'[key] = None /\ seenDep[i].found
  BY DEF Deployed
<1> QED BY <1>1, <1>2, <1>3, <1>4, <1>7, <1>8, <1>9, <1>10, <1>11

\* A pass that provisions has begun to, or goes on with the same copy.
LEMMA PassGoesOn ==
  ASSUME [Next]_vars, pc' \in Provisioning
  PROVE  \/ pc \in Provisioning /\ UNCHANGED <<cur, mem>>
         \/ \E i \in Instances : Reconcile(i) /\ pc' = "preflight"
<1>0. pc' \notin Cleaning /\ pc' # "idle"
  BY StepsDiffer
<1>1. CASE SequentialCall
  BY <1>1, SequentialStep DEF Sequential
<1>2. CASE ReconcileDeployment
  BY <1>2 DEF ReconcileDeployment, Goto, Provisioning
<1>3. /\ ~CleanupClusterScopedPermissions("manager", "cleanupManager", "cleanupK8sAuth")
      /\ ~CleanupClusterScopedPermissions("k8sAuth", "cleanupK8sAuth", "removeFinalizer")
  BY <1>0 DEF CleanupClusterScopedPermissions, Goto, Cleaning
<1>4. /\ ~AddFinalizer /\ ~RemoveFinalizer /\ ~Restart
      /\ \A step, status, failed : ~UpdateStatusConditions(step, status, failed)
  BY <1>0 DEF AddFinalizer, RemoveFinalizer, Restart, UpdateStatusConditions, Return
<1>5. ASSUME NEW i \in Instances, Reconcile(i) PROVE pc' = "preflight"
  BY <1>5, StepsDiffer DEF Reconcile, Entry, Cleaning
<1>6. CASE UNCHANGED passVars
  BY <1>6 DEF passVars
<1>7. CASE SetStatusFailed
  BY <1>7 DEF SetStatusFailed, Goto, Provisioning
<1> QED
  BY <1>1, <1>2, <1>3, <1>4, <1>5, <1>6, <1>7 DEF Next, Pass, SequentialCall, ReconcileReadError, vars

LEMMA NextCurrent ==
  ASSUME GuardInv, HeldLeaves, PassCurrent, [Next]_vars
  PROVE  PassCurrent'
<1> SUFFICES ASSUME pc' \in Provisioning, "cache" \in latest'[cur'], cur' \notin queue'
             PROVE  mem'.wide = cr'[cur'].wide
  BY DEF PassCurrent
<1>1. ASSUME NEW i \in Instances, Reconcile(i), pc' = "preflight"
      PROVE  mem'.wide = cr'[cur'].wide
  <2>1. cur' = i /\ mem' = view[i] /\ UNCHANGED cr
    BY <1>1 DEF Reconcile, apiVars
  <2>2. "cache" \in latest[i]
    BY <1>1, <2>1 DEF Reconcile, GuardInv, TypeInv, TypeOK, ClusterTypeOK
  <2> QED BY <2>1, <2>2 DEF GuardInv, Coherent
<1>2. CASE pc \in Provisioning /\ UNCHANGED <<cur, mem>>
  <2>1. TypeInv /\ cur \in Instances /\ pc # "idle"
    BY <1>2, StepsDiffer DEF GuardInv, TypeInv
  <2>2. ~Restart /\ ~Reconcile(cur)
    BY <2>1, StepsDiffer DEF Restart, Reconcile
  <2>3. cur \notin queue /\ "cache" \in latest[cur] /\ cr'[cur] = cr[cur]
    BY <1>2, <2>1, <2>2, NewsQueued, Unwritten
  <2> QED BY <1>2, <2>3 DEF PassCurrent
<1> QED BY <1>1, <1>2, PassGoesOn

LEMMA NextDeploys ==
  ASSUME GuardInv, HeldLeaves, PassDeploys, [Next]_vars
  PROVE  PassDeploys'
<1> SUFFICES ASSUME pc' \in {"markReady", "markNotReady"}, cr'[cur'].exists,
                    ~cr'[cur'].deleting, cur' \notin queue'
             PROVE  Deployed(cur, mem.wide)'
  BY DEF PassDeploys, Live
<1>0. TypeInv
  BY DEF GuardInv
<1>1. CASE pc = "deployment"
  <2>1. cur \in Instances /\ <<cur, "deployment">> \in Objects
    BY <1>0, <1>1, OwnKey DEF TypeInv, OwnKinds
  <2>2. UNCHANGED <<cur, mem>> /\ obj'[<<cur, "deployment">>] = cur /\ dep'[cur].wide = mem.wide
    BY <1>0, <1>1, <2>1, DeploymentStep DEF TypeInv, TypeOK, ClusterTypeOK
  <2> QED BY <2>2 DEF Deployed
<1>2. CASE UNCHANGED passVars
  <2>1. UNCHANGED <<pc, cur, mem>> /\ pc \in Provisioning \ {"deployment"} /\ pc # "idle"
    BY <1>2 DEF passVars, Provisioning
  <2>2. cur \in Instances /\ cr[cur].exists
    BY <1>0, <2>1 DEF TypeInv, GuardInv, PassGuards, Protected
  <2>3. ~Restart /\ ~Reconcile(cur)
    BY <2>1 DEF Restart, Reconcile
  <2>4. cur \notin queue /\ seenDep'[cur] = seenDep[cur]
    BY <1>0, <2>1, <2>2, <2>3, NewsQueued
  <2>5. Live(cur)
    BY <1>0, <2>1, <2>2, LiveBefore
  <2>6. Deployed(cur, mem.wide)
    BY <2>1, <2>4, <2>5 DEF PassDeploys
  <2>7. \/ obj'[<<cur, "deployment">>] = cur /\ dep'[cur].wide = mem.wide
        \/ obj'[<<cur, "deployment">>] = None /\ seenDep[cur].found
    BY <1>0, <2>1, <2>2, <2>4, <2>5, <2>6, DeployedKept
  <2> QED BY <2>1, <2>4, <2>7 DEF Deployed
<1> QED BY <1>1, <1>2, ReportReached

\* A quiet instance has what its spec asks for.
ProvidedUnseen(i) ==
  /\ \A k \in Backing : ~(k = "managerRoleBinding" /\ cr[i].wide) => obj[<<i, k>>] = i
  /\ Deployed(i, cr[i].wide)
  /\ i \in crb["k8sAuth"][BindingName[i]]
  /\ cr[i].wide => i \in crb["manager"][BindingName[i]]

QuietProvided == \A i \in Instances : Live(i) /\ Quiet(i) => ProvidedUnseen(i)

\* What a pass has done by the time it reports, if it was still wanted.
LEMMA ReportedPast ==
  ASSUME PassCurrent, NEW i \in Instances, Reported(i), "cache" \in latest[i]
  PROVE  /\ cur = i /\ pc \in Provisioning /\ mem.wide = cr[i].wide /\ i \notin queue
         /\ \A k \in Backing \cup {"managerClusterRoleBinding", "k8sAuthClusterRoleBinding"} :
              Past(k)
<1>1. cur = i /\ pc \in Provisioning /\ Place[pc] = 14 /\ mem.wide = cr[i].wide /\ i \notin queue
  BY Places DEF Reported, PassCurrent, Provisioning
<1>2. \A k \in Backing \cup {"managerClusterRoleBinding", "k8sAuthClusterRoleBinding"} : Past(k)
  BY <1>1, Places DEF Past, Backing, OwnKinds, Services
<1> QED BY <1>1, <1>2

LEMMA ReportedProvided ==
  ASSUME UsersLeaveBacking, OwnBound, PassOwns, PassDeploys, PassCurrent,
         NEW i \in Instances, Live(i), Reported(i), "cache" \in latest[i]
  PROVE  ProvidedUnseen(i)
<1>1. ASSUME NEW k \in Backing, ~(k = "managerRoleBinding" /\ cr[i].wide)
      PROVE  obj[<<i, k>>] = i
  <2>1. k \notin Drifting
    BY DEF UsersLeaveBacking, Backing
  <2> QED BY <1>1, <2>1, ReportedPast DEF PassOwns
<1>2. Deployed(i, cr[i].wide)
  BY ReportedPast DEF Reported, PassDeploys
<1>3. /\ i \in crb["k8sAuth"][BindingName[i]]
      /\ cr[i].wide => i \in crb["manager"][BindingName[i]]
  BY ReportedPast DEF OwnBound
<1> QED BY <1>1, <1>2, <1>3 DEF ProvidedUnseen

\* A step in the middle of which nothing of it is reconciled leaves it all.
LEMMA ProvidedKept ==
  ASSUME UsersLeaveBacking, BindingInv, HeldLeaves, [Next]_vars, NEW i \in Instances,
         ProvidedUnseen(i), Live(i), Quiet(i), cr'[i] = cr[i], seenDep'[i] = seenDep[i]
  PROVE  ProvidedUnseen(i)'
<1>0. TypeInv /\ cr'[i].exists /\ ~(pc # "idle" /\ cur = i)
  BY DEF BindingInv, Live, Quiet
<1>1. ASSUME NEW k \in Backing, obj[<<i, k>>] = i PROVE obj'[<<i, k>>] = i
  <2>1. k \in OwnKinds \ Drifting /\ k # "idle"
    BY DEF Backing, UsersLeaveBacking, OwnKinds, Services
  <2> QED BY <1>0, <1>1, <2>1, OwnerKept
<1>2. Deployed(i, cr[i].wide)'
  <2>1. Deployed(i, cr[i].wide)
    BY DEF ProvidedUnseen
  <2>2. \/ obj'[<<i, "deployment">>] = i /\ dep'[i].wide = cr[i].wide
        \/ obj'[<<i, "deployment">>] = None /\ seenDep[i].found
    BY <1>0, <2>1, DeployedKept
  <2> QED BY <2>2 DEF Deployed
<1>3. ASSUME NEW s \in Suffixes, i \in crb[s][BindingName[i]]
      PROVE  i \in crb'[s][BindingName[i]]
  <2>1. CASE i # cur
    BY <1>3, <2>1, NobodyEvicted
  <2>2. CASE i = cur
    <3>1. pc \notin OwnSteps \cup LegacySteps
      BY <1>0, <2>2 DEF OwnSteps, LegacySteps, Cleaning
    <3> QED BY <1>0, <1>3, <3>1, StepWrites DEF OwnWritten
  <2> QED BY <2>1, <2>2
<1> QED BY <1>1, <1>2, <1>3 DEF ProvidedUnseen, Suffixes

LEMMA NextProvided ==
  ASSUME UsersLeaveBacking, GuardInv, BindingInv, HeldLeaves, OwnBound, PassOwns,
         PassDeploys, PassCurrent, QuietProvided, [Next]_vars
  PROVE  QuietProvided'
<1> SUFFICES ASSUME NEW i \in Instances, Live(i)', Quiet(i)' PROVE ProvidedUnseen(i)'
  BY DEF QuietProvided
<1>1. /\ cr'[i] = cr[i] /\ seenDep'[i] = seenDep[i] /\ "cache" \in latest[i] /\ Live(i)
      /\ Quiet(i) \/ Reported(i)
  BY QuietSteps DEF Live
<1>2. CASE Quiet(i)
  BY <1>1, <1>2, ProvidedKept DEF QuietProvided
<1>3. CASE Reported(i)
  <2>1. ProvidedUnseen(i)
    BY <1>1, <1>3, ReportedProvided
  <2> QED BY <1>1, <1>3, <2>1 DEF Reported, ProvidedUnseen, Deployed
<1> QED BY <1>1, <1>2, <1>3

LEMMA InitQuiet == ASSUME Init, NEW i \in Instances PROVE ~(Live(i) /\ Quiet(i))
<1>1. PICK w \in [Upgraded -> BOOLEAN] :
        cr = [j \in Instances |->
                IF j \in Upgraded
                THEN [NoCR EXCEPT !.exists = TRUE, !.finalizer = TRUE,
                                  !.wide = w[j], !.status = "Ready"]
                ELSE NoCR]
  BY DEF Init, ClusterInit
<1>2. queue = Upgraded
  BY DEF Init, ClusterInit
<1> QED BY <1>1, <1>2 DEF Live, Quiet, NoCR

LEMMA InitProvided == Init => PassDeploys /\ PassCurrent /\ QuietProvided
BY InitQuiet, StepsDiffer DEF Init, PassDeploys, PassCurrent, QuietProvided

ProvidedInv == /\ GuardInv /\ BindingInv /\ HeldLeaves /\ OwnBound
               /\ PassOwns /\ PassDeploys /\ PassCurrent /\ QuietProvided

LEMMA InitProvidedInv == Init => ProvidedInv
BY InitSafe, InitBinding, InitHeld, InitBound, InitOwns, InitProvided DEF ProvidedInv

LEMMA NextProvidedInv ==
  ASSUME UsersLeaveBacking, ProvidedInv, [Next]_vars
  PROVE  ProvidedInv'
<1>1. GuardInv' /\ BindingInv' /\ HeldLeaves' /\ OwnBound'
  BY NextSafe, NextBinding, NextHeld, NextBound DEF ProvidedInv, GuardInv
<1>2. PassOwns' /\ PassDeploys' /\ PassCurrent'
  BY NextOwns, NextDeploys, NextCurrent DEF ProvidedInv
<1>3. QuietProvided'
  BY NextProvided DEF ProvidedInv
<1> QED BY <1>1, <1>2, <1>3 DEF ProvidedInv

LEMMA SettledProvided ==
  ASSUME ProvidedInv, Settled, NEW i \in Instances, Live(i)
  PROVE  Provided(i)
<1>1. ProvidedUnseen(i) /\ seenDep[i] = DepSeen(i)
  BY SettledIsQuiet DEF ProvidedInv, QuietProvided
<1>2. obj[<<i, "deployment">>] = i /\ dep[i].wide = cr[i].wide
  <2>1. seenDep[i].found = (obj[<<i, "deployment">>] # None)
    BY <1>1 DEF DepSeen
  <2> QED BY <1>1, <2>1 DEF ProvidedUnseen, Deployed
<1> QED BY <1>1, <1>2 DEF ProvidedUnseen, Provided, Backing, OwnKinds

\* When the operator has nothing left to do, nothing is missing of what the spec
\* of an instance that stays asks for.
SettledProvides == Settled => \A i \in Instances : Live(i) => Provided(i)

\* Whatever calls failed on the way, reads and deletions among them, however far
\* the caches were behind and whatever users and Kubernetes did meanwhile: when
\* the operator has nothing left to do, every instance that stays has all that its
\* spec asks for.  The one thing assumed is that users delete no owned object but
\* Deployments, as the operator watches no other.
THEOREM ProvisionSettles ==
  ASSUME Drifting \subseteq {"deployment"}
  PROVE  Spec => []SettledProvides
<1>0. UsersLeaveBacking
  BY DEF UsersLeaveBacking
<1>1. ProvidedInv => SettledProvides
  BY SettledProvided DEF SettledProvides
<1>2. ProvidedInv /\ [Next]_vars => ProvidedInv'
  BY <1>0, NextProvidedInv
<1> QED BY <1>1, <1>2, InitProvidedInv, PTL DEF Spec

(***************************************************************************)
(* What is not there any more.  A pass takes away the binding for the      *)
(* scope that its spec does not ask for if a cached read shows it one, and *)
(* drops the error when the deletion fails.  When the read of the          *)
(* cluster-wide binding fails it drops that error as well, but has written *)
(* it to the status: the instance is then queued again by its own writes,  *)
(* unless these fail too.                                                  *)
(***************************************************************************)

\* What a pass is to take away, and is there, the cache shows it.
RevocationsSeen ==
  /\ pc = "managerClusterRoleBinding" /\ ~mem.wide /\ crb["manager"][BindingName[cur]] # {}
       => CachedBinding("manager", BindingName[cur]) # {}
  /\ pc = "managerRoleBinding" /\ mem.wide /\ obj[<<cur, "managerRoleBinding">>] # None
       => Found(cur, "managerRoleBinding")

\* Caches that do not lag show it in every state.
LEMMA CurrentCachesShow ==
  ASSUME "clusterRoleBinding" \notin Laggy, "managerRoleBinding" \notin Laggy
  PROVE  RevocationsSeen
BY DEF RevocationsSeen, CachedBinding, Found, Key

FailuresShown == ~({"read", "status"} \subseteq FaultKinds)

\* What the pass is to take away is away, or another pass will follow: the status
\* says Failed, which the last call of this pass will change.
PassDrops ==
  /\ Past("managerRoleBinding") /\ mem.wide => obj[<<cur, "managerRoleBinding">>] # cur
  /\ Past("managerClusterRoleBinding") /\ ~mem.wide
       => \/ cur \notin crb["manager"][BindingName[cur]]
          \/ pc = "markUnrevoked" /\ "read" \in FaultKinds
          \/ cr[cur].status = "Failed"
          \/ "cache" \notin latest[cur]
          \/ cur \in queue

\* A deletion of what the cache shows leaves nothing.
LEMMA ResourceDeleted ==
  ASSUME NoDeleteFails, NEW found \in BOOLEAN, NEW present \in BOOLEAN, present => found,
         NEW contested \in BOOLEAN, faults \in 0 .. MaxFaults,
         NEW r \in ReconcileResource(found, present, TRUE, contested)
  PROVE  \/ "read" \in FaultKinds /\ r.crud = "read" /\ ~r.ok
         \/ (present => r.done) /\ (r.ok \/ r.crud = "delete")
<1>1. CASE r \in ReadError
  <2>1. Fails("read") /\ r = [crud |-> "read", ok |-> FALSE, done |-> FALSE, cost |-> 1]
    BY <1>1 DEF ReadError
  <2> QED BY <2>1 DEF Fails
<1>2. CASE found /\ r \in Write("delete", present)
  BY <1>2, WriteResult DEF NoDeleteFails
<1>3. CASE ~found /\ r = NothingToDo
  BY <1>3 DEF NothingToDo
<1>4. \/ r \in ReadError
      \/ found /\ r \in Write("delete", present)
      \/ ~found /\ r = NothingToDo
  <2>1. CASE found
    BY <2>1 DEF ReconcileResource
  <2>2. CASE ~found
    BY <2>2 DEF ReconcileResource
  <2> QED BY <2>1, <2>2
<1> QED BY <1>1, <1>2, <1>3, <1>4

LEMMA RoleBindingDropped ==
  ASSUME NoDeleteFails, RevocationsSeen, TypeInv, SequentialCall, pc = "managerRoleBinding",
         mem.wide, pc' # "markFailed"
  PROVE  obj'[<<cur, "managerRoleBinding">>] # cur
<1> DEFINE k == "managerRoleBinding"
           key == Key(cur, k)
           tagged == mem.wide
<1>1. cur \in Instances /\ key \in Objects /\ key = <<cur, k>> /\ cur # None
  <2>1. cur \in Instances /\ k \in OwnKinds
    BY DEF TypeInv, OwnKinds
  <2>2. <<cur, k>> \in Objects /\ Key(cur, k) = <<cur, k>>
    BY <2>1, OwnKey
  <2> QED BY <2>1, <2>2, OwnersAssumption
<1>2. Found(cur, k) \in BOOLEAN /\ (obj[key] # None => Found(cur, k))
  <2>1. Found(cur, k) \in BOOLEAN
    BY <1>1 DEF Found, TypeInv, TypeOK, ClusterTypeOK
  <2> QED BY <1>1, <2>1 DEF RevocationsSeen
<1>3. tagged = TRUE
  BY DEF TypeInv, TypeOK, CRs
<1>4. ReconcileOwned(k, tagged, BindingErrors)
  BY CallAt DEF ReconcileManagerRoleBinding, ClusterRoleMissing, Goto
<1>5. PICK r \in ReconcileResource(Found(cur, k), obj[key] # None, TRUE,
                                   obj[key] \notin {None, cur}) :
        /\ obj' = IF r.done THEN [obj EXCEPT ![key] = None] ELSE obj
        /\ Proceed(r, BindingErrors)
  BY <1>3, <1>4 DEF ReconcileOwned
<1>6. obj[key] # None => r.done
  <2>1. ~(r.crud = "read" /\ ~r.ok)
    BY <1>5 DEF Proceed, ProceedOr, Goto, BindingErrors
  <2> QED BY <1>2, <1>5, <2>1, ResourceDeleted DEF TypeInv, TypeOK, ClusterTypeOK
<1> QED BY <1>1, <1>5, <1>6 DEF TypeInv, TypeOK, ClusterTypeOK

LEMMA ClusterRoleBindingDropped ==
  ASSUME NoDeleteFails, RevocationsSeen, TypeInv, SequentialCall,
         pc = "managerClusterRoleBinding", ~mem.wide, pc' # "markFailed"
  PROVE  \/ cur \notin crb'["manager"][BindingName[cur]]
         \/ pc' = "markUnrevoked" /\ "read" \in FaultKinds
<1> DEFINE b == BindingName[cur]
           tagged == ~mem.wide
           failed == IF mem.wide THEN "markFailed" ELSE "markUnrevoked"
           seen == CachedBinding("manager", b) # {}
<1>1. cur \in Instances /\ b \in Bindings
  BY NamesAssumption DEF TypeInv
<1>2. tagged = TRUE /\ failed = "markUnrevoked"
  OBVIOUS
<1>3. ReconcileClusterRoleBinding("manager", tagged, failed)
  BY CallAt DEF ReconcileManagerClusterRoleBinding, ClusterRoleMissing, Goto
<1>4. seen \in BOOLEAN /\ (crb["manager"][b] # {} => seen)
  BY DEF RevocationsSeen
<1>5. PICK r \in ReconcileResource(seen, crb["manager"][b] # {}, TRUE, FALSE) :
        /\ crb' = IF r.done THEN [crb EXCEPT !["manager"][b] = {}] ELSE crb
        /\ ProceedOr(r, BindingErrors, "markUnrevoked")
  BY <1>2, <1>3 DEF ReconcileClusterRoleBinding
<1>6. \/ "read" \in FaultKinds /\ r.crud = "read" /\ ~r.ok
      \/ crb["manager"][b] # {} => r.done
  BY <1>4, <1>5, ResourceDeleted DEF TypeInv, TypeOK, ClusterTypeOK
<1>7. r.crud = "read" /\ ~r.ok => pc' = "markUnrevoked"
  BY <1>5 DEF ProceedOr, Goto, BindingErrors
<1> QED BY <1>1, <1>5, <1>6, <1>7 DEF TypeInv, TypeOK, ClusterTypeOK, Suffixes

\* Only the call for a cluster-wide instance grants it the manager role.
LEMMA NotGranted ==
  ASSUME TypeInv, [Next]_vars, NEW i \in Instances, i \notin crb["manager"][BindingName[i]],
         ~(cur = i /\ pc = "managerClusterRoleBinding" /\ mem.wide)
  PROVE  i \notin crb'["manager"][BindingName[i]]
<1> USE NamesAssumption DEF TypeInv, TypeOK, ClusterTypeOK, Suffixes
<1>1. CASE OwnWritten
  BY <1>1, BindingNameInjective DEF OwnWritten, Grantable
<1>2. CASE LegacyDeleted
  BY <1>2 DEF LegacyDeleted
<1> QED BY <1>1, <1>2, StepWrites

\* The report of a failed revocation says so, or cannot be relied on.
LEMMA UnrevokedMarked ==
  ASSUME FailuresShown, "read" \in FaultKinds, GuardInv, [Next]_vars, pc = "markUnrevoked",
         pc' # "markUnrevoked", pc' \in Provisioning
  PROVE  cr'[cur].status = "Failed"
<1>1. SetStatusFailed
  <2>1. "markUnrevoked" \notin Sequential \cup Cleaning /\ pc # "idle"
    BY DEF Sequential, Cleaning
  <2>2. ~SequentialCall
    BY <2>1, SequentialStep
  <2>3. Pass
    BY <2>1, StepsDiffer DEF Next, Reconcile, ReconcileReadError, Restart, vars, passVars
  <2> QED
    BY <2>1, <2>2, <2>3 DEF Pass, SequentialCall, CleanupClusterScopedPermissions,
       RemoveFinalizer, AddFinalizer, ReconcileDeployment, UpdateStatusConditions, Cleaning
<1>2. cur \in Instances /\ cr[cur].exists = TRUE /\ cr[cur] \in CRs /\ faults \in 0 .. MaxFaults
  <2>1. pc \in Provisioning /\ pc # "idle"
    BY DEF Provisioning
  <2>2. cur \in Instances /\ cr[cur].exists
    BY <2>1 DEF GuardInv, TypeInv, PassGuards, Protected
  <2> QED BY <2>2 DEF GuardInv, TypeInv, TypeOK, ClusterTypeOK, CRs
<1>3. PICK r \in Write("status", TRUE), changed \in BOOLEAN :
        /\ IF r.done THEN ConditionChanges("Failed", changed) ELSE ~changed
        /\ IF changed
           THEN cr' = [cr EXCEPT ![cur].status = "Failed"] /\ Touch(cur)
           ELSE UNCHANGED <<cr, latest>>
  BY <1>1, <1>2 DEF SetStatusFailed
<1>4. r.done
  BY <1>2, <1>3, WriteResult DEF FailuresShown
<1>5. CASE changed
  BY <1>2, <1>3, <1>5 DEF CRs, GuardInv, TypeInv, TypeOK, ClusterTypeOK
<1>6. CASE ~changed
  BY <1>3, <1>4, <1>6 DEF ConditionChanges
<1> QED BY <1>5, <1>6

LEMMA NextDrops ==
  ASSUME NoDeleteFails, FailuresShown, RevocationsSeen, GuardInv, HeldLeaves, PassDrops,
         [Next]_vars
  PROVE  PassDrops'
<1>0. /\ {"managerRoleBinding", "managerClusterRoleBinding"} \subseteq Sequential
      /\ TypeInv
  BY DEF Sequential, Provisioning, GuardInv
<1>1. ASSUME Past("managerRoleBinding")', mem'.wide
      PROVE  obj'[<<cur', "managerRoleBinding">>] # cur'
  <2>1. /\ pc \in Provisioning /\ UNCHANGED <<cur, mem>> /\ cur \in Instances
        /\ \/ Past("managerRoleBinding")
           \/ SequentialCall /\ pc = "managerRoleBinding" /\ pc' # "markFailed"
    BY <1>0, <1>1, PastGrows, StepsDiffer DEF TypeInv
  <2>2. CASE Past("managerRoleBinding")
    <3>1. pc # "managerRoleBinding"
      BY <2>2, Places DEF Past
    <3>2. obj[<<cur, "managerRoleBinding">>] # cur
      BY <1>1, <2>1, <2>2 DEF PassDrops
    <3> QED BY <1>0, <2>1, <3>1, <3>2, OwnerNew DEF OwnKinds
  <2>3. CASE SequentialCall /\ pc = "managerRoleBinding" /\ pc' # "markFailed"
    BY <1>0, <1>1, <2>1, <2>3, RoleBindingDropped
  <2> QED BY <2>1, <2>2, <2>3
<1>2. ASSUME Past("managerClusterRoleBinding")', ~mem'.wide,
             "cache" \in latest'[cur'], cur' \notin queue'
      PROVE  \/ cur' \notin crb'["manager"][BindingName[cur']]
             \/ pc' = "markUnrevoked" /\ "read" \in FaultKinds
             \/ cr'[cur'].status = "Failed"
  <2>1. /\ pc \in Provisioning /\ pc' \in Provisioning /\ UNCHANGED <<cur, mem>>
        /\ cur \in Instances /\ pc # "idle"
        /\ \/ Past("managerClusterRoleBinding")
           \/ SequentialCall /\ pc = "managerClusterRoleBinding" /\ pc' # "markFailed"
    BY <1>0, <1>2, PastGrows, NothingPast, StepsDiffer DEF TypeInv
  <2>2. cr'[cur] = cr[cur] /\ "cache" \in latest[cur] /\ cur \notin queue
    <3>1. ~Restart /\ ~Reconcile(cur)
      BY <2>1, StepsDiffer DEF Restart, Reconcile
    <3> QED BY <1>0, <1>2, <2>1, <3>1, NewsQueued, Unwritten
  <2>3. CASE SequentialCall /\ pc = "managerClusterRoleBinding" /\ pc' # "markFailed"
    BY <1>0, <1>2, <2>1, <2>3, ClusterRoleBindingDropped
  <2>4. CASE Past("managerClusterRoleBinding")
    <3>1. \/ cur \notin crb["manager"][BindingName[cur]]
          \/ pc = "markUnrevoked" /\ "read" \in FaultKinds
          \/ cr[cur].status = "Failed"
      BY <1>2, <2>1, <2>2, <2>4 DEF PassDrops
    <3>2. CASE cur \notin crb["manager"][BindingName[cur]]
      BY <1>0, <1>2, <2>1, <3>2, NotGranted
    <3>3. CASE pc = "markUnrevoked" /\ "read" \in FaultKinds
      BY <2>1, <3>3, UnrevokedMarked
    <3>4. CASE cr[cur].status = "Failed"
      BY <2>1, <2>2, <3>4
    <3> QED BY <3>1, <3>2, <3>3, <3>4
  <2> QED BY <2>1, <2>3, <2>4
<1> QED BY <1>1, <1>2 DEF PassDrops

QuietRevoked == \A i \in Instances : Live(i) /\ Quiet(i) => Revoked(i)

\* The last call of a pass finds the status as it is to be: not Failed.
LEMMA ReportedRevoked ==
  ASSUME PassDrops, PassCurrent, NEW i \in Instances, Reported(i), "cache" \in latest[i]
  PROVE  Revoked(i)
<1>1. /\ cur = i /\ mem.wide = cr[i].wide /\ i \notin queue
      /\ Past("managerRoleBinding") /\ Past("managerClusterRoleBinding")
  BY ReportedPast DEF Backing, OwnKinds
<1>2. pc # "markUnrevoked" /\ cr[i].status # "Failed"
  BY DEF Reported
<1> QED BY <1>1, <1>2 DEF PassDrops, Revoked

LEMMA NextRevoked ==
  ASSUME GuardInv, HeldLeaves, PassDrops, PassCurrent, QuietRevoked, [Next]_vars
  PROVE  QuietRevoked'
<1> SUFFICES ASSUME NEW i \in Instances, Live(i)', Quiet(i)' PROVE Revoked(i)'
  BY DEF QuietRevoked
<1>1. /\ cr'[i] = cr[i] /\ "cache" \in latest[i] /\ Live(i) /\ TypeInv
      /\ Quiet(i) \/ Reported(i)
  BY QuietSteps DEF Live, GuardInv
<1>2. CASE Quiet(i)
  <2>1. Revoked(i) /\ ~(pc # "idle" /\ cur = i)
    BY <1>1, <1>2 DEF QuietRevoked, Quiet
  <2>2. CASE cr[i].wide
    <3>1. pc # "managerRoleBinding" \/ cur # i
      BY <2>1
    <3> QED BY <1>1, <2>1, <2>2, <3>1, OwnerNew DEF Revoked, OwnKinds
  <2>3. CASE ~cr[i].wide
    BY <1>1, <2>1, <2>3, NotGranted DEF Revoked
  <2> QED BY <2>2, <2>3
<1>3. CASE Reported(i)
  BY <1>1, <1>3, ReportedRevoked DEF Reported, Revoked
<1> QED BY <1>1, <1>2, <1>3

LEMMA InitRevoked == Init => PassDrops /\ QuietRevoked
BY InitQuiet, StepsDiffer DEF Init, PassDrops, QuietRevoked, Past

\* When the operator has nothing left to do, every instance that stays is
\* provisioned as its spec says, no less and no more, in every behaviour in which
\* the caches show the bindings that passes are to take away: the code does not
\* look for one it is not shown.  Assumed besides are deletions that do not fail,
\* as it drops their errors, and that not both reads and status writes do: a
\* failing read is dropped too, but the status written for it queues the instance.
THEOREM SpecSettles ==
  ASSUME "delete" \notin FaultKinds,
         ~({"read", "status"} \subseteq FaultKinds),
         Drifting \subseteq {"deployment"}
  PROVE  Spec /\ []RevocationsSeen => []SettledMatchesSpec
<1> DEFINE Inv == ProvidedInv /\ PassDrops /\ QuietRevoked
<1>0. NoDeleteFails /\ FailuresShown /\ UsersLeaveBacking
  BY DEF NoDeleteFails, FailuresShown, UsersLeaveBacking
<1>1. ASSUME Inv PROVE SettledMatchesSpec
  <2> SUFFICES ASSUME Settled, NEW i \in Instances, Live(i) PROVE Provisioned(i)
    BY DEF SettledMatchesSpec
  <2>1. Provided(i)
    BY <1>1, SettledProvided
  <2>2. Revoked(i)
    BY <1>1, SettledIsQuiet DEF QuietRevoked
  <2> QED BY <2>1, <2>2 DEF Provisioned
<1>2. Init => Inv
  BY InitProvidedInv, InitRevoked
<1>3. Inv /\ RevocationsSeen /\ [Next]_vars => Inv'
  <2> SUFFICES ASSUME Inv, RevocationsSeen, [Next]_vars PROVE Inv'
    OBVIOUS
  <2>1. ProvidedInv'
    BY <1>0, NextProvidedInv
  <2>2. PassDrops' /\ QuietRevoked'
    BY <1>0, NextDrops, NextRevoked DEF ProvidedInv
  <2> QED BY <2>1, <2>2
<1> QED BY <1>1, <1>2, <1>3, PTL DEF Spec
=============================================================================
