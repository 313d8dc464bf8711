----------------------- MODULE AuthorinoReconcileProofs -----------------------
(***************************************************************************)
(* Theorems about AuthorinoReconcile, for any number of instances, any     *)
(* names that satisfy the assumptions of Cluster, and any bounds.          *)
(***************************************************************************)
EXTENDS AuthorinoReconcile, TLAPS

(***************************************************************************)
(* What every step of the cluster preserves, whatever the operator does.   *)
(***************************************************************************)
LEMMA KeyIsObject ==
  ASSUME NEW i \in Instances, NEW k \in Kinds
  PROVE  Key(i, k) \in Objects
BY NamesAssumption DEF Key, Objects, Kinds

LEMMA OrphanedType ==
  ASSUME NEW i, obj \in [Objects -> Instances \cup {None, Ghost}]
  PROVE  Orphaned(i) \in [Objects -> Instances \cup {None, Ghost}]
BY DEF Orphaned

LEMMA TouchType ==
  ASSUME NEW i, latest \in [Instances -> SUBSET {"cache", "pass"}], Touch(i)
  PROVE  latest' \in [Instances -> SUBSET {"cache", "pass"}]
BY DEF Touch

LEMMA DepSeenType ==
  ASSUME NEW i \in Instances, ClusterTypeOK
  PROVE  DepSeen(i) \in [found : BOOLEAN, wide : BOOLEAN, avail : BOOLEAN]
BY DEF DepSeen, ClusterTypeOK

LEMMA DisruptType ==
  ASSUME disruptions \in 0 .. MaxDisruptions, Disrupt
  PROVE  disruptions' \in 0 .. MaxDisruptions
BY BoundsAssumption DEF Disrupt

LEMMA NoCRType == NoCR \in CRs
BY DEF NoCR, CRs, StatusValues

LEMMA CertSpecType == ASSUME NEW c \in CertSpecs PROVE c \in SUBSET Secrets
BY DEF Secrets

LEMMA ClusterInitType == ClusterInit => ClusterTypeOK
<1> SUFFICES ASSUME ClusterInit PROVE ClusterTypeOK
  OBVIOUS
<1>0. PICK w \in [Upgraded -> BOOLEAN], owner \in [Namespaces -> Upgraded \cup {None}] :
       /\ \A n \in Namespaces :
            IF owner[n] = None THEN \A i \in Upgraded : NamespaceOf[i] # n
                               ELSE NamespaceOf[owner[n]] = n
       /\ cr = [i \in Instances |->
                  IF i \in Upgraded
                  THEN [NoCR EXCEPT !.exists = TRUE, !.finalizer = TRUE,
                                    !.wide = w[i], !.status = "Ready"]
                  ELSE NoCR]
       /\ dep = [i \in Instances |->
                   IF i \in Upgraded THEN [wide |-> w[i], avail |-> TRUE] ELSE NoDep]
       /\ crb = [s \in Suffixes |-> [b \in Bindings |->
                   {i \in Upgraded : LegacyName[i] = b
                                     /\ (s = "manager" => w[i])}]]
       /\ obj = [k \in Objects |->
                   IF k[2] = "leaderRole" THEN owner[k[1]]
                   ELSE IF k[1] \notin Upgraded
                           \/ (k[2] = "managerRoleBinding" /\ w[k[1]])
                        THEN None ELSE k[1]]
  BY DEF ClusterInit
<1>1. cr \in [Instances -> CRs]
  BY <1>0 DEF NoCR, CRs, StatusValues
<1>2. /\ obj \in [Objects -> Instances \cup {None, Ghost}]
      /\ dep \in [Instances -> [wide : BOOLEAN, avail : BOOLEAN]]
      /\ crb \in [Suffixes -> [Bindings -> SUBSET Instances]]
  <2>1. ASSUME NEW k \in Objects, k[2] = "leaderRole" PROVE k[1] \in Namespaces
    BY <2>1 DEF Objects, OwnKinds, Services
  <2>2. obj \in [Objects -> Instances \cup {None, Ghost}]
    BY <1>0, <2>1, BoundsAssumption
  <2>3. dep \in [Instances -> [wide : BOOLEAN, avail : BOOLEAN]]
    BY <1>0 DEF NoDep
  <2>4. crb \in [Suffixes -> [Bindings -> SUBSET Instances]]
    BY <1>0, BoundsAssumption
  <2> QED BY <2>2, <2>3, <2>4
<1>3. secrets \subseteq Namespaces \X Secrets
  <2>1. secrets = Namespaces \X ((UNION CertSpecs) \ LateSecrets)
    BY DEF ClusterInit
  <2>2. (UNION CertSpecs) \ LateSecrets \subseteq Secrets
    BY DEF Secrets
  <2> QED BY <2>1, <2>2
<1>4. seenDep \in [Instances -> [found : BOOLEAN, wide : BOOLEAN, avail : BOOLEAN]]
  BY <1>2 DEF ClusterInit, DepSeen
<1>5. /\ clusterRoles \subseteq Suffixes /\ view = cr /\ seenCrb = crb /\ queue = Upgraded
      /\ latest = [i \in Instances |-> {"cache"}]
      /\ seenObj = [k \in Objects |-> k[2] \in Laggy /\ obj[k] # None]
      /\ faults = 0 /\ disruptions = 0
  BY DEF ClusterInit
<1>6. seenObj \in [Objects -> BOOLEAN]
  BY <1>5
<1> HIDE DEF ClusterInit
<1> QED
  BY <1>1, <1>2, <1>3, <1>4, <1>5, <1>6, BoundsAssumption DEF ClusterTypeOK

LEMMA UsersType == ClusterTypeOK /\ Users => ClusterTypeOK'
<1> SUFFICES ASSUME ClusterTypeOK, Users PROVE ClusterTypeOK'
  OBVIOUS
<1> USE DEF ClusterTypeOK, apiVars, siteVars, cacheVars
<1>1. ASSUME NEW i \in Instances, NEW w \in BOOLEAN, NEW c \in CertSpecs, CreateCR(i, w, c)
      PROVE  ClusterTypeOK'
  <2>1. [NoCR EXCEPT !.exists = TRUE, !.wide = w, !.certs = c] \in CRs
    BY CertSpecType DEF NoCR, CRs, StatusValues
  <2> QED BY <1>1, <2>1, DisruptType, TouchType DEF CreateCR
<1>2. ASSUME NEW i \in Instances, NEW w \in BOOLEAN, NEW c \in CertSpecs, EditSpec(i, w, c)
      PROVE  ClusterTypeOK'
  <2>1. cr' \in [Instances -> CRs]
    <3>1. c \in SUBSET Secrets /\ cr[i] \in CRs
      BY CertSpecType
    <3>2. [cr[i] EXCEPT !.wide = w, !.certs = c] \in CRs
      BY <3>1 DEF CRs
    <3>3. cr' = [cr EXCEPT ![i] = [cr[i] EXCEPT !.wide = w, !.certs = c]]
      BY <1>2 DEF EditSpec
    <3> QED BY <3>2, <3>3
  <2> QED BY <1>2, <2>1, DisruptType, TouchType DEF EditSpec
<1>3. ASSUME NEW i \in Instances, NEW foreground \in BOOLEAN, DeleteCR(i, foreground)
      PROVE  ClusterTypeOK'
  <2>1. cr' \in [Instances -> CRs]
    <3>0. cr[i] \in CRs
      OBVIOUS
    <3>1. [cr[i] EXCEPT !.deleting = TRUE, !.held = foreground] \in CRs
      BY <3>0 DEF CRs
    <3>2. CASE cr' = [cr EXCEPT ![i] = NoCR]
      BY <3>2, NoCRType
    <3>3. CASE cr' = [cr EXCEPT ![i].deleting = TRUE, ![i].held = foreground]
      BY <3>1, <3>3
    <3> QED BY <1>3, <3>2, <3>3 DEF DeleteCR
  <2>2. obj' \in [Objects -> Instances \cup {None, Ghost}]
    BY <1>3, OrphanedType DEF DeleteCR
  <2> QED BY <1>3, <2>1, <2>2, DisruptType, TouchType DEF DeleteCR
<1>4. ASSUME NEW k \in Objects, Drift(k) PROVE ClusterTypeOK'
  <2>1. dep' \in [Instances -> [wide : BOOLEAN, avail : BOOLEAN]]
    BY <1>4 DEF Drift, NoDep
  <2> QED BY <1>4, <2>1, DisruptType DEF Drift
<1>5. ASSUME NEW n \in Namespaces, NEW c \in LateSecrets, CreateSecret(n, c) \/ DeleteSecret(n, c)
      PROVE  ClusterTypeOK'
  <2>1. <<n, c>> \in Namespaces \X Secrets
    BY DEF Secrets
  <2> QED BY <1>5, <2>1, DisruptType DEF CreateSecret, DeleteSecret
<1>6. ASSUME NEW s \in Reinstalled, ReinstallClusterRole(s) PROVE ClusterTypeOK'
  BY <1>6, DisruptType, BoundsAssumption DEF ReinstallClusterRole
<1> QED BY <1>1, <1>2, <1>3, <1>4, <1>5, <1>6 DEF Users

LEMMA ControllersType == ClusterTypeOK /\ Controllers => ClusterTypeOK'
<1> SUFFICES ASSUME ClusterTypeOK, Controllers PROVE ClusterTypeOK'
  OBVIOUS
<1> USE DEF ClusterTypeOK, apiVars, siteVars, cacheVars
<1>1. ASSUME NEW i \in Instances, RollOut(i) PROVE ClusterTypeOK'
  BY <1>1 DEF RollOut
<1>2. ASSUME NEW i \in Instances, BecomeUnavailable(i) PROVE ClusterTypeOK'
  BY <1>2, DisruptType DEF BecomeUnavailable
<1>3. ASSUME NEW i \in Instances, ReleaseHold(i) PROVE ClusterTypeOK'
  <2>1. cr' \in [Instances -> CRs]
    <3>0. cr[i] \in CRs
      OBVIOUS
    <3>1. [cr[i] EXCEPT !.held = FALSE] \in CRs
      BY <3>0 DEF CRs
    <3>2. cr' = [cr EXCEPT ![i] = IF cr[i].finalizer THEN [cr[i] EXCEPT !.held = FALSE] ELSE NoCR]
      BY <1>3 DEF ReleaseHold
    <3> QED BY <3>1, <3>2, NoCRType
  <2> QED BY <1>3, <2>1, TouchType DEF ReleaseHold
<1>4. ASSUME NEW ks, GarbageCollect(ks) PROVE ClusterTypeOK'
  BY <1>4 DEF GarbageCollect, NoDep
<1> QED
  BY <1>1, <1>2, <1>3, <1>4 DEF Controllers, CollectOne, CollectTheRest

LEMMA InformersType == ClusterTypeOK /\ Informers => ClusterTypeOK'
<1> SUFFICES ASSUME ClusterTypeOK, Informers PROVE ClusterTypeOK'
  OBVIOUS
<1> USE DEF ClusterTypeOK, apiVars, siteVars, cacheVars
<1>1. ASSUME NEW i \in Instances, SyncCR(i) PROVE ClusterTypeOK'
  BY <1>1 DEF SyncCR
<1>2. ASSUME NEW i \in Instances, SyncDeployment(i) PROVE ClusterTypeOK'
  BY <1>2, DepSeenType DEF SyncDeployment
<1>3. ASSUME NEW i \in Instances, Resync(i) PROVE ClusterTypeOK'
  BY <1>3, DisruptType DEF Resync
<1>4. ASSUME NEW k \in Objects, SyncObject(k) PROVE ClusterTypeOK'
  BY <1>4 DEF SyncObject
<1>5. ASSUME NEW s \in Suffixes, NEW b \in Bindings, SyncClusterRoleBinding(s, b)
      PROVE  ClusterTypeOK'
  BY <1>5 DEF SyncClusterRoleBinding
<1> QED BY <1>1, <1>2, <1>3, <1>4, <1>5 DEF Informers

\* Users, controllers and informers keep the cluster well formed.
LEMMA ClusterNextType == ClusterTypeOK /\ ClusterNext => ClusterTypeOK'
BY UsersType, ControllersType, InformersType DEF ClusterNext

(***************************************************************************)
(* What a call returns.                                                    *)
(***************************************************************************)
LEMMA WriteResult ==
  ASSUME NEW call, NEW accepted \in BOOLEAN, faults \in 0 .. MaxFaults,
         NEW r \in Write(call, accepted)
  PROVE  /\ r.crud = call
         /\ r.ok \in BOOLEAN
         /\ r.done \in BOOLEAN
         /\ r.done => accepted
         /\ r.ok => r.done
         /\ call \notin FaultKinds => r.done = accepted
         /\ faults + r.cost \in 0 .. MaxFaults
<1>1. CASE r = [crud |-> call, ok |-> accepted, done |-> accepted, cost |-> 0]
  BY <1>1
<1>2. ASSUME Fails(call), NEW d \in {FALSE, accepted},
             r = [crud |-> call, ok |-> FALSE, done |-> d, cost |-> 1]
      PROVE  /\ r.crud = call
             /\ r.ok \in BOOLEAN
             /\ r.done \in BOOLEAN
             /\ r.done => accepted
             /\ call \in FaultKinds
             /\ faults + r.cost \in 0 .. MaxFaults
  <2>1. call \in FaultKinds /\ faults + 1 \in 0 .. MaxFaults
    BY <1>2, BoundsAssumption DEF Fails
  <2>2. d \in BOOLEAN /\ (d => accepted)
    <3>1. CASE d = FALSE
      BY <3>1
    <3>2. CASE d = accepted
      <4>1. d \in BOOLEAN
        BY <3>2
      <4>2. d => accepted
        BY <3>2, Zenon
      <4> QED BY <4>1, <4>2
    <3>3. d = FALSE \/ d = accepted
      BY <1>2
    <3> QED BY <3>1, <3>2, <3>3
  <2>3. r.crud = call /\ r.ok = FALSE /\ r.done = d /\ r.cost = 1
    BY <1>2
  <2> QED BY <2>1, <2>2, <2>3
<1>3. \/ r = [crud |-> call, ok |-> accepted, done |-> accepted, cost |-> 0]
      \/ /\ Fails(call)
         /\ \E d \in {FALSE, accepted} :
              r = [crud |-> call, ok |-> FALSE, done |-> d, cost |-> 1]
  <2>1. CASE Fails(call)
    BY <2>1 DEF Write
  <2>2. CASE ~Fails(call)
    BY <2>2 DEF Write
  <2> QED BY <2>1, <2>2
<1> QED BY <1>1, <1>2, <1>3

LEMMA ReadErrorResult ==
  ASSUME faults \in 0 .. MaxFaults, NEW r \in ReadError
  PROVE  /\ r.crud = "read"
         /\ r.ok \in BOOLEAN
         /\ r.done = FALSE
         /\ faults + r.cost \in 0 .. MaxFaults
<1>1. Fails("read") /\ r = [crud |-> "read", ok |-> FALSE, done |-> FALSE, cost |-> 1]
  BY DEF ReadError
<1> QED BY <1>1, BoundsAssumption DEF Fails

LEMMA NothingToDoResult ==
  ASSUME faults \in 0 .. MaxFaults
  PROVE  /\ NothingToDo.crud = "read"
         /\ NothingToDo.ok = TRUE
         /\ NothingToDo.done = FALSE
         /\ faults + NothingToDo.cost \in 0 .. MaxFaults
BY BoundsAssumption DEF NothingToDo

LEMMA ResourceResult ==
  ASSUME NEW found \in BOOLEAN, NEW present \in BOOLEAN, NEW tagged \in BOOLEAN,
         NEW contested \in BOOLEAN, faults \in 0 .. MaxFaults,
         NEW r \in ReconcileResource(found, present, tagged, contested)
  PROVE  /\ r.ok \in BOOLEAN
         /\ r.done \in BOOLEAN
         /\ faults + r.cost \in 0 .. MaxFaults
<1>1. CASE r \in ReadError
  BY <1>1, ReadErrorResult
<1>2. CASE r = NothingToDo
  BY <1>2, NothingToDoResult
<1>3. ASSUME NEW call, NEW accepted \in BOOLEAN, r \in Write(call, accepted)
      PROVE  /\ r.ok \in BOOLEAN
             /\ r.done \in BOOLEAN
             /\ faults + r.cost \in 0 .. MaxFaults
  BY <1>3, WriteResult
<1>4. \/ r \in ReadError
      \/ r = NothingToDo
      \/ r \in Write("create", ~present)
      \/ r \in Write("delete", present)
      \/ r \in Write("update", TRUE)
      \/ r \in Write("update", FALSE)
  <2>1. CASE ~found /\ tagged
    BY <2>1 DEF ReconcileResource
  <2>2. CASE ~found /\ ~tagged
    BY <2>2 DEF ReconcileResource
  <2>3. CASE found /\ tagged
    BY <2>3 DEF ReconcileResource
  <2>4. CASE found /\ ~tagged
    BY <2>4 DEF ReconcileResource
  <2> QED BY <2>1, <2>2, <2>3, <2>4
<1> QED BY <1>1, <1>2, <1>3, <1>4

\* A call that is to leave the object there, and reports no error, did.
LEMMA ResourceWritten ==
  ASSUME NEW found \in BOOLEAN, NEW present \in BOOLEAN, NEW contested \in BOOLEAN,
         faults \in 0 .. MaxFaults, NEW r \in ReconcileResource(found, present, FALSE, contested)
  PROVE  /\ r.crud \in {"read", "create", "update"}
         /\ r.ok => r.done /\ r.crud = IF found THEN "update" ELSE "create"
<1>1. CASE r \in ReadError
  BY <1>1 DEF ReadError
<1>2. CASE ~found /\ r \in Write("create", ~present)
  BY <1>2, WriteResult
<1>3. CASE found /\ r \in Write("update", TRUE)
  BY <1>3, WriteResult
<1>4. CASE found /\ r \in Write("update", FALSE)
  BY <1>4, WriteResult
<1>5. \/ r \in ReadError
      \/ ~found /\ r \in Write("create", ~present)
      \/ found /\ r \in Write("update", TRUE)
      \/ found /\ r \in Write("update", FALSE)
  <2>1. CASE found
    BY <2>1 DEF ReconcileResource
  <2>2. CASE ~found
    BY <2>2 DEF ReconcileResource
  <2> QED BY <2>1, <2>2
<1> QED BY <1>1, <1>2, <1>3, <1>4, <1>5

LEMMA StepsDiffer ==
  /\ Provisioning \cap Cleaning = {}
  /\ "idle" \notin Provisioning \cup Cleaning
  /\ "addFinalizer" \notin Provisioning \cup Cleaning
BY DEF Provisioning, Cleaning, Services

\* The steps that hand over to the next one.
Sequential ==
  Provisioning \ {"markUnrevoked", "deployment", "markFailed", "markReady", "markNotReady"}

LEMMA AfterType ==
  ASSUME NEW step \in Sequential
  PROVE  After(step) \in Provisioning
BY DEF Sequential, Provisioning, Services, After

\* The order of the calls.  A pass that has failed counts as back at its start.
Place == [preflight |-> 0, authService |-> 1, oidcService |-> 2, metricsService |-> 3,
          serviceAccount |-> 4, managerClusterRoleBinding |-> 5, markUnrevoked |-> 6,
          managerRoleBinding |-> 7, k8sAuthClusterRoleBinding |-> 8, leaderRole |-> 9,
          leaderRoleBinding |-> 10, legacyManager |-> 11, legacyK8sAuth |-> 12,
          deployment |-> 13, markReady |-> 14, markNotReady |-> 14, markFailed |-> 0]

\* The pass has made the call and gone on.
Past(step) == pc \in Provisioning /\ Place[step] < Place[pc]

LEMMA AfterEach ==
  /\ After("preflight") = "authService"
  /\ After("authService") = "oidcService"
  /\ After("oidcService") = "metricsService"
  /\ After("metricsService") = "serviceAccount"
  /\ After("serviceAccount") = "managerClusterRoleBinding"
  /\ After("managerClusterRoleBinding") = "managerRoleBinding"
  /\ After("managerRoleBinding") = "k8sAuthClusterRoleBinding"
  /\ After("k8sAuthClusterRoleBinding") = "leaderRole"
  /\ After("leaderRole") = "leaderRoleBinding"
  /\ After("leaderRoleBinding") = "legacyManager"
  /\ After("legacyManager") = "legacyK8sAuth"
  /\ After("legacyK8sAuth") = "deployment"
BY DEF After

LEMMA Places ==
  /\ Place["preflight"] = 0
  /\ Place["authService"] = 1
  /\ Place["oidcService"] = 2
  /\ Place["metricsService"] = 3
  /\ Place["serviceAccount"] = 4
  /\ Place["managerClusterRoleBinding"] = 5
  /\ Place["markUnrevoked"] = 6
  /\ Place["managerRoleBinding"] = 7
  /\ Place["k8sAuthClusterRoleBinding"] = 8
  /\ Place["leaderRole"] = 9
  /\ Place["leaderRoleBinding"] = 10
  /\ Place["legacyManager"] = 11
  /\ Place["legacyK8sAuth"] = 12
  /\ Place["deployment"] = 13
  /\ Place["markReady"] = 14
  /\ Place["markNotReady"] = 14
  /\ Place["markFailed"] = 0
BY DEF Place

\* Where a call of a pass leads: on, to the report of its failure, or, from the
\* revocation of the cluster-wide binding, to a report the pass goes on from.
HandsOver ==
  \/ pc' \in {After(pc), "markFailed"}
  \/ pc = "managerClusterRoleBinding" /\ ~mem.wide /\ pc' = "markUnrevoked"

\* A pass that goes on has made the call it was at, and those before it.
LEMMA PastNext ==
  ASSUME NEW step \in Sequential, pc \in Sequential, HandsOver, Past(step)'
  PROVE  (Past(step) \/ step = pc) /\ pc' # "markFailed"
<1>1. Place[step] < Place[pc']
  BY DEF Past
<1>2. pc' # "markFailed"
  BY <1>1, Places DEF Sequential, Provisioning, Services
<1>3. Place[step] \in Nat /\ Place[pc] \in Nat /\ Place[pc'] \in Nat
  <2>1. pc' \in Provisioning
    BY AfterType DEF HandsOver, Provisioning
  <2> QED BY <2>1, Places DEF Sequential, Provisioning, Services
<1>4. Place[step] <= Place[pc]
  <2>1. CASE pc' = After(pc) /\ pc # "managerClusterRoleBinding"
    <3>1. Place[pc'] = Place[pc] + 1
      BY <2>1, Places, AfterEach DEF Sequential, Provisioning, Services
    <3> QED BY <1>1, <1>3, <3>1
  <2>2. CASE pc = "managerClusterRoleBinding"
    <3>1. Place[step] # 6
      BY Places DEF Sequential, Provisioning, Services
    <3>2. Place[pc'] <= 7
      BY <1>2, <2>2, Places, AfterEach DEF HandsOver
    <3> QED BY <1>1, <1>3, <2>2, <3>1, <3>2, Places
  <2> QED BY <1>2, <2>1, <2>2 DEF HandsOver
<1>5. Place[step] = Place[pc] => step = pc
  BY Places DEF Sequential, Provisioning, Services
<1> QED BY <1>2, <1>3, <1>4, <1>5 DEF Past, Sequential

\* Nothing is past when no pass provisions, or one begins to.
LEMMA NothingPast ==
  ASSUME NEW step \in Sequential, Past(step)'
  PROVE  pc' \in Provisioning \ {"preflight", "markFailed"}
BY Places DEF Past, Sequential, Provisioning, Services

(***************************************************************************)
(* Type correctness.  A pass under way has an instance.                    *)
(***************************************************************************)
TypeInv == TypeOK /\ (pc # "idle" => cur \in Instances)

LEMMA ReturnType ==
  ASSUME TypeInv, pc # "idle", NEW ok \in BOOLEAN, Return(ok)
  PROVE  /\ pc' = "idle" /\ cur' = None /\ mem' \in CRs
         /\ queue' \subseteq Instances
BY NoCRType DEF Return, TypeInv, TypeOK, ClusterTypeOK

LEMMA ProceedOrType ==
  ASSUME TypeInv, pc \in Sequential, NEW r, NEW reported, NEW failed \in Provisioning,
         ProceedOr(r, reported, failed)
  PROVE  pc' \in Provisioning /\ UNCHANGED <<cur, mem>>
BY AfterType DEF ProceedOr, Goto

LEMMA ProceedType ==
  ASSUME TypeInv, pc \in Sequential, NEW r, NEW reported, Proceed(r, reported)
  PROVE  pc' \in Provisioning /\ UNCHANGED <<cur, mem>>
BY ProceedOrType DEF Proceed, Provisioning

LEMMA ReconcileOwnedType ==
  ASSUME TypeInv, pc \in Sequential, NEW k \in Kinds, NEW tagged \in BOOLEAN,
         NEW reported, ReconcileOwned(k, tagged, reported)
  PROVE  TypeInv' /\ pc' \in Provisioning
<1> DEFINE key == Key(cur, k)
<1>1. pc # "idle" /\ cur \in Instances /\ key \in Objects
  BY KeyIsObject DEF TypeInv, Sequential, Provisioning, Services
<1>2. Found(cur, k) \in BOOLEAN
  BY <1>1 DEF Found, TypeInv, TypeOK, ClusterTypeOK
<1>3. PICK r \in ReconcileResource(Found(cur, k), obj[key] # None, tagged,
                                   obj[key] \notin {None, cur}) :
        /\ obj' = IF r.done THEN [obj EXCEPT ![key] = IF tagged THEN None ELSE cur]
                            ELSE obj
        /\ Spend(r)
        /\ Proceed(r, reported)
        /\ UNCHANGED <<cr, dep, crb, siteVars, cacheVars, queue, disruptions>>
  BY DEF ReconcileOwned
<1>4. faults + r.cost \in 0 .. MaxFaults
  BY <1>2, ResourceResult DEF TypeInv, TypeOK, ClusterTypeOK
<1>5. obj' \in [Objects -> Instances \cup {None, Ghost}]
  BY <1>1, <1>3 DEF TypeInv, TypeOK, ClusterTypeOK
<1>6. pc' \in Provisioning /\ UNCHANGED <<cur, mem>>
  BY <1>3, ProceedType
<1> QED
  BY <1>1, <1>3, <1>4, <1>5, <1>6
  DEF TypeInv, TypeOK, ClusterTypeOK, Spend, Steps, siteVars, cacheVars

LEMMA ReconcileClusterRoleBindingType ==
  ASSUME TypeInv, pc \in Sequential, NEW s \in Suffixes, NEW tagged \in BOOLEAN,
         NEW failed \in Provisioning, ReconcileClusterRoleBinding(s, tagged, failed)
  PROVE  TypeInv' /\ pc' \in Provisioning
<1> DEFINE b == BindingName[cur]
<1>1. pc # "idle" /\ cur \in Instances /\ b \in Bindings
  BY NamesAssumption DEF TypeInv, Sequential, Provisioning, Services
<1>2. PICK r \in ReconcileResource(CachedBinding(s, b) # {}, crb[s][b] # {},
                                   tagged, FALSE) :
           /\ crb' = IF r.done THEN [crb EXCEPT ![s][b] = IF tagged THEN {} ELSE {cur}]
                               ELSE crb
           /\ Spend(r)
           /\ ProceedOr(r, BindingErrors, failed)
  BY DEF ReconcileClusterRoleBinding
<1>3. faults + r.cost \in 0 .. MaxFaults
  BY ResourceResult DEF TypeInv, TypeOK, ClusterTypeOK
<1>4. crb' \in [Suffixes -> [Bindings -> SUBSET Instances]]
  BY <1>1, <1>2 DEF TypeInv, TypeOK, ClusterTypeOK
<1>5. pc' \in Provisioning /\ UNCHANGED <<cur, mem>>
  BY <1>1, <1>2, ProceedOrType
<1>6. UNCHANGED <<cr, obj, dep, siteVars, cacheVars, queue, disruptions>>
  BY DEF ReconcileClusterRoleBinding
<1> QED
  BY <1>1, <1>2, <1>3, <1>4, <1>5, <1>6
  DEF TypeInv, TypeOK, ClusterTypeOK, Spend, Steps, siteVars, cacheVars

LEMMA ClusterRoleMissingType ==
  ASSUME TypeInv, pc \in Sequential, NEW s, ClusterRoleMissing(s)
  PROVE  TypeInv' /\ pc' \in Provisioning
<1>1. faults' \in 0 .. MaxFaults
  BY BoundsAssumption DEF ClusterRoleMissing, Fails, TypeInv, TypeOK, ClusterTypeOK
<1> QED
  BY <1>1 DEF ClusterRoleMissing, Goto, TypeInv, TypeOK, ClusterTypeOK, Steps, Sequential,
      Provisioning, Services, apiVars, siteVars, cacheVars

LEMMA CleanupType ==
  ASSUME TypeInv, NEW s \in Suffixes, NEW step \in Cleaning, NEW next \in Cleaning,
         CleanupClusterScopedPermissions(s, step, next)
  PROVE  TypeInv'
<1> DEFINE b == BindingName[cur]
<1>1. pc = step /\ pc # "idle" /\ cur \in Instances /\ b \in Bindings
  BY NamesAssumption DEF CleanupClusterScopedPermissions, TypeInv, Cleaning
<1>2. PICK r \in Write("delete", crb[s][b] # {}) :
        /\ crb' = IF r.done THEN [crb EXCEPT ![s][b] = {}] ELSE crb
        /\ Spend(r)
  BY DEF CleanupClusterScopedPermissions
<1>3. faults + r.cost \in 0 .. MaxFaults
  BY WriteResult DEF TypeInv, TypeOK, ClusterTypeOK
<1>4. crb' \in [Suffixes -> [Bindings -> SUBSET Instances]]
  BY <1>1, <1>2 DEF TypeInv, TypeOK, ClusterTypeOK
<1>5. /\ pc' = next /\ UNCHANGED <<cur, mem>>
      /\ UNCHANGED <<cr, obj, dep, siteVars, cacheVars, queue, disruptions>>
  BY DEF CleanupClusterScopedPermissions, Goto
<1> QED
  BY <1>1, <1>2, <1>3, <1>4, <1>5
  DEF TypeInv, TypeOK, ClusterTypeOK, Spend, Steps, siteVars, cacheVars

LEMMA UpdatedType ==
  ASSUME TypeInv, cur \in Instances, NEW finalizer \in BOOLEAN
  PROVE  Updated(finalizer) \in CRs
<1>1. cr[cur] \in CRs /\ mem \in CRs
  BY DEF TypeInv, TypeOK, ClusterTypeOK
<1> QED BY <1>1 DEF Updated, CRs

LEMMA LatestType ==
  ASSUME TypeInv, LetGo \/ Touch(cur)
  PROVE  latest' \in [Instances -> SUBSET {"cache", "pass"}]
BY TouchType DEF LetGo, TypeInv, TypeOK, ClusterTypeOK

LEMMA RemoveFinalizerType == TypeInv /\ RemoveFinalizer => TypeInv'
<1> SUFFICES ASSUME TypeInv, RemoveFinalizer PROVE TypeInv'
  OBVIOUS
<1>1. pc # "idle" /\ cur \in Instances /\ UpdateAccepted \in BOOLEAN
  BY DEF RemoveFinalizer, UpdateAccepted, TypeInv
<1>2. PICK r \in Write("finalizer", UpdateAccepted) :
        /\ IF r.done
           THEN /\ cr' = [cr EXCEPT ![cur] = IF cr[cur].held THEN Updated(FALSE) ELSE NoCR]
                /\ obj' = IF cr[cur].held THEN obj ELSE Orphaned(cur)
                /\ Touch(cur)
           ELSE /\ LetGo
                /\ UNCHANGED <<cr, obj>>
        /\ Spend(r)
        /\ Return(r.ok)
  BY DEF RemoveFinalizer
<1>3. r.ok \in BOOLEAN /\ faults + r.cost \in 0 .. MaxFaults
  BY <1>1, WriteResult DEF TypeInv, TypeOK, ClusterTypeOK
<1>4. cr' \in [Instances -> CRs]
  <2>1. Updated(FALSE) \in CRs /\ NoCR \in CRs
    BY <1>1, UpdatedType, NoCRType
  <2>2. cr \in [Instances -> CRs]
    BY DEF TypeInv, TypeOK, ClusterTypeOK
  <2> QED BY <1>2, <2>1, <2>2
<1>5. obj' \in [Objects -> Instances \cup {None, Ghost}]
  <2>1. obj \in [Objects -> Instances \cup {None, Ghost}]
    BY DEF TypeInv, TypeOK, ClusterTypeOK
  <2>2. Orphaned(cur) \in [Objects -> Instances \cup {None, Ghost}]
    BY <2>1, OrphanedType
  <2>3. obj' = obj \/ obj' = Orphaned(cur)
    BY <1>2
  <2> QED BY <2>1, <2>2, <2>3
<1>6. latest' \in [Instances -> SUBSET {"cache", "pass"}]
  BY <1>2, LatestType
<1>7. pc' = "idle" /\ cur' = None /\ mem' \in CRs /\ queue' \subseteq Instances
  BY <1>1, <1>2, <1>3, ReturnType
<1>8. UNCHANGED <<dep, crb, siteVars, view, seenObj, seenDep, seenCrb, disruptions>>
  BY DEF RemoveFinalizer
<1> QED
  BY <1>2, <1>3, <1>4, <1>5, <1>6, <1>7, <1>8
  DEF TypeInv, TypeOK, ClusterTypeOK, Spend, Steps, siteVars

LEMMA AddFinalizerType == TypeInv /\ AddFinalizer => TypeInv'
<1> SUFFICES ASSUME TypeInv, AddFinalizer PROVE TypeInv'
  OBVIOUS
<1>1. pc # "idle" /\ cur \in Instances /\ UpdateAccepted \in BOOLEAN
  BY DEF AddFinalizer, UpdateAccepted, TypeInv
<1>2. PICK r \in Write("finalizer", UpdateAccepted) :
        /\ IF r.done
           THEN /\ cr' = [cr EXCEPT ![cur] = Updated(TRUE)]
                /\ Touch(cur)
           ELSE /\ LetGo
                /\ UNCHANGED cr
        /\ Spend(r)
        /\ Return(r.ok)
  BY DEF AddFinalizer
<1>3. r.ok \in BOOLEAN /\ faults + r.cost \in 0 .. MaxFaults
  BY <1>1, WriteResult DEF TypeInv, TypeOK, ClusterTypeOK
<1>4. cr' \in [Instances -> CRs]
  BY <1>1, <1>2, UpdatedType DEF TypeInv, TypeOK, ClusterTypeOK
<1>5. latest' \in [Instances -> SUBSET {"cache", "pass"}]
  BY <1>2, LatestType
<1>6. pc' = "idle" /\ cur' = None /\ mem' \in CRs /\ queue' \subseteq Instances
  BY <1>1, <1>2, <1>3, ReturnType
<1>7. UNCHANGED <<obj, dep, crb, siteVars, view, seenObj, seenDep, seenCrb, disruptions>>
  BY DEF AddFinalizer
<1> QED
  BY <1>2, <1>3, <1>4, <1>5, <1>6, <1>7
  DEF TypeInv, TypeOK, ClusterTypeOK, Spend, Steps, siteVars

LEMMA UpdateStatusConditionsType ==
  ASSUME TypeInv, NEW step \in Provisioning, NEW status \in StatusValues,
         NEW failed \in BOOLEAN, UpdateStatusConditions(step, status, failed)
  PROVE  TypeInv'
<1>1. pc # "idle" /\ cur \in Instances /\ cr[cur].exists \in BOOLEAN
  BY DEF UpdateStatusConditions, TypeInv, TypeOK, ClusterTypeOK, CRs, Provisioning, Services
<1>2. PICK r \in Write("status", cr[cur].exists), changed \in BOOLEAN :
        /\ IF changed
           THEN cr' = [cr EXCEPT ![cur].status = status] /\ Touch(cur)
           ELSE LetGo /\ UNCHANGED cr
        /\ Spend(r)
        /\ Return(r.ok /\ ~failed)
  BY DEF UpdateStatusConditions
<1>3. r.ok \in BOOLEAN /\ faults + r.cost \in 0 .. MaxFaults
  BY <1>1, WriteResult DEF TypeInv, TypeOK, ClusterTypeOK
<1>4. cr' \in [Instances -> CRs]
  <2>1. cr[cur] \in CRs
    BY <1>1 DEF TypeInv, TypeOK, ClusterTypeOK
  <2>2. [cr[cur] EXCEPT !.status = status] \in CRs
    BY <2>1 DEF CRs
  <2>3. cr' = cr \/ cr' = [cr EXCEPT ![cur] = [cr[cur] EXCEPT !.status = status]]
    BY <1>2
  <2> QED BY <2>2, <2>3 DEF TypeInv, TypeOK, ClusterTypeOK
<1>5. latest' \in [Instances -> SUBSET {"cache", "pass"}]
  BY <1>2, LatestType
<1>6. pc' = "idle" /\ cur' = None /\ mem' \in CRs /\ queue' \subseteq Instances
  BY <1>1, <1>2, <1>3, ReturnType
<1>7. UNCHANGED <<obj, dep, crb, siteVars, view, seenObj, seenDep, seenCrb, disruptions>>
  BY DEF UpdateStatusConditions
<1> QED
  BY <1>2, <1>3, <1>4, <1>5, <1>6, <1>7
  DEF TypeInv, TypeOK, ClusterTypeOK, Spend, Steps, siteVars

LEMMA SetStatusFailedType ==
  ASSUME TypeInv, SetStatusFailed
  PROVE  TypeInv' /\ pc' \in Provisioning
<1>1. pc # "idle" /\ cur \in Instances /\ cr[cur].exists \in BOOLEAN
  BY DEF SetStatusFailed, TypeInv, TypeOK, ClusterTypeOK, CRs
<1>2. PICK r \in Write("status", cr[cur].exists), changed \in BOOLEAN :
        /\ IF changed
           THEN cr' = [cr EXCEPT ![cur].status = "Failed"] /\ Touch(cur)
           ELSE UNCHANGED <<cr, latest>>
        /\ Spend(r)
  BY DEF SetStatusFailed
<1>3. faults + r.cost \in 0 .. MaxFaults
  BY <1>1, WriteResult DEF TypeInv, TypeOK, ClusterTypeOK
<1>4. cr' \in [Instances -> CRs]
  <2>1. cr[cur] \in CRs
    BY <1>1 DEF TypeInv, TypeOK, ClusterTypeOK
  <2>2. [cr[cur] EXCEPT !.status = "Failed"] \in CRs
    BY <2>1 DEF CRs, StatusValues
  <2>3. cr' = cr \/ cr' = [cr EXCEPT ![cur] = [cr[cur] EXCEPT !.status = "Failed"]]
    BY <1>2
  <2> QED BY <2>2, <2>3 DEF TypeInv, TypeOK, ClusterTypeOK
<1>5. latest' \in [Instances -> SUBSET {"cache", "pass"}]
  BY <1>2, LatestType DEF TypeInv, TypeOK, ClusterTypeOK
<1>6. pc' \in Provisioning /\ UNCHANGED <<cur, mem>>
  BY AfterEach DEF SetStatusFailed, Goto, Provisioning
<1>7. UNCHANGED <<obj, dep, crb, siteVars, view, seenObj, seenDep, seenCrb, queue, disruptions>>
  BY DEF SetStatusFailed
<1> QED
  BY <1>1, <1>2, <1>3, <1>4, <1>5, <1>6, <1>7
  DEF TypeInv, TypeOK, ClusterTypeOK, Spend, Steps, siteVars

LEMMA ReconcileType == ASSUME TypeInv, NEW i \in Instances, Reconcile(i) PROVE TypeInv'
<1>1. Entry(view[i]) \in Steps
  BY DEF Entry, Steps, Cleaning, Provisioning
<1>2. pc' = Entry(view[i]) /\ queue' \subseteq Instances
  BY DEF Reconcile, TypeInv, TypeOK, ClusterTypeOK
<1>3. UNCHANGED <<apiVars, siteVars, view, seenObj, seenDep, seenCrb, faults, disruptions>>
  BY DEF Reconcile
<1>4. CASE Entry(view[i]) = "idle"
  BY <1>1, <1>2, <1>3, <1>4 DEF Reconcile, TypeInv, TypeOK, ClusterTypeOK, apiVars, siteVars
<1>5. CASE Entry(view[i]) # "idle"
  <2>1. cur' = i /\ mem' = view[i]
    BY <1>5 DEF Reconcile
  <2>2. latest' \in [Instances -> SUBSET {"cache", "pass"}]
    BY <1>5 DEF Reconcile, TypeInv, TypeOK, ClusterTypeOK
  <2> QED
    BY <1>1, <1>2, <1>3, <2>1, <2>2 DEF TypeInv, TypeOK, ClusterTypeOK, apiVars, siteVars
<1> QED BY <1>4, <1>5

LEMMA ReconcileReadErrorType ==
  ASSUME TypeInv, NEW i \in Instances, ReconcileReadError(i) PROVE TypeInv'
<1>1. faults' \in 0 .. MaxFaults
  BY BoundsAssumption DEF ReconcileReadError, Fails, TypeInv, TypeOK, ClusterTypeOK
<1> QED
  BY <1>1 DEF ReconcileReadError, TypeInv, TypeOK, ClusterTypeOK, apiVars, siteVars,
      cacheVars, passVars

LEMMA PreflightType == TypeInv /\ InstallationPreflightCheck => TypeInv'
<1> SUFFICES ASSUME TypeInv, InstallationPreflightCheck PROVE TypeInv'
  OBVIOUS
<1>1. pc = "preflight" /\ cur \in Instances
  BY DEF InstallationPreflightCheck, TypeInv
<1>2. faults' \in 0 .. MaxFaults
  BY ReadErrorResult, NothingToDoResult
  DEF InstallationPreflightCheck, Spend, TypeInv, TypeOK, ClusterTypeOK
<1>3. pc' \in Provisioning /\ UNCHANGED <<cur, mem>>
  BY <1>1, AfterType DEF InstallationPreflightCheck, Goto, Sequential, Provisioning, Services
<1>4. UNCHANGED <<apiVars, siteVars, cacheVars, queue, disruptions>>
  BY DEF InstallationPreflightCheck
<1> QED
  BY <1>1, <1>2, <1>3, <1>4
  DEF TypeInv, TypeOK, ClusterTypeOK, Steps, apiVars, siteVars, cacheVars

LEMMA LegacyType ==
  ASSUME TypeInv, NEW s \in Suffixes, NEW step \in {"legacyManager", "legacyK8sAuth"},
         CleanupLegacyClusterRoleBinding(s, step)
  PROVE  TypeInv' /\ pc' \in Provisioning
<1> DEFINE b == LegacyName[cur]
<1>1. pc \in Sequential /\ cur \in Instances /\ b \in Bindings
  BY NamesAssumption
  DEF CleanupLegacyClusterRoleBinding, TypeInv, Sequential, Provisioning, Services
<1>2. PICK r \in ReadError \cup
                  IF SubjectIncluded(s, b)
                  THEN Write("delete", PreconditionsHold(s, b)) ELSE {NothingToDo} :
           /\ crb' = IF r.done THEN [crb EXCEPT ![s][b] = {}] ELSE crb
           /\ Spend(r)
           /\ Proceed(r, {})
  BY DEF CleanupLegacyClusterRoleBinding
<1>3. faults + r.cost \in 0 .. MaxFaults
  <2>1. faults \in 0 .. MaxFaults /\ PreconditionsHold(s, b) \in BOOLEAN
    BY DEF TypeInv, TypeOK, ClusterTypeOK, PreconditionsHold
  <2>2. \/ r \in ReadError
        \/ r \in Write("delete", PreconditionsHold(s, b))
        \/ r = NothingToDo
    BY <1>2
  <2> QED BY <2>1, <2>2, ReadErrorResult, WriteResult, NothingToDoResult
<1>4. crb' \in [Suffixes -> [Bindings -> SUBSET Instances]]
  BY <1>1, <1>2 DEF TypeInv, TypeOK, ClusterTypeOK
<1>5. pc' \in Provisioning /\ UNCHANGED <<cur, mem>>
  BY <1>1, <1>2, ProceedType
<1>6. UNCHANGED <<cr, obj, dep, siteVars, cacheVars, queue, disruptions>>
  BY DEF CleanupLegacyClusterRoleBinding
<1> QED
  BY <1>1, <1>2, <1>3, <1>4, <1>5, <1>6
  DEF TypeInv, TypeOK, ClusterTypeOK, Spend, Steps, siteVars, cacheVars

LEMMA DeploymentType == TypeInv /\ ReconcileDeployment => TypeInv'
<1> SUFFICES ASSUME TypeInv, ReconcileDeployment PROVE TypeInv'
  OBVIOUS
<1> DEFINE key == <<cur, "deployment">>
<1>1. pc = "deployment" /\ cur \in Instances /\ key \in Objects
  BY DEF ReconcileDeployment, TypeInv, Objects, OwnKinds
<1>2. PICK r \in ReconcileResource(seenDep[cur].found, obj[key] # None, FALSE,
                                   obj[key] \notin {None, cur}) :
           /\ obj' = IF r.done THEN [obj EXCEPT ![key] = cur] ELSE obj
           /\ dep' = IF r.done THEN [dep EXCEPT ![cur].wide = mem.wide] ELSE dep
           /\ Spend(r)
           /\ Goto(IF ~r.ok THEN "markFailed"
                   ELSE IF r.crud = "update" /\ seenDep[cur].avail THEN "markReady"
                   ELSE "markNotReady")
  BY DEF ReconcileDeployment
<1>3. faults + r.cost \in 0 .. MaxFaults
  <2>1. seenDep[cur].found \in BOOLEAN
    BY <1>1 DEF TypeInv, TypeOK, ClusterTypeOK
  <2> QED BY <2>1, ResourceResult DEF TypeInv, TypeOK, ClusterTypeOK
<1>4. obj' \in [Objects -> Instances \cup {None, Ghost}]
  BY <1>1, <1>2 DEF TypeInv, TypeOK, ClusterTypeOK
<1>5. dep' \in [Instances -> [wide : BOOLEAN, avail : BOOLEAN]]
  <2>1. mem.wide \in BOOLEAN /\ dep \in [Instances -> [wide : BOOLEAN, avail : BOOLEAN]]
    BY DEF TypeInv, TypeOK, ClusterTypeOK, CRs
  <2> QED BY <1>1, <1>2, <2>1
<1>6. pc' \in Provisioning /\ UNCHANGED <<cur, mem>>
  BY <1>2 DEF Goto, Provisioning
<1>7. UNCHANGED <<cr, crb, siteVars, cacheVars, queue, disruptions>>
  BY DEF ReconcileDeployment
<1> QED
  BY <1>1, <1>2, <1>3, <1>4, <1>5, <1>6, <1>7
  DEF TypeInv, TypeOK, ClusterTypeOK, Spend, Steps, siteVars, cacheVars

LEMMA RestartType == TypeInv /\ Restart => TypeInv'
<1> SUFFICES ASSUME TypeInv, Restart PROVE TypeInv'
  OBVIOUS
<1>1. faults' \in 0 .. MaxFaults
  BY BoundsAssumption DEF Restart, Fails, TypeInv, TypeOK, ClusterTypeOK
<1>2. seenDep' \in [Instances -> [found : BOOLEAN, wide : BOOLEAN, avail : BOOLEAN]]
  BY DepSeenType DEF Restart, TypeInv, TypeOK
<1>3. seenObj' \in [Objects -> BOOLEAN]
  BY DEF Restart
<1>4. /\ pc' = "idle" /\ cur' = None /\ mem' = NoCR /\ view' = cr /\ seenCrb' = crb
      /\ latest' = [i \in Instances |-> {"cache"}]
      /\ queue' = {i \in Instances : cr[i].exists}
      /\ UNCHANGED <<apiVars, siteVars, disruptions>>
  BY DEF Restart
<1> QED
  BY <1>1, <1>2, <1>3, <1>4, NoCRType DEF TypeInv, TypeOK, ClusterTypeOK, Steps, apiVars, siteVars

LEMMA ProvisionType ==
  ASSUME TypeInv, NEW k \in Services,
         \/ ReconcileService(k)
         \/ ReconcileAuthorinoServiceAccount
         \/ ReconcileManagerClusterRoleBinding
         \/ ReconcileManagerRoleBinding
         \/ ReconcileManagerAuthClusterRoleBinding
         \/ ReconcileLeaderElectionRole
         \/ ReconcileLeaderElectionRoleBinding
  PROVE  TypeInv' /\ pc' \in Provisioning
<1>0. mem.wide \in BOOLEAN /\ (~mem.wide) \in BOOLEAN
  BY DEF TypeInv, TypeOK, CRs
<1> USE DEF Sequential, Provisioning, Services, Kinds, OwnKinds, Suffixes
<1>1. CASE ReconcileService(k)
  BY <1>1, ReconcileOwnedType DEF ReconcileService
<1>2. CASE ReconcileAuthorinoServiceAccount
  BY <1>2, ReconcileOwnedType DEF ReconcileAuthorinoServiceAccount
<1>3. CASE ReconcileManagerClusterRoleBinding
  <2> DEFINE tagged == ~mem.wide
             failed == IF mem.wide THEN "markFailed" ELSE "markUnrevoked"
  <2>1. /\ pc = "managerClusterRoleBinding"
        /\ \/ ClusterRoleMissing("manager")
           \/ ReconcileClusterRoleBinding("manager", tagged, failed)
    BY <1>3 DEF ReconcileManagerClusterRoleBinding
  <2>2. tagged \in BOOLEAN /\ failed \in Provisioning
    BY <1>0
  <2> HIDE DEF tagged, failed
  <2> QED BY <2>1, <2>2, ReconcileClusterRoleBindingType, ClusterRoleMissingType
<1>4. CASE ReconcileManagerRoleBinding
  <2> DEFINE tagged == mem.wide
  <2>1. /\ pc = "managerRoleBinding"
        /\ \/ ClusterRoleMissing("manager")
           \/ ReconcileOwned("managerRoleBinding", tagged, BindingErrors)
    BY <1>4 DEF ReconcileManagerRoleBinding
  <2>2. tagged \in BOOLEAN
    BY <1>0
  <2> HIDE DEF tagged
  <2> QED BY <2>1, <2>2, ReconcileOwnedType, ClusterRoleMissingType
<1>5. CASE ReconcileManagerAuthClusterRoleBinding
  BY <1>5, ReconcileClusterRoleBindingType, ClusterRoleMissingType
  DEF ReconcileManagerAuthClusterRoleBinding
<1>6. CASE ReconcileLeaderElectionRole
  BY <1>6, ReconcileOwnedType DEF ReconcileLeaderElectionRole
<1>7. CASE ReconcileLeaderElectionRoleBinding
  BY <1>7, ReconcileOwnedType DEF ReconcileLeaderElectionRoleBinding
<1> QED BY <1>1, <1>2, <1>3, <1>4, <1>5, <1>6, <1>7

LEMMA PassType == TypeInv /\ Pass => TypeInv'
<1> SUFFICES ASSUME TypeInv, Pass PROVE TypeInv'
  OBVIOUS
<1>1. CASE CleanupClusterScopedPermissions("manager", "cleanupManager", "cleanupK8sAuth")
  BY <1>1, CleanupType DEF Cleaning, Suffixes
<1>2. CASE CleanupClusterScopedPermissions("k8sAuth", "cleanupK8sAuth", "removeFinalizer")
  BY <1>2, CleanupType DEF Cleaning, Suffixes
<1>3. CASE \/ \E k \in Services : ReconcileService(k)
           \/ ReconcileAuthorinoServiceAccount
           \/ ReconcileManagerClusterRoleBinding
           \/ ReconcileManagerRoleBinding
           \/ ReconcileManagerAuthClusterRoleBinding
           \/ ReconcileLeaderElectionRole
           \/ ReconcileLeaderElectionRoleBinding
  <2>1. "authService" \in Services
    BY DEF Services
  <2> QED BY <1>3, <2>1, ProvisionType
<1>4. CASE CleanupLegacyClusterRoleBinding("manager", "legacyManager")
  BY <1>4, LegacyType DEF Suffixes
<1>5. CASE CleanupLegacyClusterRoleBinding("k8sAuth", "legacyK8sAuth")
  BY <1>5, LegacyType DEF Suffixes
<1>6. CASE UpdateStatusConditions("markFailed", "Failed", TRUE)
  BY <1>6, UpdateStatusConditionsType DEF Provisioning, StatusValues
<1>7. CASE UpdateStatusConditions("markReady", "Ready", FALSE)
  BY <1>7, UpdateStatusConditionsType DEF Provisioning, StatusValues
<1>8. CASE UpdateStatusConditions("markNotReady", "NotReady", FALSE)
  BY <1>8, UpdateStatusConditionsType DEF Provisioning, StatusValues
<1> QED
  BY <1>1, <1>2, <1>3, <1>4, <1>5, <1>6, <1>7, <1>8,
     RemoveFinalizerType, AddFinalizerType, PreflightType, SetStatusFailedType, DeploymentType
  DEF Pass

LEMMA NextType == TypeInv /\ [Next]_vars => TypeInv'
<1> SUFFICES ASSUME TypeInv, [Next]_vars PROVE TypeInv'
  OBVIOUS
<1>1. ASSUME NEW i \in Instances, Reconcile(i) \/ ReconcileReadError(i) PROVE TypeInv'
  BY <1>1, ReconcileType, ReconcileReadErrorType
<1>2. CASE Pass
  BY <1>2, PassType
<1>3. CASE Restart
  BY <1>3, RestartType
<1>4. CASE ClusterNext /\ UNCHANGED passVars
  BY <1>4, ClusterNextType DEF TypeInv, TypeOK, passVars
<1>5. CASE UNCHANGED vars
  BY <1>5 DEF vars, clusterVars, passVars, apiVars, siteVars, cacheVars, TypeInv, TypeOK,
     ClusterTypeOK
<1> QED BY <1>1, <1>2, <1>3, <1>4, <1>5 DEF Next

LEMMA InitType == Init => TypeInv
BY ClusterInitType, NoCRType DEF Init, TypeInv, TypeOK, Steps

(***************************************************************************)
(* What the calls that hand over to the next one have in common.           *)
(***************************************************************************)
SequentialCall ==
  \/ InstallationPreflightCheck
  \/ \E k \in Services : ReconcileService(k)
  \/ ReconcileAuthorinoServiceAccount
  \/ ReconcileManagerClusterRoleBinding
  \/ ReconcileManagerRoleBinding
  \/ ReconcileManagerAuthClusterRoleBinding
  \/ ReconcileLeaderElectionRole
  \/ ReconcileLeaderElectionRoleBinding
  \/ CleanupLegacyClusterRoleBinding("manager", "legacyManager")
  \/ CleanupLegacyClusterRoleBinding("k8sAuth", "legacyK8sAuth")

LEMMA SequentialPass ==
  ASSUME Pass, pc \in Sequential
  PROVE  SequentialCall
<1>1. /\ pc \notin Cleaning /\ pc # "addFinalizer"
      /\ pc \notin {"markUnrevoked", "deployment", "markFailed", "markReady", "markNotReady"}
  BY DEF Sequential, Provisioning, Services, Cleaning
<1> QED
  BY <1>1 DEF Pass, SequentialCall, CleanupClusterScopedPermissions, RemoveFinalizer,
     AddFinalizer, SetStatusFailed, ReconcileDeployment, UpdateStatusConditions, Cleaning

LEMMA CallAt ==
  ASSUME SequentialCall
  PROVE  /\ pc \in Services => ReconcileService(pc)
         /\ pc = "serviceAccount" => ReconcileAuthorinoServiceAccount
         /\ pc = "managerClusterRoleBinding" => ReconcileManagerClusterRoleBinding
         /\ pc = "managerRoleBinding" => ReconcileManagerRoleBinding
         /\ pc = "k8sAuthClusterRoleBinding" => ReconcileManagerAuthClusterRoleBinding
         /\ pc = "leaderRole" => ReconcileLeaderElectionRole
         /\ pc = "leaderRoleBinding" => ReconcileLeaderElectionRoleBinding
BY DEF SequentialCall, InstallationPreflightCheck, ReconcileService, Services,
   ReconcileAuthorinoServiceAccount, ReconcileManagerClusterRoleBinding,
   ReconcileManagerRoleBinding, ReconcileManagerAuthClusterRoleBinding,
   ReconcileLeaderElectionRole, ReconcileLeaderElectionRoleBinding,
   CleanupLegacyClusterRoleBinding

LEMMA SequentialStep ==
  ASSUME SequentialCall
  PROVE  /\ pc \in Sequential /\ HandsOver
         /\ UNCHANGED <<cr, dep, view, latest, seenDep, queue, cur, mem>>
<1> USE DEF HandsOver, Proceed, ProceedOr, Goto, cacheVars, apiVars, Sequential, Provisioning,
        Services
<1>1. CASE InstallationPreflightCheck
  BY <1>1 DEF InstallationPreflightCheck
<1>2. CASE \/ \E k \in Services : ReconcileService(k)
           \/ ReconcileAuthorinoServiceAccount
           \/ ReconcileLeaderElectionRole
           \/ ReconcileLeaderElectionRoleBinding
  BY <1>2 DEF ReconcileService, ReconcileAuthorinoServiceAccount, ReconcileLeaderElectionRole,
     ReconcileLeaderElectionRoleBinding, ReconcileOwned
<1>3. CASE ReconcileManagerRoleBinding
  BY <1>3 DEF ReconcileManagerRoleBinding, ReconcileOwned, ClusterRoleMissing
<1>4. CASE ReconcileManagerClusterRoleBinding \/ ReconcileManagerAuthClusterRoleBinding
  BY <1>4 DEF ReconcileManagerClusterRoleBinding, ReconcileManagerAuthClusterRoleBinding,
     ReconcileClusterRoleBinding, ClusterRoleMissing
<1>5. CASE \/ CleanupLegacyClusterRoleBinding("manager", "legacyManager")
           \/ CleanupLegacyClusterRoleBinding("k8sAuth", "legacyK8sAuth")
  BY <1>5 DEF CleanupLegacyClusterRoleBinding
<1> QED BY <1>1, <1>2, <1>3, <1>4, <1>5 DEF SequentialCall

\* What a pass has past it had past before, or has just done.
LEMMA PastGrows ==
  ASSUME [Next]_vars, NEW step \in Sequential, Past(step)'
  PROVE  /\ pc \in Provisioning /\ UNCHANGED <<cur, mem>>
         /\ Past(step) \/ (SequentialCall /\ pc = step /\ pc' # "markFailed")
<1>1. pc' \in Provisioning \ {"preflight", "markFailed"}
  BY NothingPast
<1>2. CASE UNCHANGED passVars
  BY <1>1, <1>2 DEF Past, passVars
<1>3. CASE SequentialCall
  <2>1. pc \in Sequential /\ HandsOver /\ UNCHANGED <<cur, mem>>
    BY <1>3, SequentialStep
  <2> QED BY <1>1, <1>3, <2>1, PastNext DEF Sequential
<1>4. CASE ReconcileDeployment
  <2>1. pc = "deployment" /\ UNCHANGED <<cur, mem>>
    BY <1>4 DEF ReconcileDeployment, Goto
  <2> QED BY <2>1, Places DEF Past, Sequential, Provisioning, Services
<1>5. CASE SetStatusFailed
  <2>1. /\ pc = "markUnrevoked" /\ pc' = "managerRoleBinding" /\ UNCHANGED <<cur, mem>>
        /\ Place[step] # 6
    BY <1>5, AfterEach, Places DEF SetStatusFailed, Goto, Sequential, Provisioning, Services
  <2>2. Place[step] \in Nat
    BY Places DEF Sequential, Provisioning, Services
  <2> QED BY <2>1, <2>2, Places DEF Past, Provisioning
<1>6. \/ UNCHANGED passVars \/ SequentialCall \/ ReconcileDeployment \/ SetStatusFailed
      \/ pc' \notin Provisioning \/ pc' = "preflight"
  <2>1. ASSUME NEW i \in Instances, Reconcile(i) PROVE pc' \notin Provisioning \/ pc' = "preflight"
    BY <2>1, StepsDiffer DEF Reconcile, Entry, Cleaning
  <2>2. CASE (\E i \in Instances : ReconcileReadError(i)) \/ UNCHANGED vars
    BY <2>2 DEF ReconcileReadError, vars
  <2>3. CASE Restart
    BY <2>3, StepsDiffer DEF Restart
  <2>4. CASE Pass /\ ~SequentialCall /\ ~ReconcileDeployment /\ ~SetStatusFailed
    <3>1. \/ CleanupClusterScopedPermissions("manager", "cleanupManager", "cleanupK8sAuth")
          \/ CleanupClusterScopedPermissions("k8sAuth", "cleanupK8sAuth", "removeFinalizer")
          \/ RemoveFinalizer
          \/ AddFinalizer
          \/ \E s, status, failed : UpdateStatusConditions(s, status, failed)
      BY <2>4 DEF Pass, SequentialCall
    <3>2. pc' \in Cleaning \cup {"idle"}
      BY <3>1 DEF CleanupClusterScopedPermissions, RemoveFinalizer, AddFinalizer,
         UpdateStatusConditions, Return, Goto, Cleaning
    <3> QED BY <3>2, StepsDiffer
  <2> QED BY <2>1, <2>2, <2>3, <2>4 DEF Next
<1> QED BY <1>1, <1>2, <1>3, <1>4, <1>5, <1>6

\* Whatever fails and whenever the operator is restarted, the state keeps its
\* type: in particular the queue only ever holds instances, and the failure
\* budget is never overspent.
THEOREM TypeCorrect == Spec => []TypeOK
<1>1. TypeInv => TypeOK
  BY DEF TypeInv
<1> QED BY <1>1, InitType, NextType, PTL DEF Spec
=============================================================================
