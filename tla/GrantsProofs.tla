----------------------------- MODULE GrantsProofs -----------------------------
(***************************************************************************)
(* The operator implements Grants, if no deletion fails.  Each step of the *)
(* operator, of users and of Kubernetes writes either a resource or a      *)
(* ClusterRoleBinding, never both, and is one abstract step or none.  What *)
(* has to be shown is that a pass, whose copy of the resource may be old,  *)
(* does not act on what is no longer so.                                   *)
(***************************************************************************)
EXTENDS FinalizerProofs, BindingProofs

\* A resource shown as leaving is leaving, or it is one that has no finalizer:
\* gone, or created anew since.
CachedLeaving ==
  \A i \in Instances : view[i].deleting => cr[i].deleting \/ ~Protected(i)

\* What a pass knows of the resource it began with.
PassEntry ==
  /\ pc \in Cleaning => /\ cr[cur].deleting \/ ~Protected(cur)
                        /\ mem.exists /\ mem.deleting /\ mem.finalizer
  /\ pc = "addFinalizer" => mem.exists /\ ~mem.deleting

LInv == CachedLeaving /\ PassEntry

\* The part that holds whatever fails, and the part that needs deletions to work.
IInv == GuardInv /\ AccessGuarded

(***************************************************************************)
(* LInv is inductive, given IInv.                                          *)
(***************************************************************************)

\* Neither the resources nor the caches change, and a pass goes on.
LEMMA LeavingKept ==
  ASSUME IInv, LInv, UNCHANGED <<cr, view, cur, mem>>,
         pc' \in Cleaning => pc \in Cleaning, pc' # "addFinalizer" \/ pc = "addFinalizer"
  PROVE  LInv'
BY DEF LInv, CachedLeaving, PassEntry, Protected

\* One resource changes; it does not stop leaving while it has the finalizer.
LEMMA LeavingChanged ==
  ASSUME IInv, LInv, TypeInv', NEW i \in Instances, NEW v,
         cr' = [cr EXCEPT ![i] = v], UNCHANGED view,
         UNCHANGED passVars \/ pc' \in Provisioning \cup {"idle"},
         v.exists /\ v.finalizer /\ ~v.deleting
           => \/ ~view[i].deleting /\ (pc \in Cleaning /\ pc' \in Cleaning => cur # i)
              \/ Protected(i) /\ ~cr[i].deleting
  PROVE  LInv'
<1> USE DEF IInv, GuardInv, LInv, TypeInv
<1>1. cr'[i] = v /\ \A j \in Instances \ {i} : cr'[j] = cr[j]
  BY DEF TypeOK, ClusterTypeOK
<1>2. CachedLeaving'
  BY <1>1 DEF CachedLeaving, Protected
<1>3. PassEntry'
  <2>1. CASE pc' \in Provisioning \cup {"idle"}
    BY <2>1, StepsDiffer DEF PassEntry
  <2>2. CASE UNCHANGED passVars
    BY <1>1, <2>2, StepsDiffer DEF PassEntry, Protected, passVars
  <2> QED BY <2>1, <2>2
<1> QED BY <1>2, <1>3

LEMMA LeavingInit == Init => LInv
BY StepsDiffer DEF Init, ClusterInit, LInv, CachedLeaving, PassEntry

LEMMA LeavingReconcile ==
  ASSUME IInv, LInv, NEW i \in Instances, Reconcile(i)
  PROVE  LInv'
<1>1. pc = "idle" /\ pc' = Entry(view[i]) /\ UNCHANGED <<cr, view>>
  BY DEF Reconcile, apiVars
<1>2. CachedLeaving'
  BY <1>1 DEF LInv, CachedLeaving, Protected
<1>3. CASE pc' = "idle"
  BY <1>2, <1>3, StepsDiffer DEF LInv, PassEntry
<1>4. CASE pc' # "idle"
  <2>1. cur' = i /\ mem' = view[i]
    BY <1>1, <1>4 DEF Reconcile
  <2>2. PassEntry'
    <3>1. ASSUME pc' \in Cleaning
          PROVE  view[i].exists /\ view[i].deleting /\ view[i].finalizer
      BY <1>1, <3>1, StepsDiffer DEF Entry, Cleaning
    <3>2. ASSUME pc' = "addFinalizer"
          PROVE  view[i].exists /\ ~view[i].deleting
      BY <1>1, <3>2 DEF Entry
    <3>3. pc' \in Cleaning => cr[i].deleting \/ ~Protected(i)
      BY <3>1 DEF LInv, CachedLeaving
    <3> QED BY <1>1, <2>1, <3>1, <3>2, <3>3 DEF PassEntry, Protected
  <2> QED BY <1>2, <2>2 DEF LInv
<1> QED BY <1>3, <1>4

\* An accepted update was made from the version that the API server has.
LEMMA AcceptedCurrent ==
  ASSUME IInv, UpdateAccepted, cur \in Instances
  PROVE  cr[cur] = mem /\ view[cur] = mem /\ cr[cur] \in CRs
BY DEF UpdateAccepted, IInv, GuardInv, Coherent, TypeInv, TypeOK, ClusterTypeOK

LEMMA AddFinalizerWrites ==
  ASSUME IInv, LInv, AddFinalizer
  PROVE  /\ cur \in Instances /\ pc' = "idle" /\ UNCHANGED <<view, crb>>
         /\ \/ UNCHANGED cr
            \/ /\ cr' = [cr EXCEPT ![cur] = [mem EXCEPT !.finalizer = TRUE]]
               /\ cr[cur] = mem /\ view[cur] = mem /\ mem \in CRs
               /\ mem.exists /\ ~mem.deleting
<1>1. cur \in Instances /\ pc = "addFinalizer" /\ pc' = "idle" /\ UNCHANGED <<view, crb>>
  BY DEF AddFinalizer, Return, IInv, GuardInv, TypeInv
<1>2. PICK r \in Write("finalizer", UpdateAccepted) :
        IF r.done THEN cr' = [cr EXCEPT ![cur] = Updated(TRUE)] ELSE UNCHANGED cr
  BY DEF AddFinalizer
<1>3. CASE ~r.done
  BY <1>1, <1>2, <1>3
<1>4. CASE r.done
  <2>0. UpdateAccepted \in BOOLEAN
    BY DEF UpdateAccepted
  <2>1. UpdateAccepted
    BY <1>2, <1>4, <2>0, WriteResult DEF IInv, GuardInv, TypeInv, TypeOK,
      ClusterTypeOK
  <2>2. cr[cur] = mem /\ view[cur] = mem /\ mem \in CRs
    BY <1>1, <2>1, AcceptedCurrent
  <2>3. Updated(TRUE) = [mem EXCEPT !.finalizer = TRUE]
    BY <2>2 DEF Updated, CRs
  <2>4. mem.exists /\ ~mem.deleting
    BY <1>1 DEF LInv, PassEntry
  <2> QED BY <1>1, <1>2, <1>4, <2>2, <2>3, <2>4
<1> QED BY <1>3, <1>4

LEMMA RemoveFinalizerWrites ==
  ASSUME IInv, LInv, RemoveFinalizer
  PROVE  /\ cur \in Instances /\ pc' = "idle" /\ UNCHANGED <<view, crb>>
         /\ \/ UNCHANGED cr
            \/ /\ cr' = [cr EXCEPT ![cur] = IF mem.held THEN [mem EXCEPT !.finalizer = FALSE]
                                                        ELSE NoCR]
               /\ cr[cur] = mem /\ view[cur] = mem /\ mem \in CRs
               /\ mem.exists /\ mem.deleting /\ mem.finalizer
               /\ \A s \in Suffixes : crb[s][BindingName[cur]] = {}
<1>1. cur \in Instances /\ pc = "removeFinalizer" /\ pc' = "idle" /\ UNCHANGED <<view, crb>>
  BY DEF RemoveFinalizer, Return, IInv, GuardInv, TypeInv
<1>2. PICK r \in Write("finalizer", UpdateAccepted) :
        IF r.done
        THEN cr' = [cr EXCEPT ![cur] = IF cr[cur].held THEN Updated(FALSE) ELSE NoCR]
        ELSE UNCHANGED cr
  BY DEF RemoveFinalizer
<1>3. CASE ~r.done
  BY <1>1, <1>2, <1>3
<1>4. CASE r.done
  <2>0. UpdateAccepted \in BOOLEAN
    BY DEF UpdateAccepted
  <2>1. UpdateAccepted
    BY <1>2, <1>4, <2>0, WriteResult DEF IInv, GuardInv, TypeInv, TypeOK,
      ClusterTypeOK
  <2>2. cr[cur] = mem /\ view[cur] = mem /\ mem \in CRs
    BY <1>1, <2>1, AcceptedCurrent
  <2>3. Updated(FALSE) = [mem EXCEPT !.finalizer = FALSE]
    BY <2>2 DEF Updated, CRs
  <2>4. mem.exists /\ mem.deleting /\ mem.finalizer
    BY <1>1 DEF LInv, PassEntry, Cleaning
  <2>5. \A s \in Suffixes : crb[s][BindingName[cur]] = {}
    BY <1>1 DEF IInv, AccessGuarded, CleanedUp, Suffixes
  <2> QED BY <1>1, <1>2, <1>4, <2>2, <2>3, <2>4, <2>5
<1> QED BY <1>3, <1>4

LEMMA StatusWrites ==
  ASSUME IInv, NEW step \in Provisioning, NEW status, NEW failed,
         \/ UpdateStatusConditions(step, status, failed)
         \/ SetStatusFailed /\ status = "Failed"
  PROVE  /\ cur \in Instances /\ pc' \in Provisioning \cup {"idle"} /\ UNCHANGED <<view, crb>>
         /\ \/ UNCHANGED cr
            \/ cr' = [cr EXCEPT ![cur] = [cr[cur] EXCEPT !.status = status]]
BY StepsDiffer, SetStatusFailedType
DEF UpdateStatusConditions, SetStatusFailed, Return, IInv, GuardInv, TypeInv

(***************************************************************************)
(* What a step may do to a resource.                                       *)
(***************************************************************************)
Alike(i, v) == /\ v.exists = cr[i].exists
               /\ v.deleting = cr[i].deleting
               /\ v.finalizer = cr[i].finalizer
Gone(i, v)     == v = NoCR /\ ~cr[i].finalizer
Born(i, v)     == ~cr[i].exists /\ v.exists /\ ~v.deleting /\ ~v.finalizer
Leaves(i, v)   == /\ cr[i].exists /\ ~cr[i].deleting /\ v.exists /\ v.deleting
                  /\ v.finalizer = cr[i].finalizer
Secured(i, v)  == /\ cr[i].exists /\ ~cr[i].deleting
                  /\ v.exists /\ ~v.deleting /\ v.finalizer
Released(i, v) == /\ cr[i].exists /\ cr[i].deleting /\ cr[i].finalizer
                  /\ v = NoCR \/ (v.exists /\ v.deleting /\ ~v.finalizer)
                  /\ \A s \in Suffixes : crb[s][BindingName[i]] = {}

ResourceStep(i, v) == \/ Alike(i, v) \/ Gone(i, v) \/ Born(i, v) \/ Leaves(i, v)
                      \/ Secured(i, v) \/ Released(i, v)

LEMMA ResourceStepImplements ==
  ASSUME TypeInv, NEW i \in Instances, NEW v \in CRs, ResourceStep(i, v),
         cr' = [cr EXCEPT ![i] = v], UNCHANGED crb
  PROVE  [Abstract!Next]_(Abstract!gvars)
<1>1. /\ Life' = [Life EXCEPT ![i] = IF ~v.exists THEN "absent"
                                     ELSE IF v.deleting THEN "leaving" ELSE "live"]
      /\ Guarded' = [Guarded EXCEPT ![i] = v.exists /\ v.finalizer]
      /\ Granted' = Granted
  BY DEF Life, LifeOf, Guarded, Granted, TypeInv, TypeOK, ClusterTypeOK
<1>2. /\ Life[i] = LifeOf(i) /\ Guarded[i] = (cr[i].exists /\ cr[i].finalizer)
      /\ Life = [Life EXCEPT ![i] = LifeOf(i)]
      /\ Guarded = [Guarded EXCEPT ![i] = cr[i].exists /\ cr[i].finalizer]
  BY DEF Life, Guarded
<1>3. /\ cr[i].exists \in BOOLEAN /\ cr[i].deleting \in BOOLEAN /\ cr[i].finalizer \in BOOLEAN
      /\ v.exists \in BOOLEAN /\ v.deleting \in BOOLEAN /\ v.finalizer \in BOOLEAN
      /\ ~NoCR.exists /\ ~NoCR.finalizer
  BY DEF TypeInv, TypeOK, ClusterTypeOK, CRs, NoCR
<1>4. CASE Alike(i, v)
  <2>1. Life' = Life /\ Guarded' = Guarded
    BY <1>1, <1>2, <1>4 DEF Alike, LifeOf
  <2> QED BY <1>1, <2>1 DEF Abstract!gvars
<1>5. CASE Gone(i, v)
  <2>1. Life' = [Life EXCEPT ![i] = "absent"] /\ Guarded' = [Guarded EXCEPT ![i] = FALSE]
    BY <1>1, <1>3, <1>5 DEF Gone
  <2>2. Guarded' = Guarded
    BY <1>2, <1>5, <2>1 DEF Gone
  <2>3. CASE Life[i] = "absent"
    BY <1>1, <1>2, <2>1, <2>2, <2>3 DEF Abstract!gvars
  <2>4. CASE Life[i] # "absent"
    <3>1. Abstract!Vanish(i)
      BY <1>1, <1>2, <1>5, <2>1, <2>2, <2>4 DEF Abstract!Vanish, Gone
    <3> QED BY <3>1 DEF Abstract!Next
  <2> QED BY <2>3, <2>4
<1>6. CASE Born(i, v)
  <2>1. Life' = [Life EXCEPT ![i] = "live"] /\ Guarded' = Guarded /\ Life[i] = "absent"
    BY <1>1, <1>2, <1>6 DEF Born, LifeOf
  <2>2. Abstract!Create(i)
    BY <1>1, <2>1 DEF Abstract!Create
  <2> QED BY <2>2 DEF Abstract!Next
<1>7. CASE Leaves(i, v)
  <2>1. Life' = [Life EXCEPT ![i] = "leaving"] /\ Guarded' = Guarded /\ Life[i] = "live"
    BY <1>1, <1>2, <1>7 DEF Leaves, LifeOf
  <2>2. Abstract!Leave(i)
    BY <1>1, <2>1 DEF Abstract!Leave
  <2> QED BY <2>2 DEF Abstract!Next
<1>8. CASE Secured(i, v)
  <2>1. Life' = Life /\ Guarded' = [Guarded EXCEPT ![i] = TRUE] /\ Life[i] = "live"
    BY <1>1, <1>2, <1>3, <1>8 DEF Secured, LifeOf
  <2>2. Abstract!Guard(i)
    BY <1>1, <2>1 DEF Abstract!Guard
  <2> QED BY <2>2 DEF Abstract!Next
<1>9. CASE Released(i, v)
  <2>1. Life[i] = "leaving" /\ Guarded[i] /\ Guarded' = [Guarded EXCEPT ![i] = FALSE]
    BY <1>1, <1>2, <1>3, <1>9 DEF Released, LifeOf
  <2>2. \E l \in {"leaving", "absent"} : Life' = [Life EXCEPT ![i] = l]
    BY <1>1, <1>3, <1>9 DEF Released
  <2>3. \A s \in Suffixes : <<i, s>> \notin Granted
    BY <1>9 DEF Released, Granted
  <2>4. Abstract!Release(i)
    BY <1>1, <2>1, <2>2, <2>3 DEF Abstract!Release
  <2> QED BY <2>4 DEF Abstract!Next
<1> QED BY <1>4, <1>5, <1>6, <1>7, <1>8, <1>9 DEF ResourceStep

\* Every step that changes a resource is one of these.
ClusterStep ==
  /\ UNCHANGED crb
  /\ \/ /\ UNCHANGED cr
        /\ \/ UNCHANGED view
           \/ \E i \in Instances : view' = [view EXCEPT ![i] = cr[i]]
     \/ /\ UNCHANGED view
        /\ \E i \in Instances, v \in CRs :
             /\ cr' = [cr EXCEPT ![i] = v]
             /\ Alike(i, v) \/ Gone(i, v) \/ Born(i, v) \/ Leaves(i, v)

LEMMA ClusterNextWrites ==
  ASSUME TypeInv, ClusterNext
  PROVE  ClusterStep
<1> USE DEF TypeInv, TypeOK, ClusterTypeOK, ClusterStep
<1>1. ASSUME NEW i \in Instances, NEW w \in BOOLEAN, NEW c \in CertSpecs, CreateCR(i, w, c)
      PROVE  ClusterStep
  <2> DEFINE v == [NoCR EXCEPT !.exists = TRUE, !.wide = w, !.certs = c]
  <2>1. v \in CRs /\ v.exists /\ ~v.deleting /\ ~v.finalizer
    BY CertSpecType DEF NoCR, CRs, StatusValues
  <2>2. cr' = [cr EXCEPT ![i] = v] /\ UNCHANGED <<view, crb>> /\ ~cr[i].exists
    BY <1>1 DEF CreateCR
  <2>3. Born(i, v)
    BY <2>1, <2>2 DEF Born
  <2> HIDE DEF v
  <2> QED BY <2>1, <2>2, <2>3
<1>2. ASSUME NEW i \in Instances, NEW w \in BOOLEAN, NEW c \in CertSpecs, EditSpec(i, w, c)
      PROVE  ClusterStep
  <2> DEFINE v == [cr[i] EXCEPT !.wide = w, !.certs = c]
  <2>1. cr[i] \in CRs /\ c \in SUBSET Secrets
    BY CertSpecType
  <2>2. v \in CRs /\ Alike(i, v)
    BY <2>1 DEF CRs, Alike
  <2>3. cr' = [cr EXCEPT ![i] = v] /\ UNCHANGED <<view, crb>>
    BY <1>2 DEF EditSpec
  <2> HIDE DEF v
  <2> QED BY <2>2, <2>3
<1>3. ASSUME NEW i \in Instances, NEW foreground \in BOOLEAN, DeleteCR(i, foreground)
      PROVE  ClusterStep
  <2> DEFINE v == [cr[i] EXCEPT !.deleting = TRUE, !.held = foreground]
  <2>1. cr[i] \in CRs /\ NoCR \in CRs
    BY NoCRType
  <2>2. v \in CRs /\ cr[i].exists /\ ~cr[i].deleting
    BY <1>3, <2>1 DEF CRs, DeleteCR
  <2>3. Leaves(i, v)
    BY <2>1, <2>2 DEF CRs, Leaves
  <2>4. /\ UNCHANGED <<view, crb>>
        /\ \/ cr' = [cr EXCEPT ![i] = v]
           \/ cr' = [cr EXCEPT ![i] = NoCR] /\ Gone(i, NoCR)
    BY <1>3 DEF DeleteCR, Gone
  <2> HIDE DEF v
  <2> QED BY <2>1, <2>2, <2>3, <2>4
<1>4. ASSUME NEW i \in Instances, ReleaseHold(i) PROVE ClusterStep
  <2> DEFINE v == [cr[i] EXCEPT !.held = FALSE]
  <2>1. cr[i] \in CRs /\ NoCR \in CRs
    BY NoCRType
  <2>2. v \in CRs /\ Alike(i, v)
    BY <2>1 DEF CRs, Alike
  <2>3. /\ UNCHANGED <<view, crb>>
        /\ \/ cr' = [cr EXCEPT ![i] = v]
           \/ cr' = [cr EXCEPT ![i] = NoCR] /\ Gone(i, NoCR)
    BY <1>4 DEF ReleaseHold, Gone
  <2> HIDE DEF v
  <2> QED BY <2>1, <2>2, <2>3
<1>5. CASE Users
  <2>1. \/ \E i \in Instances, w \in BOOLEAN, c \in CertSpecs : CreateCR(i, w, c)
        \/ \E i \in Instances, w \in BOOLEAN, c \in CertSpecs : EditSpec(i, w, c)
        \/ \E i \in Instances, foreground \in BOOLEAN : DeleteCR(i, foreground)
        \/ UNCHANGED <<cr, crb, view>>
    BY <1>5 DEF Users, Drift, CreateSecret, DeleteSecret, ReinstallClusterRole, apiVars, cacheVars
  <2> QED BY <1>1, <1>2, <1>3, <2>1
<1>6. CASE Controllers
  <2>1. \/ \E i \in Instances : ReleaseHold(i)
        \/ UNCHANGED <<cr, crb, view>>
    BY <1>6 DEF Controllers, RollOut, BecomeUnavailable, CollectOne, CollectTheRest,
       GarbageCollect, cacheVars
  <2> QED BY <1>4, <2>1
<1>7. CASE Informers
  <2>1. /\ UNCHANGED <<cr, crb>>
        /\ \/ UNCHANGED view
           \/ \E i \in Instances : view' = [view EXCEPT ![i] = cr[i]]
    <3>1. CASE \E i \in Instances : SyncCR(i)
      BY <3>1 DEF SyncCR, apiVars
    <3>2. CASE \E i \in Instances : SyncDeployment(i) \/ Resync(i)
      BY <3>2 DEF SyncDeployment, Resync, apiVars, cacheVars
    <3>3. CASE \/ \E k \in Objects : SyncObject(k)
               \/ \E s \in Suffixes, b \in Bindings : SyncClusterRoleBinding(s, b)
      BY <3>3 DEF SyncObject, SyncClusterRoleBinding, apiVars
    <3> QED BY <1>7, <3>1, <3>2, <3>3 DEF Informers
  <2> QED BY <2>1
<1> QED BY <1>5, <1>6, <1>7 DEF ClusterNext

LEMMA LeavingCluster ==
  ASSUME IInv, LInv, TypeInv', ClusterNext, UNCHANGED passVars
  PROVE  LInv'
<1>1. ClusterStep
  BY ClusterNextWrites DEF IInv, GuardInv
<1>2. CASE UNCHANGED <<cr, view>>
  BY <1>2, LeavingKept DEF passVars
<1>3. CASE UNCHANGED cr /\ \E i \in Instances : view' = [view EXCEPT ![i] = cr[i]]
  BY <1>3, StepsDiffer
  DEF LInv, CachedLeaving, PassEntry, Protected, passVars, IInv, GuardInv, TypeInv, TypeOK,
      ClusterTypeOK
<1>4. CASE UNCHANGED view /\ \E i \in Instances, v \in CRs :
             /\ cr' = [cr EXCEPT ![i] = v]
             /\ Alike(i, v) \/ Gone(i, v) \/ Born(i, v) \/ Leaves(i, v)
  <2>1. PICK i \in Instances, v \in CRs :
             /\ cr' = [cr EXCEPT ![i] = v]
             /\ Alike(i, v) \/ Gone(i, v) \/ Born(i, v) \/ Leaves(i, v)
    BY <1>4
  <2>2. /\ \A c \in {v, cr[i]} : /\ c.exists \in BOOLEAN /\ c.deleting \in BOOLEAN
                               /\ c.finalizer \in BOOLEAN
        /\ ~NoCR.exists
    BY DEF IInv, GuardInv, TypeInv, TypeOK,
       ClusterTypeOK, CRs, NoCR
  <2>3. v.exists /\ v.finalizer /\ ~v.deleting => Protected(i) /\ ~cr[i].deleting
    BY <2>1, <2>2 DEF Alike, Gone, Born, Leaves, Protected
  <2> QED BY <1>4, <2>1, <2>3, LeavingChanged
<1> QED BY <1>1, <1>2, <1>3, <1>4 DEF ClusterStep

(***************************************************************************)
(* What a step may do to ClusterRoleBindings.                              *)
(***************************************************************************)
OwnGranted(s) == /\ Protected(cur)
                 /\ crb' = [crb EXCEPT ![s][BindingName[cur]] = {cur}]
OwnRevoked(s) == /\ s = "manager" \/ cr[cur].deleting \/ ~Protected(cur)
                 /\ crb' = [crb EXCEPT ![s][BindingName[cur]] = {}]

BindingStep == \/ UNCHANGED crb
               \/ cur \in Instances /\ \E s \in Suffixes : OwnGranted(s) \/ OwnRevoked(s)
               \/ LegacyDeleted

LEMMA BindingStepImplements ==
  ASSUME IInv, BindingInv, UNCHANGED cr, BindingStep
  PROVE  [Abstract!Next]_(Abstract!gvars)
<1> USE NamesAssumption DEF TypeInv, TypeOK, ClusterTypeOK
<1>1. Life' = Life /\ Guarded' = Guarded /\ TypeInv
  BY DEF Life, LifeOf, Guarded, BindingInv
<1>2. CASE UNCHANGED crb
  BY <1>1, <1>2 DEF Granted, Abstract!gvars
<1>3. ASSUME cur \in Instances, NEW s \in Suffixes, OwnGranted(s)
      PROVE  [Abstract!Next]_(Abstract!gvars)
  <2>1. \A j \in Instances, t \in Suffixes :
          j \in crb'[t][BindingName[j]]
            <=> j \in crb[t][BindingName[j]] \/ (j = cur /\ t = s)
    BY <1>1, <1>3, BindingNameInjective DEF OwnGranted
  <2>2. Granted' = Granted \cup {<<cur, s>>}
    BY <1>3, <2>1 DEF Granted
  <2>3. Guarded[cur]
    BY <1>3 DEF Guarded, OwnGranted, Protected
  <2>4. Abstract!Grant(cur, s)
    BY <1>1, <2>2, <2>3 DEF Abstract!Grant
  <2> QED BY <1>3, <2>4 DEF Abstract!Next
<1>4. ASSUME cur \in Instances, NEW s \in Suffixes, OwnRevoked(s)
      PROVE  [Abstract!Next]_(Abstract!gvars)
  <2>1. \A j \in Instances, t \in Suffixes :
          j \in crb'[t][BindingName[j]]
            <=> j \in crb[t][BindingName[j]] /\ ~(j = cur /\ t = s)
    BY <1>1, <1>4, BindingNameInjective DEF OwnRevoked
  <2>2. Granted' = Granted \ {<<cur, s>>}
    BY <2>1 DEF Granted
  <2>3. CASE s = "manager" \/ (cr[cur].deleting /\ Protected(cur))
    <3>1. s \in {"manager"} \/ Life[cur] = "leaving"
      BY <1>4, <2>3 DEF Life, LifeOf, Protected
    <3>2. Abstract!Revoke(cur, s)
      BY <1>1, <2>2, <3>1 DEF Abstract!Revoke
    <3> QED BY <1>4, <3>2 DEF Abstract!Next
  <2>4. CASE ~Protected(cur)
    <3>1. <<cur, s>> \notin Granted
      BY <1>4, <2>4 DEF IInv, AccessGuarded, BindingNeedsFinalizer, Protected, Granted
    <3>2. Granted' = Granted
      BY <2>2, <3>1
    <3> QED BY <1>1, <3>2 DEF Abstract!gvars
  <2> QED BY <1>4, <2>3, <2>4 DEF OwnRevoked
<1>5. CASE LegacyDeleted
  <2>1. PICK s \in Suffixes : /\ cur \in crb[s][LegacyName[cur]]
                              /\ crb' = [crb EXCEPT ![s][LegacyName[cur]] = {}]
    BY <1>5 DEF LegacyDeleted
  <2>2. ASSUME NEW j \in Instances, NEW t \in Suffixes, j \in crb[t][BindingName[j]]
        PROVE  t # s \/ BindingName[j] # LegacyName[cur]
    <3>1. CASE j = cur
      BY <3>1, LegacyNameDiffers
    <3>2. CASE j # cur
      BY <2>1, <2>2, <3>2 DEF BindingInv, OwnAlone
    <3> QED BY <3>1, <3>2
  <2>3. \A j \in Instances, t \in Suffixes :
          j \in crb'[t][BindingName[j]] <=> j \in crb[t][BindingName[j]]
    BY <1>1, <1>5, <2>1, <2>2 DEF LegacyDeleted
  <2>4. Granted' = Granted
    BY <2>3 DEF Granted
  <2> QED BY <1>1, <2>4 DEF Abstract!gvars
<1> QED BY <1>2, <1>3, <1>4, <1>5 DEF BindingStep

(***************************************************************************)
(* The steps of a pass that leave resources alone.                         *)
(***************************************************************************)
Onwards == /\ UNCHANGED <<cr, view, cur, mem>>
           /\ pc' \in Cleaning => pc \in Cleaning
           /\ pc' # "addFinalizer"
           /\ BindingStep

LEMMA ProvisioningOnwards ==
  ASSUME UNCHANGED <<cr, view, cur, mem>>, pc' \in Provisioning, BindingStep
  PROVE  Onwards
BY StepsDiffer DEF Onwards

LEMMA OwnedOnwards ==
  ASSUME TypeInv, pc \in Sequential, NEW k \in Kinds, NEW tagged \in BOOLEAN, NEW reported,
         ReconcileOwned(k, tagged, reported)
  PROVE  Onwards
<1>1. UNCHANGED <<cr, crb, view, cur, mem>>
  BY DEF ReconcileOwned, Proceed, ProceedOr, Goto, cacheVars
<1> QED BY <1>1, ReconcileOwnedType, ProvisioningOnwards DEF BindingStep

LEMMA RoleMissingOnwards ==
  ASSUME TypeInv, pc \in Sequential, NEW s, ClusterRoleMissing(s)
  PROVE  Onwards
<1>1. UNCHANGED <<cr, crb, view, cur, mem>>
  BY DEF ClusterRoleMissing, Goto, apiVars, cacheVars
<1> QED BY <1>1, ClusterRoleMissingType, ProvisioningOnwards DEF BindingStep

\* The guard was there when the pass began, and stays as long as it lasts.
LEMMA BindingOnwards ==
  ASSUME IInv, pc \in Sequential, NEW s \in Suffixes, NEW tagged \in BOOLEAN,
         tagged => s = "manager", NEW failed \in Provisioning,
         ReconcileClusterRoleBinding(s, tagged, failed)
  PROVE  Onwards
<1>1. UNCHANGED <<cr, view, cur, mem>>
  BY DEF ReconcileClusterRoleBinding, ProceedOr, Goto, cacheVars
<1>2. \/ crb' = crb
      \/ crb' = [crb EXCEPT ![s][BindingName[cur]] = IF tagged THEN {} ELSE {cur}]
  BY DEF ReconcileClusterRoleBinding
<1>3. cur \in Instances /\ Protected(cur)
  BY StepsDiffer DEF IInv, GuardInv, TypeInv, PassGuards, Sequential
<1>4. BindingStep
  BY <1>2, <1>3 DEF BindingStep, OwnGranted, OwnRevoked
<1> QED BY <1>1, <1>4, ReconcileClusterRoleBindingType, ProvisioningOnwards DEF IInv, GuardInv

LEMMA CleanupOnwards ==
  ASSUME IInv, LInv, NEW s \in Suffixes, NEW step \in Cleaning, NEW next \in Cleaning,
         CleanupClusterScopedPermissions(s, step, next)
  PROVE  Onwards
<1>1. /\ pc = step /\ pc' = next /\ pc # "idle"
      /\ UNCHANGED <<cr, view, cur, mem>>
  BY StepsDiffer DEF CleanupClusterScopedPermissions, Goto, cacheVars
<1>2. crb' = crb \/ crb' = [crb EXCEPT ![s][BindingName[cur]] = {}]
  BY DEF CleanupClusterScopedPermissions
<1>3. cur \in Instances /\ (cr[cur].deleting \/ ~Protected(cur))
  BY <1>1 DEF IInv, GuardInv, TypeInv, LInv, PassEntry
<1>4. BindingStep
  BY <1>2, <1>3 DEF BindingStep, OwnRevoked
<1> QED BY <1>1, <1>4, StepsDiffer DEF Onwards

LEMMA LegacyOnwards ==
  ASSUME TypeInv, NEW s \in Suffixes, NEW step \in LegacySteps,
         CleanupLegacyClusterRoleBinding(s, step)
  PROVE  Onwards
<1>1. UNCHANGED <<cr, view, cur, mem>>
  BY DEF CleanupLegacyClusterRoleBinding, Proceed, ProceedOr, Goto, cacheVars
<1>2. pc' \in Provisioning
  BY LegacyType DEF LegacySteps
<1>3. BindingStep
  BY LegacyWrites DEF BindingStep
<1> QED BY <1>1, <1>2, <1>3, ProvisioningOnwards

LEMMA ProvisionOnwards ==
  ASSUME IInv,
         \/ InstallationPreflightCheck
         \/ \E k \in Services : ReconcileService(k)
         \/ ReconcileAuthorinoServiceAccount
         \/ ReconcileManagerClusterRoleBinding
         \/ ReconcileManagerRoleBinding
         \/ ReconcileManagerAuthClusterRoleBinding
         \/ ReconcileLeaderElectionRole
         \/ ReconcileLeaderElectionRoleBinding
         \/ ReconcileDeployment
  PROVE  Onwards
<1>0. TypeInv /\ mem.wide \in BOOLEAN /\ (~mem.wide) \in BOOLEAN
  BY DEF IInv, GuardInv, TypeInv, TypeOK, CRs
<1> USE DEF Sequential, Provisioning, Services, Kinds, OwnKinds, Suffixes
<1>1. CASE \E k \in Services : ReconcileService(k)
  BY <1>0, <1>1, OwnedOnwards DEF ReconcileService
<1>2. CASE ReconcileAuthorinoServiceAccount
  BY <1>0, <1>2, OwnedOnwards DEF ReconcileAuthorinoServiceAccount
<1>3. CASE ReconcileManagerClusterRoleBinding
  <2> DEFINE tagged == ~mem.wide
             failed == IF mem.wide THEN "markFailed" ELSE "markUnrevoked"
  <2>1. /\ pc = "managerClusterRoleBinding"
        /\ \/ ClusterRoleMissing("manager")
           \/ ReconcileClusterRoleBinding("manager", tagged, failed)
    BY <1>3 DEF ReconcileManagerClusterRoleBinding
  <2>2. tagged \in BOOLEAN /\ failed \in Provisioning
    BY <1>0
  <2> HIDE DEF tagged, failed
  <2> QED BY <1>0, <2>1, <2>2, BindingOnwards, RoleMissingOnwards
<1>4. CASE ReconcileManagerRoleBinding
  <2> DEFINE tagged == mem.wide
  <2>1. /\ pc = "managerRoleBinding"
        /\ \/ ClusterRoleMissing("manager")
           \/ ReconcileOwned("managerRoleBinding", tagged, BindingErrors)
    BY <1>4 DEF ReconcileManagerRoleBinding
  <2>2. tagged \in BOOLEAN
    BY <1>0
  <2> HIDE DEF tagged
  <2> QED BY <1>0, <2>1, <2>2, OwnedOnwards, RoleMissingOnwards
<1>5. CASE ReconcileManagerAuthClusterRoleBinding
  BY <1>0, <1>5, BindingOnwards, RoleMissingOnwards DEF ReconcileManagerAuthClusterRoleBinding
<1>6. CASE ReconcileLeaderElectionRole
  BY <1>0, <1>6, OwnedOnwards DEF ReconcileLeaderElectionRole
<1>7. CASE ReconcileLeaderElectionRoleBinding
  BY <1>0, <1>7, OwnedOnwards DEF ReconcileLeaderElectionRoleBinding
<1>8. CASE InstallationPreflightCheck
  <2>1. pc' \in Provisioning
    BY <1>8, AfterType DEF InstallationPreflightCheck, Goto
  <2>2. UNCHANGED <<cr, crb, view, cur, mem>>
    BY <1>8 DEF InstallationPreflightCheck, Goto, apiVars, cacheVars
  <2> QED BY <2>1, <2>2, ProvisioningOnwards DEF BindingStep
<1>9. CASE ReconcileDeployment
  <2>1. pc' \in Provisioning
    BY <1>9 DEF ReconcileDeployment, Goto
  <2>2. UNCHANGED <<cr, crb, view, cur, mem>>
    BY <1>9 DEF ReconcileDeployment, Goto, cacheVars
  <2> QED BY <2>1, <2>2, ProvisioningOnwards DEF BindingStep
<1> QED BY <1>1, <1>2, <1>3, <1>4, <1>5, <1>6, <1>7, <1>8, <1>9

(***************************************************************************)
(* Every step keeps LInv and implements Grants.                            *)
(***************************************************************************)
Implements == LInv' /\ [Abstract!Next]_(Abstract!gvars)

LEMMA OnwardsImplements ==
  ASSUME IInv, BindingInv, LInv, Onwards
  PROVE  Implements
BY LeavingKept, BindingStepImplements DEF Onwards, Implements

\* Neither resources nor bindings change.
LEMMA NothingWritten ==
  ASSUME IInv, BindingInv, LInv', UNCHANGED <<cr, crb>>
  PROVE  Implements
BY BindingStepImplements DEF Implements, BindingStep

LEMMA AddFinalizerImplements ==
  ASSUME IInv, BindingInv, LInv, TypeInv', AddFinalizer
  PROVE  Implements
<1> DEFINE v == [mem EXCEPT !.finalizer = TRUE]
<1>1. /\ cur \in Instances /\ pc' = "idle" /\ UNCHANGED <<view, crb>>
      /\ \/ UNCHANGED cr
         \/ /\ cr' = [cr EXCEPT ![cur] = v]
            /\ cr[cur] = mem /\ view[cur] = mem /\ mem \in CRs
            /\ mem.exists /\ ~mem.deleting
  BY AddFinalizerWrites
<1>2. CASE UNCHANGED cr
  <2>1. LInv'
    BY <1>1, <1>2, StepsDiffer DEF LInv, CachedLeaving, PassEntry, Protected
  <2> QED BY <1>1, <1>2, <2>1, NothingWritten
<1>3. CASE /\ cr' = [cr EXCEPT ![cur] = v]
           /\ cr[cur] = mem /\ view[cur] = mem /\ mem \in CRs
           /\ mem.exists /\ ~mem.deleting
  <2>1. v \in CRs /\ v.exists /\ ~v.deleting /\ v.finalizer
    BY <1>3 DEF CRs
  <2>2. ResourceStep(cur, v)
    BY <1>3, <2>1 DEF ResourceStep, Secured
  <2>3. ~view[cur].deleting /\ pc' \notin Cleaning
    BY <1>1, <1>3, StepsDiffer
  <2> HIDE DEF v
  <2>4. LInv'
    BY <1>1, <1>3, <2>3, LeavingChanged
  <2>5. [Abstract!Next]_(Abstract!gvars)
    BY <1>1, <1>3, <2>1, <2>2, ResourceStepImplements DEF BindingInv
  <2> QED BY <2>4, <2>5 DEF Implements
<1> QED BY <1>1, <1>2, <1>3

LEMMA RemoveFinalizerImplements ==
  ASSUME IInv, BindingInv, LInv, TypeInv', RemoveFinalizer
  PROVE  Implements
<1> DEFINE v == IF mem.held THEN [mem EXCEPT !.finalizer = FALSE] ELSE NoCR
<1>1. /\ cur \in Instances /\ pc' = "idle" /\ UNCHANGED <<view, crb>>
      /\ \/ UNCHANGED cr
         \/ /\ cr' = [cr EXCEPT ![cur] = v]
            /\ cr[cur] = mem /\ view[cur] = mem /\ mem \in CRs
            /\ mem.exists /\ mem.deleting /\ mem.finalizer
            /\ \A s \in Suffixes : crb[s][BindingName[cur]] = {}
  BY RemoveFinalizerWrites
<1>2. CASE UNCHANGED cr
  <2>1. LInv'
    BY <1>1, <1>2, StepsDiffer DEF LInv, CachedLeaving, PassEntry, Protected
  <2> QED BY <1>1, <1>2, <2>1, NothingWritten
<1>3. CASE /\ cr' = [cr EXCEPT ![cur] = v]
           /\ cr[cur] = mem /\ view[cur] = mem /\ mem \in CRs
           /\ mem.exists /\ mem.deleting /\ mem.finalizer
           /\ \A s \in Suffixes : crb[s][BindingName[cur]] = {}
  <2>1. /\ v \in CRs /\ ~v.finalizer
        /\ v = NoCR \/ (v.exists /\ v.deleting /\ ~v.finalizer)
    BY <1>3, NoCRType DEF CRs, NoCR
  <2>2. ResourceStep(cur, v)
    BY <1>3, <2>1 DEF ResourceStep, Released
  <2> HIDE DEF v
  <2>3. LInv'
    BY <1>1, <1>3, <2>1, LeavingChanged
  <2>4. [Abstract!Next]_(Abstract!gvars)
    BY <1>1, <1>3, <2>1, <2>2, ResourceStepImplements DEF BindingInv
  <2> QED BY <2>3, <2>4 DEF Implements
<1> QED BY <1>1, <1>2, <1>3

LEMMA StatusImplements ==
  ASSUME IInv, BindingInv, LInv, TypeInv', NEW step \in Provisioning,
         NEW status \in StatusValues, NEW failed,
         \/ UpdateStatusConditions(step, status, failed)
         \/ SetStatusFailed /\ status = "Failed"
  PROVE  Implements
<1> DEFINE v == [cr[cur] EXCEPT !.status = status]
<1>1. /\ cur \in Instances /\ pc' \in Provisioning \cup {"idle"} /\ UNCHANGED <<view, crb>>
      /\ UNCHANGED cr \/ cr' = [cr EXCEPT ![cur] = v]
  BY StatusWrites
<1>2. CASE UNCHANGED cr
  <2>1. LInv'
    BY <1>1, <1>2, StepsDiffer DEF LInv, CachedLeaving, PassEntry, Protected
  <2> QED BY <1>1, <1>2, <2>1, NothingWritten
<1>3. CASE cr' = [cr EXCEPT ![cur] = v]
  <2>1. cr[cur] \in CRs
    BY <1>1 DEF IInv, GuardInv, TypeInv, TypeOK,
      ClusterTypeOK
  <2>2. v \in CRs /\ Alike(cur, v)
    BY <2>1 DEF CRs, Alike
  <2>3. v.exists /\ v.finalizer /\ ~v.deleting => Protected(cur) /\ ~cr[cur].deleting
    BY <2>1 DEF CRs, Protected
  <2> HIDE DEF v
  <2>4. LInv'
    BY <1>1, <1>3, <2>3, LeavingChanged
  <2>5. [Abstract!Next]_(Abstract!gvars)
    BY <1>1, <1>3, <2>2, ResourceStepImplements DEF BindingInv, ResourceStep
  <2> QED BY <2>4, <2>5 DEF Implements
<1> QED BY <1>1, <1>2, <1>3

LEMMA ClusterImplements ==
  ASSUME IInv, BindingInv, LInv, TypeInv', ClusterNext, UNCHANGED passVars
  PROVE  Implements
<1>1. ClusterStep /\ LInv'
  BY ClusterNextWrites, LeavingCluster DEF IInv, GuardInv
<1>2. CASE UNCHANGED cr
  BY <1>1, <1>2, NothingWritten DEF ClusterStep
<1>3. ASSUME NEW i \in Instances, NEW v \in CRs, cr' = [cr EXCEPT ![i] = v],
             Alike(i, v) \/ Gone(i, v) \/ Born(i, v) \/ Leaves(i, v)
      PROVE  Implements
  <2>1. UNCHANGED crb
    BY <1>1 DEF ClusterStep
  <2>2. [Abstract!Next]_(Abstract!gvars)
    BY <1>3, <2>1, ResourceStepImplements DEF BindingInv, ResourceStep
  <2> QED BY <1>1, <2>2 DEF Implements
<1> QED BY <1>1, <1>2, <1>3 DEF ClusterStep

LEMMA PassImplements ==
  ASSUME IInv, BindingInv, LInv, TypeInv', Pass
  PROVE  Implements
<1> USE DEF Suffixes, Cleaning, LegacySteps, StatusValues
<1>1. CASE CleanupClusterScopedPermissions("manager", "cleanupManager", "cleanupK8sAuth")
  BY <1>1, CleanupOnwards, OnwardsImplements
<1>2. CASE CleanupClusterScopedPermissions("k8sAuth", "cleanupK8sAuth", "removeFinalizer")
  BY <1>2, CleanupOnwards, OnwardsImplements
<1>3. CASE CleanupLegacyClusterRoleBinding("manager", "legacyManager")
  BY <1>3, LegacyOnwards, OnwardsImplements DEF BindingInv
<1>4. CASE CleanupLegacyClusterRoleBinding("k8sAuth", "legacyK8sAuth")
  BY <1>4, LegacyOnwards, OnwardsImplements DEF BindingInv
<1>5. CASE \/ UpdateStatusConditions("markFailed", "Failed", TRUE)
           \/ UpdateStatusConditions("markReady", "Ready", FALSE)
           \/ UpdateStatusConditions("markNotReady", "NotReady", FALSE)
  BY <1>5, StatusImplements DEF Provisioning
<1>6. CASE SetStatusFailed
  BY <1>6, StatusImplements DEF Provisioning
<1> QED
  BY <1>1, <1>2, <1>3, <1>4, <1>5, <1>6, AddFinalizerImplements, RemoveFinalizerImplements,
     ProvisionOnwards, OnwardsImplements
  DEF Pass

LEMMA NextImplements ==
  ASSUME IInv, BindingInv, LInv, [Next]_vars
  PROVE  Implements
<1>1. TypeInv'
  BY NextType DEF IInv, GuardInv
<1>2. ASSUME NEW i \in Instances, Reconcile(i) PROVE Implements
  BY <1>2, LeavingReconcile, NothingWritten DEF Reconcile, apiVars
<1>3. CASE (\E i \in Instances : ReconcileReadError(i)) \/ UNCHANGED vars
  <2>1. UNCHANGED <<cr, crb, view, pc, cur, mem>>
    BY <1>3 DEF ReconcileReadError, vars, clusterVars, passVars, apiVars, cacheVars
  <2> QED BY <2>1, LeavingKept, NothingWritten
<1>4. CASE Restart
  <2>1. UNCHANGED <<cr, crb>> /\ view' = cr /\ pc' = "idle"
    BY <1>4 DEF Restart, apiVars
  <2>2. LInv'
    BY <2>1, StepsDiffer DEF LInv, CachedLeaving, PassEntry
  <2> QED BY <2>1, <2>2, NothingWritten
<1> QED
  BY <1>1, <1>2, <1>3, <1>4, PassImplements, ClusterImplements DEF Next

LEMMA InitImplements == Init => Abstract!Init
<1> SUFFICES ASSUME Init PROVE Abstract!Init
  OBVIOUS
<1>1. PICK w \in [Upgraded -> BOOLEAN] :
        /\ cr = [i \in Instances |->
                   IF i \in Upgraded
                   THEN [NoCR EXCEPT !.exists = TRUE, !.finalizer = TRUE,
                                     !.wide = w[i], !.status = "Ready"]
                   ELSE NoCR]
        /\ crb = [s \in Suffixes |-> [b \in Bindings |->
                    {i \in Upgraded : LegacyName[i] = b /\ (s = "manager" => w[i])}]]
  BY DEF Init, ClusterInit
<1>2. ASSUME NEW i \in Instances
      PROVE  /\ cr[i].exists <=> i \in Upgraded
             /\ cr[i].finalizer <=> i \in Upgraded
             /\ ~cr[i].deleting
  BY <1>1 DEF NoCR
<1>3. \A i \in Instances : /\ LifeOf(i) \in {"absent", "live"}
                           /\ (cr[i].exists /\ cr[i].finalizer) = (LifeOf(i) = "live")
  <2>1. ASSUME NEW i \in Instances
        PROVE  /\ LifeOf(i) \in {"absent", "live"}
               /\ (cr[i].exists /\ cr[i].finalizer) <=> (LifeOf(i) = "live")
    BY <1>2 DEF LifeOf
  <2> QED BY <2>1
<1>4. /\ Life \in [Instances -> {"absent", "live"}]
      /\ Guarded = [i \in Instances |-> Life[i] = "live"]
  <2>1. Life \in [Instances -> {"absent", "live"}]
    BY <1>3 DEF Life
  <2>2. \A i \in Instances : Life[i] = LifeOf(i)
    BY DEF Life
  <2>3. Guarded = [i \in Instances |-> Life[i] = "live"]
    BY <1>3, <2>2, Zenon DEF Guarded
  <2> QED BY <2>1, <2>3
<1>5. ASSUME NEW i \in Instances, NEW s \in Suffixes, i \in crb[s][BindingName[i]]
      PROVE  FALSE
  <2>1. LegacyName[i] = BindingName[i]
    BY <1>1, <1>5, NamesAssumption
  <2> QED BY <2>1, LegacyNameDiffers
<1>6. Granted = {}
  BY <1>5 DEF Granted
<1> QED BY <1>4, <1>6 DEF Abstract!Init

\* The operator is an implementation of Grants if no deletion fails: however
\* many instances there are, whatever their binding names, and whatever lags,
\* fails or restarts, a principal has access only under a guard, a live one
\* loses none that it must have, and one that is released has none left.
THEOREM OperatorImplementsGrants ==
  ASSUME "delete" \notin FaultKinds
  PROVE  Spec => GrantsImplemented
<1>1. Init => IInv /\ BindingInv /\ LInv /\ Abstract!Init
  BY InitSafe, InitBinding, LeavingInit, InitImplements DEF IInv, GuardInv, NoDeleteFails
<1>2. IInv /\ BindingInv /\ LInv /\ [Next]_vars
        => IInv' /\ BindingInv' /\ LInv' /\ [Abstract!Next]_(Abstract!gvars)
  BY NextSafe, NextBinding, NextImplements DEF Implements, IInv, GuardInv, NoDeleteFails
<1> QED BY <1>1, <1>2, PTL DEF Spec, GrantsImplemented, Abstract!Spec
=============================================================================
