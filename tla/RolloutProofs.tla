---------------------------- MODULE RolloutProofs ----------------------------
(***************************************************************************)
(* Field ownership, and what passes do to the fields of users and to the   *)
(* recorded times, for all resources, edits, fields and bounds.            *)
(***************************************************************************)
EXTENDS Rollout, TLAPS

(***************************************************************************)
(* Server-side apply.                                                      *)
(***************************************************************************)

\* What is applied is there afterwards.
LEMMA AppliedHas ==
  ASSUME NEW object, NEW conf
  PROVE  Has(Applied(object, conf), conf)
BY DEF Has, Applied, Owned

\* Every field has an owner.
AllOwned(object) == \A f \in DOMAIN object : object[f].by # {}

\* An object with owners stays one, and an apply leaves nothing more on it than
\* what others than the operator own.
LEMMA AppliedExactly ==
  ASSUME NEW object, NEW conf, AllOwned(object)
  PROVE  Exactly(Applied(object, conf), conf) /\ AllOwned(Applied(object, conf))
<1> DEFINE new == Applied(object, conf)
<1>1. ASSUME NEW f \in DOMAIN new, f \notin DOMAIN conf
      PROVE  \E m \in new[f].by : m # Operator
  <2>1. f \in Kept(object) /\ new[f] = Owned(object[f].val, object[f].by \ {Operator})
    BY <1>1 DEF Applied
  <2>2. new[f].by = object[f].by \ {Operator}
    BY <2>1 DEF Owned
  <2>3. object[f].by # {} /\ object[f].by # {Operator}
    BY <2>1 DEF Kept, AllOwned
  <2> QED BY <2>2, <2>3
<1>2. ASSUME NEW f \in DOMAIN new, f \in DOMAIN conf PROVE Operator \in new[f].by
  BY <1>2 DEF Applied, Owned
<1> QED BY <1>1, <1>2, AppliedHas DEF Exactly, AllOwned

LEMMA CreatedExactly ==
  ASSUME NEW conf
  PROVE  Exactly(Created(conf), conf) /\ AllOwned(Created(conf))
BY DEF Exactly, AllOwned, Has, Created, Owned

\* An apply leaves alone what users own, except for the fields it sets itself.
LEMMA AppliedKeeps ==
  ASSUME NEW object, NEW conf, NEW f \in DOMAIN object, User \in object[f].by
  PROVE  /\ f \in DOMAIN Applied(object, conf)
         /\ \/ /\ Applied(object, conf)[f].val = object[f].val
               /\ User \in Applied(object, conf)[f].by
            \/ f \in DOMAIN conf /\ Applied(object, conf)[f].val = conf[f]
<1> DEFINE new == Applied(object, conf)
<1>1. f \in Kept(object) /\ User # Operator
  BY ManagersAssumption DEF Kept
<1>2. f \in DOMAIN new
  BY <1>1 DEF Applied
<1>3. CASE f \notin DOMAIN conf
  <2>1. new[f] = Owned(object[f].val, object[f].by \ {Operator})
    BY <1>2, <1>3 DEF Applied
  <2> QED BY <1>1, <1>2, <2>1 DEF Owned
<1>4. CASE f \in DOMAIN conf
  BY <1>2, <1>4, AppliedHas DEF Has
<1> QED BY <1>2, <1>3, <1>4

\* Once one configuration was created and one applied, a third never removes what
\* the first two have in common: fields of the creation stay for good.
THEOREM CreationStays ==
  ASSUME NEW made, NEW first, NEW second, NEW f \in DOMAIN made, f \notin DOMAIN second,
         f \in DOMAIN first => first[f] = made[f]
  PROVE  LET object == Applied(Applied(Created(made), first), second)
         IN  f \in DOMAIN object /\ object[f].val = made[f]
<1> DEFINE one == Created(made)
           two == Applied(one, first)
<1>1. f \in DOMAIN one /\ one[f].val = made[f] /\ one[f].by = {Creator} /\ f \in Kept(one)
  BY ManagersAssumption DEF Created, Owned, Kept
<1>2. f \in DOMAIN two /\ two[f].val = made[f] /\ Creator \in two[f].by
  <2>1. f \in DOMAIN two
    BY <1>1 DEF Applied
  <2>2. CASE f \in DOMAIN first
    <3>1. two[f] = Owned(first[f], one[f].by \cup {Operator})
      BY <1>1, <2>1, <2>2 DEF Applied
    <3> QED BY <1>1, <2>1, <2>2, <3>1 DEF Owned
  <2>3. CASE f \notin DOMAIN first
    <3>1. two[f] = Owned(one[f].val, one[f].by \ {Operator})
      BY <1>1, <2>1, <2>3 DEF Applied
    <3> QED BY <1>1, <2>1, <3>1, ManagersAssumption DEF Owned
  <2> QED BY <2>2, <2>3
<1>3. f \in Kept(two)
  BY <1>2, ManagersAssumption DEF Kept
<1> HIDE DEF two
<1>4. f \in DOMAIN Applied(two, second)
  BY <1>3 DEF Applied
<1>5. Applied(two, second)[f] = Owned(two[f].val, two[f].by \ {Operator})
  BY <1>4 DEF Applied
<1>6. Applied(two, second)[f].val = made[f]
  BY <1>2, <1>5 DEF Owned
<1> QED BY <1>4, <1>6 DEF two

(***************************************************************************)
(* Passes and the fields of users.                                         *)
(***************************************************************************)
ObjectsOK == DOMAIN objects \subseteq Parts /\ edits \in Nat

\* What a step may do to the objects.
LEMMA ObjectSteps ==
  ASSUME [Next]_vars
  PROVE  \/ UNCHANGED objects
         \/ \E p \in Parts : \E object \in Results(p) :
              objects' = Put(p, object) /\ UNCHANGED edits
         \/ \E field : EditDeployment(field)
<1>1. CASE UNCHANGED vars
  BY <1>1 DEF vars
<1>2. ASSUME NEW p \in Parts, ReconcileService(p)
      PROVE  \/ UNCHANGED objects
             \/ \E object \in Results(p) :
                  objects' = Put(p, object) /\ UNCHANGED edits
  BY <1>2 DEF ReconcileService
<1>3. ASSUME ReconcileDeployment
      PROVE  /\ "deployment" \in Parts
             /\ \/ UNCHANGED objects
                \/ \E object \in Results("deployment") :
                     /\ objects' = Put("deployment", object)
                     /\ UNCHANGED edits
  BY <1>3 DEF ReconcileDeployment, Parts
<1>4. ASSUME NEW field, NEW value, EditSpec(field, value) PROVE UNCHANGED objects
  BY <1>4 DEF EditSpec
<1> QED BY <1>1, <1>2, <1>3, <1>4
     DEF Next, vars, Pass, Reconcile, UpdateStatusConditions, Sync, RollOut

LEMMA ObjectsAreOK == Spec => []ObjectsOK
<1>1. Init => ObjectsOK
  BY DEF Init, ObjectsOK
<1>2. ObjectsOK /\ [Next]_vars => ObjectsOK'
  <2> SUFFICES ASSUME ObjectsOK, [Next]_vars PROVE ObjectsOK'
    OBVIOUS
  <2>1. DOMAIN objects' \subseteq Parts
    <3>1. ASSUME NEW field, EditDeployment(field) PROVE DOMAIN objects' \subseteq Parts
      BY <3>1 DEF EditDeployment, ObjectsOK
    <3> QED BY <3>1, ObjectSteps DEF ObjectsOK, Put
  <2>2. edits' \in Nat
    <3>1. ASSUME NEW field, EditDeployment(field) PROVE edits' \in Nat
      BY <3>1 DEF EditDeployment, ObjectsOK
    <3>2. ASSUME NEW field, NEW value, EditSpec(field, value) PROVE edits' \in Nat
      BY <3>2 DEF EditSpec, ObjectsOK
    <3> QED BY <3>1, <3>2 DEF ObjectsOK, Next, vars, Pass, Reconcile, ReconcileService,
                              ReconcileDeployment, UpdateStatusConditions, Sync, RollOut
  <2> QED BY <2>1, <2>2 DEF ObjectsOK
<1> QED BY <1>1, <1>2, PTL DEF Spec

\* No pass changes what users set, unless its spec sets the same field.
THEOREM UsersKeep == Spec => UserFieldsKept
<1> DEFINE Kp(part) ==
      LET old == objects[part] new == objects'[part]
      IN  edits' = edits => \A f \in DOMAIN old : User \in old[f].by =>
            /\ part \in DOMAIN objects' /\ f \in DOMAIN new
            /\ \/ new[f].val = old[f].val /\ User \in new[f].by
               \/ \E conf \in Desired(mem.cr, part) : f \in DOMAIN conf /\ new[f].val = conf[f]
<1>1. ASSUME ObjectsOK, [Next]_vars, NEW part \in DOMAIN objects PROVE Kp(part)
  <2>1. CASE UNCHANGED objects
    BY <2>1
  <2>2. ASSUME NEW p \in Parts, NEW conf \in Desired(mem.cr, p),
               objects' = Put(p, CreateOrApply(p, conf))
        PROVE  Kp(part)
    <3>1. part \in DOMAIN objects'
      BY <2>2 DEF Put
    <3>2. CASE part # p
      BY <2>2, <3>1, <3>2 DEF Put
    <3>3. CASE part = p
      <4>1. objects'[part] = Applied(objects[part], conf)
        BY <2>2, <3>1, <3>3 DEF CreateOrApply, Put
      <4> QED BY <2>2, <3>1, <3>3, <4>1, AppliedKeeps
    <3> QED BY <3>2, <3>3
  <2>3. ASSUME NEW field, EditDeployment(field) PROVE edits' # edits
    BY <1>1, <2>3 DEF EditDeployment, ObjectsOK
  <2>4. ASSUME NEW p \in Parts, NEW object \in Results(p), objects' = Put(p, object)
        PROVE  Kp(part)
    BY <2>2, <2>4 DEF Results
  <2> HIDE DEF Kp
  <2> QED BY <1>1, <2>1, <2>3, <2>4, ObjectSteps DEF Kp
<1>2. ObjectsOK /\ [Next]_vars => [\A part \in DOMAIN objects : Kp(part)]_vars
  BY <1>1
<1> HIDE DEF Kp
<1>3. Spec => [][\A part \in DOMAIN objects : Kp(part)]_vars
  BY <1>2, ObjectsAreOK, PTL DEF Spec
<1> QED BY <1>3 DEF Kp, UserFieldsKept

(***************************************************************************)
(* Recorded times.                                                         *)
(***************************************************************************)
Times == {"latest", "earlier", "later", "later still"}

Timed(c) == c # None => DOMAIN c = {"status", "reason", "since"} /\ c.since \in Times

\* Copies hold recorded times, not the time of a write that is under way.
TimesRecorded == /\ Timed(cond)
                 /\ DOMAIN view = {"cr", "cond"} /\ Timed(view.cond)
                 /\ pc # "idle" => Timed(mem.cond)

LEMMA TimesAreRecorded == Spec => []TimesRecorded
<1>1. Init => TimesRecorded
  BY DEF Init, TimesRecorded, Timed
<1>2. ASSUME TimesRecorded, [Next]_vars PROVE TimesRecorded'
  <2>1. CASE UNCHANGED vars
    BY <1>2, <2>1 DEF vars, TimesRecorded, Timed
  <2>2. CASE Reconcile
    BY <1>2, <2>2 DEF Reconcile, TimesRecorded, Timed
  <2>3. ASSUME NEW p \in Parts, ReconcileService(p) PROVE TimesRecorded'
    BY <1>2, <2>3 DEF ReconcileService, TimesRecorded, Timed, Parts
  <2>4. CASE ReconcileDeployment
    BY <1>2, <2>4 DEF ReconcileDeployment, TimesRecorded, Timed
  <2>5. ASSUME NEW step, NEW status, NEW reason, step # "idle",
               UpdateStatusConditions(step, status, reason)
        PROVE  TimesRecorded'
    <3> DEFINE new == AddOrUpdateStatusConditions(mem.cond, status, reason)
    <3>1. /\ new.since \in Times \cup {"now"}
          /\ DOMAIN new = {"status", "reason", "since"}
      BY <1>2, <2>5 DEF UpdateStatusConditions, AddOrUpdateStatusConditions, Condition,
                        TimesRecorded, Timed
    <3>2. Recorded(new) \in Times
      BY <3>1 DEF Recorded, Times
    <3>3. pc' = "idle"
      BY <2>5 DEF UpdateStatusConditions
    <3>4. CASE UNCHANGED <<cond, view>>
      BY <1>2, <3>3, <3>4 DEF TimesRecorded, Timed
    <3>5. CASE cond' = [new EXCEPT !.since = Recorded(new)] /\ view' = Outdated(view, new)
      <4> HIDE DEF new
      <4>1. Timed(cond')
        BY <3>1, <3>2, <3>5 DEF Timed
      <4>2. DOMAIN view' = {"cr", "cond"} /\ Timed(view'.cond)
        <5>1. CASE view' = view
          BY <1>2, <5>1 DEF TimesRecorded, Timed
        <5>2. CASE view' # view
          <6>1. view' = [view EXCEPT !.cond.since = "earlier"] /\ view.cond # None
            BY <3>5, <5>2 DEF Outdated
          <6>2. view'.cond = [view.cond EXCEPT !.since = "earlier"]
            BY <1>2, <6>1 DEF TimesRecorded
          <6>3. DOMAIN view.cond = {"status", "reason", "since"}
            BY <1>2, <6>1 DEF TimesRecorded, Timed
          <6>4. DOMAIN view'.cond = {"status", "reason", "since"} /\ view'.cond.since = "earlier"
            BY <6>2, <6>3
          <6> QED BY <1>2, <6>1, <6>4 DEF TimesRecorded, Timed, Times
        <5> QED BY <5>1, <5>2
      <4> QED BY <3>3, <4>1, <4>2 DEF TimesRecorded
    <3> QED BY <2>5, <3>4, <3>5 DEF UpdateStatusConditions
  <2>6. CASE Sync
    BY <1>2, <2>6 DEF Sync, Latest, TimesRecorded, Timed
  <2>7. CASE RollOut
    BY <1>2, <2>7 DEF RollOut, TimesRecorded, Timed
  <2>8. ASSUME NEW field, NEW value, EditSpec(field, value) PROVE TimesRecorded'
    BY <1>2, <2>8 DEF EditSpec, TimesRecorded, Timed
  <2>9. ASSUME NEW field, EditDeployment(field) PROVE TimesRecorded'
    BY <1>2, <2>9 DEF EditDeployment, TimesRecorded, Timed
  <2> QED BY <1>2, <2>1, <2>2, <2>3, <2>4, <2>5, <2>6, <2>7, <2>8, <2>9 DEF Next, Pass
<1> QED BY <1>1, <1>2, PTL DEF Spec

\* A pass that read the condition as it is records a new time for a transition
\* and only for a transition.
THEOREM TransitionsTimed == Spec => TransitionTimeKept
<1> DEFINE A == cond' # cond /\ mem.cond = cond =>
                  cond'.since = IF cond = None \/ cond'.status # cond.status THEN "latest"
                                                                            ELSE cond.since
<1>1. ASSUME TimesRecorded, [Next]_vars PROVE A
  <2>1. CASE cond' = cond
    BY <2>1
  <2>2. ASSUME NEW step, NEW status, NEW reason, UpdateStatusConditions(step, status, reason),
               mem.cond = cond, cond' # cond
        PROVE  A
    <3> DEFINE new == AddOrUpdateStatusConditions(cond, status, reason)
    <3>1. cond' = [new EXCEPT !.since = Recorded(new)]
      BY <2>2 DEF UpdateStatusConditions
    <3>2. CASE cond = None \/ cond.status # status
      <4>1. new = Condition(status, reason, "now")
        BY <3>2 DEF AddOrUpdateStatusConditions
      <4>2. new.status = status /\ new.since = "now" /\ DOMAIN new = {"status", "reason", "since"}
        BY <4>1 DEF Condition
      <4> HIDE DEF new
      <4>3. Recorded(new) = "latest"
        BY <3>2, <4>2 DEF Recorded
      <4>4. cond'.since = "latest" /\ cond'.status = status
        BY <3>1, <4>2, <4>3
      <4> QED BY <3>2, <4>4
    <3>3. CASE cond # None /\ cond.status = status
      <4>1. new = Condition(status, reason, cond.since)
        BY <3>3 DEF AddOrUpdateStatusConditions
      <4>2. /\ new.status = status /\ new.since = cond.since
            /\ DOMAIN new = {"status", "reason", "since"}
        BY <4>1 DEF Condition
      <4> HIDE DEF new
      <4>3. cond.since # "now"
        BY <1>1, <3>3 DEF TimesRecorded, Timed, Times
      <4>4. Recorded(new) = cond.since
        BY <3>3, <4>2, <4>3 DEF Recorded
      <4>5. cond'.since = cond.since /\ cond'.status = status
        BY <3>1, <4>2, <4>4
      <4> QED BY <3>3, <4>5
    <3> QED BY <3>2, <3>3
  <2>3. cond' = cond \/ \E step, status, reason : UpdateStatusConditions(step, status, reason)
    BY <1>1 DEF Next, vars, Pass, Reconcile, ReconcileService, ReconcileDeployment,
                Sync, RollOut, EditSpec, EditDeployment
  <2> QED BY <2>1, <2>2, <2>3
<1>2. TimesRecorded /\ [Next]_vars => [A]_vars
  BY <1>1
<1> HIDE DEF A
<1>3. Spec => [][A]_vars
  BY <1>2, TimesAreRecorded, PTL DEF Spec
<1> QED BY <1>3 DEF A, TransitionTimeKept

(***************************************************************************)
(* What is there once the operator rests.                                  *)
(***************************************************************************)

\* Every field of every object has an owner.
OwnersInv == \A part \in DOMAIN objects : AllOwned(objects[part])

\* What was created or applied is there, and nothing else of the operator's own.
LEMMA WrittenExactly ==
  ASSUME OwnersInv, NEW part, NEW conf
  PROVE  Exactly(CreateOrApply(part, conf), conf) /\ AllOwned(CreateOrApply(part, conf))
<1>1. CASE part \in DOMAIN objects
  BY <1>1, AppliedExactly DEF CreateOrApply, OwnersInv
<1>2. CASE part \notin DOMAIN objects
  BY <1>2, CreatedExactly DEF CreateOrApply
<1> QED BY <1>1, <1>2

LEMMA OwnersKept == OwnersInv /\ [Next]_vars => OwnersInv'
<1> SUFFICES ASSUME OwnersInv, [Next]_vars PROVE OwnersInv'
  OBVIOUS
<1>1. CASE UNCHANGED objects
  BY <1>1 DEF OwnersInv
<1>2. ASSUME NEW p \in Parts, NEW object \in Results(p), objects' = Put(p, object)
      PROVE  OwnersInv'
  <2>1. AllOwned(object)
    BY WrittenExactly DEF Results
  <2>2. /\ DOMAIN objects' = DOMAIN objects \cup {p}
        /\ \A q \in DOMAIN objects' : objects'[q] = IF q = p THEN object ELSE objects[q]
    BY <1>2 DEF Put
  <2> QED BY <2>1, <2>2 DEF OwnersInv
<1>3. ASSUME NEW field, EditDeployment(field) PROVE OwnersInv'
  <2> DEFINE new == SetByUser(objects["deployment"], field, UserFields[field])
  <2>1. /\ DOMAIN objects' = DOMAIN objects
        /\ \A q \in DOMAIN objects : objects'[q] = IF q = "deployment" THEN new ELSE objects[q]
    BY <1>3 DEF EditDeployment
  <2>2. "deployment" \in DOMAIN objects
    BY <1>3 DEF EditDeployment
  <2>3. AllOwned(new)
    BY <2>2 DEF AllOwned, SetByUser, Owned, OwnersInv
  <2> HIDE DEF new
  <2> QED BY <2>1, <2>3 DEF OwnersInv
<1> QED BY <1>1, <1>2, <1>3, ObjectSteps

\* The part has all that some configuration built from the resource asks for, and
\* nothing else but what others own.
BuiltFrom(part, resource) ==
  /\ part \in DOMAIN objects
  /\ \E conf \in Desired(resource, part) : Exactly(objects[part], conf)

\* The parts that a pass has been through when it comes to a call.
Behind(step) ==
  CASE step = "oidc"       -> {"auth"}
    [] step = "metrics"    -> {"auth", "oidc"}
    [] step = "deployment" -> {"auth", "oidc", "metrics"}
    [] step \in {"markReady", "markNotReady"} -> Parts
    [] OTHER -> {}

Steps == Parts \cup {"idle", "markFailed", "markReady", "markNotReady"}

\* Services change only by passes.  Whatever else may put the Deployment or the
\* copy of the resource out of step with what a pass has done queues a request.
ContentInv ==
  /\ pc \in Steps
  /\ pc = "idle" /\ ~queued => \A part \in Parts : BuiltFrom(part, view.cr)
  /\ pc # "idle" => \A part \in Behind(pc) :
                      part # "deployment" \/ ~queued => BuiltFrom(part, mem.cr)
  /\ pc \notin {"idle", "markFailed"} /\ ~queued => mem.cr = view.cr

LEMMA BuiltByWrite ==
  ASSUME OwnersInv, NEW p, NEW object \in Results(p), objects' = Put(p, object), UNCHANGED mem
  PROVE  /\ BuiltFrom(p, mem.cr)'
         /\ \A q : BuiltFrom(q, mem.cr) /\ q # p => BuiltFrom(q, mem.cr)'
<1> PICK conf \in Desired(mem.cr, p) : object = CreateOrApply(p, conf)
  BY DEF Results
<1>1. /\ DOMAIN objects' = DOMAIN objects \cup {p}
      /\ objects'[p] = object
      /\ \A q \in DOMAIN objects : q # p => objects'[q] = objects[q]
  BY DEF Put
<1> QED BY <1>1, WrittenExactly DEF BuiltFrom

LEMMA ContentKept == ContentInv /\ OwnersInv /\ TimesRecorded /\ [Next]_vars => ContentInv'
<1> SUFFICES ASSUME ContentInv, OwnersInv, TimesRecorded, [Next]_vars PROVE ContentInv'
  OBVIOUS
<1>1. CASE UNCHANGED vars
  BY <1>1 DEF vars, ContentInv, BuiltFrom
<1>2. CASE Reconcile
  BY <1>2 DEF Reconcile, ContentInv, Behind, Steps, Parts
<1>3. ASSUME NEW part \in Parts \ {"deployment"}, ReconcileService(part) PROVE ContentInv'
  <2>1. pc = part /\ part \in {"auth", "oidc", "metrics"} /\ UNCHANGED <<view, queued, mem>>
    BY <1>3 DEF ReconcileService, Parts
  <2>2. CASE pc' = "markFailed"
    BY <2>2 DEF ContentInv, Behind, Steps
  <2>3. CASE pc' # "markFailed"
    <3>1. PICK object \in Results(part) :
            objects' = Put(part, object) /\ pc' = After[part]
      BY <1>3, <2>3 DEF ReconcileService
    <3>2. pc' \in {"oidc", "metrics", "deployment"} /\ Behind(pc') = Behind(pc) \cup {part}
      BY <2>1, <3>1 DEF After, Behind
    <3>3. \A p \in Behind(pc') : BuiltFrom(p, mem.cr)'
      <4>1. \A p \in Behind(pc) : BuiltFrom(p, mem.cr) /\ p # part
        BY <2>1 DEF ContentInv, Behind
      <4> QED BY <3>1, <3>2, <4>1, BuiltByWrite, <2>1
    <3> QED BY <2>1, <3>2, <3>3 DEF ContentInv, Steps, Parts
  <2> QED BY <2>2, <2>3
<1>4. CASE ReconcileDeployment
  <2>1. pc = "deployment" /\ UNCHANGED <<view, mem>>
    BY <1>4 DEF ReconcileDeployment
  <2>2. CASE pc' = "markFailed"
    BY <2>2 DEF ContentInv, Behind, Steps
  <2>3. CASE pc' # "markFailed"
    <3>1. PICK object \in Results("deployment") : objects' = Put("deployment", object)
      BY <1>4, <2>3 DEF ReconcileDeployment
    <3>2. pc' \in {"markReady", "markNotReady"} /\ (~queued' => ~queued)
      BY <1>4, <2>3 DEF ReconcileDeployment
    <3>3. \A p \in Parts : BuiltFrom(p, mem.cr)'
      <4>1. \A p \in Parts \ {"deployment"} : BuiltFrom(p, mem.cr)
        BY <2>1 DEF ContentInv, Behind, Parts
      <4> QED BY <2>1, <3>1, <4>1, BuiltByWrite
    <3> QED BY <2>1, <3>2, <3>3 DEF ContentInv, Steps, Behind
  <2> QED BY <2>2, <2>3
<1>5. ASSUME NEW step \in {"markFailed", "markReady", "markNotReady"}, NEW status, NEW reason,
             UpdateStatusConditions(step, status, reason)
      PROVE  ContentInv'
  <2>1. pc = step /\ pc' = "idle" /\ UNCHANGED objects
    BY <1>5 DEF UpdateStatusConditions
  <2>2. ASSUME ~queued' PROVE \A part \in Parts : BuiltFrom(part, view.cr)'
    <3>1. ~queued /\ step # "markFailed" /\ view'.cr = view.cr
      <4>1. ~queued /\ step # "markFailed"
            /\ view' = Outdated(view, AddOrUpdateStatusConditions(mem.cond, status, reason))
        BY <1>5, <2>2 DEF UpdateStatusConditions
      <4> QED BY <4>1 DEF Outdated, TimesRecorded
    <3>2. \A part \in Parts : BuiltFrom(part, view.cr)
      BY <2>1, <3>1 DEF ContentInv, Behind
    <3> QED BY <2>1, <3>1, <3>2 DEF BuiltFrom
  <2> QED BY <2>1, <2>2 DEF ContentInv, Steps
<1>6. CASE Sync
  BY <1>6 DEF Sync, ContentInv, BuiltFrom
<1>7. CASE RollOut
  BY <1>7 DEF RollOut, ContentInv, BuiltFrom
<1>8. ASSUME NEW field, NEW value, EditSpec(field, value) PROVE ContentInv'
  BY <1>8 DEF EditSpec, ContentInv, BuiltFrom
<1>9. ASSUME NEW field, EditDeployment(field) PROVE ContentInv'
  <2>1. /\ queued' = TRUE /\ UNCHANGED <<pc, mem, view>>
        /\ DOMAIN objects' = DOMAIN objects
        /\ \A part \in DOMAIN objects : part # "deployment" => objects'[part] = objects[part]
    BY <1>9 DEF EditDeployment
  <2> QED BY <2>1 DEF ContentInv, BuiltFrom
<1> QED BY <1>1, <1>2, <1>3, <1>4, <1>5, <1>6, <1>7, <1>8, <1>9 DEF Next, Pass

\* Once the operator rests, every object has all that the spec asks for, and whatever
\* else is on it belongs to its creation or to users.
THEOREM ContentSettles == Spec => []SettledContent
<1>1. Init => ContentInv /\ OwnersInv
  BY DEF Init, ContentInv, OwnersInv, Steps
<1>2. ContentInv => SettledContent
  BY DEF ContentInv, SettledContent, Settled, Latest, BuiltFrom
<1> QED BY <1>1, <1>2, OwnersKept, ContentKept, TimesAreRecorded, PTL DEF Spec
=============================================================================
