------------------------------- MODULE Rollout -------------------------------
(***************************************************************************)
(* One Authorino resource from an edit of its spec to the Services and the *)
(* Deployment: what is built (Objects), applied over what is there, and    *)
(* reported in the Ready condition, while users edit the spec and the      *)
(* Deployment.  Finalizers, bindings, owners and stale reads of objects    *)
(* are the subject of AuthorinoReconcile and left out here: the resource   *)
(* exists, has its finalizer and passes the preflight check.               *)
(***************************************************************************)
EXTENDS Objects, FieldOwnership, TLC

CONSTANTS
  None,        \* no condition; nothing in mind between passes
  Original,    \* the resource as users made it
  Values,      \* what users may set fields of the spec to
  UserFields,  \* what they may set on the Deployment themselves
  MaxEdits,    \* bound: edits by users
  MaxFaults    \* bound: writes that fail

VARIABLES
  cr, cond,    \* the resource and its Ready condition
  view,        \* both as cached
  objects,     \* those of the Services and the Deployment that exist
  available,   \* the Available condition of the Deployment
  queued,      \* whether a request is in the work queue
  pc,          \* the next call of the pass
  mem,         \* the resource and the condition that the pass read
  edits, faults

vars == <<cr, cond, view, objects, available, queued, pc, mem, edits, faults>>

Parts == {"auth", "oidc", "metrics", "deployment"}

(***************************************************************************)
(* Fields.  List items are told apart as the API server does: ports of a   *)
(* Service by number, environment variables and volumes by name, mounts by *)
(* path; the list of arguments is one field, left out when there is none.  *)
(***************************************************************************)
Fields(kind, values) == [f \in {kind} \X DOMAIN values |-> values[f[2]]]

ServiceFields(s) ==
  LET names == [number \in {p.port : p \in s.ports} |->
                  {p.name : p \in {q \in s.ports : q.port = number}}]
  IN  Fields("port", names) @@ Fields("label", s.labels) @@ Fields("selector", s.selector)

DeploymentFields(d) ==
  LET AllGiven(s) == [n \in {m \in DOMAIN s : Given(s[m])} |-> s[n]]
      Items(list) == {list[k] : k \in DOMAIN list}
      container == d.container
      volumes == [n \in {v.name : v \in Items(d.volumes)} |->
                    {v \in Items(d.volumes) : v.name = n}]
      mounts  == [p \in {m.path : m \in Items(container.mounts)} |->
                    {m \in Items(container.mounts) : m.path = p}]
      single  == [replicas |-> d.replicas, tag |-> container.tag, pull |-> container.pull]
      args    == IF container.listed
                 THEN [args |-> <<AllGiven(container.args), container.tags>>] ELSE <<>>
  IN  Fields("single", single @@ args) @@ Fields("env", AllGiven(container.env)) @@
      Fields("volume", volumes) @@ Fields("mount", mounts) @@
      Fields("label", d.labels) @@ Fields("podLabel", d.podLabels)

\* What a pass may ask for: several Deployments, if there are several tags.
Desired(resource, part) ==
  IF part = "deployment"
  THEN {DeploymentFields(d) :
          d \in {AuthorinoDeployment(resource, order) : order \in TagOrders(resource.spec)}}
  ELSE LET index == [auth |-> 1, oidc |-> 2, metrics |-> 3]
       IN  {ServiceFields(AuthorinoServices(resource)[index[part]])}

\* A Service needs a port, and its ports have different names.
Valid(part, object) ==
  part # "deployment" =>
    LET ports == {f \in DOMAIN object : f[1] = "port"}
    IN  /\ ports # {}
        /\ \A f \in ports : Cardinality(object[f].val) = 1
        /\ \A f, g \in ports : f # g => object[f].val # object[g].val

(***************************************************************************)
(* A pass.                                                                 *)
(***************************************************************************)
Reconcile == /\ pc = "idle" /\ queued
             /\ pc' = "auth" /\ mem' = view /\ queued' = FALSE
             /\ UNCHANGED <<cr, cond, view, objects, available, edits, faults>>

After == [auth |-> "oidc", oidc |-> "metrics", metrics |-> "deployment"]

\* Mutants: existing objects are left as they are; they are replaced; they are
\* patched, so that nothing is ever taken away.
CreateOnly(part, conf) == IF part \in DOMAIN objects THEN objects[part] ELSE Created(conf)
ByUpdate(part, conf)   == Created(conf)
ByPatch(part, conf) ==
  IF part \in DOMAIN objects
  THEN [f \in DOMAIN conf |-> Owned(conf[f], {Operator})] @@ objects[part]
  ELSE Created(conf)

CreateOrApply(part, conf) ==
  IF part \in DOMAIN objects THEN Applied(objects[part], conf) ELSE Created(conf)

\* What a pass may turn an object into.
Results(part) == {CreateOrApply(part, conf) : conf \in Desired(mem.cr, part)}

\* The objects after a write of one.
Put(part, object) ==
  [p \in DOMAIN objects \cup {part} |-> IF p = part THEN object ELSE objects[p]]

\* The API server refuses invalid objects, and any write may fail.
Fails == faults < MaxFaults /\ faults' = faults + 1

ReconcileService(part) ==
  /\ pc = part
  /\ UNCHANGED <<cr, cond, view, available, queued, mem, edits>>
  /\ \E object \in Results(part) :
       \/ /\ pc' = After[part]
          /\ Valid(part, object)
          /\ objects' = Put(part, object)
          /\ UNCHANGED faults
       \/ /\ pc' = "markFailed"
          /\ \/ ~Valid(part, object) /\ UNCHANGED faults
             \/ Fails
          /\ UNCHANGED objects

\* Pods that change may make the Deployment unavailable for a while.  A write
\* that changes it is an event; Ready is decided by the Deployment as it was.
ReconcileDeployment ==
  /\ pc = "deployment"
  /\ pc' \in {"markFailed", IF available THEN "markReady" ELSE "markNotReady"}
  /\ UNCHANGED <<cr, cond, view, mem, edits>>
  /\ \/ /\ pc' # "markFailed"
        /\ \E object \in Results("deployment") : objects' = Put("deployment", object)
        /\ IF objects' = objects THEN UNCHANGED <<available, queued>>
           ELSE available' \in {FALSE, available} /\ queued' = TRUE
        /\ UNCHANGED faults
     \/ /\ pc' = "markFailed"
        /\ Fails
        /\ UNCHANGED <<objects, available, queued>>

Condition(status, reason, since) == [status |-> status, reason |-> reason, since |-> since]

\* Mutant: a new time whatever the condition was.
StampedAlways(old, status, reason) == Condition(status, reason, "now")

\* A condition that is there already is kept with its time, and one with the
\* same status passes on its time.
AddOrUpdateStatusConditions(old, status, reason) ==
  IF old = None \/ old.status # status THEN Condition(status, reason, "now")
  ELSE Condition(status, reason, old.since)

\* What is recorded as the time of the last transition: of the latest change of
\* the status, of an earlier one, or of a later moment at which none happened,
\* which has two names so that such a moment differs from the one before.
Recorded(new) ==
  IF cond # None /\ cond.status = new.status
  THEN IF new.since # "now" THEN new.since
       ELSE IF cond.since = "later" THEN "later still" ELSE "later"
  ELSE IF new.since = "now" THEN "latest" ELSE "earlier"

\* Once the status has changed, the times in copies are of earlier changes.
Outdated(copy, new) ==
  IF copy.cond = None \/ (cond # None /\ cond.status = new.status) THEN copy
  ELSE [copy EXCEPT !.cond.since = "earlier"]

\* An error is returned along with the failed condition; any write may fail.
UpdateStatusConditions(step, status, reason) ==
  LET new == AddOrUpdateStatusConditions(mem.cond, status, reason)
  IN  /\ pc = step
      /\ \/ /\ cond' = [new EXCEPT !.since = Recorded(new)]
            /\ view' = Outdated(view, new)
            /\ queued' = (queued \/ step = "markFailed")
            /\ faults' = faults
         \/ /\ faults < MaxFaults /\ faults' = faults + 1
            /\ queued' = TRUE
            /\ UNCHANGED <<cond, view>>
      /\ pc' = "idle" /\ mem' = None
      /\ UNCHANGED <<cr, objects, available, edits>>

Pass == \/ \E part \in Parts \ {"deployment"} : ReconcileService(part)
        \/ ReconcileDeployment
        \/ UpdateStatusConditions("markFailed", "False", "Failed")
        \/ UpdateStatusConditions("markReady", "True", "Provisioned")
        \/ UpdateStatusConditions("markNotReady", "False", "DeploymentNotReady")

(***************************************************************************)
(* Kubernetes and users.                                                   *)
(***************************************************************************)
Latest == [cr |-> cr, cond |-> cond]

Sync == /\ view # Latest
        /\ view' = Latest /\ queued' = TRUE
        /\ UNCHANGED <<cr, cond, objects, available, pc, mem, edits, faults>>

RollOut == /\ "deployment" \in DOMAIN objects /\ ~available
           /\ available' = TRUE /\ queued' = TRUE
           /\ UNCHANGED <<cr, cond, view, objects, pc, mem, edits, faults>>

EditSpec(field, value) ==
  /\ edits < MaxEdits /\ edits' = edits + 1
  /\ cr.spec[field] # value
  /\ cr' = [cr EXCEPT !.spec[field] = value]
  /\ UNCHANGED <<cond, view, objects, available, queued, pc, mem, faults>>

EditDeployment(field) ==
  /\ edits < MaxEdits /\ edits' = edits + 1
  /\ "deployment" \in DOMAIN objects
  /\ objects' = [objects EXCEPT !["deployment"] = SetByUser(@, field, UserFields[field])]
  /\ available' \in {FALSE, available} /\ queued' = TRUE
  /\ UNCHANGED <<cr, cond, view, pc, mem, faults>>

Init == /\ cr = Original /\ cond = None
        /\ view = [cr |-> Original, cond |-> None]
        /\ objects = <<>> /\ available = FALSE
        /\ queued = TRUE
        /\ pc = "idle" /\ mem = None
        /\ edits = 0 /\ faults = 0

Next == \/ Reconcile \/ Pass \/ Sync \/ RollOut
        \/ \E field \in DOMAIN Values : \E value \in Values[field] : EditSpec(field, value)
        \/ \E field \in DOMAIN UserFields : EditDeployment(field)

Spec == Init /\ [][Next]_vars

\* The worker works, the Deployment is rolled out, and the informer delivers;
\* it is not for ever slower than the queue, but catches up between two passes
\* now and then.
FairSpec == /\ Spec
            /\ WF_vars(Reconcile) /\ WF_vars(Pass) /\ WF_vars(RollOut)
            /\ WF_vars(Sync) /\ SF_vars(pc = "idle" /\ Sync)

(***************************************************************************)
(* Properties.                                                             *)
(***************************************************************************)
Built(part) == /\ part \in DOMAIN objects
               /\ \E conf \in Desired(cr, part) : Has(objects[part], conf)

Settled == pc = "idle" /\ ~queued /\ view = Latest

\* When the operator has nothing left to do, every object has all that its spec
\* asks for, whatever was there before, failed on the way or was edited meanwhile.
\* Whatever else is on it belongs to its creation or to users: the operator has
\* taken away what it no longer asks for and nobody but it had set.  So the flags
\* Create gave a container stay on it beside the variables of an older version.
SettledContent ==
  Settled => \A part \in Parts :
    /\ part \in DOMAIN objects
    /\ \E conf \in Desired(cr, part) : Exactly(objects[part], conf)

\* What users set on an object stays until they change it, unless a pass builds the
\* same field: what the spec sets and what the operator sets where the spec says
\* nothing, so that one replica is put back for the five a user has asked for.
UserFieldsKept ==
  [][\A part \in DOMAIN objects :
       LET old == objects[part] new == objects'[part]
       IN  edits' = edits => \A f \in DOMAIN old : User \in old[f].by =>
             /\ part \in DOMAIN objects' /\ f \in DOMAIN new
             /\ \/ new[f].val = old[f].val /\ User \in new[f].by
                \/ \E conf \in Desired(mem.cr, part) : f \in DOMAIN conf /\ new[f].val = conf[f]]_vars

\* A pass that read the condition as it is records the time of a transition
\* exactly if it makes one.
TransitionTimeKept ==
  [][cond' # cond /\ mem.cond = cond =>
       cond'.since = IF cond = None \/ cond'.status # cond.status THEN "latest"
                                                                 ELSE cond.since]_vars

\* "any change applied to the existing CRs will trigger a new reconciliation to
\* apply the required changes": users edit only so often, and in the end what
\* they asked for is there.
TakesEffect == <>[](\A part \in Parts : Built(part))

\* Its own writes do not keep the operator busy: in the end it rests, with the
\* resource reported ready.
Quiesces == <>[](pc = "idle" /\ cond # None /\ cond.status = "True")
=============================================================================
