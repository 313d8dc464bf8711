# A formal model of the Authorino operator

The Authorino operator watches `Authorino` resources and keeps, for each of
them, an installation of Authorino: Services, a ServiceAccount, RBAC bindings,
a Deployment.  This directory models the operator's reconciler and the part of
Kubernetes it depends on in TLA+, model-checks it with TLC and proves theorems
about it with TLAPS.

## 1. The system

### Components, their state and their operations

| Component | Source | State | Operations |
|---|---|---|---|
| Reconcile loop, finalizer, deletion | `controllers/authorino_controller.go` | none of its own between passes: the resource as cached, its finalizer and deletion mark | `Reconcile`, `cleanupClusterScopedPermissions`, `installationPreflightCheck`, watches in `SetupWithManager` |
| Resource reconciler | `pkg/reconcilers/authorino_reconciler.go` | the owned objects and cluster role bindings on the API server | `reconcileResource` (read; create, delete or apply) and one handler per object |
| Legacy migration | same, `cleanupLegacyClusterRoleBindings` | bindings under the old names | validated, conditional delete |
| Status | `pkg/reconcilers/status.go`, `pkg/condition` | the `Ready` condition | `updateStatusConditions`, `WrapErrorWithStatusUpdate` |
| Deployment building | `pkg/reconcilers/deployment.go` | none (pure) | `AuthorinoDeployment` and its helpers |
| Builders and names | `pkg/resources/*.go` | none (pure) | binding names, bindings, services, label maps |
| API types | `api/v1beta1` | none | `AuthorinoSpec`, `AuthorinoStatus` |
| Manager | `main.go` | caches, work queue | start-up |
| Logging | `pkg/log` | the global logger | – |
| Kubernetes (external) | – | objects, caches, queue, garbage collection | – |

### How they interact

A pass of `Reconcile` starts from the *cached* resource and makes a sequence of
calls.  Each `reconcileResource` reads another cache, which may be behind, and
then writes to the API server.  Between any two calls users may edit or delete
the resource, the garbage collector may delete what it owned, a Deployment may
become available, other instances may have been reconciled, and the operator
may be stopped.  Nothing is kept between passes.  Only `Authorino` resources
and owned Deployments are watched; everything else is noticed only in a later
pass, which a returned error brings about through the work queue.

Errors take four ways: reported (status set to not ready, error returned, the
pass repeated); set in the status but not returned (a failed read of the
cluster-wide binding of an instance made namespaced: the pass goes on, and it is
the change of the status that brings about another); logged (finalizer cleanup,
legacy cleanup); or dropped (a failed delete of a binding, a refused apply of the
leader election Role).  Which error goes which way decides most of what is
checked here.

### What makes each component correct

- *Finalizer*: a ClusterRoleBinding has no owner, so an instance must keep its
  finalizer while a binding names it, across passes, stale reads and restarts;
  and a deleted instance must go away.
- *Resource reconciler*: when nothing is left to do, every live instance has
  exactly what its spec asks for; pods are never rolled out before the
  ServiceAccount and bindings they run with.
- *Bindings*: no instance loses access its spec asks for in its own pass, and no
  pass over one instance takes a binding from another, whatever names coincide.
- *Status*: when nothing is left to do, `Ready` says whether the Deployment is
  available.
- *Update of the resource*: only users change a spec.
- *Preflight*: a pass that waits for a secret or a ClusterRole is repeated.
- *Builders*: the container listens where the Services lead, has the certificates
  it is told of, and is told the same settings in the form its version knows;
  nothing selects the pods of another instance.
- *Binding names*: within the limit of names, and different between instances.
- *Field ownership*: what the spec asks for arrives in the objects, and what users
  set beside it stays.
- *Conditions*: the time of a transition changes with the transition; the
  operator's own writes do not keep it busy.

The hazards behind these, each at its line, are listed in `PROJECT.json`.

## 2. The modules

| Module | What it is |
|---|---|
| `Cluster` | Kubernetes as the operator sees it, and users: API server, informer caches, work queue, garbage collector |
| `AuthorinoReconcile` | extends `Cluster` with the worker: `Reconcile` and every call of a pass; properties, fairness, and the mapping to `Grants` |
| `Grants` | abstract: who may get cluster-wide access, when it may be withdrawn, and when a guarded instance may go |
| `Objects` | pure: the Deployment and the Services built from a spec |
| `BindingNames` | pure: the names of ClusterRoleBindings, cut and hashed when too long |
| `Builders` | any two resources users may write, and what holds between the objects built from them |
| `FieldOwnership` | external: Create and server-side apply by fields and their owners |
| `Rollout` | composes `Objects`, `FieldOwnership` and the Ready condition: from an edit of one spec to the contents of its objects |
| `MCAuthorinoReconcile`, `MCBuilders`, `MCRollout` | instances for TLC |
| `AuthorinoReconcileProofs` | what the cluster's steps and the calls of a pass write, and their order; `TypeCorrect` |
| `FinalizerProofs` | the guarding invariant; `BindingsGuarded`, `EditsStay` |
| `BindingProofs` | who writes which binding; `NoEviction`, `LegacyDeletionsConfirmed`, `AccessKept` |
| `SettledProofs` | what a pass leaves behind; `RolloutsBacked`, `StatusSettles`, `ProvisionSettles`, `SpecSettles` |
| `GrantsProofs` | `OperatorImplementsGrants` |
| `BindingNamesProofs` | `NamesFit`, `NamesDiffer` |
| `BuildersProofs` | `PortsAlwaysServed`, `SettingsAlwaysKept`, `PodsStayApart`, `TlsAlwaysComplete` |
| `RolloutProofs` | `UsersKeep`, `CreationStays`, `TransitionsTimed`, `ContentSettles` |

The split follows what the parts share.  `AuthorinoReconcile` has every failure,
every cache and every object of a pass, but knows of an object only its owner,
subjects and scope.  `Rollout` has the contents of the objects, and of a pass only
what concerns contents: three Services, the Deployment and the status.  It takes
the resource to exist with its finalizer and the preflight check passed, and reads
of objects to be current.  `BindingNames` shows what `Cluster` assumes of its
constants.

### State of `Cluster` and `AuthorinoReconcile`

- `cr[i]`: the resource: whether it exists, is being deleted, has the
  operator's finalizer, is held by a foreground deletion, is cluster-wide, the
  TLS secrets it names, its Ready condition (`Failed` and `NotReady` are both
  `Ready=False`, told apart by who sets them).
- `obj[k]`: the controlling owner of each owned object: an instance, `Ghost` for
  the previous incarnation of a deleted one, or `None` when it is absent.  The
  leader election Role has one key per namespace, every other object one per
  instance.
- `dep[i]`: the scope the Deployment was last given and its Available condition.
- `crb[s][b]`: the subjects of the ClusterRoleBinding of suffix `s` and name stem
  `b`; an instance stands for its ServiceAccount.  Names are constants:
  `BindingName` (`<namespace>.<name>`, injective) and `LegacyName` (`<name>`,
  which may coincide with anything but the instance's own qualified name).
- `view`, `seenDep`, `seenObj`, `seenCrb`: the caches.  Resources and Deployments
  always lag; other kinds lag when listed in `Laggy`.
- `latest[i]`: whether the cache, and the pass, hold the resource's current
  version.  It replaces resource versions: a write clears it, a sync sets
  `cache`, a pass that reads an up-to-date cache gets `pass`.  An `Update` is
  accepted exactly if `pass` is there.
- `queue`, `pc`, `cur`, `mem`: the work queue; the next call of the pass, the
  instance it is for and its copy of the resource.

### Actions of `AuthorinoReconcile`

Every action of `AuthorinoReconcile` is one call to the API server and the code
up to the next one, named after its function.  `Write` and `ReadError` give the
outcomes of a call: it works; it is refused (already exists, not found, version
conflict, owned by another controller); it fails, and a failing write may have
taken effect all the same.  `ReconcileResource` is the decision of
`reconcileResource`; the arguments of `ReconcileOwned` and
`ReconcileClusterRoleBinding` say which errors the handler reports and where they
lead, and `Proceed` goes on or to the status update.  The order of the calls is
`After`.  `UpdateStatusConditions` ends a pass and puts the instance back in the
queue when the code returns an error.  `SetStatusFailed` (step `markUnrevoked`) is
the status update in the middle of a pass, after the read whose error
`reconcileManagerClusterRoleBinding` ignores: the pass goes on after it with its
copy of the resource, and will write the status again at its end.

The definition of a call that is repeated for several objects takes the object
as a parameter; `PROJECT.json` names the lines each definition stands for.

### Grants

Its variables are `life` (absent, live, leaving), `guarded` (the finalizer) and
`granted` (pairs of instance and ClusterRole).  The mapping is `Life`, `Guarded`,
`Granted` in `AuthorinoReconcile`: an instance is granted a role if the binding of
its own name has it as subject.  Only the manager role may be lost by a live
instance; which passes, caches and retries lead there is left open.

### Objects, BindingNames, Builders

A resource is a record of its namespace, name, labels and spec, with one entry per
field of `AuthorinoSpec` that has a say.  A setting is known by its flag, whether it
is passed as a flag or a variable, so that the two forms can be compared; a value is
that of the field.  Lists that the code builds in a fixed order are records with a
field for every setting, `Unset` where it is not given; volumes and mounts are
sequences, as duplicates matter.  An
image tag is the sequence of its parts between dots.  A binding name is a sequence
of characters, the digest any function of the name with results of a fixed length.

`Builders` starts from any pair of ids, and edits the spec and the labels of the
first resource of one pair.  It assumes of the volumes in a spec what the API server
demands before it runs a pod: none has the name of a volume of the operator's, and
none is mounted at the path of one.

### FieldOwnership and Rollout

An object is a function from fields to a value and its owners.  `Created` gives the
fields to one manager; `Applied` adds `authorino-operator` as owner of what it finds
equal, takes over what differs, and drops what it alone owned and no longer sets.
List items are fields of their own, told apart as the API server does (ports by
number, variables and volumes by name, mounts by path); the arguments are one field,
which an apply leaves out when there is no argument, as `GetContainer` does.  So a
container that is moved to a version of variables keeps the arguments that Create
gave it, and only those.

`Rollout` has the resource and its condition (`cr`, `cond`), the cached copy of both
(`view`), those objects that exist, whether the Deployment is available, the queue (`queued`), and
the pass (`pc`, `mem`).  `ReconcileService` and `ReconcileDeployment` are
`reconcileResource` with their handlers; `Valid` is what the API server demands of a
Service.  A write that changes the Deployment is an event, as is any change of the
resource or its status that the cache has yet to show.  Of a transition time only
the order matters: `latest` is that of the latest change of the status, `earlier` one
before it, `later` a moment after it at which nothing changed (with two names, so
that such a moment can differ from the one before).

Definitions whose comment says *Mutant* are not part of the specification: each
is a plausible mistake, which some run refutes when it replaces the real one.

## 3. The runs

| Run | Instances | Explored | Shows |
|---|---|---|---|
| `lifecycle` | one | 2 user actions; one failed read or write or a restart; Deployment and ServiceAccount collected separately | types; no binding without a finalizer; settles as the spec says with the right status; no premature rollout; every step is one of `Grants` |
| `recreate` | one | 3 user or environment actions, so delete and create again; ServiceAccount cache lags, Deployments deleted by users | the same across incarnations; finalizer updates never write an old spec back |
| `migration` | two, upgraded, one legacy name | two failing reads or deletes or restarts, lagging bindings | requested access is kept, legacy deletions are confirmed, both settle with bindings of their own |
| `collision` | two, legacy name of one = name of the other | a restart, lagging bindings, one user action | nobody is evicted; deletions act on what they validated; still steps of `Grants` |
| `liveness` | one | late TLS secret, ClusterRole reinstalled, deletion, one failed finalizer or status write | convergence and completed deletion under fairness |
| `builders` | pairs of resources | up to 3 edited fields of 19, 6 versions, 4 port numbers; names of 1 to 4 characters against a limit of 9, with colliding digests | ports, TLS, settings, selectors and names fit together |
| `content` | one | 2 edits among an older version, no TLS, a sidecar and the replicas set on the Deployment; one failing write | contents arrive, and only what Create or users set is left beside them; users keep fields; times are kept; the operator rests |
| `scopeSwitch`, `deletion`, `deletionBeforeMigration`, `leaderRole`, `portChange` | | | claims the code breaks (section 6) |

All constants that bound a run end in the `.cfg`: `MaxFaults` (failures and
restarts together), `MaxDisruptions` and `MaxEdits` (user and environment
actions), and the sets that choose what may lag, drift, fail or be collected on
its own.  The bounds are chosen by the shortest bad histories of the mistakes we
could think of: create, switch scope and delete take three user actions; delete
and create again, with orphans, takes three; a lost response and the retry take
one failure; an error hidden by a second one takes two.  `lifecycle` has one
failure, so that a failed read always gets its status written; both failing is a
case of `StatusSettles` and the reason for a hypothesis of `SpecSettles`.  Its
faults and those of `recreate` leave out failing deletions, which
`BindingNeedsFinalizer` and `GrantsImplemented` do not survive: what these say
of the cleanup is that it is tried before the finalizer goes, and that a
deletion may fail is the subject of run `deletion`.  In `builders` a mistake
takes one field to be wrong and at most two more to hide or reveal it (a
deprecated port, the version and a new port).  In `content` the second edit
meets the traces of the first.  One instance is enough for what concerns one
instance only, because instances share nothing but bindings with coinciding
names and the Role of a namespace; those are what the runs with two are for.
There is no symmetry: the two instances differ in their names.

The digest of `builders` collides on purpose: the property names the collisions
under which names coincide, and the run has them.

`CHECK_DEADLOCK FALSE` is set throughout: when nothing is queued and the budgets
of failures and user actions are spent, the system rightly stops.

"Settled" in `SettledMatchesSpec`, `SettledStatus` and `SettledContent` means: no
pass under way, an empty queue, and no event that would fill it still to be
delivered.  What is wrong in a settled state stays wrong until a user acts.

### Fairness

`liveness` assumes weak fairness of the pass (the worker runs), of the informers
and of Kubernetes' controllers, and strong fairness of taking an instance from the
queue: controller-runtime's queue is served in order, and a request with an
error is put back with a delay, so an instance that keeps being queued is taken.
Weak fairness would not do for it: an instance that is not yet the queue's next
is not continuously enabled while passes over others are under way.  Nothing is
assumed of users, failures and restarts; the bounds make failures finite.

`content` and `portChange` assume weak fairness of the worker, the rollout and the
informer, and strong fairness of a delivery between two passes (`pc = "idle"`): the
informer is not slower than the queue for ever.  An event reaches the cache and the
queue through the same informer, so a pass that follows it normally has its
effects.  Without this a pass may read the copy before its own last status write
every time, and two of them can alternate between two recorded times for ever.

## 4. The proofs

Every invariant and every action property that the runs check is a theorem.  All of
them are for arbitrary sets of instances, namespaces and names, arbitrary lag and
arbitrary bounds, under the named assumptions of the modules: qualified names are
injective, no instance's legacy name is its own qualified name, and the bookkeeping
values are distinct (`Cluster`); what `BindingNames`, `Builders` and
`FieldOwnership` assume is said below.  Where a theorem needs more, its statement
says so, and TLC refutes the property when it is dropped.

### Types, finalizers and edits

- `TypeCorrect`: `TypeOK` with "a pass under way has an instance" (`TypeInv`),
  which is inductive.
- `BindingsGuarded`: `BindingNeedsFinalizer` if no deletion fails.  On its own the
  property is not inductive, since the finalizer is removed and bindings are made on
  the strength of a copy of the resource.  `GuardInv` adds that whoever holds the
  latest version has it right and a pass that does has read it from the cache
  (`Coherent`), that the cache is never behind by the loss of a finalizer while it
  shows a live resource (`CachedFinalizer`), and what a pass may rely on at each
  step (`PassGuards`).  The key step is `RemoveFinalizerSafe`: an accepted update
  was made from the version now cached, which is being deleted, so no later pass
  can provision from that cached copy.  Only the last part of `GuardInv`, that
  bindings go before the finalizer does (`AccessGuarded`), needs deletions not to
  fail, and is conditional on that; run `deletion` refutes the conclusion without it.
- `EditsStay`: `SpecKept`, with no hypothesis.  An update that the API server accepts
  was made from the current version, so by `Coherent` its spec is the current one.

### Bindings

- `NoEviction`: needs that an instance's own binding, once it names it, names
  nobody else (`OwnAlone`): then a validated legacy deletion, whose binding names
  the current instance, cannot hit another's own binding.
- `LegacyDeletionsConfirmed`: from the subject check and the preconditions, for any
  lag.
- `AccessKept`: `RequestedAccessKept`, with no hypothesis.  A provisioning pass that
  has gone on from making a binding has it (`OwnBound`), as nobody else takes it
  away; the legacy deletions, which come later, may then remove the other one.  A
  pass that goes on after an error would break the invariant, not only the property.
- `OperatorImplementsGrants`: the refinement, if no deletion fails.  Besides
  `GuardInv` and `OwnAlone` it needs that a resource cached as leaving is leaving,
  gone, or made anew without the finalizer (`CachedLeaving`), and what a pass knows
  of the resource it began with (`PassEntry`): a cleanup is of an instance that is
  leaving, and a finalizer is added only to one that is not.  Every action changes
  a resource or a binding, never both, and so is one step of `Grants` or none.

### What a pass leaves behind

The calls of a pass are ordered by `Place`; `Past(step)` says that the pass has made
a call and gone on.  The lemmas `ObjectWrites`, `ResourceWrites` and `StepWrites`
say once what any step at all may write, so that each invariant below is checked
against a handful of cases.

- `RolloutsBacked`: `RolloutBacked`, if users do not delete ServiceAccounts and
  RoleBindings behind the operator.  `PassOwns`: what a pass over an instance that
  stays has made is there for as long as the pass lasts.  That needs `HeldLeaves`
  (the garbage collector takes nothing of an instance that stays) and, for the
  finalizer, `GuardInv`.
- `StatusSettles`: `SettledStatus`, with no hypothesis on failures, lag or drift.  A
  settled state says nothing of the past, so `StatusInv` has to: `QuietStatus` says
  of each instance with nothing on its way (not queued, cached as it is, no pass over
  it) that its status is that of the Deployment last seen, and `PassStatus` says of a
  pass that is about to report that it reports what was last seen, or the instance is
  queued again.  The lemma `QuietSteps` is the core: an instance becomes quiet only by
  the status update of a pass that returns no error and finds the status as it is to
  be, since a change would come back as an event.  The failure written in the middle
  of a pass (`SetStatusFailed`) is one such change, and the last update of the pass
  another.
- `ProvisionSettles`: nothing is missing (`SettledProvides`), whatever calls fail and
  whatever lags, if users delete no owned object but Deployments; nothing watches the
  others.  Besides `PassOwns` and `OwnBound`: the Deployment that a pass wrote is still
  there or its loss is an event to come (`PassDeploys`), and the scope it works on is
  the one asked for unless a newer version is on its way (`PassCurrent`).  By
  `QuietSteps` these carry over to the instances that are quiet (`QuietProvided`).
- `SpecSettles`: `SettledMatchesSpec`, that is, nothing is there any more of the other
  scope either (`PassDrops`, `QuietRevoked`).  What a pass is to take away it takes
  away only if a cached read shows it, and it drops the error of the deletion.  So
  the theorem is about the behaviours in which the cache shows it at the moment of
  that read (`[]RevocationsSeen`; caches that do not lag do so always,
  `CurrentCachesShow`), and assumes that deletions do not fail.  A read that fails is
  dropped as well, but not before it is in the status: if the status is written, or
  says so already, the last update of the pass changes it back, which queues the
  instance again.  If both writes fail as well nothing does, hence the hypothesis that
  not both reads and status writes fail.
  TLC refutes `SettledMatchesSpec` when any one of the hypotheses is given up, on one
  upgraded instance with two or three disruptions (failing deletions; a cache of either
  binding that lags; failing reads with failing status writes, three failures in all;
  users who delete ServiceAccounts), so none is there for the proof's sake.  Reads
  alone do not break it.

### Names and objects

- `NamesFit`: from `RoomAssumption`, that namespace, digest and suffix leave room.
  The source's guard against a negative room is then never used.
- `NamesDiffer`: a namespace has no dot, so the text before the first dot gives the
  namespace back; no suffix ends in another, so the end gives the role back.  What
  is between is the name, or the cut name and the digest.  This is what
  `BindingName` in `Cluster` rests on, except for two cases that the theorem names:
  colliding digests, and a short name that reads like a long one cut and hashed.
- `PortsAlwaysServed`, `SettingsAlwaysKept`, `TlsAlwaysComplete`: statements about
  operators, for any values of the fields and any tag, by cases on the form the
  version takes (`Containers`), whether TLS is on, and which fields are given.  That
  each certificate is mounted once and its volume is there once (`MountsOnce`,
  `VolumesOnce`) rests on `SettableAssumption`: no volume of the user's has the name
  or the path of one of the operator's.
- `PodsStayApart`: from the invariant that the two resources keep their ids.

### Contents of objects

- `UsersKeep`: an apply touches a user's field only if it sets it (`AppliedKeeps`),
  be it because the spec says so or by default, as with the number of replicas.
- `CreationStays`: the cause of `portChange` and of left-over settings, such as the
  arguments of a container moved to a version of variables; about `FieldOwnership`
  alone.
- `TransitionsTimed`: from the invariant that copies hold recorded times.
- `ContentSettles`: `SettledContent`, which says of a settled object both that it has
  what the spec asks for and that what else it has is not the operator's.
  `ContentInv` says that between passes and with
  nothing queued every object was built from the cached spec, that during a pass those
  behind it are built from the copy it holds (the Deployment unless it was edited
  since, which queues a request), and that this copy is the cached one unless a
  request is queued.  `AppliedExactly` gives the step of a single write; it needs that
  every field has an owner (`OwnersInv`).

### Only model-checked

`DeletionCompletes`, `Converges`, `TakesEffect` and `Quiesces` are liveness
under fairness, which is beyond the prover; the runs `liveness` and `content`
check them.  The claims of section 6 are refuted by runs and are not theorems.

## 5. What is not modelled

- Messages of conditions, items and modes of volumes, the contents of RBAC rules,
  and the panic when no image is configured at all.
- `EqualServices` and `MapUpdateNeeded`, which the operator does not call.
- `LastUpdatedTime` of conditions, which the operator does not set.
- Stale reads of objects in `Rollout`; they are the subject of `AuthorinoReconcile`.
- More than one tracing tag while a resource settles: the tags come from a Go map,
  so passes over one spec may ask for different arguments, and nothing makes the
  order repeat.  `Quiesces` is false then.
- Both listener ports, or the port of another Service, set to 0: the Service is
  left without ports, which the API server refuses, so that the pass fails.
- That two instances of the operator may run at once: leader election is a flag
  of `main.go`; one worker is assumed (the default concurrency).
- Reads of Secrets and ClusterRoles are taken to be current; a pass that misses
  one is repeated anyway.
- A failed read of an informer cache is allowed (`read`) though it is rare.
- An informer that lags catches up with the newest version in one step.
- Foreground deletion is modelled; orphaning deletion is not.
- Users deleting owned objects other than Deployments: nothing watches those, so
  by design they are restored only by a later pass.
- That a ClusterRoleBinding cache which lags across two passes and an edit can hide a
  binding from the pass that should delete it is outside the runs that check
  `SettledMatchesSpec`, and a hypothesis of `SpecSettles`.
- That a setting reaches a version that has no variable for it: `SettingsKept` is about
  those in `Understood`.  Tracing, the health probe, superseding host subsets and the
  restrictions of TLS are dropped for older versions.
- Generated code, manifests, logging.

Two remarks from reading: the README of the repository gives 50001 as the default
gRPC port (line 184), the code has 50051 (`consts.go:72`); and a volume of the spec
named `tls-cert` or `oidc-cert` meets the one the operator adds.

## 6. Where code and claims differ

Each is a run that TLC refutes, with a finding in `PROJECT.json`.

- `deletion`: the finalizer goes even if deleting a ClusterRoleBinding failed.
- `scopeSwitch`: an instance made namespaced can stay Ready with its cluster-wide
  binding when the deletion fails, here in the two passes that the edit and the
  Deployment's change cause; nothing reports it.
- `deletionBeforeMigration`: deletion does not know the legacy names.
- `leaderRole`: the Role shared by a namespace goes with the instance that owns it.
- `portChange`: a changed port never takes effect.  The Service keeps the port that
  Create gave it, beside the new one of the same name, and the API server refuses
  that; the Deployment, which comes later in the pass, stays as it was as well.

## 7. Plan

Done: the models, the refinement of `Grants`, and theorems for every invariant and
action property of the passing runs.

Left:

1. The converse of the refuted claims: what does hold of scope switches and deletions
   if a deletion may fail once and is retried by a later pass.
2. `OperatorImplementsGrants` without its hypothesis, for a `Grants` that allows a
   guarded instance to leave its grant behind exactly when a deletion failed.
3. `SettledMatchesSpec` for a pass whose status write failed as well: what brings the
   instance back is then only its next edit.
