# TLA+ verification of servicebinding

The repository implements the Service Binding specification for Kubernetes: a
`ServiceBinding` names a service and a workload; the manager resolves the
service to a secret, keeps a `ServiceBindingProjection` for it, and injects the
secret into the pod template of the workload. This project models that code in
TLA+, checks it with TLC and proves all the safety properties of the passing
runs with TLAPS, for any number of objects and any bounds; those about pod
templates for lists of up to 20 elements, beyond which they do not hold.

## The system

| Component | State | Operations | Interacts with |
|---|---|---|---|
| ServiceBinding controller (`pkg/reconciler/servicebinding`) | none of its own: work queue, listers | `ReconcileKind`: resolve the secret, create or update the projection, set conditions | API server; resolver; informers of bindings and projections put keys into its queue |
| Generated reconcilers (`pkg/client/injection/reconciler/...`) | the copy that is reconciled, the copy to update, leadership | `Reconcile`, `updateStatus` with retries on conflict, `PromoteFunc`, finalizers, observers | wrap `ReconcileKind`, `FinalizeKind`, `ObserveKind`; returned errors put the key back |
| Serviceable resolver (`pkg/resolver`) | tracker: service to keys; duck-typed informers | `ServiceableFromObjectReference`, `OnChanged` | called by `ReconcileKind`; a change of a service queues the keys tracked for it |
| Conditions (`servicebinding_lifecycle.go`) | `Ready`, `ServiceAvailable`, `ProjectionReady` | `InitializeConditions`, `Mark...`, `Propagate...`, `aggregateReadyCondition` | pure; called by `ReconcileKind` |
| Do and Undo (`servicebindingprojection_lifecycle.go`) | the pod template and the annotations of a workload | `Do`, `Undo` and their helpers | called by knative's `psbinding` reconciler and by its webhook |
| ServiceBindingProjection controller and binding webhook | listers, tracker, finalizer, status; the webhook's index | `NewController`, `ListAll`, `NewBindingWebhook` around knative's `psbinding.BaseReconciler` (external) | Do and Undo, patches of the workload, which pass the webhook |
| ProvisionedService controller | `status.binding` | copies `spec.binding` | read by the resolver |
| Validation, defaulting (`*_types.go`, `cmd/manager`) | the webhooks' rules | `Validate`, `SetDefaults` of the kinds in `ourTypes` | admission of every request |
| Clients, listers, informers, fakes, deep copies | caches | generated | everything above |

What is hard here: every read comes from a cache that lags behind the API
server; every write may conflict, be lost or be applied without an answer;
objects are deleted and created again under the same name while a worker holds
an old copy; the manager restarts and loses its queue and its tracker, or loses
the lead in the middle of a reconciliation; nothing but events and returned
errors brings a key back; several projections rewrite one pod template without
knowing of each other. The hazards, with the lines where they bite, are in
`PROJECT.json`.

What makes each component correct: a controller never rests on an object that
is not as its spec asks and never touches what it does not own; a stored status
agrees with itself and with the object that it is stored on, whichever replica
wrote it; what a reconciler made outside of the cluster does not outlive its
object, and a finalizer does not hold up a deletion for ever; bound projections
of one workload leave the owner's part alone, can be undone, and settle; what
is stored is what the reconcilers can rely on.

## Modules

| Module | Models | Depends on |
|---|---|---|
| `Conditions` | `servicebinding_lifecycle.go`, pure operators | |
| `ServiceBindingController` | the controller, its generated reconciler, the resolver, informers; API server, users and garbage collector as environment | `Conditions` |
| `StableSort` | `sort.SliceStable` of Go's library (external) with the comparison of Do | |
| `Projection` | Do and Undo, pure operators | `StableSort` |
| `WorkloadProjection` | several projections of one workload and its owner | `Projection` |
| `StatusFollower` | abstract: what a controller that reports on its objects promises | |
| `ProvisionedServiceController` | that controller and its generated reconciler in several replicas with leader election | implements `StatusFollower` |
| `GeneratedReconciler` | finalizers and observers of the generated reconcilers | |
| `ProjectionController` | the projection controller and the binding webhook | |
| `Admission` | validation, defaulting and the webhooks that call them | |
| `MCConditions`, `MCServiceBindingController`, `MCWorkloadProjection`, `MCProvisionedServiceController`, `MCAdmission` | instances for TLC; the other modules are instantiated by their cfgs | |
| `WindowTheorems` | lemmas about windows of versions | |
| `MCConditionsProofs`, `ServiceBindingControllerProofs`, `WorkloadProjectionProofs`, `ProvisionedServiceControllerProofs`, `GeneratedReconcilerProofs`, `ProjectionControllerProofs`, `AdmissionProofs` | theorems, each about the module that it is named after; the lemmas about `Conditions`, `Projection` and lists are in the first three | `WindowTheorems` |

In all controllers an object is a window of versions: the first element is what
the lister returns, the last one what the API server holds; a write appends, a
delivery drops the first.

### ServiceBindingController

A key identifies a ServiceBinding and the projection of the same name.

| State | Code |
|---|---|
| `sbs`, `projs`, `svcs` | the API server and the informer caches |
| `tracked` | `ServiceableResolver.tracker` |
| `queue` | the work queue of `controller.Impl`, without duplicates |
| `work[n]` | the worker that holds key `n`: `existing` and `resource` of `Reconcile` and `updateStatus`, the error of `ReconcileKind`, the attempt |
| `clock` | `r.now()`, read once per reconciliation |

A reconciliation is a sequence of actions, cut at every point where another
process may step in:
`Reconcile` (lister, deep copy, `InitializeConditions`), `TrackReference`,
`LookupService`, `serviceBindingProjection` (lister and Create or Update),
`updateStatus` (one attempt, or nothing to do), `getExisting` (the GET before
another attempt). `RequestFails` is a request that never reached the API
server; `Answered` is one that was applied and whose answer was lost. An error
of `ReconcileKind` still leads to `updateStatus`, as in the code, and puts the
key back at the end. The lister read and the write of the projection are one
step: the read only decides which request is sent and with which version, and
a write that happens between them is the same as one that the informer has not
delivered.

The value of a spec other than the service (`spec.name`, `type`, `provider`,
`workload`, `env`) is one element of `Wants`, the copied labels and annotations
one element of `Metas`: `MakeServiceBindingProjection` copies both as they are.
A condition's message travels with its reason. The CRDs refuse a binding
without a name (`Valid`).

Not distinguished: namespaces (part of the key), replicas that do not lead
(they skip every key; `ProvisionedServiceController` has them), the lease of
the tracker (renewed by the resync before it ends), rate limits (a delay, not a
loss). The periodic resync can happen but is never owed, so that no property
rests on it.

### StableSort, Projection and WorkloadProjection

Names are numbers in the order in which the code sorts strings; the volume of
a secret carries the secret's number, as the code derives the one from the
hash of the other. `SortInjected` is what `sort.SliceStable` makes of a list
with the code's comparison. An element of the user's compares equal to every
other, so this is not a strict weak order, and the outcome depends on how the
library sorts: a list of up to 20 elements by insertion, which sorts each run of
adjacent injected elements and never moves one past an element of the user's
(`InsertionSort`); a longer one by merging sorted blocks of 20 with binary
searches and rotations (`MergeSort`, `SymMerge`), which move injected elements
past the user's and the user's past each other. The first is stated by its
outcome, the second step by step, as recursive functions. The loops that filter a list
(`Without`) and the sort are both said by `Arranged`: which places of the old
list are kept, and which of them come before which. Field references are
matched without looking at the key, as the code's regular expression does.

`WorkloadProjection` binds, changes and unbinds the projections one at a time,
in any order, while the owner adds and removes content of his own or recreates
the workload. The webhook's pass over all projections is a run of `Bind` steps.
`Pending` says that a projection would patch the workload, which is when `Bind`
does. The owner adds and removes the members of `Extras`, each a volume and a
variable. `ManifestAssumption` and `ExtrasAssumption` say that what the owner writes
is a pod template that Kubernetes accepts and is his own: it bears none of the
projections' annotations and uses none of the secrets that they bind. `Undo`
could not tell such content from what was injected.

### ProvisionedServiceController and StatusFollower

Every replica has its own informer (`view[r]`), queue and workers. `lease` is
what the API server's lease says, `leaders` the replicas whose `IsLeaderFor` is
true: one that has lost the lease finds out later (`Demote`), and a worker goes
on with the leadership that `newState` read when it took the key. A new leader
enqueues what its lister lists (`PromoteFunc`); before that its replica has
skipped every key. The elector is external.

`StatusFollower` says what this amounts to. `want` is what the object asks for,
`have` what it reports, `inflight` what the copies of it that are still around
ask for. A report is what some copy asks for, never a mixture (`Spec`); in the
end it is what the object asks for (`Settles`). The first is implemented by
`ImplementsFollower`, which is proved, the second by `FollowerSettles`, which
needs fairness and is left to TLC. The mapping takes `want` to the status that
the stored object asks for (`Asked`), `have` to its status, and `inflight` to
what is asked for by the copies in the informers' windows and in the workers'
hands. The abstract specification allows an older report to follow a newer one,
because the code does: see "Disagreements".

### GeneratedReconciler

The template from which the three reconcilers are generated also offers
finalizers and observers. The manager uses neither: the reconciler generated
for projections is the one mapped, but `psbinding` runs in its place. The module
shows what the template gives to a reconciler that makes something outside of
the cluster's objects (`outside`): `ReconcileKind` makes it for the object's
uid, `FinalizeKind` removes it. Both may fail half-way. `Implements` says which
of the optional interfaces there are. `updateFinalizersFiltered` compares the
desired finalizers with the lister's copy and patches with that copy's version,
which the API server refuses if it is not the last.

### ProjectionController

A workload is reduced to the secret that it bears for each projection; what Do
and Undo make of a pod template is in `Projection`. `psbinding.BaseReconciler`
is external and is modelled from how `NewController` builds it and from the
methods of `ServiceBindingProjection` that it calls: the finalizer comes first,
the subject is tracked, Do or Undo is computed from the informer's copy of the
workload, the difference is patched, the status is written in one attempt to
what the lister returns. Every patch, and every request of the workload's
owner, passes the webhook if `Selected` (the exclusion or inclusion labels of
`NewBindingWebhook`), which binds by the projections that it listed last
(`index`, `ListAll`). `NewController` sets no `PromoteFunc`, so `Promoted` is
empty.

The event of a projection that reaches the informer also queues the webhook's
own reconciler, which lists the projections later (`ProgramWebhook`): until then
the index is older than the informer's copy. Restarts, demotions and this lag
are part of every run. They leave two gaps that only the resync closes, and two
history variables record exactly those, so that the property can say that there
are no others:

* `skipped`: keys that were dropped when they were last taken, because the
  replica did not lead. Nothing brings them back at the promotion.
* `overruled[n]`: workloads that the last reconciliation of `n` has patched in
  vain: a webhook with an older index put back the secret that was there, so
  that the workload did not change and no event followed. If the webhook put
  back anything else, the event of that change brings the projection back.

No guard and no other variable reads them.

A patch is what it adds and removes. That the JSON patch of a stale copy names
list positions which may have shifted is left out.

### Admission

A request passes the CRD's schema (pruning and required fields, external) and,
once `ProgramWebhooks` has happened, `SetDefaults` and `Validate` if its group
and kind are in `ourTypes`. `Validate` is a set of errors or `Panic`: `paths`
is indexed by the position in `spec.env` but has one element per conflict. A
panic fails the request, as `failurePolicy: Fail` does with a webhook that does
not answer. Strings that are only tested for presence are Booleans. The
requests are constants; `SpecsAssumption` says that they are specs of their
kinds, with lists of variables of any length, and nothing else about them.

## Runs

Deadlock is checked in `conditions` only: the other systems rightly rest once
the bounded changes are used up and everything is reconciled.

| Run | Shows |
|---|---|
| `conditions` | the setters in any order: a Ready condition that is not True names the condition at fault, False before Unknown; times move exactly with statuses |
| `controller` | one binding, a service or a secret, names used again, projections that others create, edit and delete, a lost answer, a failed request or a restart: types, aggregation of Ready, observed generation, ownership, no lost wake-up; under fairness, every binding that can be bound is, and no orphan stays |
| `controller_shared` | two bindings to one service: both are woken |
| `workload` | three projections, secrets that move from one to another, targets and types that come and go: owner's content, records, well-formed pod, idempotence, Undo; the projections rest only when all of them are carried as their specs ask; under fairness, compatible ones do come to rest |
| `handover` | two replicas, a lease that lapses, names used again: no change is lost in a handover, a status that claims the current generation is right, and `StatusFollower` is implemented |
| `finalizer` | finalizers and observers with failing methods, lost answers, restarts and demotions: nothing outside outlives its object, the leader rests only when done, deletions complete |
| `admission` | a grid of right and wrong specs before and after the webhooks are programmed: exactly the sound ones are admitted, and what the controller makes of a checked binding is valid |
| `projections` | a projection by name and by selector, a workload inside and one outside of the webhook's selection: with a restart, a demotion or a failed request and an index that lags, the controller rests only when both bear the present secret and the status says so, but for skipped keys and overruled patches |
| `projections_live` | under fairness, skipped keys and overruled patches included: projections are reflected, and deletions complete |
| `typed_env`, `env_conflict`, `moved_workload` | what the code does against what documents and tests say, see below |

### Bounds

`MaxEdits` counts changes from outside. At the start the services exist and
have published a secret (`Deployed`), so that three changes let a binding be
created, edited and lose its service, have its projection written or deleted
by others, or be deleted and created again, and let a service disappear and
come back under a binding; a lost wake-up of one key needs two. With two keys
three create both and change their service, which is the shortest way to lose
a key in the tracker; that run has no reports and a single attempt, its keys
are symmetric, and it is the one in which the clock ticks. `Metas` has one
value in both, so that TLC does not reach a change of metadata alone: the
theorems cover it. `MaxLag` of one version per object already makes
every read stale, since the informers lag independently. `MaxAttempts` 2 has a
first attempt and a retry with a GET, all that the code distinguishes. One
fault is a lost request, a lost answer or a restart at any point; `finalizer`
has two, so that a second failure can hit the repair of the first. `Reports`
has a True report without a reason and a False one with a reason; `conditions`
covers the others.

In `workload` two projections exchange their secrets, so that handing a secret
over is covered, and the third has a secret that stays. Their variables are
named 1 to 4, on both sides of each other, and the owner's variables and
volumes come between them. Seven changes create all three, rotate the secrets
of two and leave two for deletions or for the owner. With three projections the
owner can remove what separates the elements of two others while the third is
bound.

In `handover` three changes create, edit or delete the object and create it
again; the one fault makes the lease lapse, restarts a replica or fails a
request. `finalizer` has three changes as well, which is the least to delete an
object and use its name again.

In `admission` two requests let a binding be stored before the webhooks are
programmed and updated after. All forms of a reference meet lists of at most
one variable, the longer lists a right reference. Lists of three variables are
the shortest with a conflict that does not begin at position 0, which is where
`Validate` panics.

In `projections` three changes create the projection and a workload and change
either once; the second workload is excluded from the webhook, and the selector
covers both. One fault is a restart, a demotion or a failed request at any
point; that an index lags is no fault and happens at any time. This reaches
rests with a skipped key, with an overruled patch, and with neither.
`projections_live` has one workload and three changes as well.

### Fairness

The workers' own steps and the informers' deliveries are weakly fair in every
`FairSpec`: the work queue hands out every key, and client-go's informers
deliver what they list and watch. Users, failures and restarts are never fair,
and failures are bounded, so that requests eventually succeed. In addition:

* `ServiceBindingController`: the finalization of projections and the garbage
  collector, controllers of the same kind. The resync is not fair.
* `WorkloadProjection`: `Bind` and `Unbind` of each projection; every change of
  a projection or of its workload queues it. The fairness of `Bind` is written
  out, with `Pending` for its ENABLED, which TLC evaluates faster.
* `ProvisionedServiceController`: some replica takes a free lease, a leader
  without it notices, a lease that nobody renews lapses, `PromoteFunc` runs: the
  elector's loop, which retries for ever.
* `GeneratedReconciler`: promotion, and the owners of other finalizers.
* `ProjectionController`: the webhook's reconciler, promotion, and the resync,
  which the informer factory does every `controller.GetResyncPeriod`. Without it
  neither property holds after a restart, a demotion or an overruled patch.

### Disagreements

Each of these is a run that TLC refutes:

* `typed_env`: `isInjectedEnv` takes the type and provider variables of every
  projection for its own; two projections of a workload undo each other.
* `env_conflict`: conflicting variables that are not the first ones in the list
  make `Validate` panic instead of being reported; others are reported with the
  wrong positions.
* `moved_workload`: when `spec.workload` changes, the workload that was bound
  before stays bound.

The following were met in the models as well. They heal by themselves, concern
code that does not run, or are a matter of the documents; the properties of the
runs are stated so that they allow for them.

* A reconciliation of a stale copy stores its older status over a newer one once
  its retry has fetched the latest version (`updateStatus`), and a time may move
  without a change of status. If the name was used again, the new object gets
  the old one's status: `ObservedWithinGeneration` and `CurrentClaimIsTrue` are
  about the first object of a name. `Converges` and `RestsOnlyWhenPublished`
  show that it heals.
* A replica that has lost the lead still stores the status that it has computed.
* `clearFinalizer` takes an event inside an error for a clean end, `Reconcile`
  for a failure: with `"wrapped"` in `Outcomes`, `NeverLeaks` fails.
* `Reconcile` returns nil for an event of type Warning, so that nothing retries
  it: with `"warning"` in `Outcomes`, `RestsOnlyWhenDone` fails.
* A key that a replica skipped before it led, and a patch that a webhook with an
  older index took back, stay as they are until the next resync.
  `RestsOnlyWhenProjected` names both; `Converges` shows that they heal.
* A projection deleted before the informer has its patch of the workload is
  finalized without Undo; with `MaxLag` 2 and an excluded workload the model
  gets there.
* An empty `SERVICE_BINDING_ROOT` is appended again by every Do: with
  `Manifest <- MCManifestEmptyRoot`, `Idempotent` fails. It also fails if a
  projection asks for a variable of that name and the owner removes his own one:
  the injected one comes first and has no value.
* In a container with more than 20 variables the sort changes the order of the
  owner's, although a comment in Do says that it is only of the injected ones:
  with the instance in `LongEnv.cfg` (18 variables of the owner's, two more that
  he adds between the bindings of two projections) `UserContentKept` fails
  within seconds. `Idempotent` fails as well, already with one variable added;
  the test of idempotence has short lists.
* Two projections whose specs have the same `name` are mounted at one path:
  `WellFormedPod` fails.
* Do also sorts the elements of other projections. If the owner has removed what
  was between them, Undo does not bring their order back: `UndoReverts` is about
  the elements and how often each is there.
* `ourTypes` registers projections under the group of bindings: they are not
  validated. `MadeProjectionsAreValid` shows what they rely on in its place.
* A binding created with `generateName` has no `spec.name` until its next
  update, since `SetDefaults` runs before the name is known.

## Proofs

Every theorem is for any sets of keys, replicas, services, secrets, workloads
and values and for any bounds, from the named assumptions of the modules
(sentinels are not values, the sets of values are not empty, bounds are numbers,
requests are specs), which TLC evaluates in the runs. Each rests on an inductive
invariant that was checked by TLC before it was proved, on one lemma per action,
and on lemmas that say once what a step may do to a window or to a worker
(`BindingSteps`, `WorkerSteps`, `StoreWindows`, `MovesTypes`, ...).

The proofs about pod templates rest on lemmas about lists of any length that are
filtered, and sorted by insertion; `SortInBlock` says that a list of at most 20
elements is. None needs induction, because `Arranged` gives the place of each element as a number
of others: `Places` says that these numbers are a bijection for any total order,
`WithoutTwice` that filters compose, `SortWithout` that a sort does not show once
the injected elements are removed, `SortAgain` that injected elements which are
removed, appended and sorted in again are back in their places, `CountSort` that
a sort loses and doubles nothing, `FirstSorted` that it is stable.

| Theorem | States | Inductive invariant, and why the property alone is not |
|---|---|---|
| `MCConditionsProofs` `TypeCorrect`, `ReadyExplainsAlways` | `TypeOK`, `ReadyExplains` | `CondInv`, both together: `aggregateReadyCondition` has no branch for a condition without a status |
| `TimeFollowsStatusAlways` | `TimeFollowsStatus` | from `CondInv`, setter by setter |
| `ServiceBindingControllerProofs` `TypeCorrect` | `TypeOK` | inductive as it stands; its last part, `StepOK`, says that a projection is only made from a resolved reference |
| `ReadyAggregatesAlways` | `ReadyAggregates` | `StatusInv`: all conditions are unset, or all are set and aggregated, and a busy worker's are set |
| `ObservedWithinGenerationAlways` | `ObservedWithinGeneration` | `GenerationInv`: while a name has had one binding at most, every version and the worker's copy are at most as new as what the API server holds |
| `WritesOnlyOwnProjectionsAlways` | `WritesOnlyOwnProjections` | from `TypeOK`: an update goes through only on a settled window, where the copy that the worker looked at is the API server's |
| `RestsOnlyWhenBoundAlways` | `RestsOnlyWhenBound` | `RestInv`: a key that is not queued, and whose binding has no event to deliver, is idle and done, or its worker is at a step whose results so far are still those of the current service and projection, or an event of these is to come (`Served`); the tracker has the service that the result rests on |
| `WorkloadProjectionProofs` `TypeCorrect`, `RecordedAlways`, `NamesResolveAlways` | `TypeOK`, `Recorded`, the first half of `WellFormedPod` | `Inv`: `PodOK` of the workload and of what its owner wrote. The volume of a bound secret bears the secret's name, and its annotations are of a projection that records this secret; no mount is of a volume of `Extras`, which come and go |
| `WellFormedPodAlways` | `WellFormedPod` | `PathInv`: a mount in a projection's directory is of the secret that this projection records (`MountsKnown`), so that Undo takes it before Do adds another |
| `UserContentKeptAlways` | `UserContentKept` | `OwnInv`, which is the property; that the steps keep it needs `Inv`: the mounts that Undo takes are of secrets |
| `UndoRevertsAlways` | `UndoReverts` | from `Inv`: no other volume bears the name of the secret, so that Undo takes the mounts that Do has added and no others |
| `IdempotentAlways` | `Idempotent` | `RootInv`: every `SERVICE_BINDING_ROOT` has a value and none is injected, so that Do finds the one that it has added (`RootsGiven`) |
| `RestsOnlyWhenBoundAlways` | `RestsOnlyWhenBound` of the workload | `Inv`, and `MarkInv`: annotations are of projections that exist. Where Do makes no difference it has found a root, since a default would be there once more (`RestRoot`), and the sort leaves that root the first one |
| `ProvisionedServiceControllerProofs` `TypeCorrect` | `TypeOK` | inductive as it stands |
| `CurrentClaimIsTrueAlways` | `CurrentClaimIsTrue` | `ClaimInv`: every copy, in an informer or with a worker of any replica, precedes what is stored (`Ordered`), and a status is not ahead of its spec (`Claimed`) |
| `RestsOnlyWhenPublishedAlways` | `RestsOnlyWhenPublished` | `QuietInv`: a worker whose key is not queued again has the copy that its informer has (`Fresh`); what a promoted leader is done with is published |
| `Implements` | `ImplementsFollower` | initial states and steps are mapped, with `ClaimInv`: what a worker stores is what its copy asks for, and that copy is in `inflight` |
| `GeneratedReconcilerProofs` `TypeCorrect` | `TypeOK` | `TypeInv`, with what the worker knows of its object at the finalizer's patches |
| `Guarded` | `NeverLeaks` | `LeakInv`: versions are consecutive (`Numbered`), so that a patch for the copy's version meets no other; only the informer's copy may disagree with the server about the finalizer (`Marked`); what the worker may rely on between its steps (`Relied`) |
| `RestsDone` | `RestsOnlyWhenDone` | `RestInv`: finalizers are only there if the reconciler is a finalizer; a worker whose key is not queued again works on the lister's copy (`Fresh`), and on the server's if nothing is to be delivered (`Current`) |
| `AdmissionProofs` `TypeCorrect`, `ExactlySound`, `MadeProjectionsValid` | `TypeOK`, `AdmitsExactlySound`, `MadeProjectionsAreValid` | `AdmissionInv`, with `CheckedPasses`: what was stored under the webhooks is pruned and passes `Validate`; `EnvExact` says for lists of any length that `ValidateEnv` reports nothing, and does not panic, exactly on sound lists |
| `ProjectionControllerProofs` `TypeCorrect` | `TypeOK` | `TypeInv`: a worker has a copy that lives or bears the finalizer from its first step on |
| `RestsOnlyWhenProjectedAlways` | `RestsOnlyWhenProjected` | `RestInv`: a worker whose key is neither queued nor skipped has the current copy, and the workloads that are neither left to patch nor overruled bear its secret, or have an event that the tracker turns into a wake-up (`Served`, `Reflected`); whatever exists refers to a workload that can be tracked (`Referred`) |

Some theorems have a hypothesis beyond the assumptions of their module. The
instances of the passing runs satisfy it, TLC refutes the property without it
unless the list says otherwise, and "Disagreements" says what happens then:

* `Guarded`: `"wrapped" \notin Outcomes`. No method returns an error that wraps
  an event of type Normal.
* `RestsDone`: `"warning" \notin Outcomes`. After an event of type Warning the
  key is not put back.
* All theorems of `WorkloadProjectionProofs`: `[]Short`. In every state, what Do
  appends for any projection leaves each list of the template with at most 20
  elements, so that Go sorts it by insertion. For longer lists `UserContentKept`
  and `Idempotent` fail; of the others it is not known, since what the recursive
  `MergeSort` keeps of every list needs induction. In `workload` no list has
  more than seven elements.
* `WellFormedPodAlways`: `NamesApart`. Specs of different projections have
  different names, and the owner mounts nothing in a directory of such a name.
* `IdempotentAlways`: `RootsHaveValues`. The owner gives every
  `SERVICE_BINDING_ROOT` a value, and no projection asks for a variable of that
  name.

Only model-checked: liveness (`Converges`, `DeletionCompletes`,
`FollowerSettles` and the others under `FairSpec`), because fairness is beyond
the prover. That a system which has come to rest is in the right state is proved
of every controller (the `Rests...` theorems); that it comes to rest is not. Nor
are the three violations of "Disagreements" a matter of proof.

## Not modelled

* knative's `psbinding` beyond what `ProjectionController` says of it, in
  particular where a JSON patch made for a stale copy lands in a changed list;
* certificates, the webhook that validates config maps, and the start of the
  process: wiring of knative's `sharedmain`;
* deep copies, registration, fakes, filtered informers, `Delete` and
  `DeleteCollection` of the clients: generated code without state of its own, or
  without a caller. Deep copies are modelled by what they are for: a worker's
  copy is a value of its own.

`PROJECT.json` lists each part with its reason.

## Left to do

* Action properties of the controllers that follow from the invariants above,
  such as a projection's finalizer being removed only by its worker.
* The order in which Do leaves compatible projections does not depend on the
  order in which they were bound: `Converges` rests on it, and with it the safety
  half of a termination argument would be proved.
* That `MergeSort` loses and doubles no element, for lists of any length, which
  would free the theorems that do not depend on the order from `Short`.
* Where the JSON patch of a stale copy lands in a list that has changed.
