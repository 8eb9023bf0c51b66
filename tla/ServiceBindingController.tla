---------------------- MODULE ServiceBindingController ----------------------
(***************************************************************************)
(* The controller that turns ServiceBindings into ServiceBindingProjections*)
(* (pkg/reconciler/servicebinding, the generated reconciler around it and  *)
(* pkg/resolver), against an API server whose objects it reads from        *)
(* informer caches and writes with optimistic concurrency.                 *)
(*                                                                         *)
(* A key n of Names is the namespace/name of a ServiceBinding and of the   *)
(* projection made from it (resources/names).  The slot of an object is    *)
(* the window of its versions that the informer has not delivered yet: its *)
(* first element is the informer's copy, its last one the API server's.    *)
(***************************************************************************)
EXTENDS Conditions, Integers, Sequences

CONSTANTS
  Names,        \* keys of ServiceBindings
  Services,     \* provisioned services, referenced by kind and name
  Deployed,     \* [Services -> status.binding, or Missing] at the start
  Secrets,      \* names of secrets; spec.service may refer to one directly
  Wants,        \* values of spec.name, type, provider, workload and env
  Metas,        \* values of the labels and the annotations that are copied
  Reports,      \* what the projection controller may report as Ready
  NoSecret,     \* LocalObjectReference whose name is empty
  Nil,          \* a nil *LocalObjectReference
  Missing,      \* a service that does not exist
  MaxAttempts,  \* attempts of RetryUpdateConflicts
  MaxTime,      \* bound: ticks of the clock
  MaxEdits,     \* bound: changes made from outside of the controller
  MaxLag,       \* bound: versions of an object that an informer has yet to see
  MaxFaults,    \* bound: failed requests and restarts of the manager
  NameReuse,    \* may a deleted ServiceBinding be created again?
  Intruders     \* may others create, edit or delete the projections?

ASSUME SentinelsAssumption ==
  /\ Services \cap Secrets = {}
  /\ NoSecret \notin Secrets
  /\ Nil \notin Secrets \cup {NoSecret}
  /\ Missing \notin Secrets \cup {NoSecret}
ASSUME NonemptyAssumption ==
  Services \cup Secrets # {} /\ Wants # {} /\ Metas # {}
ASSUME DeployedAssumption ==
  Deployed \in [Services -> Secrets \cup {NoSecret, Missing}]
ASSUME ReportsAssumption == Reports \subseteq Report
ASSUME BoundsAssumption ==
  /\ MaxAttempts \in Nat \ {0}
  /\ MaxTime \in Nat
  /\ MaxEdits \in Nat
  /\ MaxLag \in Nat \ {0}
  /\ MaxFaults \in Nat
  /\ NameReuse \in BOOLEAN
  /\ Intruders \in BOOLEAN

VARIABLES
  sbs,      \* [Names -> window of ServiceBindings]
  projs,    \* [Names -> window of ServiceBindingProjections]
  svcs,     \* [Services -> window of status.binding, or Missing]
  tracked,  \* the resolver's tracker: the keys to enqueue for a service
  queue,    \* keys waiting in the work queue
  work,     \* [Names -> what the worker that holds the key is doing]
  clock,    \* the time that r.now() returns
  edits,    \* changes made from outside so far
  faults    \* failures so far

vars == <<sbs, projs, svcs, tracked, queue, work, clock, edits, faults>>

-----------------------------------------------------------------------------
\* Objects.  A ServiceBinding's slot keeps the uid of the last one after it
\* is deleted; uid 0 is none, and the owner of a projection that no
\* ServiceBinding controls.  A projection needs neither uid nor version: each
\* write is a version in its window, so that the copy in the lister, which
\* the controller reads in the very step that writes, is the API server's
\* copy just when the window is settled.

References == Services \cup Secrets
Bindings == Secrets \cup {NoSecret}

Status ==
  [observedGeneration : Nat,
   binding : Bindings \cup {Nil},
   conditions : ConditionSet]

NoStatus ==
  [observedGeneration |-> 0, binding |-> Nil, conditions |-> NoConditions]

ServiceBinding ==
  [exists : BOOLEAN, uid : Nat, resourceVersion : Nat, generation : Nat,
   deleting : BOOLEAN, service : References, want : Wants, meta : Metas,
   status : Status]

ServiceBindingProjection ==
  [exists : BOOLEAN, owner : Nat, deleting : BOOLEAN, finalizer : BOOLEAN,
   binding : Bindings, want : Wants, meta : Metas, ready : Report]

\* The copy that the lister returns and the one that the API server holds.
Lister(window) == window[1]
Server(window) == window[Len(window)]
Settled(window) == Len(window) = 1
Stored(window, o) == Append(window, o)

\* The bound on how far an informer may fall behind.
Room(window) == Len(window) <= MaxLag

\* Slots without an object; the other fields of one mean nothing.
NoServiceBinding(uid) ==
  [exists |-> FALSE, uid |-> uid, resourceVersion |-> 0, generation |-> 0,
   deleting |-> FALSE, service |-> CHOOSE r \in References : TRUE,
   want |-> CHOOSE w \in Wants : TRUE, meta |-> CHOOSE m \in Metas : TRUE,
   status |-> NoStatus]

NoProjection ==
  [exists |-> FALSE, owner |-> 0, deleting |-> FALSE, finalizer |-> FALSE,
   binding |-> NoSecret,
   want |-> CHOOSE w \in Wants : TRUE, meta |-> CHOOSE m \in Metas : TRUE,
   ready |-> NoReport]

\* The next version of an object.
Revised(o) == [o EXCEPT !.resourceVersion = @ + 1]

\* The preconditions of a PUT: the binding is still the one that was read.
Unmodified(server, copy) ==
  /\ server.exists
  /\ server.uid = copy.uid
  /\ server.resourceVersion = copy.resourceVersion

-----------------------------------------------------------------------------
\* A worker.  existing is the copy whose status updateStatus replaces: the
\* informer's at first, then the one that the last GET returned; resource is
\* the deep copy that ReconcileKind works on; err is the error it returned.

Steps == {"idle", "track", "lookup", "project", "status", "get"}

Work ==
  [pc : Steps, now : Nat, existing : ServiceBinding,
   resource : ServiceBinding, err : BOOLEAN, attempts : Nat]

Idle ==
  [pc |-> "idle", now |-> 0, existing |-> NoServiceBinding(0),
   resource |-> NoServiceBinding(0), err |-> FALSE, attempts |-> 0]

\* The projection that resources.MakeServiceBindingProjection builds for a
\* binding, as far as Create and Update take it from there.
Desired(binding) ==
  [binding |-> binding.status.binding, want |-> binding.want,
   meta |-> binding.meta]

MakeServiceBindingProjection(binding) ==
  [exists |-> TRUE, owner |-> binding.uid, deleting |-> FALSE,
   finalizer |-> FALSE, binding |-> binding.status.binding, want |-> binding.want,
   meta |-> binding.meta, ready |-> NoReport]

serviceBindingProjectionSemanticEquals(desired, p) ==
  desired = [binding |-> p.binding, want |-> p.want, meta |-> p.meta]

\* The CRDs require a non-empty name wherever a binding is stored.
Valid(binding) == binding # NoSecret

\* A worker looks up only what is not a Secret, and makes a projection only
\* from a resolved reference: the early return of serviceBindingProjection for
\* a nil Status.Binding is never taken.
StepOK(w) ==
  /\ w.pc = "lookup" => w.resource.service \in Services
  /\ w.pc = "project" => w.resource.status.binding # Nil

\* Every variable has its type and no window is empty.
TypeOK ==
  /\ sbs \in [Names -> Seq(ServiceBinding)]
  /\ projs \in [Names -> Seq(ServiceBindingProjection)]
  /\ svcs \in [Services -> Seq(Bindings \cup {Missing})]
  /\ \A n \in Names : sbs[n] # << >> /\ projs[n] # << >>
  /\ \A s \in Services : svcs[s] # << >>
  /\ tracked \in [Services -> SUBSET Names]
  /\ queue \subseteq Names
  /\ work \in [Names -> Work]
  /\ \A n \in Names : StepOK(work[n])
  /\ clock \in 0..MaxTime
  /\ edits \in 0..MaxEdits
  /\ faults \in 0..MaxFaults

Init ==
  /\ sbs = [n \in Names |-> <<NoServiceBinding(0)>>]
  /\ projs = [n \in Names |-> <<NoProjection>>]
  /\ svcs = [s \in Services |-> <<Deployed[s]>>]
  /\ tracked = [s \in Services |-> {}]
  /\ queue = {}
  /\ work = [n \in Names |-> Idle]
  /\ clock = 0
  /\ edits = 0
  /\ faults = 0

-----------------------------------------------------------------------------
\* The worker that holds key n.

\* reconcilerImpl.Reconcile up to ReconcileKind's InitializeConditions.  A
\* binding that is gone or being deleted is left alone.
Reconcile(n) ==
  LET original == Lister(sbs[n])
  IN  /\ n \in queue
      /\ work[n].pc = "idle"
      /\ queue' = queue \ {n}
      /\ work' = IF ~original.exists \/ original.deleting
                 THEN work
                 ELSE [work EXCEPT ![n] =
                        [pc |-> "track", now |-> clock, err |-> FALSE,
                         existing |-> original, attempts |-> 0,
                         resource |-> [original EXCEPT
                           !.status.conditions =
                             InitializeConditions(@, clock)]]]
      /\ UNCHANGED <<sbs, projs, svcs, tracked, clock, edits, faults>>

\* ReconcileKind once provisionedSecret has returned the reference b.
Resolved(w, b) ==
  [w EXCEPT
     !.pc = "project",
     !.resource.status.binding = b,
     !.resource.status.conditions = MarkServiceAvailable(@, w.now)]

\* ReconcileKind returns an error; the status is written all the same.
Failed(w) == [w EXCEPT !.pc = "status", !.err = TRUE]

\* Mutant of Projected: the wrong counter is recorded.
ProjectedVersion(w, p) ==
  [w EXCEPT
     !.pc = "status",
     !.resource.status.conditions =
       PropagateServiceBindingProjectionStatus(@, p.ready, w.now),
     !.resource.status.observedGeneration = w.resource.resourceVersion]

\* ReconcileKind ends with the projection p in hand.
Projected(w, p) ==
  [w EXCEPT
     !.pc = "status",
     !.resource.status.conditions =
       PropagateServiceBindingProjectionStatus(@, p.ready, w.now),
     !.resource.status.observedGeneration = w.resource.generation]

\* Mutant of TrackReference: the service is looked up but not tracked.
TrackNothing(n) ==
  LET ref == work[n].resource.service
  IN  /\ work[n].pc = "track"
      /\ work' = [work EXCEPT ![n] = IF ref \in Secrets
                                     THEN Resolved(@, ref)
                                     ELSE [@ EXCEPT !.pc = "lookup"]]
      /\ UNCHANGED <<sbs, projs, svcs, tracked, queue, clock, edits, faults>>

\* Mutant of TrackReference: the tracker remembers one key per service.
TrackLast(n) ==
  LET ref == work[n].resource.service
  IN  /\ work[n].pc = "track"
      /\ IF ref \in Secrets
         THEN /\ work' = [work EXCEPT ![n] = Resolved(@, ref)]
              /\ UNCHANGED tracked
         ELSE /\ work' = [work EXCEPT ![n].pc = "lookup"]
              /\ tracked' = [tracked EXCEPT ![ref] = {n}]
      /\ UNCHANGED <<sbs, projs, svcs, queue, clock, edits, faults>>

\* ServiceableFromObjectReference: a Secret is its own answer, any other
\* reference is tracked before it is looked up.
TrackReference(n) ==
  LET ref == work[n].resource.service
  IN  /\ work[n].pc = "track"
      /\ IF ref \in Secrets
         THEN /\ work' = [work EXCEPT ![n] = Resolved(@, ref)]
              /\ UNCHANGED tracked
         ELSE /\ work' = [work EXCEPT ![n].pc = "lookup"]
              /\ tracked' = [tracked EXCEPT ![ref] = @ \cup {n}]
      /\ UNCHANGED <<sbs, projs, svcs, queue, clock, edits, faults>>

\* Mutant of LookupService: the lister's error is ignored.
LookupUnchecked(n) ==
  /\ work[n].pc = "lookup"
  /\ work' = [work EXCEPT ![n] =
       Resolved(@, Lister(svcs[work[n].resource.service]))]
  /\ UNCHANGED <<sbs, projs, svcs, tracked, queue, clock, edits, faults>>

\* ... the lister's copy of the service, or the error that it has none.
LookupService(n) ==
  LET service == Lister(svcs[work[n].resource.service])
  IN  /\ work[n].pc = "lookup"
      /\ work' = [work EXCEPT ![n] = IF service = Missing
                                     THEN Failed(@)
                                     ELSE Resolved(@, service)]
      /\ UNCHANGED <<sbs, projs, svcs, tracked, queue, clock, edits, faults>>

\* The answer to a write that the API server has applied: w, or an error if
\* the answer is lost on its way.
Answered(n, w) ==
  \/ /\ work' = [work EXCEPT ![n] = w]
     /\ UNCHANGED faults
  \/ /\ faults < MaxFaults
     /\ faults' = faults + 1
     /\ work' = [work EXCEPT ![n] = Failed(@)]

\* The lister has no projection: create one.  The API server refuses a name
\* that is taken and a binding without a name.
createServiceBindingProjection(n) ==
  LET binding == work[n].resource
      server == Server(projs[n])
      created == MakeServiceBindingProjection(binding)
  IN  IF ~server.exists /\ Valid(binding.status.binding)
      THEN /\ Room(projs[n])
           /\ projs' = [projs EXCEPT ![n] = Stored(@, created)]
           /\ Answered(n, Projected(work[n], created))
      ELSE /\ work' = [work EXCEPT ![n] = Failed(@)]
           /\ UNCHANGED <<projs, faults>>

\* The lister's projection differs from the desired one: replace its spec,
\* labels and annotations, provided that nobody wrote it since.
reconcileServiceBindingProjection(n) ==
  LET binding == work[n].resource
      server == Server(projs[n])
      updated == [server EXCEPT
                    !.binding = binding.status.binding,
                    !.want = binding.want,
                    !.meta = binding.meta]
  IN  IF /\ Settled(projs[n])
         /\ Valid(binding.status.binding)
      THEN /\ Room(projs[n])
           /\ projs' = [projs EXCEPT ![n] = Stored(@, updated)]
           /\ Answered(n, Projected(work[n], updated))
      ELSE /\ work' = [work EXCEPT ![n] = Failed(@)]
           /\ UNCHANGED <<projs, faults>>

\* Mutant of IsControlledBy: a projection that differs is taken over.
IsTakenOver(p, binding) ==
  \/ p.owner = binding.uid
  \/ ~serviceBindingProjectionSemanticEquals(Desired(binding), p)

\* Mutant of IsControlledBy: the owner is not recorded as the controller.
IsControlledNever(p, binding) == FALSE

\* metav1.IsControlledBy.
IsControlledBy(p, binding) == p.owner = binding.uid

serviceBindingProjection(n) ==
  LET binding == work[n].resource
      listed == Lister(projs[n])
      equal == serviceBindingProjectionSemanticEquals(Desired(binding), listed)
  IN  /\ work[n].pc = "project"
      /\ \/ /\ ~listed.exists
            /\ createServiceBindingProjection(n)
         \/ /\ listed.exists
            /\ ~IsControlledBy(listed, binding)
            /\ work' = [work EXCEPT ![n] = Failed(@)]
            /\ UNCHANGED <<projs, faults>>
         \/ /\ listed.exists
            /\ IsControlledBy(listed, binding)
            /\ equal
            /\ work' = [work EXCEPT ![n] = Projected(@, listed)]
            /\ UNCHANGED <<projs, faults>>
         \/ /\ listed.exists
            /\ IsControlledBy(listed, binding)
            /\ ~equal
            /\ reconcileServiceBindingProjection(n)
      /\ UNCHANGED <<sbs, svcs, tracked, queue, clock, edits>>

\* Reconcile returns: the key is forgotten, or put back after an error.
Return(n, err) ==
  /\ work' = [work EXCEPT ![n] = Idle]
  /\ queue' = IF err THEN queue \cup {n} ELSE queue

\* updateStatus, one attempt of RetryUpdateConflicts: nothing to do, the
\* status is stored, it conflicts with another write, or it is refused.
updateStatus(n) ==
  LET w == work[n]
      server == Server(sbs[n])
      changed == w.existing.status # w.resource.status
  IN  /\ w.pc = "status"
      /\ \/ /\ ~changed
            /\ Return(n, w.err)
            /\ UNCHANGED <<sbs, faults>>
         \/ /\ changed
            /\ Unmodified(server, w.existing)
            /\ Valid(w.resource.status.binding)
            /\ Room(sbs[n])
            /\ sbs' = [sbs EXCEPT ![n] =
                 Stored(@, [Revised(server) EXCEPT
                              !.status = w.resource.status])]
            /\ \/ Return(n, w.err) /\ UNCHANGED faults
               \/ /\ faults < MaxFaults
                  /\ faults' = faults + 1
                  /\ Return(n, TRUE)
         \/ /\ changed
            /\ server.exists
            /\ ~Unmodified(server, w.existing)
            /\ IF w.attempts + 1 < MaxAttempts
               THEN /\ work' = [work EXCEPT ![n].pc = "get",
                                            ![n].attempts = @ + 1]
                    /\ UNCHANGED queue
               ELSE Return(n, TRUE)
            /\ UNCHANGED <<sbs, faults>>
         \/ /\ changed
            /\ \/ ~server.exists
               \/ /\ Unmodified(server, w.existing)
                  /\ ~Valid(w.resource.status.binding)
            /\ Return(n, TRUE)
            /\ UNCHANGED <<sbs, faults>>
      /\ UNCHANGED <<projs, svcs, tracked, clock, edits>>

\* The GET, by name, that precedes every further attempt.
getExisting(n) ==
  LET server == Server(sbs[n])
  IN  /\ work[n].pc = "get"
      /\ IF server.exists
         THEN /\ work' = [work EXCEPT ![n].pc = "status",
                                      ![n].existing = server]
              /\ UNCHANGED queue
         ELSE Return(n, TRUE)
      /\ UNCHANGED <<sbs, projs, svcs, tracked, clock, edits, faults>>

\* A request of the worker fails before the API server has applied it.
RequestFails(n) ==
  LET w == work[n]
      listed == Lister(projs[n])
  IN  /\ faults < MaxFaults
      /\ faults' = faults + 1
      /\ \/ /\ w.pc = "project"
            /\ \/ ~listed.exists
               \/ /\ IsControlledBy(listed, w.resource)
                  /\ ~serviceBindingProjectionSemanticEquals(
                        Desired(w.resource), listed)
            /\ work' = [work EXCEPT ![n] = Failed(@)]
            /\ UNCHANGED queue
         \/ /\ \/ w.pc = "get"
               \/ w.pc = "status" /\ w.existing.status # w.resource.status
            /\ Return(n, TRUE)
      /\ UNCHANGED <<sbs, projs, svcs, tracked, clock, edits>>

Worker(n) ==
  \/ Reconcile(n)
  \/ TrackReference(n)
  \/ LookupService(n)
  \/ serviceBindingProjection(n)
  \/ updateStatus(n)
  \/ getExisting(n)
  \/ RequestFails(n)

-----------------------------------------------------------------------------
\* The informers.  Each delivers the versions of an object in order and puts
\* the keys that depend on it into the queue.

\* HandleAll(impl.Enqueue).
DeliverServiceBinding(n) ==
  /\ ~Settled(sbs[n])
  /\ sbs' = [sbs EXCEPT ![n] = Tail(@)]
  /\ queue' = queue \cup {n}
  /\ UNCHANGED <<projs, svcs, tracked, work, clock, edits, faults>>

\* FilterControllerGK, then impl.EnqueueControllerOf: the owner's name is n.
DeliverProjection(n) ==
  /\ ~Settled(projs[n])
  /\ projs' = [projs EXCEPT ![n] = Tail(@)]
  /\ queue' = IF projs[n][1].owner # 0 \/ projs[n][2].owner # 0
              THEN queue \cup {n} ELSE queue
  /\ UNCHANGED <<sbs, svcs, tracked, work, clock, edits, faults>>

\* tracker.OnChanged.
DeliverService(s) ==
  /\ ~Settled(svcs[s])
  /\ svcs' = [svcs EXCEPT ![s] = Tail(@)]
  /\ queue' = queue \cup tracked[s]
  /\ UNCHANGED <<sbs, projs, tracked, work, clock, edits, faults>>

\* The periodic resync of the informers, and the PromoteFunc of a new leader.
Resync(n) ==
  /\ Lister(sbs[n]).exists
  /\ queue' = queue \cup {n}
  /\ UNCHANGED <<sbs, projs, svcs, tracked, work, clock, edits, faults>>

\* The manager's process dies and another one starts: what it held in memory
\* is gone, and the informers list everything anew.
Restart ==
  /\ faults < MaxFaults
  /\ faults' = faults + 1
  /\ sbs' = [n \in Names |-> <<Server(sbs[n])>>]
  /\ projs' = [n \in Names |-> <<Server(projs[n])>>]
  /\ svcs' = [s \in Services |-> <<Server(svcs[s])>>]
  /\ tracked' = [s \in Services |-> {}]
  /\ queue' = {n \in Names : \/ Server(sbs[n]).exists
                             \/ Server(projs[n]).owner # 0}
  /\ work' = [n \in Names |-> Idle]
  /\ UNCHANGED <<clock, edits>>

Tick ==
  /\ clock < MaxTime
  /\ clock' = clock + 1
  /\ UNCHANGED <<sbs, projs, svcs, tracked, queue, work, edits, faults>>

-----------------------------------------------------------------------------
\* Users, other controllers and the garbage collector (external).

Edit == edits < MaxEdits /\ edits' = edits + 1

\* The API server stores version o of an object.
StoreBinding(n, o) ==
  /\ Room(sbs[n])
  /\ sbs' = [sbs EXCEPT ![n] = Stored(@, o)]
  /\ UNCHANGED <<projs, svcs, tracked, queue, work, clock, faults>>

StoreProjection(n, o) ==
  /\ Room(projs[n])
  /\ projs' = [projs EXCEPT ![n] = Stored(@, o)]
  /\ UNCHANGED <<sbs, svcs, tracked, queue, work, clock, faults>>

StoreService(s, b) ==
  /\ Room(svcs[s])
  /\ svcs' = [svcs EXCEPT ![s] = Stored(@, b)]
  /\ UNCHANGED <<sbs, projs, tracked, queue, work, clock, faults>>

CreateBinding(n) ==
  LET sb == Server(sbs[n])
  IN  /\ Edit
      /\ ~sb.exists
      /\ NameReuse \/ sb.uid = 0
      /\ \E service \in References, want \in Wants, meta \in Metas :
           StoreBinding(n,
             [exists |-> TRUE, uid |-> sb.uid + 1, resourceVersion |-> 1,
              generation |-> 1, deleting |-> FALSE, service |-> service,
              want |-> want, meta |-> meta, status |-> NoStatus])

\* A change of the spec counts as a generation, one of the metadata does not.
EditBinding(n) ==
  LET sb == Server(sbs[n])
  IN  /\ Edit
      /\ sb.exists
      /\ \/ \E service \in References, want \in Wants :
              /\ <<service, want>> # <<sb.service, sb.want>>
              /\ StoreBinding(n, [Revised(sb) EXCEPT !.generation = @ + 1,
                                                     !.service = service,
                                                     !.want = want])
         \/ \E meta \in Metas \ {sb.meta} :
              StoreBinding(n, [Revised(sb) EXCEPT !.meta = meta])

\* Deletion: at once, or in the foreground, after the dependents are gone.
DeleteBinding(n) ==
  LET sb == Server(sbs[n])
  IN  /\ Edit
      /\ sb.exists
      /\ \/ StoreBinding(n, NoServiceBinding(sb.uid))
         \/ /\ ~sb.deleting
            /\ StoreBinding(n, [Revised(sb) EXCEPT !.deleting = TRUE])

PublishService(s) ==
  /\ Edit
  /\ \E b \in (Bindings \cup {Missing}) \ {Server(svcs[s])} :
       StoreService(s, b)

\* The projection controller adds its finalizer and reports on the workload.
ReportProjection(n) ==
  LET p == Server(projs[n])
  IN  /\ Edit
      /\ p.exists
      /\ ~p.deleting
      /\ \E r \in Reports \ {p.ready} :
           StoreProjection(n, [p EXCEPT !.ready = r,
                                                 !.finalizer = TRUE])

\* Others write the projection of a binding, delete it or take its name.
IntrudeProjection(n) ==
  LET p == Server(projs[n])
  IN  /\ Intruders
      /\ Edit
      /\ \/ /\ p.exists
            /\ \E want \in Wants \ {p.want} :
                 StoreProjection(n, [p EXCEPT !.want = want])
         \/ /\ p.exists
            /\ ~p.deleting
            /\ StoreProjection(n,
                 IF p.finalizer THEN [p EXCEPT !.deleting = TRUE]
                                ELSE NoProjection)
         \/ /\ ~p.exists
            /\ \E b \in Secrets :
                 StoreProjection(n, [NoProjection EXCEPT
                   !.exists = TRUE, !.binding = b])

\* The projection controller has unbound the workload of a deleted projection.
FinalizeProjection(n) ==
  LET p == Server(projs[n])
  IN  /\ p.exists
      /\ p.deleting
      /\ StoreProjection(n, NoProjection)
      /\ UNCHANGED edits

\* The garbage collector deletes a projection whose owner is gone, or is
\* being deleted in the foreground, and then removes such an owner.
CollectProjection(n) ==
  LET sb == Server(sbs[n])
      p == Server(projs[n])
  IN  /\ p.exists
      /\ ~p.deleting
      /\ p.owner # 0
      /\ ~sb.exists \/ sb.uid # p.owner \/ sb.deleting
      /\ StoreProjection(n,
           IF p.finalizer THEN [p EXCEPT !.deleting = TRUE]
                          ELSE NoProjection)
      /\ UNCHANGED edits

CollectBinding(n) ==
  LET sb == Server(sbs[n])
      p == Server(projs[n])
  IN  /\ sb.exists
      /\ sb.deleting
      /\ ~(p.exists /\ p.owner = sb.uid)
      /\ StoreBinding(n, NoServiceBinding(sb.uid))
      /\ UNCHANGED edits

-----------------------------------------------------------------------------
Users ==
  \/ \E n \in Names : \/ CreateBinding(n)
                      \/ EditBinding(n)
                      \/ DeleteBinding(n)
                      \/ ReportProjection(n)
                      \/ IntrudeProjection(n)
  \/ \E s \in Services : PublishService(s)

Cluster ==
  \/ \E n \in Names : \/ FinalizeProjection(n)
                      \/ CollectProjection(n)
                      \/ CollectBinding(n)

Informers ==
  \/ \E n \in Names : \/ DeliverServiceBinding(n)
                      \/ DeliverProjection(n)
                      \/ Resync(n)
  \/ \E s \in Services : DeliverService(s)

Next ==
  \/ \E n \in Names : Worker(n)
  \/ Informers
  \/ Cluster
  \/ Users
  \/ Restart
  \/ Tick

Spec == Init /\ [][Next]_vars

\* What the manager and the cluster do by themselves is not put off for ever;
\* users, failures, restarts and the resync owe nothing.
Fairness ==
  /\ \A n \in Names :
       /\ WF_vars(Reconcile(n))
       /\ WF_vars(TrackReference(n))
       /\ WF_vars(LookupService(n))
       /\ WF_vars(serviceBindingProjection(n))
       /\ WF_vars(updateStatus(n))
       /\ WF_vars(getExisting(n))
       /\ WF_vars(DeliverServiceBinding(n))
       /\ WF_vars(DeliverProjection(n))
       /\ WF_vars(FinalizeProjection(n))
       /\ WF_vars(CollectProjection(n))
       /\ WF_vars(CollectBinding(n))
  /\ \A s \in Services : WF_vars(DeliverService(s))

FairSpec == Spec /\ Fairness

-----------------------------------------------------------------------------
\* Properties.

\* Every status that is stored, delivered or being computed has a Ready
\* condition that aggregates the other two, whichever path ReconcileKind took
\* and however stale the copy was that it started from.
ReadyAggregates ==
  \A n \in Names :
    /\ \A i \in DOMAIN sbs[n] : Aggregated(sbs[n][i].status.conditions)
    /\ Aggregated(work[n].resource.status.conditions)

\* No version of the first ServiceBinding of a name claims that the controller
\* has processed a generation that it has not reached, although updateStatus
\* stores a status computed from an older copy over whatever the API server
\* holds: "ObservedGeneration is the 'Generation' of the ServiceBinding that was
\* last processed by the controller" (servicebinding_types.go).  One that
\* follows under the same name may be given its predecessor's status.
ObservedWithinGeneration ==
  \A n \in Names : \A i \in DOMAIN sbs[n] :
    sbs[n][i].uid = 1 =>
      sbs[n][i].status.observedGeneration <= sbs[n][i].generation

\* The secret that a reference resolves to on the API server.
Provided(ref) == IF ref \in Secrets THEN ref ELSE Server(svcs[ref])

\* The projection and the status are what ReconcileKind makes of the binding.
Bound(n) ==
  LET sb == Server(sbs[n])
      p == Server(projs[n])
      c == sb.status.conditions
  IN  /\ p.exists
      /\ p.owner = sb.uid
      /\ p.binding = Provided(sb.service)
      /\ p.want = sb.want
      /\ p.meta = sb.meta
      /\ sb.status.observedGeneration = sb.generation
      /\ sb.status.binding = p.binding
      /\ c["ServiceAvailable"].status = "True"
      /\ c["ProjectionReady"].status = ReportedStatus(p.ready)
      /\ c["ProjectionReady"].reason = <<"", ReportedReason(p.ready)>>

\* Nothing is left to do for key n: no event to deliver, no key to work on.
Quiescent(n) ==
  /\ n \notin queue
  /\ work[n].pc = "idle"
  /\ Settled(sbs[n])
  /\ Settled(projs[n])
  /\ \A s \in Services : Settled(svcs[s])

\* No wake-up is lost: when the controller rests, every binding that exists is
\* bound, to the secret its service provides now and with the status that its
\* projection reports now.  Every path that leaves one unbound keeps the key.
RestsOnlyWhenBound ==
  \A n \in Names :
    Quiescent(n) /\ Server(sbs[n]).exists /\ ~Server(sbs[n]).deleting
      => Bound(n)

\* The controller changes the spec or the metadata of a projection only for
\* the incarnation of the binding that controls it (IsControlledBy): neither
\* another's projection under the same name nor that of a predecessor.
WritesOnlyOwnProjections ==
  [][\A n \in Names :
       LET p == Server(projs[n])
           q == Server(projs'[n])
       IN  (/\ edits' = edits
            /\ p.exists /\ q.exists
            /\ <<q.binding, q.want, q.meta>> # <<p.binding, p.want, p.meta>>)
           => p.owner = work[n].resource.uid /\ q.owner = p.owner]_vars

\* A binding that can be bound, and a projection that has lost its binding.
Bindable(n) ==
  LET sb == Server(sbs[n])
      p == Server(projs[n])
  IN  /\ sb.exists
      /\ ~sb.deleting
      /\ Provided(sb.service) \in Secrets
      /\ p.exists => p.owner # 0

Orphaned(n) ==
  /\ ~Server(sbs[n]).exists
  /\ Server(projs[n]).exists
  /\ Server(projs[n]).owner # 0

\* Whatever users, failures and restarts did, once they stop, every binding
\* whose service provides a secret becomes and stays bound, and no projection
\* outlives its binding, not even one created after the binding was deleted.
Converges ==
  <>[](\A n \in Names : (Bindable(n) => Bound(n)) /\ ~Orphaned(n))
=============================================================================
