------------------------ MODULE ProjectionController ------------------------
(***************************************************************************)
(* The controller that keeps workloads bound as the projections say        *)
(* (pkg/reconciler/servicebindingprojection), and the webhook that binds   *)
(* workloads when they are stored (NewBindingWebhook in cmd/manager).      *)
(*                                                                         *)
(* knative's psbinding.BaseReconciler and its webhook are external: they   *)
(* are modelled as NewController and NewBindingWebhook set them up and as  *)
(* they call the methods of ServiceBindingProjection.  What Do and Undo    *)
(* make of a pod template is in Projection; here a workload is the secret  *)
(* that it bears for each projection.  A patch is what it adds and         *)
(* removes.                                                                *)
(*                                                                         *)
(* Objects are windows of versions as in ServiceBindingController: the     *)
(* first element is the informer's copy, the last one the API server's.    *)
(***************************************************************************)
EXTENDS Integers, Sequences

CONSTANTS
  Names,          \* projections
  Workloads,      \* workloads
  Everything,     \* a selector that every workload matches
  References,     \* values of spec.workload: workloads' names, or Everything
  Secrets,        \* values of spec.binding
  NoSecret,       \* not bound
  Excluded,       \* workloads that bear BindingExcludeLabel
  Included,       \* workloads that bear BindingIncludeLabel
  SelectionMode,  \* BINDING_SELECTION_MODE
  MaxEdits,       \* bound: changes by users and by the ServiceBinding controller
  MaxLag,         \* bound: versions of an object that an informer has yet to see
  MaxFaults       \* bound: failed requests, restarts and demotions

ASSUME ReferencesAssumption ==
  Everything \notin Workloads /\ References \subseteq Workloads \cup {Everything}
ASSUME SecretsAssumption == NoSecret \notin Secrets
ASSUME BoundsAssumption ==
  /\ MaxEdits \in Nat
  /\ MaxLag \in Nat \ {0}
  /\ MaxFaults \in Nat

VARIABLES
  projs,    \* [Names -> window of projections]
  loads,    \* [Workloads -> window of workloads]
  tracked,  \* [References -> projections that track it]
  queue,    \* keys waiting in the work queue
  work,     \* [Names -> what the worker of the key is doing]
  index,    \* [Names -> the projection by which the webhook binds]
  leading,  \* IsLeaderFor
  edits,    \* changes from outside so far
  faults,   \* failures so far
  skipped,  \* history: keys that were dropped when they were last taken, for
            \* want of the lead
  overruled \* history: [Names -> workloads that the last reconciliation has
            \* patched in vain, the webhook putting back what was there]

history == <<skipped, overruled>>
vars == <<projs, loads, tracked, queue, work, index, leading, edits, faults, history>>

-----------------------------------------------------------------------------
\* The conditions Ready and WorkloadAvailable always agree.
Status ==
  [observedGeneration : Nat, ready : {"", "Unknown", "True", "False"},
   reason : {"", "WorkloadMissing", "BindingFailed"}]

NoStatus == [observedGeneration |-> 0, ready |-> "", reason |-> ""]

Projection ==
  [exists : BOOLEAN, resourceVersion : Nat, generation : Nat, deleting : BOOLEAN,
   finalizer : BOOLEAN, workload : References \cup {Everything},
   binding : Secrets \cup {NoSecret}, status : Status]

\* No projection; its version is the last one that was given out.
NoProjection(resourceVersion) ==
  [exists |-> FALSE, resourceVersion |-> resourceVersion, generation |-> 0,
   deleting |-> FALSE, finalizer |-> FALSE, workload |-> Everything,
   binding |-> NoSecret, status |-> NoStatus]

Workload == [exists : BOOLEAN, bound : [Names -> Secrets \cup {NoSecret}]]
Unbound == [n \in Names |-> NoSecret]
NoWorkload == [exists |-> FALSE, bound |-> Unbound]

Lister(n) == projs[n][1]
Server(n) == projs[n][Len(projs[n])]
Cached(w) == loads[w][1]
Current(w) == loads[w][Len(loads[w])]

\* The API server stores p under n; a projection that is being deleted goes
\* with its finalizer.
Store(n, p) ==
  /\ Len(projs[n]) <= MaxLag
  /\ projs' = [projs EXCEPT ![n] = Append(@,
       IF p.deleting /\ ~p.finalizer
       THEN NoProjection(p.resourceVersion + 1)
       ELSE [p EXCEPT !.resourceVersion = @ + 1])]

Unmodified(n, p) == Server(n).exists /\ Server(n).resourceVersion = p.resourceVersion

Live(p) == p.exists /\ ~p.deleting

\* The projection's subject is, or selects, the workload w (GetSubject).
GetSubject(p, w) == p.workload \in {w, Everything}

Work ==
  [pc : {"idle", "finalizer", "subject", "patch", "removeFinalizer", "status"},
   original : Projection, resource : Projection,
   referents : SUBSET Workloads, failed : BOOLEAN]

Idle ==
  [pc |-> "idle", original |-> NoProjection(0), resource |-> NoProjection(0),
   referents |-> {}, failed |-> FALSE]

\* Every variable has its type, and a subject is only worked on for a
\* projection whose copy lives or still bears the finalizer.
TypeOK ==
  /\ projs \in [Names -> Seq(Projection)]
  /\ loads \in [Workloads -> Seq(Workload)]
  /\ \A n \in Names : projs[n] # << >>
  /\ \A w \in Workloads : loads[w] # << >>
  /\ tracked \in [References -> SUBSET Names]
  /\ queue \subseteq Names
  /\ work \in [Names -> Work]
  /\ \A n \in Names :
       work[n].pc \in {"subject", "patch", "removeFinalizer"}
         => Live(work[n].resource) \/ work[n].resource.finalizer
  /\ index \in [Names -> Projection]
  /\ leading \in BOOLEAN
  /\ edits \in 0..MaxEdits
  /\ faults \in 0..MaxFaults
  /\ skipped \subseteq Names
  /\ overruled \in [Names -> SUBSET Workloads]

Init ==
  /\ projs = [n \in Names |-> <<NoProjection(0)>>]
  /\ loads = [w \in Workloads |-> <<NoWorkload>>]
  /\ tracked = [ref \in References |-> {}]
  /\ queue = {}
  /\ work = [n \in Names |-> Idle]
  /\ index = [n \in Names |-> NoProjection(0)]
  /\ leading = TRUE
  /\ edits = 0
  /\ faults = 0
  /\ skipped = {}
  /\ overruled = [n \in Names |-> {}]

Fault == faults < MaxFaults /\ faults' = faults + 1

-----------------------------------------------------------------------------
\* The status setters of ServiceBindingProjectionStatus.

InitializeConditions(p) ==
  IF p.status.ready = "" THEN [p EXCEPT !.status.ready = "Unknown"] ELSE p

MarkBindingAvailable(p) ==
  [p EXCEPT !.status.ready = "True", !.status.reason = ""]

\* Mutant of Renamed: knative's reasons are repeated as they are.
RenamedNot(reason) == reason

\* What knative's "Subject..." reasons become.
Renamed(reason) == IF reason = "SubjectMissing" THEN "WorkloadMissing" ELSE reason

MarkBindingUnavailable(p, reason) ==
  [p EXCEPT !.status.ready = "False", !.status.reason = Renamed(reason)]

\* Mutant of SetObservedGeneration: it is forgotten.
SetObservedGenerationNot(p) == p

SetObservedGeneration(p) == [p EXCEPT !.status.observedGeneration = p.generation]

-----------------------------------------------------------------------------
\* The webhook.

\* Is the webhook called for requests about workload w (NewBindingWebhook)?
Selected(w) ==
  IF SelectionMode = "inclusion" THEN w \in Included ELSE w \notin Excluded

\* What a projection that it knows makes of a workload: Do, or Undo if the
\* projection is being deleted.
Mutation(p) == IF p.deleting THEN NoSecret ELSE p.binding

\* What is stored when bound is requested for workload w.
Admit(w, bound) ==
  [n \in Names |->
     IF Selected(w) /\ index[n].exists /\ GetSubject(index[n], w)
     THEN Mutation(index[n])
     ELSE bound[n]]

\* The API server stores workload w.  A request that changes nothing makes no
\* new version.
StoreWorkload(w, load) ==
  IF load = Current(w)
  THEN UNCHANGED loads
  ELSE /\ Len(loads[w]) <= MaxLag
       /\ loads' = [loads EXCEPT ![w] = Append(@, load)]

\* The projections by which the webhook would bind if it listed them now.
ListAll == [n \in Names |-> Lister(n)]

\* The webhook's own reconciler builds the index anew.
ProgramWebhook ==
  /\ index # ListAll
  /\ index' = ListAll
  /\ UNCHANGED <<projs, loads, tracked, queue, work, leading, edits, faults, history>>

-----------------------------------------------------------------------------
\* The reconciler: the worker that holds key n.

\* Reconcile up to the first request.
Reconcile(n) ==
  LET original == Lister(n)
      pc == IF original.deleting \/ original.finalizer THEN "subject" ELSE "finalizer"
  IN  /\ n \in queue
      /\ work[n].pc = "idle"
      /\ queue' = queue \ {n}
      /\ work' =
           IF leading /\ (Live(original) \/ original.finalizer)
           THEN [work EXCEPT ![n] =
                  [pc |-> pc, original |-> original,
                   resource |-> IF original.deleting THEN original
                                ELSE InitializeConditions(original),
                   referents |-> {}, failed |-> FALSE]]
           ELSE work
      /\ skipped' = IF leading THEN skipped \ {n} ELSE skipped \cup {n}
      /\ overruled' = IF leading THEN [overruled EXCEPT ![n] = {}] ELSE overruled
      /\ UNCHANGED <<projs, loads, tracked, index, leading, edits, faults>>

\* The reconciliation has failed; the status is stored all the same.
Fail(n) == work' = [work EXCEPT ![n].pc = "status", ![n].failed = TRUE]

Finalized(n, finalizer, pc) ==
  /\ IF Unmodified(n, work[n].resource)
     THEN /\ Store(n, [Server(n) EXCEPT !.finalizer = finalizer])
          /\ \/ work' = [work EXCEPT ![n].pc = pc] /\ UNCHANGED faults
             \/ Fail(n) /\ Fault
     ELSE Fail(n) /\ UNCHANGED <<projs, faults>>
  /\ UNCHANGED <<loads, tracked, queue, index, leading, edits, history>>

\* The finalizer is there before the subject is touched.
EnsureFinalizer(n) == work[n].pc = "finalizer" /\ Finalized(n, TRUE, "subject")

\* Mutant of TrackReference: the subject is not tracked.
TrackNothing(n) == UNCHANGED tracked

\* The tracker queues the projection whenever its subject changes.
TrackReference(n) ==
  tracked' = [tracked EXCEPT ![work[n].resource.workload] = @ \cup {n}]

\* ReconcileSubject up to the patches: the workloads of the informer's cache
\* that Do or Undo would change.  A subject that is referred to by its name
\* and is missing is an error; there is nothing to undo then.
ReconcileSubject(n) ==
  LET p == work[n].resource
      found == {w \in Workloads : Cached(w).exists /\ GetSubject(p, w)}
      missing == p.workload # Everything /\ found = {}
  IN  /\ work[n].pc = "subject"
      /\ TrackReference(n)
      /\ work' = [work EXCEPT
           ![n].resource = IF missing THEN MarkBindingUnavailable(p, "SubjectMissing") ELSE p,
           ![n].failed = missing /\ ~p.deleting,
           ![n].pc = CASE ~missing -> "patch"
                       [] missing /\ p.deleting -> "removeFinalizer"
                       [] missing /\ ~p.deleting -> "status",
           ![n].referents = {w \in found : Cached(w).bound[n] # Mutation(p)}]
      /\ UNCHANGED <<projs, loads, queue, index, leading, edits, faults, history>>

\* One patch; it goes through the webhook.  All are tried before the outcome
\* is looked at.
PatchWorkload(n, w) ==
  LET p == work[n].resource
      load == [exists |-> TRUE,
               bound |-> Admit(w, [Current(w).bound EXCEPT ![n] = Mutation(p)])]
  IN  /\ work[n].pc = "patch"
      /\ w \in work[n].referents
      /\ IF Current(w).exists
         THEN /\ StoreWorkload(w, load)
              /\ \/ /\ work' = [work EXCEPT ![n].referents = @ \ {w}]
                    /\ UNCHANGED faults
                 \/ /\ Fault
                    /\ work' = [work EXCEPT ![n].referents = @ \ {w},
                                            ![n].failed = TRUE]
         ELSE /\ work' = [work EXCEPT ![n].referents = @ \ {w},
                                      ![n].failed = @ \/ ~p.deleting]
              /\ UNCHANGED <<loads, faults>>
      /\ overruled' =
           IF load = Current(w) /\ load.bound[n] # Mutation(p)
           THEN [overruled EXCEPT ![n] = @ \cup {w}] ELSE overruled
      /\ UNCHANGED <<projs, tracked, queue, index, leading, edits, skipped>>

\* The outcome of the patches.
Patched(n) ==
  LET p == work[n].resource
  IN  /\ work[n].pc = "patch"
      /\ work[n].referents = {}
      /\ work' = [work EXCEPT
           ![n].resource = CASE work[n].failed -> MarkBindingUnavailable(p, "BindingFailed")
                             [] ~work[n].failed /\ p.deleting -> MarkBindingAvailable(p)
                             [] ~work[n].failed /\ ~p.deleting ->
                                  SetObservedGeneration(MarkBindingAvailable(p)),
           ![n].pc = IF p.deleting /\ ~work[n].failed
                     THEN "removeFinalizer" ELSE "status"]
      /\ UNCHANGED <<projs, loads, tracked, queue, index, leading, edits, faults, history>>

RemoveFinalizer(n) == work[n].pc = "removeFinalizer" /\ Finalized(n, FALSE, "status")

\* Reconcile returns; after an error the key is put back.
Return(n, err) ==
  /\ work' = [work EXCEPT ![n] = Idle]
  /\ queue' = IF err THEN queue \cup {n} ELSE queue

\* The status goes to what the lister returns now, in a single attempt.
UpdateStatus(n) ==
  LET w == work[n]
      actual == Lister(n)
      same == \/ w.resource.status = w.original.status
              \/ actual.exists /\ actual.status = w.resource.status
  IN  /\ w.pc = "status"
      /\ \/ /\ same
            /\ Return(n, w.failed)
            /\ UNCHANGED <<projs, faults>>
         \/ /\ ~same
            /\ actual.exists
            /\ Unmodified(n, actual)
            /\ Store(n, [Server(n) EXCEPT !.status = w.resource.status])
            /\ \/ Return(n, w.failed) /\ UNCHANGED faults
               \/ Return(n, TRUE) /\ Fault
         \/ /\ ~same
            /\ ~(actual.exists /\ Unmodified(n, actual))
            /\ Return(n, TRUE)
            /\ UNCHANGED <<projs, faults>>
      /\ UNCHANGED <<loads, tracked, index, leading, edits, history>>

\* A request of the worker fails before the API server has applied it.
RequestFails(n) ==
  /\ Fault
  /\ \/ work[n].pc \in {"finalizer", "removeFinalizer"} /\ Fail(n) /\ UNCHANGED queue
     \/ \E w \in work[n].referents :
          /\ work' = [work EXCEPT ![n].referents = @ \ {w}, ![n].failed = TRUE]
          /\ UNCHANGED queue
     \/ /\ work[n].pc = "status"
        /\ work[n].resource.status # work[n].original.status
        /\ Return(n, TRUE)
  /\ UNCHANGED <<projs, loads, tracked, index, leading, edits, history>>

-----------------------------------------------------------------------------
\* Informers, the elector and the process (NewController).

\* HandleAll(impl.Enqueue).  The same event queues the webhook's own reconciler
\* (ProgramWebhook): until that has run, the index is behind.
DeliverProjection(n) ==
  /\ Len(projs[n]) > 1
  /\ projs' = [projs EXCEPT ![n] = Tail(@)]
  /\ queue' = queue \cup {n}
  /\ UNCHANGED <<loads, tracked, work, index, leading, edits, faults, history>>

\* HandleAll(c.Tracker.OnChanged).
DeliverWorkload(w) ==
  /\ Len(loads[w]) > 1
  /\ loads' = [loads EXCEPT ![w] = Tail(@)]
  /\ queue' = queue \cup UNION {tracked[ref] : ref \in References \cap {w, Everything}}
  /\ UNCHANGED <<projs, tracked, work, index, leading, edits, faults, history>>

\* The keys that a new leader enqueues: NewController sets no PromoteFunc.
Promoted == {}

Promote ==
  /\ ~leading
  /\ leading' = TRUE
  /\ queue' = queue \cup Promoted
  /\ UNCHANGED <<projs, loads, tracked, work, index, edits, faults, history>>

\* Another replica has taken the lead, or the lease was not renewed.
Demote ==
  /\ leading
  /\ Fault
  /\ leading' = FALSE
  /\ UNCHANGED <<projs, loads, tracked, queue, work, index, edits, history>>

\* The process starts again, with an empty index, and takes the lead later
\* than its informers have listed all objects.
Restart ==
  /\ Fault
  /\ projs' = [n \in Names |-> <<Server(n)>>]
  /\ loads' = [w \in Workloads |-> <<Current(w)>>]
  /\ tracked' = [ref \in References |-> {}]
  /\ queue' = {n \in Names : Server(n).exists}
  /\ work' = [n \in Names |-> Idle]
  /\ index' = [n \in Names |-> NoProjection(0)]
  /\ leading' = FALSE
  /\ UNCHANGED <<edits, history>>

\* Mutant of Resync: there is no resync.
ResyncNever == FALSE /\ UNCHANGED vars

\* The informer's resync period is over: it reports all that it holds.
Resync ==
  /\ \E n \in Names : Lister(n).exists /\ n \notin queue
  /\ queue' = queue \cup {n \in Names : Lister(n).exists}
  /\ UNCHANGED <<projs, loads, tracked, work, index, leading, edits, faults, history>>

-----------------------------------------------------------------------------
\* The ServiceBinding controller, the garbage collector, the workloads' owners.

Edited ==
  /\ edits < MaxEdits
  /\ edits' = edits + 1
  /\ UNCHANGED <<tracked, queue, work, index, leading, faults, history>>

\* createServiceBindingProjection.
CreateProjection(n) ==
  \E ref \in References, s \in Secrets :
    /\ ~Server(n).exists
    /\ Store(n, [exists |-> TRUE, resourceVersion |-> Server(n).resourceVersion,
                 generation |-> 1, deleting |-> FALSE, finalizer |-> FALSE,
                 workload |-> ref, binding |-> s, status |-> NoStatus])
    /\ UNCHANGED loads
    /\ Edited

\* reconcileServiceBindingProjection: another secret, or another workload.
UpdateProjection(n) ==
  \E ref \in References, s \in Secrets :
    /\ Live(Server(n))
    /\ <<ref, s>> # <<Server(n).workload, Server(n).binding>>
    /\ Store(n, [Server(n) EXCEPT !.generation = @ + 1, !.workload = ref,
                                  !.binding = s])
    /\ UNCHANGED loads
    /\ Edited

\* Gone at once unless it has a finalizer.
DeleteProjection(n) ==
  /\ Live(Server(n))
  /\ Store(n, [Server(n) EXCEPT !.deleting = TRUE, !.generation = @ + 1])
  /\ UNCHANGED loads
  /\ Edited

\* The owner creates the workload, or applies it as it was meant to be,
\* without the bindings; or he deletes it.
ApplyWorkload(w) ==
  LET load == [exists |-> TRUE, bound |-> Admit(w, Unbound)]
  IN  /\ load # Current(w)
      /\ StoreWorkload(w, load)
      /\ UNCHANGED projs
      /\ Edited

DeleteWorkload(w) ==
  /\ Current(w).exists
  /\ StoreWorkload(w, NoWorkload)
  /\ UNCHANGED projs
  /\ Edited

-----------------------------------------------------------------------------
Worker(n) ==
  \/ Reconcile(n) \/ EnsureFinalizer(n) \/ ReconcileSubject(n) \/ Patched(n)
  \/ \E w \in Workloads : PatchWorkload(n, w)
  \/ RemoveFinalizer(n) \/ UpdateStatus(n)

Next ==
  \/ \E n \in Names :
       \/ Worker(n) \/ RequestFails(n) \/ DeliverProjection(n)
       \/ CreateProjection(n) \/ UpdateProjection(n) \/ DeleteProjection(n)
  \/ \E w \in Workloads : DeliverWorkload(w) \/ ApplyWorkload(w) \/ DeleteWorkload(w)
  \/ ProgramWebhook \/ Promote \/ Demote \/ Restart \/ Resync

Spec == Init /\ [][Next]_vars

\* Workers, informers, the webhook's reconciler and the elector keep running,
\* and the informer's resync comes in the end.
FairSpec ==
  /\ Spec
  /\ \A n \in Names : WF_vars(Worker(n)) /\ WF_vars(DeliverProjection(n))
  /\ \A w \in Workloads : WF_vars(DeliverWorkload(w))
  /\ WF_vars(ProgramWebhook)
  /\ WF_vars(Promote)
  /\ WF_vars(Resync)

-----------------------------------------------------------------------------
\* Nothing is left to do.
Rest ==
  /\ leading
  /\ queue = {}
  /\ index = ListAll
  /\ \A n \in Names : work[n].pc = "idle" /\ Len(projs[n]) = 1
  /\ \A w \in Workloads : Len(loads[w]) = 1

\* What projection n asks for is so in the workloads outside of except.
Projected(n, except) ==
  \A w \in Workloads \ except :
    Current(w).exists /\ GetSubject(Server(n), w)
      => Current(w).bound[n] = Server(n).binding

\* When the controller rests, every projection says of its current generation
\* that it is reflected in its workloads, and is so: neither a secret that is
\* rotated or a workload that is chosen anew, nor a workload that is applied,
\* deleted and created again, inside or outside of the webhook's selection, is
\* missed (NewController, ListAll, GetSubject).  Two things and no others are
\* left to the next resync: a key that was dropped while the replica did not
\* lead, as no PromoteFunc brings it back, and a workload whose patch met a
\* webhook with an older index, which put back the secret that was there, so
\* that nothing changed and no event followed.
RestsOnlyWhenProjected ==
  Rest => \A n \in Names :
    Live(Server(n)) /\ n \notin skipped =>
      /\ Projected(n, overruled[n])
      /\ Server(n).status =
           [observedGeneration |-> Server(n).generation, ready |-> "True",
            reason |-> ""]

\* At rest a workload bears the secret of a projection only if it is the
\* projection's workload (GetSubject): one that the projection referred to
\* earlier is rid of it.
OnlyItsWorkloads ==
  Rest => \A n \in Names, w \in Workloads :
    Live(Server(n)) /\ Current(w).bound[n] # NoSecret => GetSubject(Server(n), w)

\* Is the workload that projection n refers to by its name missing?
Missing(n) ==
  /\ Server(n).workload # Everything
  /\ ~Current(Server(n).workload).exists

\* Whatever fails, also when the lead changes hands or the webhook is behind,
\* every projection is reflected in its workloads in the end, and its status
\* tells whether it is (Reconcile, UpdateStatus, the resync of the informer).
Converges ==
  <>[](\A n \in Names :
         Live(Server(n)) =>
           /\ Projected(n, {})
           /\ IF Missing(n)
              THEN Server(n).status.reason = "WorkloadMissing"
              ELSE /\ Server(n).status.ready = "True"
                   /\ Server(n).status.observedGeneration = Server(n).generation)

\* A projection that is deleted goes: its finalizer holds it only until its
\* workloads have been looked at, whatever fails meanwhile, and also when
\* they are gone themselves (ReconcileDeletion).
DeletionCompletes == \A n \in Names : [](Server(n).deleting => <>~Server(n).deleting)
=============================================================================
