-------------------- MODULE ProvisionedServiceController --------------------
(***************************************************************************)
(* The controller that publishes a ProvisionedService's secret in its      *)
(* status (pkg/reconciler/provisionedservice), run by several replicas of  *)
(* the manager of which one is elected leader: the generated reconciler's  *)
(* newState, Reconcile, updateStatus and PromoteFunc around ReconcileKind. *)
(*                                                                         *)
(* Every replica has its own informer: view[r][n] is the window of the     *)
(* versions of object n that r has yet to see; its first element is r's    *)
(* copy, its last one is stored[n].  The elector (knative.dev/pkg) and the *)
(* API server are external.                                                *)
(***************************************************************************)
EXTENDS Integers, Sequences

CONSTANTS
  Replicas,     \* replicas of the manager
  Names,        \* keys of ProvisionedServices
  Secrets,      \* values of spec.binding
  NoSecret,     \* no binding: that of a status that was never written
  Nobody,       \* the lease has no holder
  MaxAttempts,  \* attempts of RetryUpdateConflicts
  MaxEdits,     \* bound: changes by users
  MaxLag,       \* bound: versions of an object that an informer has yet to see
  MaxFaults,    \* bound: failed requests, restarts and leases that lapse
  NameReuse     \* may a deleted ProvisionedService be created again?

ASSUME SentinelsAssumption == NoSecret \notin Secrets /\ Nobody \notin Replicas
ASSUME NonemptyAssumption == Secrets # {} /\ Replicas # {}
ASSUME BoundsAssumption ==
  /\ MaxAttempts \in Nat \ {0}
  /\ MaxEdits \in Nat
  /\ MaxLag \in Nat \ {0}
  /\ MaxFaults \in Nat
  /\ NameReuse \in BOOLEAN

VARIABLES
  stored,     \* [Names -> ProvisionedService]: the API server's copies
  view,       \* [Replicas -> [Names -> window of ProvisionedServices]]
  queue,      \* [Replicas -> keys waiting in the work queue]
  work,       \* [Replicas -> [Names -> what the worker of the key is doing]]
  lease,      \* the replica that holds the lease, or Nobody
  leaders,    \* the replicas whose IsLeaderFor is true
  promoting,  \* the leaders whose PromoteFunc has yet to list the objects
  edits,      \* changes by users so far
  faults      \* failures so far

vars == <<stored, view, queue, work, lease, leaders, promoting, edits, faults>>

-----------------------------------------------------------------------------
Status ==
  [observedGeneration : Nat, binding : Secrets \cup {NoSecret}, ready : BOOLEAN]

NoStatus == [observedGeneration |-> 0, binding |-> NoSecret, ready |-> FALSE]

ProvisionedService ==
  [exists : BOOLEAN, uid : Nat, resourceVersion : Nat, generation : Nat,
   deleting : BOOLEAN, binding : Secrets \cup {NoSecret}, status : Status]

\* A slot without an object keeps the uid of the last one.
NoService(uid) ==
  [exists |-> FALSE, uid |-> uid, resourceVersion |-> 0, generation |-> 0,
   deleting |-> FALSE, binding |-> NoSecret,
   status |-> NoStatus]

\* The copy that provisionedServiceNamespaceLister.Get returns.
Lister(r, n) == view[r][n][1]

Room(n) == \A r \in Replicas : Len(view[r][n]) <= MaxLag

\* The API server stores o under n and tells every watch about it.
Store(n, o) ==
  /\ Room(n)
  /\ stored' = [stored EXCEPT ![n] = o]
  /\ view' = [r \in Replicas |-> [view[r] EXCEPT ![n] = Append(@, o)]]

Revised(o) == [o EXCEPT !.resourceVersion = @ + 1]

Work ==
  [pc : {"idle", "status", "get"}, existing : ProvisionedService,
   resource : ProvisionedService, attempts : Nat]

Idle ==
  [pc |-> "idle", existing |-> NoService(0), resource |-> NoService(0),
   attempts |-> 0]

Live(o) == o.exists /\ ~o.deleting

\* Every variable has its type, every window ends with the stored copy, and a
\* worker is busy only with an object that it did not see being deleted ("The
\* resource passed to ReconcileKind will always have an empty deletion
\* timestamp", reconciler.go).
TypeOK ==
  /\ stored \in [Names -> ProvisionedService]
  /\ view \in [Replicas -> [Names -> Seq(ProvisionedService)]]
  /\ \A r \in Replicas, n \in Names :
       view[r][n] # << >> /\ view[r][n][Len(view[r][n])] = stored[n]
  /\ queue \in [Replicas -> SUBSET Names]
  /\ work \in [Replicas -> [Names -> Work]]
  /\ \A r \in Replicas, n \in Names :
       work[r][n].pc # "idle" => Live(work[r][n].resource)
  /\ lease \in Replicas \cup {Nobody}
  /\ promoting \subseteq leaders /\ leaders \subseteq Replicas
  /\ edits \in 0..MaxEdits
  /\ faults \in 0..MaxFaults

Init ==
  /\ stored = [n \in Names |-> NoService(0)]
  /\ view = [r \in Replicas |-> [n \in Names |-> <<NoService(0)>>]]
  /\ queue = [r \in Replicas |-> {}]
  /\ work = [r \in Replicas |-> [n \in Names |-> Idle]]
  /\ lease = Nobody
  /\ leaders = {}
  /\ promoting = {}
  /\ edits = 0
  /\ faults = 0

-----------------------------------------------------------------------------
\* The worker of replica r that holds key n.

\* ReconcileKind: the status publishes the spec's binding and is Ready.
ReconcileKind(o) ==
  [o EXCEPT !.status = [observedGeneration |-> o.generation,
                        binding |-> o.binding, ready |-> TRUE]]

\* newState asks the elector once, when the key is taken; the reconciler
\* implements neither of the observer interfaces.
isLeader(r) == r \in leaders
isNotLeaderNorObserver(r) == ~isLeader(r)

\* Mutant of reconcileMethodFor: the deletion timestamp is not looked at.
reconcileMethodForAny(o) == IF o.exists THEN "ReconcileKind" ELSE "unknown"

\* The method for a leader: the reconciler has no FinalizeKind.
reconcileMethodFor(o) == IF Live(o) THEN "ReconcileKind" ELSE "unknown"

\* Reconcile up to the synchronization of the status.  A replica that does
\* not lead skips the key; an object that is gone or being deleted is left
\* alone.
Reconcile(r, n) ==
  LET original == Lister(r, n)
  IN  /\ n \in queue[r]
      /\ work[r][n].pc = "idle"
      /\ queue' = [queue EXCEPT ![r] = @ \ {n}]
      /\ work' = IF \/ isNotLeaderNorObserver(r)
                    \/ reconcileMethodFor(original) = "unknown"
                 THEN work
                 ELSE [work EXCEPT ![r][n] =
                        [pc |-> "status", existing |-> original,
                         resource |-> ReconcileKind(original),
                         attempts |-> 0]]
      /\ UNCHANGED <<stored, view, lease, leaders, promoting, edits, faults>>

\* Reconcile returns; after an error the key is put back.
Return(r, n, err) ==
  /\ work' = [work EXCEPT ![r][n] = Idle]
  /\ queue' = [queue EXCEPT ![r] = IF err THEN @ \cup {n} ELSE @]

\* The PUT on the status subresource: refused unless the object is the one
\* that was read, in the version that was read.
Unmodified(o, copy) ==
  o.exists /\ o.uid = copy.uid /\ o.resourceVersion = copy.resourceVersion

\* Mutant of StatusOf: the generation is taken from the copy just read.
StatusOfExisting(w) ==
  [w.resource.status EXCEPT !.observedGeneration = w.existing.generation]

\* Mutant of StatusOf: the binding is taken from the copy just read.
StatusOfMixed(w) == [w.resource.status EXCEPT !.binding = w.existing.binding]

\* existing.Status = desired.Status.
StatusOf(w) == w.resource.status

\* One attempt of updateStatus: nothing to do; stored, though the answer may
\* be lost; a conflict; or the object is gone.
updateStatus(r, n) ==
  LET w == work[r][n]
      changed == w.existing.status # w.resource.status
  IN  /\ w.pc = "status"
      /\ \/ /\ ~changed
            /\ Return(r, n, FALSE)
            /\ UNCHANGED <<stored, view, faults>>
         \/ /\ changed
            /\ Unmodified(stored[n], w.existing)
            /\ Store(n, [Revised(stored[n]) EXCEPT !.status = StatusOf(w)])
            /\ \/ Return(r, n, FALSE) /\ UNCHANGED faults
               \/ /\ faults < MaxFaults
                  /\ faults' = faults + 1
                  /\ Return(r, n, TRUE)
         \/ /\ changed
            /\ stored[n].exists
            /\ ~Unmodified(stored[n], w.existing)
            /\ IF w.attempts + 1 < MaxAttempts
               THEN /\ work' = [work EXCEPT ![r][n].pc = "get",
                                            ![r][n].attempts = @ + 1]
                    /\ UNCHANGED queue
               ELSE Return(r, n, TRUE)
            /\ UNCHANGED <<stored, view, faults>>
         \/ /\ changed
            /\ ~stored[n].exists
            /\ Return(r, n, TRUE)
            /\ UNCHANGED <<stored, view, faults>>
      /\ UNCHANGED <<lease, leaders, promoting, edits>>

\* The GET, by name, that precedes every further attempt.
getExisting(r, n) ==
  /\ work[r][n].pc = "get"
  /\ IF stored[n].exists
     THEN /\ work' = [work EXCEPT ![r][n].pc = "status",
                                  ![r][n].existing = stored[n]]
          /\ UNCHANGED queue
     ELSE Return(r, n, TRUE)
  /\ UNCHANGED <<stored, view, lease, leaders, promoting, edits, faults>>

\* A request of the worker fails before the API server has applied it.
RequestFails(r, n) ==
  LET w == work[r][n]
  IN  /\ faults < MaxFaults
      /\ faults' = faults + 1
      /\ \/ w.pc = "get"
         \/ w.pc = "status" /\ w.existing.status # w.resource.status
      /\ Return(r, n, TRUE)
      /\ UNCHANGED <<stored, view, lease, leaders, promoting, edits>>

-----------------------------------------------------------------------------
\* The informers.

\* Replica r's informer catches up by one version, or by several when its
\* watch broke and it had to list again.  Every event enqueues its key
\* (controller.HandleAll(impl.Enqueue)).
Deliver(r, n) ==
  \E k \in 2..Len(view[r][n]) :
    /\ view' = [view EXCEPT ![r][n] = SubSeq(@, k, Len(@))]
    /\ queue' = [queue EXCEPT ![r] = @ \cup {n}]
    /\ UNCHANGED <<stored, work, lease, leaders, promoting, edits, faults>>

-----------------------------------------------------------------------------
\* Leader election.

\* The lease is free: a replica takes it, or its last holder renews it.
Acquire(r) ==
  /\ lease = Nobody
  /\ lease' = r
  /\ leaders' = leaders \cup {r}
  /\ promoting' = IF r \in leaders THEN promoting ELSE promoting \cup {r}
  /\ UNCHANGED <<stored, view, queue, work, edits, faults>>

\* Mutant of Promoted: the new leader waits for events.
PromotedNothing(r) == {}

\* The keys that PromoteFunc enqueues: all that r's lister lists.
Promoted(r) == {n \in Names : Lister(r, n).exists}

PromoteFunc(r) ==
  /\ r \in promoting
  /\ promoting' = promoting \ {r}
  /\ queue' = [queue EXCEPT ![r] = @ \cup Promoted(r)]
  /\ UNCHANGED <<stored, view, work, lease, leaders, edits, faults>>

\* The lease runs out: its holder has crashed, or cannot renew it in time
\* and does not know yet.
Lapse ==
  /\ lease # Nobody
  /\ IF lease \in leaders
     THEN faults < MaxFaults /\ faults' = faults + 1
     ELSE UNCHANGED faults
  /\ lease' = Nobody
  /\ UNCHANGED <<stored, view, queue, work, leaders, promoting, edits>>

\* A leader finds out that it has lost the lease.
Demote(r) ==
  /\ r \in leaders
  /\ lease # r
  /\ leaders' = leaders \ {r}
  /\ promoting' = promoting \ {r}
  /\ UNCHANGED <<stored, view, queue, work, lease, edits, faults>>

\* Replica r crashes and starts again: its informer lists all objects and
\* reports each as added.
Restart(r) ==
  /\ faults < MaxFaults
  /\ faults' = faults + 1
  /\ view' = [view EXCEPT ![r] = [n \in Names |-> <<stored[n]>>]]
  /\ queue' = [queue EXCEPT ![r] = {n \in Names : stored[n].exists}]
  /\ work' = [work EXCEPT ![r] = [n \in Names |-> Idle]]
  /\ leaders' = leaders \ {r}
  /\ promoting' = promoting \ {r}
  /\ UNCHANGED <<stored, lease, edits>>

-----------------------------------------------------------------------------
\* Users.

Edit(n, o) ==
  /\ edits < MaxEdits
  /\ edits' = edits + 1
  /\ Store(n, o)
  /\ UNCHANGED <<queue, work, lease, leaders, promoting, faults>>

UserCreates(n) ==
  \E s \in Secrets :
    /\ ~stored[n].exists
    /\ stored[n].uid = 0 \/ NameReuse
    /\ Edit(n, [exists |-> TRUE, uid |-> stored[n].uid + 1,
                resourceVersion |-> 1, generation |-> 1, deleting |-> FALSE,
                binding |-> s, status |-> NoStatus])

UserEdits(n) ==
  \E s \in Secrets \ {stored[n].binding} :
    /\ stored[n].exists
    /\ Edit(n, [Revised(stored[n]) EXCEPT !.generation = @ + 1, !.binding = s])

\* The object goes at once, or first waits for a finalizer of someone else.
UserDeletes(n) ==
  /\ stored[n].exists
  /\ \/ Edit(n, NoService(stored[n].uid))
     \/ /\ ~stored[n].deleting
        /\ Edit(n, [Revised(stored[n]) EXCEPT !.deleting = TRUE,
                                              !.generation = @ + 1])

-----------------------------------------------------------------------------
Controller(r, n) ==
  Reconcile(r, n) \/ updateStatus(r, n) \/ getExisting(r, n) \/ Deliver(r, n)

Election ==
  Lapse \/ \E r \in Replicas : Acquire(r) \/ PromoteFunc(r) \/ Demote(r)

Next ==
  \/ \E r \in Replicas, n \in Names : Controller(r, n) \/ RequestFails(r, n)
  \/ Election
  \/ \E r \in Replicas : Restart(r)
  \/ \E n \in Names : UserCreates(n) \/ UserEdits(n) \/ UserDeletes(n)

Spec == Init /\ [][Next]_vars

\* Workers, informers and electors keep running; users need not act, and
\* requests, leases and processes need not fail.
FairSpec ==
  /\ Spec
  /\ \A r \in Replicas, n \in Names : WF_vars(Controller(r, n))
  /\ \A r \in Replicas : WF_vars(PromoteFunc(r)) /\ WF_vars(Demote(r))
  /\ WF_vars(\E r \in Replicas : Acquire(r))
  /\ WF_vars(Lapse /\ lease \notin leaders)

-----------------------------------------------------------------------------
\* What the object's spec asks for.
Asked(o) ==
  [observedGeneration |-> o.generation, binding |-> o.binding, ready |-> TRUE]

\* Nothing is left to do: a leader has been promoted, it has seen every
\* event and handled every key, and no worker of any replica is busy.
Rest ==
  /\ lease \in leaders \ promoting
  /\ queue[lease] = {}
  /\ \A n \in Names : Len(view[lease][n]) = 1
  /\ \A r \in Replicas, n \in Names : work[r][n].pc = "idle"

\* The controller rests only when every ProvisionedService publishes what its
\* spec asks for: no change is lost when one replica hands over to another,
\* although the old leader's events were skipped by the new one (newState,
\* Reconcile's SkipKey), and although a leader that has lost the lease may
\* still overwrite the new leader's status with what it computed from an
\* older copy (updateStatus).
RestsOnlyWhenPublished ==
  Rest => \A n \in Names :
            Live(stored[n])
              => stored[n].status = Asked(stored[n])

\* A status that claims to be about the current generation of the first object
\* of a name publishes that generation's binding, whichever replica wrote it,
\* leading or not, and from however old a copy: updateStatus carries
\* ObservedGeneration and Binding over together (ReconcileKind).  An object
\* that follows under the same name may be given its predecessor's status.
CurrentClaimIsTrue ==
  \A n \in Names :
    /\ Live(stored[n])
    /\ stored[n].uid = 1
    /\ stored[n].status.observedGeneration = stored[n].generation
    => stored[n].status = Asked(stored[n])

-----------------------------------------------------------------------------
\* The controller implements StatusFollower: a copy of an object is one in an
\* informer's window or in a worker's hands.

Copies(n) ==
  {stored[n]}
    \cup (UNION {{view[r][n][i] : i \in DOMAIN view[r][n]} : r \in Replicas})
    \cup {work[r][n].resource : r \in Replicas}

Follower ==
  INSTANCE StatusFollower WITH
    Claims <- Status,
    None <- NoStatus,
    want <- [n \in Names |-> IF Live(stored[n]) THEN Asked(stored[n]) ELSE NoStatus],
    have <- [n \in Names |-> stored[n].status],
    inflight <- [n \in Names |-> {Asked(o) : o \in {c \in Copies(n) : Live(c)}}]

\* Whatever the replicas, the informers and the electors do, and however
\* their steps interleave, the status only ever reports what some copy of the
\* object asks for, and what every copy has forgotten does not come back
\* (ReconcileKind, updateStatus).
ImplementsFollower == Follower!Spec

\* In the end the status reports what the object itself asks for, whoever
\* leads then (PromoteFunc, RetryUpdateConflicts).
FollowerSettles == Follower!Settles
=============================================================================
