------------------------ MODULE GeneratedReconciler -------------------------
(***************************************************************************)
(* The finalizer and observer protocol of the generated reconcilers, as in *)
(* pkg/client/injection/reconciler/.../servicebindingprojection: what the  *)
(* generated code does around a ReconcileKind that makes something outside *)
(* of the cluster's objects and a FinalizeKind that removes it again.      *)
(*                                                                         *)
(* One key and one replica, which may gain and lose the lead.  The object  *)
(* is a window of versions as in ServiceBindingController: its first       *)
(* element is the informer's copy, its last one the API server's.  The     *)
(* methods that the generated code calls, and the API server, are external.*)
(***************************************************************************)
EXTENDS Integers, Sequences

CONSTANTS
  Implements,   \* the optional interfaces that the reconciler implements
  Outcomes,     \* the events that its methods may return
  MaxAttempts,  \* attempts of RetryUpdateConflicts
  MaxEdits,     \* bound: changes by users
  MaxLag,       \* bound: versions that the informer has yet to see
  MaxFaults     \* bound: failed requests, failed methods, restarts, demotions

Interfaces == {"Finalizer", "ReadOnlyInterface", "ReadOnlyFinalizer"}

\* What a method returns: nil; an event; an error that wraps an event of type
\* Normal; any other error.
Events == {"nil", "normal", "warning", "wrapped", "error"}

ASSUME InterfacesAssumption ==
  Implements \subseteq Interfaces /\ Outcomes \subseteq Events /\ "nil" \in Outcomes
ASSUME BoundsAssumption ==
  /\ MaxAttempts \in Nat \ {0}
  /\ MaxEdits \in Nat
  /\ MaxLag \in Nat \ {0}
  /\ MaxFaults \in Nat

VARIABLES
  window,   \* the versions of the object that the informer has yet to see
  outside,  \* uids of the objects for which something exists outside
  queued,   \* is the key waiting in the work queue?
  work,     \* what the worker is doing
  leading,  \* IsLeaderFor
  edits,    \* changes by users so far
  faults    \* failures so far

vars == <<window, outside, queued, work, leading, edits, faults>>

-----------------------------------------------------------------------------
Status == [observedGeneration : Nat, ready : BOOLEAN]
NoStatus == [observedGeneration |-> 0, ready |-> FALSE]

\* finalizer: is finalizerName among the finalizers; others: is any other?
Object ==
  [exists : BOOLEAN, uid : Nat, resourceVersion : Nat, generation : Nat,
   deleting : BOOLEAN, finalizer : BOOLEAN, others : BOOLEAN, status : Status]

\* No object; its uid and version are the last ones that were given out.
Gone(uid, resourceVersion) ==
  [exists |-> FALSE, uid |-> uid, resourceVersion |-> resourceVersion,
   generation |-> 0, deleting |-> FALSE, finalizer |-> FALSE,
   others |-> FALSE, status |-> NoStatus]

Lister == window[1]
Server == window[Len(window)]

\* The API server stores o as the next version of the object; one that is
\* being deleted goes with its last finalizer.
Revised(o) ==
  IF o.deleting /\ ~o.finalizer /\ ~o.others
  THEN Gone(o.uid, o.resourceVersion + 1)
  ELSE [o EXCEPT !.resourceVersion = @ + 1]

Store(o) ==
  /\ Len(window) <= MaxLag
  /\ window' = Append(window, Revised(o))

Methods ==
  {"ReconcileKind", "FinalizeKind", "ObserveKind", "ObserveFinalizeKind", "unknown"}

\* original is the informer's copy, existing the copy that updateStatus is
\* about to write, resource the deep copy that the methods work on.
Work ==
  [pc : {"idle", "setFinalizer", "do", "clearFinalizer", "status", "get"},
   method : Methods, original : Object, existing : Object, resource : Object,
   event : Events, attempts : 0..MaxAttempts]

Idle ==
  [pc |-> "idle", method |-> "unknown", original |-> Gone(0, 0),
   existing |-> Gone(0, 0), resource |-> Gone(0, 0), event |-> "nil",
   attempts |-> 0]

\* Every variable has its type, and the methods get what their interfaces
\* promise: ReconcileKind and ObserveKind an object that is not being
\* deleted, the finalizing ones an object that is.
TypeOK ==
  /\ window \in Seq(Object) /\ window # << >>
  /\ outside \subseteq Nat
  /\ queued \in BOOLEAN
  /\ work \in Work
  /\ work.pc = "do" =>
       /\ work.resource.exists
       /\ work.method # "unknown"
       /\ work.resource.deleting <=>
            work.method \in {"FinalizeKind", "ObserveFinalizeKind"}
  /\ leading \in BOOLEAN
  /\ edits \in 0..MaxEdits
  /\ faults \in 0..MaxFaults

Init ==
  /\ window = <<Gone(0, 0)>>
  /\ outside = {}
  /\ queued = FALSE
  /\ work = Idle
  /\ leading = FALSE
  /\ edits = 0
  /\ faults = 0

Fault == faults < MaxFaults /\ faults' = faults + 1

-----------------------------------------------------------------------------
\* Reconcile.

isROI == "ReadOnlyInterface" \in Implements
isROF == "ReadOnlyFinalizer" \in Implements
isFinalizer == "Finalizer" \in Implements

isNotLeaderNorObserver == ~leading /\ ~isROI /\ ~isROF

\* Mutant of reconcileMethodFor: a replica that does not lead observes
\* whatever it reads.
reconcileMethodForObserver(o) ==
  CASE ~o.deleting /\ leading -> "ReconcileKind"
    [] o.deleting /\ leading /\ isFinalizer -> "FinalizeKind"
    [] ~leading -> "ObserveKind"
    [] OTHER -> "unknown"

reconcileMethodFor(o) ==
  CASE ~o.deleting /\ leading -> "ReconcileKind"
    [] ~o.deleting /\ ~leading /\ isROI -> "ObserveKind"
    [] o.deleting /\ leading /\ isFinalizer -> "FinalizeKind"
    [] o.deleting /\ ~leading /\ isROF -> "ObserveFinalizeKind"
    [] OTHER -> "unknown"

\* Reconcile up to its switch: the state, the informer's copy and the method.
Reconcile ==
  LET method == reconcileMethodFor(Lister)
      pc == IF method = "ReconcileKind" /\ isFinalizer THEN "setFinalizer" ELSE "do"
  IN  /\ queued
      /\ work.pc = "idle"
      /\ queued' = FALSE
      /\ work' = IF isNotLeaderNorObserver \/ ~Lister.exists \/ method = "unknown"
                 THEN work
                 ELSE [Idle EXCEPT !.pc = pc, !.method = method,
                         !.original = Lister, !.existing = Lister,
                         !.resource = Lister]
      /\ UNCHANGED <<window, outside, leading, edits, faults>>

\* Reconcile returns; after an error the key is put back.
Return(err) ==
  /\ work' = Idle
  /\ queued' = (queued \/ err)

\* Mutant of Unmodified: the patch carries the wrong counter.
UnmodifiedGeneration(actual) ==
  Server.exists /\ Server.resourceVersion = actual.generation

\* The patch names the version that it was made for.
Unmodified(actual) ==
  Server.exists /\ Server.resourceVersion = actual.resourceVersion

\* updateFinalizersFiltered: resource, whose finalizers are as desired, is
\* compared with what the lister returns now, and a difference is patched
\* provided that nobody wrote the object since.  The API server refuses to
\* add a finalizer to an object that is being deleted.  pc is what follows.
updateFinalizersFiltered(resource, pc) ==
  LET actual == Lister
      patched == [Server EXCEPT !.finalizer = resource.finalizer]
  IN  \/ /\ ~actual.exists
         /\ Return(TRUE)
         /\ UNCHANGED <<window, faults>>
      \/ /\ actual.exists
         /\ actual.finalizer = resource.finalizer
         /\ work' = [work EXCEPT !.pc = pc, !.resource = resource]
         /\ UNCHANGED <<window, queued, faults>>
      \/ /\ actual.exists
         /\ actual.finalizer # resource.finalizer
         /\ IF /\ Unmodified(actual)
               /\ resource.finalizer => ~Server.deleting
            THEN /\ Store(patched)
                 /\ \/ /\ work' = [work EXCEPT !.pc = pc,
                                     !.resource = [patched EXCEPT
                                       !.resourceVersion = @ + 1]]
                       /\ UNCHANGED <<queued, faults>>
                    \/ Fault /\ Return(TRUE)
            ELSE Return(TRUE) /\ UNCHANGED <<window, faults>>

\* Mutant of setFinalizerIfFinalizer: ReconcileKind goes first.
setFinalizerLater ==
  /\ work.pc = "setFinalizer"
  /\ work' = [work EXCEPT !.pc = "do"]
  /\ UNCHANGED <<window, queued, faults, outside, leading, edits>>

setFinalizerIfFinalizer ==
  /\ work.pc = "setFinalizer"
  /\ updateFinalizersFiltered([work.resource EXCEPT !.finalizer = TRUE], "do")
  /\ UNCHANGED <<outside, leading, edits>>

\* The reconciler's own method returns event; only failures are bounded.
Returns(event) ==
  IF event \in {"nil", "normal"} THEN UNCHANGED faults ELSE Fault

\* ReconcileKind makes what the object asks for; one that fails may have
\* made it already.  The status tells, whatever the event.
ReconcileKind ==
  \E event \in Outcomes :
    /\ work.pc = "do"
    /\ work.method = "ReconcileKind"
    /\ Returns(event)
    /\ \/ outside' = outside \cup {work.resource.uid}
       \/ event \notin {"nil", "normal"} /\ UNCHANGED outside
    /\ work' = [work EXCEPT !.pc = "status", !.event = event,
                  !.resource.status =
                    [observedGeneration |-> work.resource.generation,
                     ready |-> event \in {"nil", "normal"}]]
    /\ UNCHANGED <<window, queued, leading, edits>>

\* FinalizeKind removes it; one that fails may not have.
FinalizeKind ==
  \E event \in Outcomes :
    /\ work.pc = "do"
    /\ work.method = "FinalizeKind"
    /\ Returns(event)
    /\ \/ outside' = outside \ {work.resource.uid}
       \/ event \notin {"nil", "normal"} /\ UNCHANGED outside
    /\ work' = [work EXCEPT !.pc = "clearFinalizer", !.event = event]
    /\ UNCHANGED <<window, queued, leading, edits>>

\* ObserveKind and ObserveFinalizeKind do not write; what they change in
\* their copy of the status is not written either.
ObserveKind ==
  \E event \in Outcomes, ready \in BOOLEAN :
    /\ work.pc = "do"
    /\ work.method \in {"ObserveKind", "ObserveFinalizeKind"}
    /\ Returns(event)
    /\ work' = [work EXCEPT !.pc = "status", !.event = event,
                            !.resource.status.ready = ready]
    /\ UNCHANGED <<window, outside, queued, leading, edits>>

\* The events after which clearFinalizer removes the finalizer: EventAs finds
\* the event in an error that wraps it, too.
Clears(event) == event \in {"nil", "normal", "wrapped"}

clearFinalizer ==
  /\ work.pc = "clearFinalizer"
  /\ updateFinalizersFiltered(
       [work.resource EXCEPT !.finalizer = @ /\ ~Clears(work.event)], "status")
  /\ UNCHANGED <<outside, leading, edits>>

\* Mutant of Failed: whatever the method returned is only reported.
FailedNever(event) == FALSE

\* An error, also one that wraps an event, fails the reconciliation.
Failed(event) == event \in {"wrapped", "error"}

\* The status is written by the leader only, and only if it has changed.
SkipsStatus ==
  \/ work.original.status = work.resource.status
  \/ work.method \in {"ObserveKind", "ObserveFinalizeKind"}
  \/ work.existing.status = work.resource.status

\* One attempt of updateStatus: nothing to do, stored, a conflict, or gone.
updateStatus ==
  LET unmodified == /\ Server.exists
                    /\ Server.uid = work.existing.uid
                    /\ Server.resourceVersion = work.existing.resourceVersion
  IN  /\ work.pc = "status"
      /\ \/ /\ SkipsStatus
            /\ Return(Failed(work.event))
            /\ UNCHANGED <<window, faults>>
         \/ /\ ~SkipsStatus
            /\ unmodified
            /\ Store([Server EXCEPT !.status = work.resource.status])
            /\ \/ Return(Failed(work.event)) /\ UNCHANGED faults
               \/ Return(TRUE) /\ Fault
         \/ /\ ~SkipsStatus
            /\ Server.exists
            /\ ~unmodified
            /\ IF work.attempts + 1 < MaxAttempts
               THEN /\ work' = [work EXCEPT !.pc = "get", !.attempts = @ + 1]
                    /\ UNCHANGED queued
               ELSE Return(TRUE)
            /\ UNCHANGED <<window, faults>>
         \/ /\ ~SkipsStatus
            /\ ~Server.exists
            /\ Return(TRUE)
            /\ UNCHANGED <<window, faults>>
      /\ UNCHANGED <<outside, leading, edits>>

getExisting ==
  /\ work.pc = "get"
  /\ IF Server.exists
     THEN /\ work' = [work EXCEPT !.pc = "status", !.existing = Server]
          /\ UNCHANGED queued
     ELSE Return(TRUE)
  /\ UNCHANGED <<window, outside, leading, edits, faults>>

\* A request of the worker fails before the API server has applied it.
RequestFails ==
  /\ \/ work.pc = "setFinalizer" /\ Lister.exists /\ ~Lister.finalizer
     \/ /\ work.pc = "clearFinalizer"
        /\ Lister.exists
        /\ Lister.finalizer # (work.resource.finalizer /\ ~Clears(work.event))
     \/ work.pc = "status" /\ ~SkipsStatus
     \/ work.pc = "get"
  /\ Fault
  /\ Return(TRUE)
  /\ UNCHANGED <<window, outside, leading, edits>>

-----------------------------------------------------------------------------
\* The informer, the elector and the process.

\* Every event enqueues the key.
Deliver ==
  /\ Len(window) > 1
  /\ window' = Tail(window)
  /\ queued' = TRUE
  /\ UNCHANGED <<outside, work, leading, edits, faults>>

\* Promote, then PromoteFunc: what the lister lists is enqueued.
PromoteFunc ==
  /\ ~leading
  /\ leading' = TRUE
  /\ queued' = (queued \/ Lister.exists)
  /\ UNCHANGED <<window, outside, work, edits, faults>>

Demote ==
  /\ leading
  /\ Fault
  /\ leading' = FALSE
  /\ UNCHANGED <<window, outside, queued, work, edits>>

\* The process crashes and starts again.
Restart ==
  /\ Fault
  /\ window' = <<Server>>
  /\ queued' = Server.exists
  /\ work' = Idle
  /\ leading' = FALSE
  /\ UNCHANGED <<outside, edits>>

-----------------------------------------------------------------------------
\* Users, and the owners of other finalizers.

Edit(o) ==
  /\ edits < MaxEdits
  /\ edits' = edits + 1
  /\ Store(o)
  /\ UNCHANGED <<outside, queued, work, leading, faults>>

UserCreates ==
  \E others \in BOOLEAN :
    /\ ~Server.exists
    /\ Edit([exists |-> TRUE, uid |-> Server.uid + 1,
             resourceVersion |-> Server.resourceVersion, generation |-> 1,
             deleting |-> FALSE, finalizer |-> FALSE, others |-> others,
             status |-> NoStatus])

UserEdits ==
  /\ Server.exists
  /\ Edit([Server EXCEPT !.generation = @ + 1])

UserDeletes ==
  /\ Server.exists
  /\ ~Server.deleting
  /\ Edit([Server EXCEPT !.deleting = TRUE, !.generation = @ + 1])

\* Not bounded: it happens once in an object's life.
OthersFinish ==
  /\ Server.exists
  /\ Server.others
  /\ Server.deleting
  /\ Store([Server EXCEPT !.others = FALSE])
  /\ UNCHANGED <<outside, queued, work, leading, edits, faults>>

-----------------------------------------------------------------------------
Worker ==
  \/ Reconcile \/ setFinalizerIfFinalizer \/ ReconcileKind \/ FinalizeKind
  \/ ObserveKind \/ clearFinalizer \/ updateStatus \/ getExisting

Next ==
  \/ Worker \/ RequestFails \/ Deliver \/ PromoteFunc \/ Demote \/ Restart
  \/ UserCreates \/ UserEdits \/ UserDeletes \/ OthersFinish

Spec == Init /\ [][Next]_vars

\* The worker, the informer and the elector keep running, and the owners of
\* other finalizers finish; failures and users' changes need not happen.
FairSpec ==
  /\ Spec
  /\ WF_vars(Worker)
  /\ WF_vars(Deliver)
  /\ WF_vars(PromoteFunc)
  /\ WF_vars(OthersFinish)

-----------------------------------------------------------------------------
\* What exists outside for an object is guarded by the object's finalizer:
\* as long as it may be there, the object is, and it bears the finalizer, so
\* that FinalizeKind will be called.  It needs the finalizer stored before
\* ReconcileKind runs (setFinalizerIfFinalizer), although the check reads a
\* cache, and removed only after FinalizeKind "reconciled cleanly"
\* (clearFinalizer), through lost answers, restarts and used names.
NeverLeaks ==
  isFinalizer => \A u \in outside :
                   Server.exists /\ Server.uid = u /\ Server.finalizer

\* The leader rests only when its methods have had their say about the
\* object as it is: a live one has been reconciled in its generation, bears
\* the finalizer and exists outside; one being deleted no longer bears the
\* finalizer.  (Events of type Warning are outside of this: they end a
\* reconciliation without an error, and the key is not retried.)
RestsOnlyWhenDone ==
  leading /\ ~queued /\ work = Idle /\ Len(window) = 1 /\ Server.exists =>
    \/ Server.deleting /\ ~Server.finalizer
    \/ /\ ~Server.deleting
       /\ Server.finalizer = isFinalizer
       /\ Server.uid \in outside
       /\ Server.status = [observedGeneration |-> Server.generation, ready |-> TRUE]

\* A deletion is never held up for ever by the finalizer: whatever failed, an
\* object that is being deleted goes (FinalizeKind, clearFinalizer).
DeletionCompletes == [](Server.deleting => <>~Server.deleting)
=============================================================================
