--------------------- MODULE GeneratedReconcilerProofs ----------------------
(***************************************************************************)
(* Theorems about GeneratedReconciler, for every set of implemented        *)
(* interfaces and any bounds.                                              *)
(***************************************************************************)
EXTENDS GeneratedReconciler, WindowTheorems

-----------------------------------------------------------------------------
(* Types *)

\* An object without its fields.
LEMMA GoneType ==
  ASSUME NEW u \in Nat, NEW v \in Nat
  PROVE  Gone(u, v) \in Object
BY DEF Gone, Object, Status, NoStatus

\* What the API server stores of an object is an object: the next version of
\* the one that was requested, or nothing.
LEMMA RevisedType ==
  ASSUME NEW o \in Object
  PROVE  /\ Revised(o) \in Object
         /\ Revised(o).uid = o.uid
         /\ Revised(o).resourceVersion = o.resourceVersion + 1
         /\ Revised(o).finalizer = o.finalizer
         /\ Revised(o).deleting => o.deleting
         /\ o.finalizer \/ ~o.deleting
              => /\ Revised(o).exists = o.exists
                 /\ Revised(o).deleting = o.deleting
<1>1. CASE o.deleting /\ ~o.finalizer /\ ~o.others
  <2>1. Revised(o) = Gone(o.uid, o.resourceVersion + 1)
    BY <1>1 DEF Revised
  <2>2. o.uid \in Nat /\ o.resourceVersion \in Nat /\ o.finalizer \in BOOLEAN
    BY DEF Object
  <2>3. o.finalizer = FALSE
    BY <1>1, <2>2
  <2>4. Revised(o) \in Object
    BY <2>1, <2>2, GoneType
  <2>5. /\ Revised(o).uid = o.uid
        /\ Revised(o).resourceVersion = o.resourceVersion + 1
        /\ Revised(o).finalizer = FALSE
        /\ ~Revised(o).deleting
    BY <2>1 DEF Gone
  <2>. QED
    BY <1>1, <2>3, <2>4, <2>5, Zenon
<1>2. CASE ~(o.deleting /\ ~o.finalizer /\ ~o.others)
  BY <1>2 DEF Revised, Object
<1>. QED
  BY <1>1, <1>2

\* An idle worker has its type.
LEMMA IdleType == Idle \in Work
BY GoneType, BoundsAssumption DEF Idle, Work, Methods, Events

\* The two ends of the window.
LEMMA EndTypes ==
  ASSUME TypeOK
  PROVE  /\ Len(window) \in Nat \ {0}
         /\ \A i \in 1..Len(window) : window[i] \in Object
         /\ Lister \in Object
         /\ Server \in Object
BY VersionTypes DEF TypeOK, Lister, Server

\* A write of the API server.
LEMMA Stores ==
  ASSUME TypeOK, NEW o \in Object, Store(o)
  PROVE  /\ window' \in Seq(Object)
         /\ window' # << >>
         /\ Len(window') = Len(window) + 1
         /\ \A i \in 1..Len(window) : window'[i] = window[i]
         /\ window'[Len(window) + 1] = Revised(o)
         /\ Lister' = Lister
         /\ Server' = Revised(o)
<1>1. window \in Seq(Object) /\ window # << >> /\ Revised(o) \in Object
  BY RevisedType DEF TypeOK
<1>2. window' = Append(window, Revised(o))
  BY DEF Store
<1>. QED
  BY <1>1, <1>2, VersionAppended DEF Lister, Server

\* A delivery to the informer.
LEMMA Delivers ==
  ASSUME TypeOK, Len(window) > 1, window' = Tail(window)
  PROVE  /\ window' \in Seq(Object)
         /\ window' # << >>
         /\ Len(window') = Len(window) - 1
         /\ \A i \in 1..(Len(window) - 1) : window'[i] = window[i + 1]
         /\ Lister' = window[2]
         /\ Server' = Server
<1>1. window \in Seq(Object)
  BY DEF TypeOK
<1>. QED
  BY <1>1, VersionDelivered DEF Lister, Server

\* The informer lists the object.
LEMMA Relists ==
  ASSUME TypeOK, window' = <<Server>>
  PROVE  /\ window' \in Seq(Object)
         /\ window' # << >>
         /\ Len(window') = 1
         /\ window'[1] = Server
         /\ Lister' = Server
         /\ Server' = Server
<1>1. Server \in Object
  BY EndTypes
<1>. DEFINE s == Server
<1>2. window' = <<s>>
  OBVIOUS
<1>3. /\ window' \in Seq(Object)
      /\ window' # << >>
      /\ Len(window') = 1
      /\ window'[1] = s
  BY <1>1, <1>2, VersionListed
<1>. QED
  BY <1>3 DEF Lister, Server

\* What the worker knows of its object: the type invariant's strengthening.
WorkOK ==
  /\ work.event \in Outcomes
  /\ work.pc = "setFinalizer" =>
       /\ work.method = "ReconcileKind"
       /\ work.resource.exists
       /\ ~work.resource.deleting
  /\ work.pc = "clearFinalizer" => work.method = "FinalizeKind"

TypeInv == TypeOK /\ WorkOK

\* TypeInv holds at the start.
LEMMA InitTypeInv == Init => TypeInv
<1>. SUFFICES ASSUME Init PROVE TypeInv
  OBVIOUS
<1>1. window \in Seq(Object) /\ window # << >>
  BY GoneType, VersionListed DEF Init
<1>2. work \in Work
  BY IdleType DEF Init
<1>3. work.pc = "idle" /\ work.event = "nil"
  BY DEF Init, Idle
<1>4. outside \subseteq Nat /\ queued \in BOOLEAN /\ leading \in BOOLEAN
  BY Zenon DEF Init
<1>5. edits \in 0..MaxEdits /\ faults \in 0..MaxFaults
  BY BoundsAssumption DEF Init
<1>6. WorkOK
  BY <1>3, InterfacesAssumption DEF WorkOK
<1>. QED
  BY <1>1, <1>2, <1>3, <1>4, <1>5, <1>6 DEF TypeInv, TypeOK

\* A worker that returns is idle.
LEMMA ReturnTypes ==
  ASSUME TypeInv, NEW err \in BOOLEAN, Return(err)
  PROVE  /\ work' \in Work /\ WorkOK'
         /\ work'.pc = "idle"
         /\ queued' \in BOOLEAN
<1>1. work' = Idle /\ work'.pc = "idle" /\ work'.event = "nil"
  BY DEF Return, Idle
<1>2. queued' \in BOOLEAN
  BY DEF Return, TypeInv, TypeOK
<1>. QED
  BY <1>1, <1>2, IdleType, InterfacesAssumption DEF WorkOK

\* A fault keeps within the bound.
LEMMA FaultTypes ==
  ASSUME TypeInv, Fault
  PROVE  faults' \in 0..MaxFaults
BY BoundsAssumption DEF Fault, TypeInv, TypeOK

\* What remains to be shown of a step of the worker.
LEMMA WorkerTypes ==
  ASSUME TypeInv, UNCHANGED <<leading, edits>>,
         window' \in Seq(Object) /\ window' # << >>,
         outside' \subseteq Nat,
         queued' \in BOOLEAN,
         work' \in Work,
         work'.pc = "do" =>
           /\ work'.resource.exists
           /\ work'.method # "unknown"
           /\ work'.resource.deleting <=>
                work'.method \in {"FinalizeKind", "ObserveFinalizeKind"},
         WorkOK',
         faults' \in 0..MaxFaults
  PROVE  TypeInv'
BY DEF TypeInv, TypeOK

\* Reconcile keeps TypeInv: it takes the method from the lister's copy.
LEMMA ReconcileTypes ==
  ASSUME TypeInv, Reconcile
  PROVE  TypeInv'
<1>. DEFINE method == reconcileMethodFor(Lister)
            pc == IF method = "ReconcileKind" /\ isFinalizer
                  THEN "setFinalizer" ELSE "do"
            started == [Idle EXCEPT !.pc = pc, !.method = method,
                          !.original = Lister, !.existing = Lister,
                          !.resource = Lister]
<1>1. Lister \in Object
  BY EndTypes DEF TypeInv
<1>2. /\ window' = window /\ outside' = outside /\ queued' = FALSE
      /\ leading' = leading /\ edits' = edits /\ faults' = faults
  BY DEF Reconcile
<1>3. CASE work' = work
  BY <1>2, <1>3 DEF TypeInv, TypeOK, WorkOK
<1>4. CASE work' = started /\ Lister.exists /\ method # "unknown"
  <2>1. /\ method \in Methods
        /\ method = "ReconcileKind" => ~Lister.deleting
        /\ Lister.deleting <=> method \in {"FinalizeKind", "ObserveFinalizeKind"}
    BY <1>4 DEF reconcileMethodFor, Methods
  <2>2. pc \in {"setFinalizer", "do"}
    OBVIOUS
  <2>3. pc = "setFinalizer" => method = "ReconcileKind"
    OBVIOUS
  <2>. HIDE DEF method, pc
  <2>4. /\ work' \in Work
        /\ work'.pc = pc /\ work'.method = method
        /\ work'.resource = Lister /\ work'.event = "nil"
    BY <1>1, <1>4, <2>1, <2>2, IdleType DEF Idle, Work
  <2>5. WorkOK'
    BY <1>4, <2>1, <2>2, <2>3, <2>4, InterfacesAssumption DEF WorkOK
  <2>6. work'.pc = "do" =>
          /\ work'.resource.exists
          /\ work'.method # "unknown"
          /\ work'.resource.deleting <=>
               work'.method \in {"FinalizeKind", "ObserveFinalizeKind"}
    BY <1>4, <2>1, <2>4
  <2>. QED
    BY <1>2, <2>4, <2>5, <2>6, WorkerTypes DEF TypeInv, TypeOK
<1>. QED
  BY <1>3, <1>4, Zenon DEF Reconcile

\* The patch of the finalizers, at either of its two calls.
LEMMA FinalizersTypes ==
  ASSUME TypeInv, UNCHANGED <<outside, leading, edits>>,
         NEW resource \in Object, NEW pc \in {"do", "status"},
         updateFinalizersFiltered(resource, pc),
         pc = "do" => /\ work.method = "ReconcileKind"
                      /\ resource.exists /\ ~resource.deleting
                      /\ resource.finalizer
  PROVE  TypeInv'
<1>. DEFINE patched == [Server EXCEPT !.finalizer = resource.finalizer]
            next == [patched EXCEPT !.resourceVersion = @ + 1]
<1>0. Server \in Object /\ Lister \in Object /\ work \in Work
  BY EndTypes DEF TypeInv, TypeOK
<1>1. ASSUME NEW err \in BOOLEAN, Return(err),
             window' \in Seq(Object) /\ window' # << >>, faults' \in 0..MaxFaults
      PROVE  TypeInv'
  <2>1. work' \in Work /\ WorkOK' /\ work'.pc = "idle" /\ queued' \in BOOLEAN
    BY <1>1, ReturnTypes
  <2>2. outside' \subseteq Nat
    BY DEF TypeInv, TypeOK
  <2>. QED
    BY <1>1, <2>1, <2>2, WorkerTypes
<1>2. ASSUME NEW r \in Object,
             pc = "do" => r.exists /\ ~r.deleting,
             work' = [work EXCEPT !.pc = pc, !.resource = r],
             UNCHANGED <<queued, faults>>,
             window' \in Seq(Object) /\ window' # << >>
      PROVE  TypeInv'
  <2>1. /\ work' \in Work
        /\ work'.pc = pc /\ work'.resource = r
        /\ work'.method = work.method /\ work'.event = work.event
    BY <1>0, <1>2 DEF Work
  <2>2. WorkOK'
    BY <2>1 DEF WorkOK, TypeInv
  <2>3. work'.pc = "do" =>
          /\ work'.resource.exists
          /\ work'.method # "unknown"
          /\ work'.resource.deleting <=>
               work'.method \in {"FinalizeKind", "ObserveFinalizeKind"}
    BY <1>2, <2>1
  <2>. QED
    BY <1>2, <2>1, <2>2, <2>3, WorkerTypes DEF TypeInv, TypeOK
<1>3. patched \in Object /\ next \in Object
  <2>1. resource.finalizer \in BOOLEAN
    BY DEF Object
  <2>. DEFINE f == resource.finalizer
  <2>. HIDE DEF f
  <2>2. patched = [Server EXCEPT !.finalizer = f]
    BY DEF f
  <2>3. f \in BOOLEAN
    BY <2>1 DEF f
  <2>. HIDE DEF patched
  <2>4. patched \in Object
    BY <1>0, <2>2, <2>3 DEF Object
  <2>. QED
    BY <2>4 DEF Object
<1>4. window \in Seq(Object) /\ window # << >> /\ faults \in 0..MaxFaults
  BY DEF TypeInv, TypeOK
<1>5. CASE Return(TRUE) /\ UNCHANGED <<window, faults>>
  BY <1>1, <1>4, <1>5
<1>6. CASE /\ work' = [work EXCEPT !.pc = pc, !.resource = resource]
           /\ UNCHANGED <<window, queued, faults>>
  BY <1>2, <1>4, <1>6
<1>7. CASE /\ Unmodified(Lister)
           /\ resource.finalizer => ~Server.deleting
           /\ Store(patched)
           /\ \/ /\ work' = [work EXCEPT !.pc = pc, !.resource = next]
                 /\ UNCHANGED <<queued, faults>>
              \/ Fault /\ Return(TRUE)
  <2>1. window' \in Seq(Object) /\ window' # << >>
    BY <1>3, <1>7, Stores DEF TypeInv
  <2>2. next.exists = Server.exists /\ next.deleting = Server.deleting
    BY <1>0 DEF Object
  <2>3. CASE Fault /\ Return(TRUE)
    BY <1>1, <2>1, <2>3, FaultTypes
  <2>4. CASE /\ work' = [work EXCEPT !.pc = pc, !.resource = next]
             /\ UNCHANGED <<queued, faults>>
    <3>1. pc = "do" => next.exists /\ ~next.deleting
      BY <1>7, <2>2 DEF Unmodified
    <3>. QED
      BY <1>2, <1>3, <2>1, <2>4, <3>1
  <2>. QED
    BY <1>7, <2>3, <2>4
<1>. QED
  BY <1>5, <1>6, <1>7 DEF updateFinalizersFiltered

\* setFinalizerIfFinalizer keeps TypeInv.
LEMMA SetFinalizerTypes ==
  ASSUME TypeInv, setFinalizerIfFinalizer
  PROVE  TypeInv'
<1>. DEFINE r == [work.resource EXCEPT !.finalizer = TRUE]
<1>1. /\ r \in Object /\ r.finalizer
      /\ r.exists = work.resource.exists /\ r.deleting = work.resource.deleting
  BY DEF TypeInv, TypeOK, Work, Object
<1>2. /\ work.method = "ReconcileKind"
      /\ work.resource.exists /\ ~work.resource.deleting
  BY DEF setFinalizerIfFinalizer, TypeInv, WorkOK
<1>. HIDE DEF r
<1>3. updateFinalizersFiltered(r, "do") /\ UNCHANGED <<outside, leading, edits>>
  BY DEF setFinalizerIfFinalizer, r
<1>. QED
  BY <1>1, <1>2, <1>3, FinalizersTypes

\* clearFinalizer keeps TypeInv.
LEMMA ClearFinalizerTypes ==
  ASSUME TypeInv, clearFinalizer
  PROVE  TypeInv'
<1>. DEFINE r == [work.resource EXCEPT !.finalizer = @ /\ ~Clears(work.event)]
<1>1. r \in Object
  BY DEF TypeInv, TypeOK, Work, Object
<1>. HIDE DEF r
<1>3. updateFinalizersFiltered(r, "status") /\ UNCHANGED <<outside, leading, edits>>
  BY DEF clearFinalizer, r
<1>. QED
  BY <1>1, <1>3, FinalizersTypes

\* The reconciler's own methods.
LEMMA MethodTypes ==
  ASSUME TypeInv, ReconcileKind \/ FinalizeKind \/ ObserveKind
  PROVE  TypeInv'
<1>0. work \in Work /\ work.resource \in Object /\ outside \subseteq Nat
  BY DEF TypeInv, TypeOK, Work
<1>1. ASSUME NEW event \in Outcomes, Returns(event)
      PROVE  faults' \in 0..MaxFaults /\ event \in Events
  BY <1>1, FaultTypes, InterfacesAssumption DEF Returns, TypeInv, TypeOK
<1>2. CASE ReconcileKind
  <2>1. PICK event \in Outcomes :
          /\ Returns(event)
          /\ outside' = outside \cup {work.resource.uid} \/ UNCHANGED outside
          /\ work' = [work EXCEPT !.pc = "status", !.event = event,
                        !.resource.status =
                          [observedGeneration |-> work.resource.generation,
                           ready |-> event \in {"nil", "normal"}]]
    BY <1>2 DEF ReconcileKind
  <2>2. work' \in Work /\ work'.pc = "status" /\ work'.event = event
    <3>. DEFINE ok == event \in {"nil", "normal"}
                status == [observedGeneration |-> work.resource.generation,
                           ready |-> ok]
    <3>1. ok \in BOOLEAN
      OBVIOUS
    <3>2. work' = [work EXCEPT !.pc = "status", !.event = event,
                               !.resource.status = status]
      BY <2>1
    <3>. HIDE DEF ok
    <3>3. status \in Status
      BY <1>0, <3>1 DEF Object, Status
    <3>4. event \in Events
      BY <1>1, <2>1
    <3>. HIDE DEF status
    <3>. QED
      BY <1>0, <3>2, <3>3, <3>4 DEF Work, Object
  <2>3. outside' \subseteq Nat
    BY <1>0, <2>1 DEF Object
  <2>4. WorkOK'
    BY <2>2 DEF WorkOK
  <2>. QED
    BY <1>1, <1>2, <2>1, <2>2, <2>3, <2>4, WorkerTypes
       DEF ReconcileKind, TypeInv, TypeOK
<1>3. CASE FinalizeKind
  <2>1. PICK event \in Outcomes :
          /\ Returns(event)
          /\ outside' = outside \ {work.resource.uid} \/ UNCHANGED outside
          /\ work' = [work EXCEPT !.pc = "clearFinalizer", !.event = event]
    BY <1>3 DEF FinalizeKind
  <2>2. /\ work' \in Work /\ work'.pc = "clearFinalizer"
        /\ work'.event = event /\ work'.method = work.method
    BY <1>0, <1>1, <2>1 DEF Work
  <2>3. outside' \subseteq Nat
    BY <1>0, <2>1
  <2>4. WorkOK'
    BY <1>3, <2>2 DEF WorkOK, FinalizeKind
  <2>. QED
    BY <1>1, <1>3, <2>1, <2>2, <2>3, <2>4, WorkerTypes
       DEF FinalizeKind, TypeInv, TypeOK
<1>4. CASE ObserveKind
  <2>1. PICK event \in Outcomes, ready \in BOOLEAN :
          /\ Returns(event)
          /\ work' = [work EXCEPT !.pc = "status", !.event = event,
                                  !.resource.status.ready = ready]
    BY <1>4 DEF ObserveKind
  <2>2. work' \in Work /\ work'.pc = "status" /\ work'.event = event
    BY <1>0, <1>1, <2>1 DEF Work, Object, Status
  <2>4. WorkOK'
    BY <2>2 DEF WorkOK
  <2>. QED
    BY <1>0, <1>1, <1>4, <2>1, <2>2, <2>4, WorkerTypes
       DEF ObserveKind, TypeInv, TypeOK
<1>. QED
  BY <1>2, <1>3, <1>4

\* updateStatus keeps TypeInv.
LEMMA UpdateStatusTypes ==
  ASSUME TypeInv, updateStatus
  PROVE  TypeInv'
<1>0. /\ work \in Work /\ outside' \subseteq Nat /\ UNCHANGED <<leading, edits>>
      /\ window \in Seq(Object) /\ window # << >> /\ faults \in 0..MaxFaults
      /\ work.resource.status \in Status /\ Server \in Object
  BY EndTypes DEF updateStatus, TypeInv, TypeOK, Work, Object
<1>1. ASSUME NEW err \in BOOLEAN, Return(err),
             window' \in Seq(Object) /\ window' # << >>, faults' \in 0..MaxFaults
      PROVE  TypeInv'
  <2>1. work' \in Work /\ WorkOK' /\ work'.pc = "idle" /\ queued' \in BOOLEAN
    BY <1>1, ReturnTypes
  <2>. QED
    BY <1>0, <1>1, <2>1, WorkerTypes
<1>2. Failed(work.event) \in BOOLEAN
  BY DEF Failed
<1>3. CASE /\ \E err \in BOOLEAN : Return(err)
           /\ UNCHANGED <<window, faults>>
  BY <1>0, <1>1, <1>3
<1>4. CASE /\ Store([Server EXCEPT !.status = work.resource.status])
           /\ \/ Return(Failed(work.event)) /\ UNCHANGED faults
              \/ Return(TRUE) /\ Fault
  <2>1. [Server EXCEPT !.status = work.resource.status] \in Object
    BY <1>0 DEF Object
  <2>2. window' \in Seq(Object) /\ window' # << >>
    BY <1>4, <2>1, Stores DEF TypeInv
  <2>. QED
    BY <1>0, <1>1, <1>2, <1>4, <2>2, FaultTypes
<1>5. CASE /\ work.attempts + 1 < MaxAttempts
           /\ work' = [work EXCEPT !.pc = "get", !.attempts = @ + 1]
           /\ UNCHANGED <<queued, window, faults>>
  <2>0. work.attempts + 1 \in 0..MaxAttempts
    BY <1>0, <1>5, BoundsAssumption DEF Work
  <2>. DEFINE n == work.attempts + 1
  <2>. HIDE DEF n
  <2>a. work' = [work EXCEPT !.pc = "get", !.attempts = n] /\ n \in 0..MaxAttempts
    BY <1>5, <2>0 DEF n
  <2>1. work' \in Work /\ work'.pc = "get" /\ work'.event = work.event
    BY <1>0, <2>a DEF Work
  <2>2. WorkOK'
    BY <2>1 DEF WorkOK, TypeInv
  <2>. QED
    BY <1>0, <1>5, <2>1, <2>2, WorkerTypes DEF TypeInv, TypeOK
<1>. QED
  BY <1>2, <1>3, <1>4, <1>5, Zenon DEF updateStatus

\* The GET before a retry keeps TypeInv.
LEMMA GetExistingTypes ==
  ASSUME TypeInv, getExisting
  PROVE  TypeInv'
<1>0. /\ work \in Work /\ outside \subseteq Nat
      /\ window \in Seq(Object) /\ window # << >> /\ faults \in 0..MaxFaults
      /\ Server \in Object /\ UNCHANGED <<window, outside, leading, edits, faults>>
  BY EndTypes DEF getExisting, TypeInv, TypeOK
<1>1. CASE Return(TRUE)
  <2>1. work' \in Work /\ WorkOK' /\ work'.pc = "idle" /\ queued' \in BOOLEAN
    BY <1>1, ReturnTypes
  <2>. QED
    BY <1>0, <2>1, WorkerTypes
<1>2. CASE /\ work' = [work EXCEPT !.pc = "status", !.existing = Server]
           /\ UNCHANGED queued
  <2>1. work' \in Work /\ work'.pc = "status" /\ work'.event = work.event
    BY <1>0, <1>2 DEF Work
  <2>2. WorkOK'
    BY <2>1 DEF WorkOK, TypeInv
  <2>. QED
    BY <1>0, <1>2, <2>1, <2>2, WorkerTypes DEF TypeInv, TypeOK
<1>. QED
  BY <1>1, <1>2 DEF getExisting

\* A failed request keeps TypeInv.
LEMMA RequestFailsTypes ==
  ASSUME TypeInv, RequestFails
  PROVE  TypeInv'
<1>1. work' \in Work /\ WorkOK' /\ work'.pc = "idle" /\ queued' \in BOOLEAN
  BY ReturnTypes DEF RequestFails
<1>2. faults' \in 0..MaxFaults
  BY FaultTypes DEF RequestFails
<1>. QED
  BY <1>1, <1>2, WorkerTypes DEF RequestFails, TypeInv, TypeOK

\* The informer, the elector and the process.
LEMMA ProcessTypes ==
  ASSUME TypeInv, Deliver \/ PromoteFunc \/ Demote \/ Restart
  PROVE  TypeInv'
<1>0. /\ TypeOK /\ WorkOK /\ Lister \in Object /\ Server \in Object
      /\ Lister.exists \in BOOLEAN /\ Server.exists \in BOOLEAN
  BY EndTypes DEF TypeInv, Object
<1>1. CASE Deliver
  <2>1. window' \in Seq(Object) /\ window' # << >>
    BY <1>0, <1>1, Delivers DEF Deliver
  <2>. QED
    BY <1>0, <1>1, <2>1 DEF Deliver, TypeInv, TypeOK, WorkOK
<1>2. CASE PromoteFunc
  <2>1. queued' \in BOOLEAN /\ leading' \in BOOLEAN
    BY <1>0, <1>2 DEF PromoteFunc, TypeOK
  <2>. QED
    BY <1>0, <1>2, <2>1 DEF PromoteFunc, TypeInv, TypeOK, WorkOK
<1>3. CASE Demote
  <2>1. leading' \in BOOLEAN /\ faults' \in 0..MaxFaults
    BY <1>3, FaultTypes DEF Demote
  <2>. QED
    BY <1>0, <1>3, <2>1 DEF Demote, TypeInv, TypeOK, WorkOK
<1>4. CASE Restart
  <2>1. window' \in Seq(Object) /\ window' # << >>
    BY <1>0, <1>4, Relists DEF Restart
  <2>2. work' \in Work /\ work'.pc = "idle" /\ work'.event = "nil"
    BY <1>4, IdleType DEF Restart, Idle
  <2>3. queued' \in BOOLEAN /\ leading' \in BOOLEAN /\ faults' \in 0..MaxFaults
    BY <1>0, <1>4, FaultTypes DEF Restart
  <2>4. WorkOK'
    BY <2>2, InterfacesAssumption DEF WorkOK
  <2>. QED
    BY <1>0, <1>4, <2>1, <2>2, <2>3, <2>4 DEF Restart, TypeInv, TypeOK
<1>. QED
  BY <1>1, <1>2, <1>3, <1>4

\* What users and the owners of other finalizers request is about an object
\* that exists, or creates one.
LEMMA UserSteps ==
  ASSUME TypeInv,
         UserCreates \/ UserEdits \/ UserDeletes \/ OthersFinish
  PROVE  \E o \in Object :
           /\ Store(o)
           /\ edits' \in 0..MaxEdits
           /\ UNCHANGED <<outside, queued, work, leading, faults>>
           /\ o.exists /\ o.resourceVersion = Server.resourceVersion
           /\ \/ ~Server.exists /\ ~o.finalizer /\ ~o.deleting
                 /\ o.uid = Server.uid + 1
              \/ /\ Server.exists
                 /\ o.uid = Server.uid /\ o.finalizer = Server.finalizer
                 /\ Server.deleting => o.deleting
<1>0. Server \in Object
  BY EndTypes DEF TypeInv, TypeOK
<1>e. ASSUME NEW o, Edit(o)
      PROVE  /\ Store(o) /\ edits' \in 0..MaxEdits
             /\ UNCHANGED <<outside, queued, work, leading, faults>>
  BY <1>e, BoundsAssumption DEF Edit, TypeInv, TypeOK
<1>1. CASE UserCreates
  <2>1. PICK others \in BOOLEAN :
          /\ ~Server.exists
          /\ Edit([exists |-> TRUE, uid |-> Server.uid + 1,
                   resourceVersion |-> Server.resourceVersion, generation |-> 1,
                   deleting |-> FALSE, finalizer |-> FALSE, others |-> others,
                   status |-> NoStatus])
    BY <1>1 DEF UserCreates
  <2>. DEFINE o == [exists |-> TRUE, uid |-> Server.uid + 1,
                    resourceVersion |-> Server.resourceVersion,
                    generation |-> 1, deleting |-> FALSE, finalizer |-> FALSE,
                    others |-> others, status |-> NoStatus]
  <2>2. /\ o \in Object /\ o.exists
        /\ o.resourceVersion = Server.resourceVersion
        /\ o.uid = Server.uid + 1 /\ ~o.finalizer /\ ~o.deleting
    BY <1>0 DEF Object, Status, NoStatus
  <2>. HIDE DEF o
  <2>3. Edit(o)
    BY <2>1 DEF o
  <2>. QED
    BY <1>e, <2>1, <2>2, <2>3, Zenon
<1>2. CASE UserEdits
  <2>. DEFINE o == [Server EXCEPT !.generation = @ + 1]
  <2>2. /\ o \in Object /\ o.exists = Server.exists
        /\ o.resourceVersion = Server.resourceVersion
        /\ o.uid = Server.uid /\ o.finalizer = Server.finalizer
        /\ o.deleting = Server.deleting
    BY <1>0 DEF Object
  <2>3. Edit(o) /\ Server.exists
    BY <1>2 DEF UserEdits
  <2>. HIDE DEF o
  <2>. QED
    BY <1>e, <2>2, <2>3, Zenon
<1>3. CASE UserDeletes
  <2>. DEFINE o == [Server EXCEPT !.deleting = TRUE, !.generation = @ + 1]
  <2>2. /\ o \in Object /\ o.exists = Server.exists
        /\ o.resourceVersion = Server.resourceVersion
        /\ o.uid = Server.uid /\ o.finalizer = Server.finalizer
        /\ o.deleting
    <3>. DEFINE s == Server
                g == s.generation + 1
    <3>. HIDE DEF s
    <3>1. s \in Object /\ o = [s EXCEPT !.deleting = TRUE, !.generation = g]
      BY <1>0 DEF s
    <3>2. g \in Nat
      BY <3>1 DEF Object
    <3>. HIDE DEF g, o
    <3>3. /\ o \in Object /\ o.exists = s.exists
          /\ o.resourceVersion = s.resourceVersion
          /\ o.uid = s.uid /\ o.finalizer = s.finalizer
          /\ o.deleting
      BY <3>1, <3>2 DEF Object
    <3>. QED
      BY <3>3 DEF s
  <2>3. Edit(o) /\ Server.exists
    BY <1>3 DEF UserDeletes
  <2>. HIDE DEF o
  <2>. QED
    BY <1>e, <2>2, <2>3, Zenon
<1>4. CASE OthersFinish
  <2>. DEFINE o == [Server EXCEPT !.others = FALSE]
  <2>2. /\ o \in Object /\ o.exists = Server.exists
        /\ o.resourceVersion = Server.resourceVersion
        /\ o.uid = Server.uid /\ o.finalizer = Server.finalizer
        /\ o.deleting = Server.deleting
    BY <1>0 DEF Object
  <2>3. Store(o) /\ Server.exists
        /\ UNCHANGED <<outside, queued, work, leading, edits, faults>>
    BY <1>4 DEF OthersFinish
  <2>4. edits' \in 0..MaxEdits
    BY <2>3 DEF TypeInv, TypeOK
  <2>. HIDE DEF o
  <2>. QED
    BY <2>2, <2>3, <2>4, Zenon
<1>. QED
  BY <1>1, <1>2, <1>3, <1>4

\* Every step keeps TypeInv.
LEMMA NextTypeInv == TypeInv /\ [Next]_vars => TypeInv'
<1>. SUFFICES ASSUME TypeInv, [Next]_vars PROVE TypeInv'
  OBVIOUS
<1>1. CASE Worker
  BY <1>1, ReconcileTypes, SetFinalizerTypes, MethodTypes, ClearFinalizerTypes,
     UpdateStatusTypes, GetExistingTypes DEF Worker
<1>2. CASE UserCreates \/ UserEdits \/ UserDeletes \/ OthersFinish
  <2>1. PICK o \in Object :
          /\ Store(o)
          /\ edits' \in 0..MaxEdits
          /\ UNCHANGED <<outside, queued, work, leading, faults>>
    BY <1>2, UserSteps
  <2>2. window' \in Seq(Object) /\ window' # << >>
    BY <2>1, Stores DEF TypeInv
  <2>. QED
    BY <2>1, <2>2 DEF TypeInv, TypeOK, WorkOK
<1>3. CASE UNCHANGED vars
  BY <1>3 DEF vars, TypeInv, TypeOK, WorkOK
<1>. QED
  BY <1>1, <1>2, <1>3, RequestFailsTypes, ProcessTypes DEF Next

\* Every variable keeps its type, and ReconcileKind and ObserveKind only ever
\* get an object that is not being deleted, the finalizing methods one that
\* is, although Reconcile decides on a copy and setFinalizerIfFinalizer hands
\* over another (reconcileMethodFor, updateFinalizersFiltered).
THEOREM TypeCorrect == Spec => []TypeOK
<1>1. TypeInv => TypeOK
  BY DEF TypeInv
<1>. QED
  BY <1>1, InitTypeInv, NextTypeInv, PTL DEF Spec

-----------------------------------------------------------------------------
(* What exists outside never leaks *)

\* The versions of a window have consecutive numbers, so that a request that
\* names the informer's version succeeds only if that is the server's, too.
Numbered ==
  \A i \in 1..Len(window) :
    window[i].resourceVersion = Lister.resourceVersion + i - 1

\* What the finalizer of the server's version tells about the others: only
\* the informer's copy may differ in it.  The finalizer is not added to an
\* object that is being deleted, and not removed from another one.
Marked ==
  /\ Server.finalizer => Server.exists
  /\ \A i \in 2..Len(window) : (window[i].finalizer <=> Server.finalizer)
  /\ Server.finalizer =>
       \A i \in 1..Len(window) :
         /\ window[i].uid = Server.uid
         /\ window[i].deleting => Server.deleting /\ window[i].finalizer
  /\ Lister.finalizer /\ ~Server.finalizer =>
       Lister.deleting /\ work.pc # "setFinalizer"

Finalizing ==
  \/ work.pc = "do" /\ work.method = "FinalizeKind"
  \/ work.pc = "clearFinalizer"

\* What the worker may rely on between its steps, whatever has happened since.
Relied ==
  /\ work.pc \in {"setFinalizer", "do", "clearFinalizer"} =>
       (Lister.finalizer \/ Server.finalizer => Lister.uid = work.resource.uid)
  /\ work.pc = "do" /\ work.method = "ReconcileKind" =>
       Server.exists /\ Server.uid = work.resource.uid /\ Server.finalizer
  /\ Finalizing =>
       /\ Lister.finalizer \/ Server.finalizer => work.resource.finalizer
       /\ Server.finalizer => Server.deleting
  /\ work.pc = "clearFinalizer" /\ work.event \in {"nil", "normal"} => outside = {}

LeakInv == isFinalizer => Numbered /\ Marked /\ Relied /\ NeverLeaks

\* Nothing exists outside at the start.
LEMMA InitLeakInv == Init => LeakInv
<1>. SUFFICES ASSUME Init PROVE LeakInv
  OBVIOUS
<1>1. Len(window) = 1 /\ Lister = Gone(0, 0) /\ Server = Gone(0, 0)
  BY GoneType, VersionListed DEF Init, Lister, Server
<1>2. /\ ~Lister.finalizer /\ Lister.resourceVersion = 0
      /\ ~Server.finalizer /\ window[1].resourceVersion = 0
  BY <1>1 DEF Gone, Lister
<1>3. work.pc = "idle" /\ outside = {}
  BY DEF Init, Idle
<1>4. Numbered
  BY <1>1, <1>2 DEF Numbered
<1>5. Marked
  BY <1>1, <1>2 DEF Marked
<1>6. Relied /\ NeverLeaks
  BY <1>2, <1>3 DEF Relied, Finalizing, NeverLeaks
<1>. QED
  BY <1>4, <1>5, <1>6 DEF LeakInv

\* A request that names the informer's version is about the server's.
LEMMA OnlyUnmodified ==
  ASSUME TypeInv, Numbered, Unmodified(Lister)
  PROVE  Len(window) = 1 /\ Lister = Server
<1>1. Len(window) \in Nat \ {0} /\ Lister \in Object /\ Server \in Object
  BY EndTypes DEF TypeInv
<1>2. Server.resourceVersion = Lister.resourceVersion + Len(window) - 1
  BY <1>1 DEF Numbered, Server
<1>3. Server.resourceVersion = Lister.resourceVersion
  BY DEF Unmodified
<1>4. Lister.resourceVersion \in Nat
  BY <1>1 DEF Object
<1>5. Len(window) = 1
  <2>1. \A v \in Nat, n \in Nat : v = v + n - 1 => n = 1
    OBVIOUS
  <2>. QED
    BY <1>1, <1>2, <1>3, <1>4, <2>1
<1>. QED
  BY <1>5 DEF Lister, Server

\* A write that leaves the finalizer alone, of users and of updateStatus.
LEMMA LeakStored ==
  ASSUME TypeInv, isFinalizer, LeakInv, NEW o \in Object, Store(o),
         o.exists, o.resourceVersion = Server.resourceVersion,
         \/ ~Server.exists /\ ~o.finalizer
         \/ /\ o.uid = Server.uid
            /\ o.finalizer <=> Server.finalizer
            /\ Server.deleting => o.deleting,
         outside' = outside, work' = work \/ work'.pc = "idle"
  PROVE  LeakInv'
<1>0. Numbered /\ Marked /\ Relied /\ NeverLeaks
  BY DEF LeakInv
<1>1. /\ Len(window') = Len(window) + 1
      /\ \A i \in 1..Len(window) : window'[i] = window[i]
      /\ window'[Len(window) + 1] = Server'
      /\ Lister' = Lister
      /\ Server' = Revised(o)
      /\ Len(window) \in Nat \ {0}
      /\ Server \in Object /\ Lister \in Object
  BY Stores, EndTypes DEF TypeInv
<1>2. /\ Server' \in Object
      /\ Server'.uid = o.uid
      /\ Server'.resourceVersion = Server.resourceVersion + 1
      /\ Server'.finalizer <=> o.finalizer
      /\ o.finalizer => Server'.exists /\ (o.deleting => Server'.deleting)
  BY <1>1, RevisedType
<1>3. /\ Server'.finalizer <=> Server.finalizer
      /\ Server'.finalizer => /\ Server'.exists
                              /\ Server'.uid = Server.uid
                              /\ Server.deleting => Server'.deleting
  BY <1>0, <1>2 DEF Marked
<1>4. Numbered'
  <2>1. Server.resourceVersion = Lister.resourceVersion + Len(window) - 1
    BY <1>0, <1>1 DEF Numbered, Server
  <2>2. ASSUME NEW i \in 1..Len(window')
        PROVE  window'[i].resourceVersion = Lister.resourceVersion + i - 1
    <3>1. CASE i = Len(window) + 1
      BY <1>1, <1>2, <2>1, <3>1 DEF Object
    <3>2. CASE i \in 1..Len(window)
      BY <1>0, <1>1, <3>2 DEF Numbered
    <3>. QED
      BY <1>1, <3>1, <3>2
  <2>. QED
    BY <1>1, <2>2 DEF Numbered
<1>5. Marked'
  <2>1. \A i \in 2..Len(window') : window'[i].finalizer <=> Server'.finalizer
    <3>. SUFFICES ASSUME NEW i \in 2..Len(window')
                  PROVE  window'[i].finalizer <=> Server'.finalizer
      OBVIOUS
    <3>1. CASE i = Len(window) + 1
      BY <1>1, <3>1
    <3>2. CASE i \in 2..Len(window)
      BY <1>0, <1>1, <1>3, <3>2 DEF Marked
    <3>. QED
      BY <1>1, <3>1, <3>2
  <2>2. ASSUME Server'.finalizer, NEW i \in 1..Len(window')
        PROVE  /\ window'[i].uid = Server'.uid
               /\ window'[i].deleting => Server'.deleting /\ window'[i].finalizer
    <3>1. CASE i = Len(window) + 1
      BY <1>1, <2>2, <3>1
    <3>2. CASE i \in 1..Len(window)
      BY <1>0, <1>1, <1>3, <2>2, <3>2 DEF Marked
    <3>. QED
      BY <1>1, <3>1, <3>2
  <2>3. Lister'.finalizer /\ ~Server'.finalizer =>
          Lister'.deleting /\ work'.pc # "setFinalizer"
    BY <1>0, <1>1, <1>3 DEF Marked
  <2>. QED
    BY <1>3, <2>1, <2>2, <2>3 DEF Marked
<1>6. Relied'
  BY <1>0, <1>1, <1>3 DEF Relied, Finalizing
<1>7. NeverLeaks'
  BY <1>0, <1>3 DEF NeverLeaks, isFinalizer
<1>. QED
  BY <1>4, <1>5, <1>6, <1>7 DEF LeakInv

\* A delivery keeps LeakInv: the informer's copy moves on to a version that
\* agrees with the server's about the finalizer.
LEMMA LeakDelivered ==
  ASSUME TypeInv, isFinalizer, LeakInv, Deliver
  PROVE  LeakInv'
<1>0. Numbered /\ Marked /\ Relied /\ NeverLeaks
  BY DEF LeakInv
<1>1. /\ Len(window') = Len(window) - 1
      /\ \A i \in 1..(Len(window) - 1) : window'[i] = window[i + 1]
      /\ Lister' = window[2]
      /\ Server' = Server
      /\ Len(window) \in Nat /\ Len(window) > 1
      /\ window[2] \in Object /\ Lister \in Object
      /\ outside' = outside /\ work' = work
  BY Delivers, EndTypes DEF Deliver, TypeInv
<1>2. /\ Lister'.finalizer <=> Server.finalizer
      /\ Server.finalizer => Lister'.uid = Server.uid /\ Lister.uid = Server.uid
  BY <1>0, <1>1 DEF Marked, Lister
<1>3. Numbered'
  <2>1. Lister'.resourceVersion = Lister.resourceVersion + 1
    BY <1>0, <1>1 DEF Numbered, Object
  <2>2. ASSUME NEW i \in 1..Len(window')
        PROVE  window'[i].resourceVersion = Lister'.resourceVersion + i - 1
    <3>1. i + 1 \in 1..Len(window) /\ window'[i] = window[i + 1]
      BY <1>1
    <3>2. window[i + 1].resourceVersion = Lister.resourceVersion + (i + 1) - 1
      BY <1>0, <3>1 DEF Numbered
    <3>. QED
      BY <1>1, <2>1, <3>1, <3>2 DEF Object
  <2>. QED
    BY <2>2 DEF Numbered
<1>4. Marked'
  <2>1. \A i \in 1..Len(window') : i + 1 \in 2..Len(window) /\ window'[i] = window[i + 1]
    BY <1>1
  <2>2. \A i \in 2..Len(window') : window'[i].finalizer <=> Server'.finalizer
    BY <1>0, <1>1, <2>1 DEF Marked
  <2>3. Server'.finalizer =>
          \A i \in 1..Len(window') :
            /\ window'[i].uid = Server'.uid
            /\ window'[i].deleting => Server'.deleting /\ window'[i].finalizer
    BY <1>0, <1>1, <2>1 DEF Marked
  <2>. QED
    BY <1>0, <1>1, <1>2, <2>2, <2>3 DEF Marked
<1>5. Relied'
  BY <1>0, <1>1, <1>2 DEF Relied, Finalizing
<1>6. NeverLeaks'
  BY <1>0, <1>1 DEF NeverLeaks, isFinalizer
<1>. QED
  BY <1>3, <1>4, <1>5, <1>6 DEF LeakInv

\* The worker forgets everything when it returns, and at a restart.
LEMMA LeakIdle ==
  ASSUME TypeInv, isFinalizer, LeakInv, work'.pc = "idle", outside' = outside,
         UNCHANGED window \/ window' = <<Server>>
  PROVE  LeakInv'
<1>0. Numbered /\ Marked /\ Relied /\ NeverLeaks
  BY DEF LeakInv
<1>1. CASE UNCHANGED window
  <2>1. Lister' = Lister /\ Server' = Server
    BY <1>1 DEF Lister, Server
  <2>. QED
    BY <1>0, <1>1, <2>1
       DEF LeakInv, Numbered, Marked, Relied, Finalizing, NeverLeaks, isFinalizer
<1>2. CASE window' = <<Server>>
  <2>1. /\ Len(window') = 1 /\ window'[1] = Server
        /\ Lister' = Server /\ Server' = Server /\ Server \in Object
    BY <1>2, Relists, EndTypes DEF TypeInv
  <2>2. Numbered'
    BY <2>1 DEF Numbered, Object
  <2>3. Marked'
    <3>1. Server.finalizer => Server.exists
      BY <1>0 DEF Marked
    <3>2. \A i \in 1..Len(window) :
            Server.finalizer => (window[i].deleting => window[i].finalizer)
      BY <1>0 DEF Marked
    <3>. QED
      BY <2>1, <3>1, <3>2 DEF Marked
  <2>. QED
    BY <1>0, <2>1, <2>2, <2>3
       DEF LeakInv, Relied, Finalizing, NeverLeaks, isFinalizer
<1>. QED
  BY <1>1, <1>2

\* A step of the worker that writes nothing.
LEMMA LeakWindowKept ==
  ASSUME TypeInv, isFinalizer, LeakInv, UNCHANGED window,
         work'.pc = "setFinalizer" => ~Lister.deleting
  PROVE  /\ Numbered' /\ Marked'
         /\ Lister' = Lister /\ Server' = Server
         /\ Server.finalizer => Lister.uid = Server.uid
<1>0. Numbered /\ Marked
  BY DEF LeakInv
<1>1. Lister' = Lister /\ Server' = Server /\ Len(window) \in Nat \ {0}
  BY EndTypes DEF Lister, Server, TypeInv
<1>2. Server.finalizer => Lister.uid = Server.uid
  BY <1>0, <1>1 DEF Marked, Lister
<1>3. Marked'
  BY <1>0, <1>1 DEF Marked
<1>. QED
  BY <1>0, <1>1, <1>2, <1>3 DEF Numbered

\* Reconcile keeps LeakInv: the worker relies on the lister's copy.
LEMMA LeakReconcile ==
  ASSUME TypeInv, isFinalizer, LeakInv, Reconcile
  PROVE  LeakInv'
<1>0. Numbered /\ Marked /\ Relied /\ NeverLeaks /\ work.pc = "idle"
  BY DEF LeakInv, Reconcile
<1>1. UNCHANGED <<window, outside>> /\ Len(window) \in Nat \ {0}
  BY EndTypes DEF Reconcile, TypeInv
<1>2. CASE work' = work
  BY <1>0, <1>1, <1>2, LeakIdle
<1>3. CASE /\ work'.resource = Lister
           /\ work'.pc \in {"setFinalizer", "do"}
           /\ work'.pc = "setFinalizer" => work'.method = "ReconcileKind"
           /\ work'.pc = "do" => work'.method # "ReconcileKind"
           /\ work'.method = reconcileMethodFor(Lister)
  <2>1. /\ work'.method = "ReconcileKind" => ~Lister.deleting
        /\ work'.method = "FinalizeKind" => Lister.deleting
    BY <1>3 DEF reconcileMethodFor
  <2>2. /\ Numbered' /\ Marked'
        /\ Lister' = Lister /\ Server' = Server
        /\ Server.finalizer => Lister.uid = Server.uid
    BY <1>1, <1>3, <2>1, LeakWindowKept
  <2>3. Server.finalizer /\ Lister.deleting => Server.deleting /\ Lister.finalizer
    BY <1>0, <1>1 DEF Marked, Lister
  <2>4. Relied'
    BY <1>3, <2>1, <2>2, <2>3 DEF Relied, Finalizing
  <2>5. NeverLeaks'
    BY <1>0, <1>1, <2>2 DEF NeverLeaks, isFinalizer
  <2>. QED
    BY <2>2, <2>4, <2>5 DEF LeakInv
<1>4. CASE work' # work
  <2>. DEFINE method == reconcileMethodFor(Lister)
              pc == IF method = "ReconcileKind" THEN "setFinalizer" ELSE "do"
  <2>1. work' = [Idle EXCEPT !.pc = pc, !.method = method, !.original = Lister,
                             !.existing = Lister, !.resource = Lister]
    BY <1>4 DEF Reconcile
  <2>2. /\ pc \in {"setFinalizer", "do"}
        /\ pc = "setFinalizer" => method = "ReconcileKind"
        /\ pc = "do" => method # "ReconcileKind"
    OBVIOUS
  <2>. HIDE DEF pc, method
  <2>3. work'.resource = Lister /\ work'.pc = pc /\ work'.method = method
    BY <2>1 DEF Idle
  <2>. QED
    BY <1>3, <2>2, <2>3 DEF method
<1>. QED
  BY <1>2, <1>4

\* The reconciler's own methods make and remove what exists outside.
LEMMA LeakMethods ==
  ASSUME TypeInv, isFinalizer, LeakInv, ReconcileKind \/ FinalizeKind \/ ObserveKind
  PROVE  LeakInv'
<1>0. Numbered /\ Marked /\ Relied /\ NeverLeaks /\ work \in Work /\ work.pc = "do"
  BY DEF LeakInv, TypeInv, TypeOK, ReconcileKind, FinalizeKind, ObserveKind
<1>1. UNCHANGED window
  BY DEF ReconcileKind, FinalizeKind, ObserveKind
<1>2. /\ \/ /\ work'.pc = "status"
            /\ \/ outside' = outside
               \/ /\ work.method = "ReconcileKind"
                  /\ outside' = outside \cup {work.resource.uid}
         \/ /\ work'.pc = "clearFinalizer"
            /\ work.method = "FinalizeKind"
            /\ work'.resource = work.resource
            /\ \/ outside' = outside \ {work.resource.uid}
               \/ work'.event \notin {"nil", "normal"} /\ outside' = outside
  <2>1. CASE ReconcileKind
    <3>1. PICK event \in Outcomes :
            work' = [work EXCEPT !.pc = "status", !.event = event,
                       !.resource.status =
                         [observedGeneration |-> work.resource.generation,
                          ready |-> event \in {"nil", "normal"}]]
      BY <2>1 DEF ReconcileKind
    <3>2. work'.pc = "status"
      BY <1>0, <3>1 DEF Work
    <3>. QED
      BY <2>1, <3>2 DEF ReconcileKind
  <2>2. CASE FinalizeKind
    <3>1. PICK event \in Outcomes :
            /\ work' = [work EXCEPT !.pc = "clearFinalizer", !.event = event]
            /\ \/ outside' = outside \ {work.resource.uid}
               \/ event \notin {"nil", "normal"} /\ UNCHANGED outside
      BY <2>2 DEF FinalizeKind
    <3>2. /\ work'.pc = "clearFinalizer" /\ work'.event = event
          /\ work'.resource = work.resource
      BY <1>0, <3>1 DEF Work
    <3>. QED
      BY <2>2, <3>1, <3>2 DEF FinalizeKind
  <2>3. CASE ObserveKind
    <3>1. PICK event \in Outcomes, ready \in BOOLEAN :
            work' = [work EXCEPT !.pc = "status", !.event = event,
                                 !.resource.status.ready = ready]
      BY <2>3 DEF ObserveKind
    <3>2. work'.pc = "status"
      BY <1>0, <3>1 DEF Work
    <3>. QED
      BY <2>3, <3>2 DEF ObserveKind
  <2>. QED
    BY <2>1, <2>2, <2>3
<1>3. /\ Numbered' /\ Marked'
      /\ Lister' = Lister /\ Server' = Server
      /\ Server.finalizer => Lister.uid = Server.uid
  BY <1>1, <1>2, LeakWindowKept
<1>4. CASE work'.pc = "status"
  <2>1. Relied'
    BY <1>4 DEF Relied, Finalizing
  <2>2. NeverLeaks'
    BY <1>0, <1>2, <1>3, <1>4 DEF NeverLeaks, Relied, isFinalizer
  <2>. QED
    BY <1>3, <2>1, <2>2 DEF LeakInv
<1>5. CASE work'.pc = "clearFinalizer"
  <2>1. \A u \in outside : u = work.resource.uid
    BY <1>0, <1>3 DEF NeverLeaks, Relied
  <2>2. work'.event \in {"nil", "normal"} => outside' = {}
    BY <1>2, <1>5, <2>1
  <2>3. Finalizing /\ work'.resource = work.resource
    BY <1>0, <1>2, <1>5 DEF Finalizing
  <2>4. Relied'
    BY <1>0, <1>3, <1>5, <2>2, <2>3 DEF Relied, Finalizing
  <2>5. NeverLeaks'
    BY <1>0, <1>2, <1>3, <1>5 DEF NeverLeaks, isFinalizer
  <2>. QED
    BY <1>3, <2>4, <2>5 DEF LeakInv
<1>. QED
  BY <1>2, <1>4, <1>5

\* The patch adds the finalizer to an object that is not being deleted, or
\* removes it from one that is, once nothing exists outside.
LEMMA LeakPatched ==
  ASSUME TypeInv, isFinalizer, LeakInv, NEW f \in BOOLEAN,
         Unmodified(Lister), Store([Server EXCEPT !.finalizer = f]),
         f => ~Server.deleting,
         ~f => Server.deleting /\ outside = {},
         outside' = outside, work'.pc # "setFinalizer"
  PROVE  /\ Numbered' /\ Marked' /\ NeverLeaks'
         /\ Lister' = Lister
         /\ Server'.finalizer <=> f
         /\ f => Server'.exists /\ Server'.uid = Server.uid
<1>. DEFINE s == Server
            o == [s EXCEPT !.finalizer = f]
<1>0. Numbered /\ Marked /\ NeverLeaks
  BY DEF LeakInv
<1>1. Len(window) = 1 /\ Lister = s /\ s \in Object /\ s.exists
  BY <1>0, OnlyUnmodified, EndTypes DEF TypeInv, Unmodified
<1>2. s.deleting <=> ~f
  OBVIOUS
<1>. HIDE DEF s
<1>3. /\ o \in Object /\ o.exists /\ o.uid = s.uid
      /\ o.resourceVersion = s.resourceVersion
      /\ o.finalizer = f /\ o.deleting = s.deleting
  BY <1>1 DEF Object
<1>4. Store(o)
  BY DEF s
<1>. HIDE DEF o
<1>5. /\ Len(window') = 2
      /\ window'[1] = s /\ window'[2] = Server'
      /\ Lister' = s
      /\ Server' = Revised(o)
  BY <1>1, <1>3, <1>4, Stores DEF TypeInv, Lister
<1>6. /\ Server'.uid = s.uid
      /\ Server'.resourceVersion = s.resourceVersion + 1
      /\ Server'.finalizer <=> f
      /\ f => Server'.exists
  BY <1>3, <1>5, RevisedType
<1>7. Numbered'
  BY <1>1, <1>5, <1>6 DEF Numbered, Object
<1>8. Marked'
  BY <1>2, <1>5, <1>6 DEF Marked
<1>9. NeverLeaks'
  <2>1. CASE f
    BY <1>0, <1>6, <2>1 DEF NeverLeaks, isFinalizer, s
  <2>2. CASE ~f
    BY <2>2 DEF NeverLeaks
  <2>. QED
    BY <2>1, <2>2
<1>. QED
  BY <1>1, <1>5, <1>6, <1>7, <1>8, <1>9 DEF s

\* setFinalizerIfFinalizer keeps LeakInv: its patch names the version that
\* the worker has seen.
LEMMA LeakSetFinalizer ==
  ASSUME TypeInv, isFinalizer, LeakInv, setFinalizerIfFinalizer
  PROVE  LeakInv'
<1>. DEFINE r == [work.resource EXCEPT !.finalizer = TRUE]
            next == [[Server EXCEPT !.finalizer = r.finalizer] EXCEPT
                       !.resourceVersion = @ + 1]
<1>0. /\ Numbered /\ Marked /\ Relied /\ NeverLeaks /\ work \in Work
      /\ work.pc = "setFinalizer" /\ work.method = "ReconcileKind"
      /\ outside' = outside /\ Server \in Object
  BY EndTypes DEF LeakInv, TypeInv, TypeOK, WorkOK, setFinalizerIfFinalizer
<1>1. r.finalizer = TRUE /\ r.uid = work.resource.uid
  BY <1>0 DEF Work, Object
<1>2. CASE Return(TRUE) /\ UNCHANGED window
  <2>1. work'.pc = "idle"
    BY <1>2 DEF Return, Idle
  <2>. QED
    BY <1>0, <1>2, <2>1, LeakIdle
<1>3. CASE /\ Lister.finalizer = r.finalizer
           /\ work' = [work EXCEPT !.pc = "do", !.resource = r]
           /\ UNCHANGED window
  <2>1. /\ work'.pc = "do" /\ work'.resource = r
        /\ work'.method = "ReconcileKind"
    BY <1>0, <1>3 DEF Work
  <2>2. /\ Numbered' /\ Marked'
        /\ Lister' = Lister /\ Server' = Server
        /\ Server.finalizer => Lister.uid = Server.uid
    BY <1>3, <2>1, LeakWindowKept
  <2>3. Lister.finalizer
    BY <1>1, <1>3, Zenon
  <2>4. Server.finalizer /\ Server.exists
    BY <1>0, <2>3 DEF Marked
  <2>5. Lister.uid = work'.resource.uid
    BY <1>0, <1>1, <2>1, <2>4 DEF Relied
  <2>6. Relied'
    BY <2>1, <2>2, <2>4, <2>5 DEF Relied, Finalizing
  <2>7. NeverLeaks'
    BY <1>0, <2>2 DEF NeverLeaks, isFinalizer
  <2>. QED
    BY <2>2, <2>6, <2>7 DEF LeakInv
<1>4. CASE /\ Unmodified(Lister)
           /\ r.finalizer => ~Server.deleting
           /\ Store([Server EXCEPT !.finalizer = r.finalizer])
           /\ \/ work' = [work EXCEPT !.pc = "do", !.resource = next]
              \/ Return(TRUE)
  <2>1. /\ Store([Server EXCEPT !.finalizer = TRUE])
        /\ ~Server.deleting
    BY <1>1, <1>4
  <2>2. next.uid = Server.uid
    BY <1>0 DEF Object
  <2>3. work'.pc = "idle" \/ /\ work'.pc = "do" /\ work'.method = "ReconcileKind"
                             /\ work'.resource.uid = Server.uid
    <3>1. CASE Return(TRUE)
      BY <3>1 DEF Return, Idle
    <3>2. CASE work' = [work EXCEPT !.pc = "do", !.resource = next]
      <4>. HIDE DEF next
      <4>1. /\ work'.pc = "do" /\ work'.resource = next
            /\ work'.method = "ReconcileKind"
        BY <1>0, <3>2 DEF Work
      <4>. QED
        BY <2>2, <4>1
    <3>. QED
      BY <1>4, <3>1, <3>2
  <2>4. /\ Numbered' /\ Marked' /\ NeverLeaks'
        /\ Lister' = Lister
        /\ Server'.finalizer
        /\ Server'.exists /\ Server'.uid = Server.uid
    BY <1>0, <1>4, <2>1, <2>3, LeakPatched
  <2>5. Lister = Server
    BY <1>0, <1>4, OnlyUnmodified
  <2>6. Relied'
    BY <2>3, <2>4, <2>5 DEF Relied, Finalizing
  <2>. QED
    BY <2>4, <2>6 DEF LeakInv
<1>5. updateFinalizersFiltered(r, "do")
  BY DEF setFinalizerIfFinalizer
<1>. HIDE DEF r
<1>. QED
  BY <1>2, <1>3, <1>4, <1>5 DEF updateFinalizersFiltered

\* clearFinalizer removes the finalizer only after FinalizeKind has succeeded,
\* unless an error that wraps an event of type Normal is among the outcomes.
LEMMA LeakClearFinalizer ==
  ASSUME TypeInv, isFinalizer, LeakInv, clearFinalizer, "wrapped" \notin Outcomes
  PROVE  LeakInv'
<1>. DEFINE f == work.resource.finalizer /\ ~Clears(work.event)
            r == [work.resource EXCEPT !.finalizer = f]
            next == [[Server EXCEPT !.finalizer = r.finalizer] EXCEPT
                       !.resourceVersion = @ + 1]
<1>0. /\ Numbered /\ Marked /\ Relied /\ NeverLeaks /\ work \in Work
      /\ work.pc = "clearFinalizer"
      /\ work.event \in Outcomes
      /\ outside' = outside /\ Server \in Object
  BY EndTypes DEF LeakInv, TypeInv, TypeOK, WorkOK, clearFinalizer
<1>1. updateFinalizersFiltered(r, "status")
  BY DEF clearFinalizer
<1>2. f \in BOOLEAN
  OBVIOUS
<1>3. /\ Server.finalizer => Server.deleting
      /\ Lister.finalizer /\ ~f => outside = {}
  BY <1>0 DEF Relied, Finalizing, Clears
<1>. HIDE DEF f
<1>4. r.finalizer = f
  BY <1>0, <1>2 DEF Work, Object
<1>5. CASE Return(TRUE) /\ UNCHANGED window
  <2>1. work'.pc = "idle"
    BY <1>5 DEF Return, Idle
  <2>. QED
    BY <1>0, <1>5, <2>1, LeakIdle
<1>6. CASE /\ work' = [work EXCEPT !.pc = "status", !.resource = r]
           /\ UNCHANGED window
  <2>1. work'.pc = "status"
    BY <1>0, <1>6 DEF Work
  <2>2. Numbered' /\ Marked' /\ Server' = Server
    BY <1>6, <2>1, LeakWindowKept
  <2>. QED
    BY <1>0, <2>1, <2>2
       DEF LeakInv, Relied, Finalizing, NeverLeaks, isFinalizer
<1>7. CASE /\ Lister.finalizer # r.finalizer
           /\ Unmodified(Lister)
           /\ r.finalizer => ~Server.deleting
           /\ Store([Server EXCEPT !.finalizer = r.finalizer])
           /\ \/ work' = [work EXCEPT !.pc = "status", !.resource = next]
              \/ Return(TRUE)
  <2>1. Lister = Server /\ Lister.finalizer \in BOOLEAN
    BY <1>0, <1>7, OnlyUnmodified DEF Object
  <2>2. /\ Store([Server EXCEPT !.finalizer = f])
        /\ f => ~Server.deleting
        /\ ~f => Server.finalizer
    BY <1>2, <1>4, <1>7, <2>1, Zenon
  <2>3. work'.pc \in {"idle", "status"}
    <3>1. CASE Return(TRUE)
      BY <3>1 DEF Return, Idle
    <3>2. CASE work' = [work EXCEPT !.pc = "status", !.resource = next]
      BY <1>0, <3>2 DEF Work
    <3>. QED
      BY <1>7, <3>1, <3>2
  <2>4. Numbered' /\ Marked' /\ NeverLeaks'
    BY <1>0, <1>2, <1>3, <1>7, <2>1, <2>2, <2>3, LeakPatched
  <2>5. Relied'
    BY <2>3 DEF Relied, Finalizing
  <2>. QED
    BY <2>4, <2>5 DEF LeakInv
<1>. HIDE DEF r
<1>. QED
  BY <1>1, <1>5, <1>6, <1>7 DEF updateFinalizersFiltered

\* updateStatus keeps LeakInv: a status is no finalizer.
LEMMA LeakUpdateStatus ==
  ASSUME TypeInv, isFinalizer, LeakInv, updateStatus
  PROVE  LeakInv'
<1>. DEFINE o == [Server EXCEPT !.status = work.resource.status]
<1>0. /\ Numbered /\ Marked /\ Relied /\ NeverLeaks /\ work \in Work
      /\ work.pc = "status" /\ outside' = outside
      /\ Server \in Object /\ work.resource.status \in Status
  BY EndTypes DEF LeakInv, TypeInv, TypeOK, updateStatus, Work, Object
<1>1. ASSUME NEW err, Return(err)
      PROVE  work'.pc = "idle"
  BY <1>1 DEF Return, Idle
<1>2. CASE UNCHANGED window /\ \E err \in BOOLEAN : Return(err)
  BY <1>0, <1>1, <1>2, LeakIdle
<1>3. CASE /\ Store(o) /\ Server.exists
           /\ \E err \in BOOLEAN : Return(err)
  <2>1. /\ o \in Object /\ o.exists = Server.exists
        /\ o.resourceVersion = Server.resourceVersion
        /\ o.uid = Server.uid /\ o.finalizer = Server.finalizer
        /\ o.deleting = Server.deleting
    BY <1>0 DEF Object
  <2>. HIDE DEF o
  <2>2. /\ o.exists /\ o.finalizer <=> Server.finalizer
        /\ Server.deleting => o.deleting
    BY <1>3, <2>1, Zenon
  <2>. QED
    BY <1>0, <1>1, <1>3, <2>1, <2>2, LeakStored
<1>4. CASE /\ work' = [work EXCEPT !.pc = "get", !.attempts = @ + 1]
           /\ UNCHANGED window
  <2>1. work'.pc = "get"
    BY <1>0, <1>4 DEF Work
  <2>2. Numbered' /\ Marked' /\ Server' = Server
    BY <1>4, <2>1, LeakWindowKept
  <2>. QED
    BY <1>0, <2>1, <2>2
       DEF LeakInv, Relied, Finalizing, NeverLeaks, isFinalizer
<1>5. Failed(work.event) \in BOOLEAN
  BY DEF Failed
<1>. QED
  BY <1>2, <1>3, <1>4, <1>5, Zenon DEF updateStatus

\* No step breaks LeakInv unless an error wraps an event.
LEMMA NextLeakInv ==
  ASSUME "wrapped" \notin Outcomes, TypeInv, LeakInv, [Next]_vars
  PROVE  LeakInv'
<1>. SUFFICES ASSUME isFinalizer PROVE LeakInv'
  BY DEF LeakInv, isFinalizer
<1>1. CASE Worker
  <2>1. CASE getExisting
    <3>1. UNCHANGED <<window, outside>> /\ work \in Work
      BY <2>1 DEF getExisting, TypeInv, TypeOK
    <3>2. CASE Return(TRUE)
      <4>1. work'.pc = "idle"
        BY <3>2 DEF Return, Idle
      <4>. QED
        BY <3>1, <4>1, LeakIdle
    <3>3. CASE work' = [work EXCEPT !.pc = "status", !.existing = Server]
      <4>1. work'.pc = "status"
        BY <3>1, <3>3 DEF Work
      <4>2. Numbered' /\ Marked' /\ Server' = Server
        BY <3>1, <4>1, LeakWindowKept
      <4>. QED
        BY <3>1, <4>1, <4>2
           DEF LeakInv, Relied, Finalizing, NeverLeaks, isFinalizer
    <3>. QED
      BY <2>1, <3>2, <3>3 DEF getExisting
  <2>. QED
    BY <1>1, <2>1, LeakReconcile, LeakSetFinalizer, LeakMethods,
       LeakClearFinalizer, LeakUpdateStatus DEF Worker
<1>2. CASE UserCreates \/ UserEdits \/ UserDeletes \/ OthersFinish
  <2>1. PICK o \in Object :
           /\ Store(o)
           /\ UNCHANGED <<outside, queued, work, leading, faults>>
           /\ o.exists /\ o.resourceVersion = Server.resourceVersion
           /\ \/ ~Server.exists /\ ~o.finalizer
              \/ /\ o.uid = Server.uid /\ o.finalizer = Server.finalizer
                 /\ Server.deleting => o.deleting
    BY <1>2, UserSteps
  <2>. QED
    BY <2>1, LeakStored
<1>3. CASE UNCHANGED <<window, outside, work>>
  BY <1>3 DEF LeakInv, Numbered, Marked, Relied, Finalizing, NeverLeaks,
              isFinalizer, Lister, Server
<1>4. CASE RequestFails \/ Restart
  <2>1. work'.pc = "idle" /\ outside' = outside
    BY <1>4 DEF RequestFails, Restart, Return, Idle
  <2>2. UNCHANGED window \/ window' = <<Server>>
    BY <1>4 DEF RequestFails, Restart
  <2>. QED
    BY <2>1, <2>2, LeakIdle
<1>. QED
  BY <1>1, <1>2, <1>3, <1>4, LeakDelivered DEF Next, vars, PromoteFunc, Demote

\* What a ReconcileKind makes outside of the cluster is never orphaned, for
\* any sets of implemented interfaces and any bounds: the object that it was
\* made for is still there, under the same uid, and bears the finalizer.  The
\* one hypothesis is about the methods: no error that they return wraps an
\* event of type Normal, after which clearFinalizer would remove the finalizer.
THEOREM Guarded ==
  ASSUME "wrapped" \notin Outcomes
  PROVE  Spec => []NeverLeaks
<1>1. LeakInv => NeverLeaks
  BY DEF LeakInv, NeverLeaks
<1>2. TypeInv /\ LeakInv /\ [Next]_vars => (TypeInv /\ LeakInv)'
  BY NextTypeInv, NextLeakInv
<1>. QED
  BY <1>1, <1>2, InitTypeInv, InitLeakInv, PTL DEF Spec

-----------------------------------------------------------------------------
(* The leader rests only when its methods have had their say *)

\* The finalizer is only there if the reconciler is a finalizer.
Owned ==
  /\ \A i \in 1..Len(window) : window[i].finalizer => isFinalizer
  /\ work.pc = "setFinalizer" \/ work.method = "FinalizeKind" => isFinalizer

\* A worker whose key is not queued again works on what the informer has.
Fresh ==
  work.pc # "idle" /\ ~queued =>
    /\ work.original = Lister
    /\ Lister.exists
    /\ leading => work.method = IF Lister.deleting THEN "FinalizeKind"
                                                   ELSE "ReconcileKind"

\* If the server has nothing newer either, no request of the worker meets a
\* conflict, and its methods are told of the object as it is.
Current ==
  work.pc # "idle" /\ ~queued /\ Len(window) = 1 =>
    /\ work.pc # "get"
    /\ work.existing = Lister
    /\ work.resource.uid = Lister.uid
    /\ work.resource.generation = Lister.generation
    /\ work.pc = "do" /\ work.method = "ReconcileKind" =>
         (Lister.finalizer <=> isFinalizer)
    /\ work.pc = "status" /\ work.event \in {"nil", "normal"} =>
         /\ work.method = "FinalizeKind" => ~Lister.finalizer
         /\ work.method = "ReconcileKind" =>
              /\ Lister.finalizer <=> isFinalizer
              /\ Lister.uid \in outside
              /\ work.resource.status =
                   [observedGeneration |-> Lister.generation, ready |-> TRUE]

RestInv == Owned /\ Fresh /\ Current /\ RestsOnlyWhenDone

\* Nothing is to be done at the start.
LEMMA InitRestInv == Init => RestInv
<1>. SUFFICES ASSUME Init PROVE RestInv
  OBVIOUS
<1>1. Len(window) = 1 /\ ~window[1].finalizer
  BY GoneType, VersionListed DEF Init, Gone
<1>2. work.pc = "idle" /\ work.method = "unknown" /\ leading = FALSE
  BY DEF Init, Idle
<1>. QED
  BY <1>1, <1>2 DEF RestInv, Owned, Fresh, Current, RestsOnlyWhenDone

\* A key that is queued is not at rest.
LEMMA RestQueued ==
  ASSUME queued', Owned'
  PROVE  RestInv'
BY DEF RestInv, Fresh, Current, RestsOnlyWhenDone

\* What a step leaves of the worker's origin.
Continues ==
  /\ work.pc # "idle"
  /\ work'.original = work.original
  /\ work'.method = work.method
  /\ work'.pc = "setFinalizer" => work.pc = "setFinalizer"

\* A worker that goes on with the copy that it took stays fresh.
LEMMA RestContinues ==
  ASSUME RestInv, Lister' = Lister, leading' = leading, queued' = queued,
         Continues
  PROVE  Fresh'
BY DEF RestInv, Fresh, Continues

\* What an idle worker is at.
LEMMA IdleFacts ==
  /\ Idle.pc = "idle" /\ Idle.method = "unknown"
BY DEF Idle

\* Finalizers stay owned while nothing is stored.
LEMMA OwnedKept ==
  ASSUME TypeInv, RestInv, UNCHANGED window, work' = Idle \/ work' = work \/ Continues
  PROVE  Owned'
<1>1. Owned
  BY DEF RestInv
<1>. QED
  BY <1>1, IdleFacts DEF Owned, Continues, isFinalizer

\* Finalizers stay owned if what is stored bears one only of a finalizer.
LEMMA OwnedStored ==
  ASSUME TypeInv, RestInv, NEW o \in Object, Store(o), o.finalizer => isFinalizer,
         work' = Idle \/ work' = work \/ Continues
  PROVE  Owned'
<1>1. /\ Len(window') = Len(window) + 1
      /\ \A i \in 1..Len(window) : window'[i] = window[i]
      /\ window'[Len(window) + 1] = Revised(o)
      /\ Revised(o).finalizer = o.finalizer
      /\ Len(window) \in Nat \ {0}
      /\ Owned
  BY Stores, RevisedType, EndTypes DEF TypeInv, RestInv
<1>2. ASSUME NEW i \in 1..Len(window'), window'[i].finalizer
      PROVE  isFinalizer
  <2>1. CASE i = Len(window) + 1
    BY <1>1, <1>2, <2>1
  <2>2. CASE i \in 1..Len(window)
    BY <1>1, <1>2, <2>2 DEF Owned
  <2>. QED
    BY <1>1, <2>1, <2>2
<1>3. work'.pc = "setFinalizer" \/ work'.method = "FinalizeKind" => isFinalizer
  BY <1>1, IdleFacts DEF Owned, Continues
<1>. QED
  BY <1>2, <1>3 DEF Owned, isFinalizer

\* After a write the informer has something to deliver.
LEMMA RestStored ==
  ASSUME TypeInv, RestInv, NEW o \in Object, Store(o), o.finalizer => isFinalizer,
         leading' = leading,
         \/ work' = Idle
         \/ queued' = queued /\ (work' = work \/ Continues)
  PROVE  RestInv'
<1>1. Owned'
  BY OwnedStored
<1>2. Len(window') # 1 /\ Lister' = Lister
  BY Stores, EndTypes DEF TypeInv
<1>3. Fresh'
  <2>1. CASE work' = Idle
    BY <2>1, IdleFacts DEF Fresh
  <2>2. CASE queued' = queued /\ (work' = work \/ Continues)
    BY <1>2, <2>2 DEF RestInv, Fresh, Continues
  <2>. QED
    BY <2>1, <2>2
<1>. QED
  BY <1>1, <1>2, <1>3 DEF RestInv, Current, RestsOnlyWhenDone

\* Reconcile keeps RestInv: it takes the key, and with it the lister's copy.
LEMMA RestReconcile ==
  ASSUME TypeInv, RestInv, Reconcile
  PROVE  RestInv'
<1>. DEFINE method == reconcileMethodFor(Lister)
            pc == IF method = "ReconcileKind" /\ isFinalizer
                  THEN "setFinalizer" ELSE "do"
            started == [Idle EXCEPT !.pc = pc, !.method = method,
                          !.original = Lister, !.existing = Lister,
                          !.resource = Lister]
<1>0. /\ Owned /\ work.pc = "idle" /\ UNCHANGED <<window, outside, leading>>
      /\ Len(window) \in Nat \ {0}
  BY EndTypes DEF RestInv, Reconcile, TypeInv
<1>1. Lister' = Lister /\ Server' = Server
  BY <1>0 DEF Lister, Server
<1>2. Lister.finalizer => isFinalizer
  BY <1>0 DEF Owned, Lister
<1>3. CASE /\ work' = work
           /\ isNotLeaderNorObserver \/ ~Lister.exists \/ method = "unknown"
  <2>1. Owned'
    BY <1>0, <1>3, OwnedKept
  <2>2. Fresh' /\ Current'
    BY <1>0, <1>3 DEF Fresh, Current
  <2>3. RestsOnlyWhenDone'
    <3>. SUFFICES ASSUME leading, Len(window) = 1, Server.exists
                  PROVE  Server.deleting /\ ~Server.finalizer
      BY <1>0, <1>1 DEF RestsOnlyWhenDone
    <3>1. Lister = Server
      BY DEF Lister, Server
    <3>2. method = "unknown"
      BY <1>3, <3>1 DEF isNotLeaderNorObserver
    <3>3. Lister.deleting /\ ~isFinalizer
      BY <3>2 DEF reconcileMethodFor
    <3>. QED
      BY <1>2, <3>1, <3>3
  <2>. QED
    BY <2>1, <2>2, <2>3 DEF RestInv
<1>4. CASE work' = started /\ Lister.exists /\ method # "unknown"
  <2>1. /\ leading => method = IF Lister.deleting THEN "FinalizeKind"
                                                  ELSE "ReconcileKind"
        /\ method = "FinalizeKind" => isFinalizer
    BY <1>4 DEF reconcileMethodFor
  <2>2. /\ pc \in {"setFinalizer", "do"}
        /\ pc = "setFinalizer" => isFinalizer
        /\ pc = "do" /\ method = "ReconcileKind" => ~isFinalizer
    OBVIOUS
  <2>. HIDE DEF pc, method
  <2>3. /\ work'.pc = pc /\ work'.method = method /\ work'.original = Lister
        /\ work'.existing = Lister /\ work'.resource = Lister
    BY <1>4 DEF Idle
  <2>4. Owned'
    BY <1>0, <2>1, <2>2, <2>3 DEF Owned, isFinalizer
  <2>5. Fresh'
    BY <1>0, <1>1, <1>4, <2>1, <2>3 DEF Fresh
  <2>6. Current'
    BY <1>0, <1>1, <1>2, <2>2, <2>3 DEF Current, isFinalizer
  <2>7. RestsOnlyWhenDone'
    BY <2>2, <2>3, IdleFacts DEF RestsOnlyWhenDone
  <2>. QED
    BY <2>4, <2>5, <2>6, <2>7 DEF RestInv
<1>. QED
  BY <1>3, <1>4, Zenon DEF Reconcile

\* The patch of the finalizers, at either of its two calls.
LEMMA RestFinalizers ==
  ASSUME TypeInv, RestInv, UNCHANGED <<outside, leading>>,
         NEW resource \in Object, NEW pc \in {"do", "status"},
         updateFinalizersFiltered(resource, pc),
         work.pc # "idle", isFinalizer,
         resource.uid = work.resource.uid,
         resource.generation = work.resource.generation,
         \/ pc = "do" /\ work.method = "ReconcileKind" /\ resource.finalizer
         \/ /\ pc = "status" /\ work.method = "FinalizeKind"
            /\ work.event \in {"nil", "normal"} => ~resource.finalizer
  PROVE  RestInv'
<1>. DEFINE patched == [Server EXCEPT !.finalizer = resource.finalizer]
            next == [patched EXCEPT !.resourceVersion = @ + 1]
<1>0. /\ Server \in Object /\ Lister \in Object /\ work \in Work
      /\ resource.finalizer \in BOOLEAN /\ Lister.finalizer \in BOOLEAN
  BY EndTypes DEF TypeInv, TypeOK, Object
<1>1. CASE Return(TRUE) /\ UNCHANGED window
  BY <1>1, OwnedKept, RestQueued DEF Return
<1>2. ASSUME NEW r, work' = [work EXCEPT !.pc = pc, !.resource = r]
      PROVE  /\ Continues
             /\ work'.pc = pc /\ work'.resource = r
             /\ work'.event = work.event /\ work'.existing = work.existing
  BY <1>0, <1>2 DEF Work, Continues
<1>3. CASE /\ Lister.finalizer = resource.finalizer
           /\ work' = [work EXCEPT !.pc = pc, !.resource = resource]
           /\ UNCHANGED <<window, queued>>
  <2>1. /\ Continues
        /\ work'.pc = pc /\ work'.resource = resource
        /\ work'.event = work.event /\ work'.existing = work.existing
    BY <1>2, <1>3
  <2>2. Lister.finalizer <=> resource.finalizer
    BY <1>3
  <2>3. Lister' = Lister
    BY <1>3 DEF Lister
  <2>4. Owned'
    BY <1>3, <2>1, OwnedKept
  <2>5. Fresh'
    BY <1>3, <2>1, <2>3, RestContinues
  <2>6. Current'
    <3>. SUFFICES ASSUME ~queued, Len(window) = 1
                  PROVE  Current'
      BY <1>3 DEF Current
    <3>1. /\ work.existing = Lister
          /\ work.resource.uid = Lister.uid
          /\ work.resource.generation = Lister.generation
      BY DEF RestInv, Current
    <3>. QED
      BY <2>1, <2>2, <2>3, <3>1 DEF Current, Continues, isFinalizer
  <2>7. RestsOnlyWhenDone'
    BY <2>1, IdleFacts DEF RestsOnlyWhenDone
  <2>. QED
    BY <2>4, <2>5, <2>6, <2>7 DEF RestInv
<1>4. CASE /\ Store(patched)
           /\ \/ /\ work' = [work EXCEPT !.pc = pc, !.resource = next]
                 /\ UNCHANGED queued
              \/ Return(TRUE)
  <2>1. patched \in Object
    <3>. DEFINE f == resource.finalizer
    <3>1. patched = [Server EXCEPT !.finalizer = f] /\ f \in BOOLEAN
      BY <1>0
    <3>. HIDE DEF f, patched
    <3>. QED
      BY <1>0, <3>1 DEF Object
  <2>. HIDE DEF patched, next
  <2>2. work' = Idle \/ (queued' = queued /\ Continues)
    <3>1. CASE Return(TRUE)
      BY <3>1 DEF Return
    <3>2. CASE /\ work' = [work EXCEPT !.pc = pc, !.resource = next]
               /\ UNCHANGED queued
      <4>1. Continues
        BY <1>2, <3>2
      <4>. QED
        BY <3>2, <4>1
    <3>. QED
      BY <1>4, <3>1, <3>2
  <2>. QED
    BY <1>4, <2>1, <2>2, RestStored
<1>. QED
  BY <1>1, <1>3, <1>4 DEF updateFinalizersFiltered

\* The patches of the finalizer keep RestInv: they make a version that is to
\* be delivered, or fail.
LEMMA RestBothFinalizers ==
  ASSUME TypeInv, RestInv, setFinalizerIfFinalizer \/ clearFinalizer
  PROVE  RestInv'
<1>0. Owned /\ work \in Work /\ work.resource \in Object /\ WorkOK
  BY DEF RestInv, TypeInv, TypeOK, Work
<1>1. CASE setFinalizerIfFinalizer
  <2>. DEFINE r == [work.resource EXCEPT !.finalizer = TRUE]
  <2>1. /\ r \in Object /\ r.finalizer /\ r.uid = work.resource.uid
        /\ r.generation = work.resource.generation
    BY <1>0 DEF Object
  <2>2. updateFinalizersFiltered(r, "do") /\ UNCHANGED <<outside, leading>>
    BY <1>1 DEF setFinalizerIfFinalizer
  <2>. HIDE DEF r
  <2>3. /\ work.pc # "idle" /\ isFinalizer /\ work.method = "ReconcileKind"
    BY <1>0, <1>1 DEF setFinalizerIfFinalizer, WorkOK, Owned
  <2>. QED
    BY <2>1, <2>2, <2>3, RestFinalizers
<1>2. CASE clearFinalizer
  <2>. DEFINE f == work.resource.finalizer /\ ~Clears(work.event)
              r == [work.resource EXCEPT !.finalizer = f]
  <2>1. f \in BOOLEAN /\ (work.event \in {"nil", "normal"} => ~f)
    BY DEF Clears
  <2>2. updateFinalizersFiltered(r, "status") /\ UNCHANGED <<outside, leading>>
    BY <1>2 DEF clearFinalizer
  <2>. HIDE DEF f
  <2>3. /\ r \in Object /\ r.finalizer = f /\ r.uid = work.resource.uid
        /\ r.generation = work.resource.generation
    BY <1>0, <2>1 DEF Object
  <2>. HIDE DEF r
  <2>4. work.event \in {"nil", "normal"} => ~r.finalizer
    BY <2>1, <2>3, Zenon
  <2>5. /\ work.pc # "idle" /\ isFinalizer /\ work.method = "FinalizeKind"
    BY <1>0, <1>2 DEF clearFinalizer, WorkOK, Owned
  <2>. QED
    BY <2>2, <2>3, <2>4, <2>5, RestFinalizers
<1>. QED
  BY <1>1, <1>2

\* The methods keep RestInv.
LEMMA RestMethods ==
  ASSUME TypeInv, RestInv, ReconcileKind \/ FinalizeKind \/ ObserveKind
  PROVE  RestInv'
<1>0. /\ UNCHANGED <<window, queued, leading>> /\ work.pc = "do" /\ work \in Work
      /\ work.resource \in Object
  BY DEF ReconcileKind, FinalizeKind, ObserveKind, TypeInv, TypeOK, Work
<1>1. Lister' = Lister
  BY <1>0 DEF Lister
<1>2. /\ Continues
      /\ work'.pc \in {"status", "clearFinalizer"}
      /\ work'.existing = work.existing
      /\ work'.resource.uid = work.resource.uid
      /\ work'.resource.generation = work.resource.generation
      /\ work.method = "FinalizeKind" => work'.pc = "clearFinalizer"
      /\ work.method = "ReconcileKind" /\ work'.event \in {"nil", "normal"} =>
           /\ work.resource.uid \in outside'
           /\ work'.resource.status =
                [observedGeneration |-> work.resource.generation, ready |-> TRUE]
  <2>1. CASE ReconcileKind
    <3>1. PICK event \in Outcomes :
            /\ \/ outside' = outside \cup {work.resource.uid}
               \/ event \notin {"nil", "normal"} /\ UNCHANGED outside
            /\ work' = [work EXCEPT !.pc = "status", !.event = event,
                       !.resource.status =
                         [observedGeneration |-> work.resource.generation,
                          ready |-> event \in {"nil", "normal"}]]
      BY <2>1 DEF ReconcileKind
    <3>. DEFINE ready == event \in {"nil", "normal"}
                status == [observedGeneration |-> work.resource.generation,
                           ready |-> ready]
    <3>2. /\ work' = [work EXCEPT !.pc = "status", !.event = event,
                                  !.resource.status = status]
      BY <3>1
    <3>3. event \in {"nil", "normal"} => ready = TRUE
      OBVIOUS
    <3>. HIDE DEF ready
    <3>4. event \in {"nil", "normal"} =>
            status = [observedGeneration |-> work.resource.generation, ready |-> TRUE]
      BY <3>3
    <3>. HIDE DEF status
    <3>5. /\ work'.pc = "status" /\ work'.event = event
          /\ work'.existing = work.existing /\ work'.original = work.original
          /\ work'.method = work.method
          /\ work'.resource.uid = work.resource.uid
          /\ work'.resource.generation = work.resource.generation
          /\ work'.resource.status = status
      BY <1>0, <3>2 DEF Work, Object
    <3>6. work.method = "ReconcileKind"
      BY <2>1 DEF ReconcileKind
    <3>7. event \in {"nil", "normal"} => work.resource.uid \in outside'
      BY <3>1
    <3>. QED
      BY <1>0, <3>4, <3>5, <3>6, <3>7 DEF Continues
  <2>2. CASE FinalizeKind
    <3>1. PICK event \in Outcomes :
            work' = [work EXCEPT !.pc = "clearFinalizer", !.event = event]
      BY <2>2 DEF FinalizeKind
    <3>2. /\ work'.pc = "clearFinalizer"
          /\ work'.existing = work.existing /\ work'.original = work.original
          /\ work'.method = work.method /\ work'.resource = work.resource
      BY <1>0, <3>1 DEF Work
    <3>. QED
      BY <1>0, <2>2, <3>2 DEF FinalizeKind, Continues
  <2>3. CASE ObserveKind
    <3>1. PICK event \in Outcomes, ready \in BOOLEAN :
            work' = [work EXCEPT !.pc = "status", !.event = event,
                                 !.resource.status.ready = ready]
      BY <2>3 DEF ObserveKind
    <3>2. /\ work'.pc = "status"
          /\ work'.existing = work.existing /\ work'.original = work.original
          /\ work'.method = work.method
          /\ work'.resource.uid = work.resource.uid
          /\ work'.resource.generation = work.resource.generation
      BY <1>0, <3>1 DEF Work, Object
    <3>. QED
      BY <1>0, <2>3, <3>2 DEF ObserveKind, Continues
  <2>. QED
    BY <2>1, <2>2, <2>3
<1>3. Owned'
  BY <1>0, <1>2, OwnedKept
<1>4. Fresh'
  BY <1>0, <1>1, <1>2, RestContinues
<1>5. Current'
  <2>. SUFFICES ASSUME ~queued, Len(window) = 1
                PROVE  Current'
    BY <1>0 DEF Current
  <2>1. /\ work.existing = Lister
        /\ work.resource.uid = Lister.uid
        /\ work.resource.generation = Lister.generation
        /\ work.method = "ReconcileKind" => (Lister.finalizer <=> isFinalizer)
    BY <1>0 DEF RestInv, Current
  <2>2. work'.pc = "status" => work'.method # "FinalizeKind"
    BY <1>2 DEF Continues
  <2>3. work'.method = work.method
    BY <1>2 DEF Continues
  <2>. QED
    BY <1>1, <1>2, <2>1, <2>2, <2>3 DEF Current, isFinalizer
<1>6. RestsOnlyWhenDone'
  BY <1>2, IdleFacts DEF RestsOnlyWhenDone
<1>. QED
  BY <1>3, <1>4, <1>5, <1>6 DEF RestInv

\* Whatever ends well without a write leaves the object as it is to be.
LEMMA RestSkipsStatus ==
  ASSUME TypeInv, RestInv, "warning" \notin Outcomes,
         work.pc = "status", SkipsStatus, Return(Failed(work.event)),
         UNCHANGED <<window, outside, leading>>
  PROVE  RestInv'
<1>0. /\ work' = Idle /\ Lister' = Lister /\ Server' = Server
      /\ work.event \in Outcomes
  BY DEF Return, Lister, Server, TypeInv, WorkOK
<1>1. Owned'
  BY <1>0, OwnedKept
<1>2. Fresh' /\ Current'
  BY <1>0, IdleFacts DEF Fresh, Current
<1>3. RestsOnlyWhenDone'
  <2>1. CASE queued'
    BY <2>1 DEF RestsOnlyWhenDone
  <2>2. CASE ~queued'
    <3>1. ~queued /\ work.event \in {"nil", "normal"}
      BY <1>0, <2>2, InterfacesAssumption DEF Return, Failed, Events
    <3>. SUFFICES ASSUME leading, Len(window) = 1, Server.exists
                  PROVE  RestsOnlyWhenDone'
      BY <1>0 DEF RestsOnlyWhenDone
    <3>2. Lister = Server
      BY DEF Lister, Server
    <3>3. /\ work.original = Lister /\ work.existing = Lister
          /\ work.method = IF Lister.deleting THEN "FinalizeKind"
                                              ELSE "ReconcileKind"
      BY <3>1 DEF RestInv, Fresh, Current
    <3>4. Lister.status = work.resource.status
      BY <3>3 DEF SkipsStatus
    <3>5. CASE Lister.deleting
      <4>1. ~Lister.finalizer
        BY <3>1, <3>3, <3>5 DEF RestInv, Current
      <4>. QED
        BY <1>0, <3>2, <3>5, <4>1 DEF RestsOnlyWhenDone
    <3>6. CASE ~Lister.deleting
      <4>1. /\ Lister.finalizer <=> isFinalizer
            /\ Lister.uid \in outside
            /\ Lister.status =
                 [observedGeneration |-> Lister.generation, ready |-> TRUE]
        BY <3>1, <3>3, <3>4, <3>6 DEF RestInv, Current
      <4>2. Lister.finalizer \in BOOLEAN /\ isFinalizer \in BOOLEAN
        BY EndTypes DEF TypeInv, Object, isFinalizer
      <4>3. Server.finalizer = isFinalizer
        BY <3>2, <4>1, <4>2
      <4>. QED
        BY <1>0, <3>2, <3>6, <4>1, <4>3 DEF RestsOnlyWhenDone, isFinalizer
    <3>. QED
      BY <3>5, <3>6
  <2>. QED
    BY <2>1, <2>2
<1>. QED
  BY <1>1, <1>2, <1>3 DEF RestInv

\* updateStatus keeps RestInv: the key is done with only after an event
\* that is no failure, and no Warning.
LEMMA RestUpdateStatus ==
  ASSUME TypeInv, RestInv, "warning" \notin Outcomes, updateStatus
  PROVE  RestInv'
<1>. DEFINE o == [Server EXCEPT !.status = work.resource.status]
<1>0. /\ work.pc = "status" /\ UNCHANGED <<outside, leading>>
      /\ Server \in Object /\ work.resource.status \in Status /\ work \in Work
  BY EndTypes DEF updateStatus, TypeInv, TypeOK, Work, Object
<1>1. CASE SkipsStatus /\ Return(Failed(work.event)) /\ UNCHANGED window
  BY <1>0, <1>1, RestSkipsStatus
<1>2. CASE Return(TRUE) /\ UNCHANGED window
  BY <1>2, OwnedKept, RestQueued DEF Return
<1>3. CASE /\ Store(o)
           /\ \E err \in BOOLEAN : Return(err)
  <2>1. o \in Object /\ o.finalizer = Server.finalizer
    BY <1>0 DEF Object
  <2>2. Server.finalizer => isFinalizer
    BY EndTypes DEF TypeInv, RestInv, Owned, Server
  <2>3. work' = Idle
    BY <1>3 DEF Return
  <2>. HIDE DEF o
  <2>4. o.finalizer => isFinalizer
    BY <2>1, <2>2, Zenon
  <2>. QED
    BY <1>0, <1>3, <2>1, <2>3, <2>4, RestStored
<1>4. CASE /\ work' = [work EXCEPT !.pc = "get", !.attempts = @ + 1]
           /\ UNCHANGED <<window, queued>>
           /\ ~(/\ Server.exists
                /\ Server.uid = work.existing.uid
                /\ Server.resourceVersion = work.existing.resourceVersion)
  <2>1. Continues /\ work'.pc = "get"
    BY <1>0, <1>4 DEF Work, Continues
  <2>2. Lister' = Lister
    BY <1>4 DEF Lister
  <2>3. queued \/ Len(window) # 1
    <3>. SUFFICES ASSUME ~queued, Len(window) = 1
                  PROVE  FALSE
      OBVIOUS
    <3>1. Lister = Server
      BY DEF Lister, Server
    <3>2. work.existing = Server /\ Server.exists
      BY <1>0, <3>1 DEF RestInv, Fresh, Current
    <3>. QED
      BY <1>4, <3>2
  <2>4. Owned'
    BY <1>4, <2>1, OwnedKept
  <2>5. Fresh'
    BY <1>0, <1>4, <2>1, <2>2, RestContinues
  <2>6. Current' /\ RestsOnlyWhenDone'
    BY <1>4, <2>1, <2>3, IdleFacts DEF Current, RestsOnlyWhenDone
  <2>. QED
    BY <2>4, <2>5, <2>6 DEF RestInv
<1>5. Failed(work.event) \in BOOLEAN
  BY DEF Failed
<1>. QED
  BY <1>1, <1>2, <1>3, <1>4, <1>5, Zenon DEF updateStatus

\* The GET before a retry keeps RestInv.
LEMMA RestGetExisting ==
  ASSUME TypeInv, RestInv, getExisting
  PROVE  RestInv'
<1>0. work.pc = "get" /\ UNCHANGED <<window, outside, leading>> /\ work \in Work
  BY DEF getExisting, TypeInv, TypeOK
<1>1. CASE Return(TRUE)
  BY <1>0, <1>1, OwnedKept, RestQueued DEF Return
<1>2. CASE /\ work' = [work EXCEPT !.pc = "status", !.existing = Server]
           /\ UNCHANGED queued
  <2>1. Continues /\ work'.pc = "status"
    BY <1>0, <1>2 DEF Work, Continues
  <2>2. Lister' = Lister
    BY <1>0 DEF Lister
  <2>3. queued \/ Len(window) # 1
    BY <1>0 DEF RestInv, Current
  <2>4. Owned'
    BY <1>0, <2>1, OwnedKept
  <2>5. Fresh'
    BY <1>0, <1>2, <2>1, <2>2, RestContinues
  <2>6. Current' /\ RestsOnlyWhenDone'
    BY <1>0, <1>2, <2>1, <2>3, IdleFacts DEF Current, RestsOnlyWhenDone
  <2>. QED
    BY <2>4, <2>5, <2>6 DEF RestInv
<1>. QED
  BY <1>1, <1>2 DEF getExisting

\* The informer, the elector and the process.
LEMMA RestProcess ==
  ASSUME TypeInv, RestInv, Deliver \/ PromoteFunc \/ Demote \/ Restart
  PROVE  RestInv'
<1>0. /\ Owned /\ Fresh /\ Current /\ RestsOnlyWhenDone
      /\ Len(window) \in Nat \ {0} /\ Server \in Object /\ Lister \in Object
  BY EndTypes DEF RestInv, TypeInv
<1>1. CASE Deliver
  <2>1. /\ Len(window') = Len(window) - 1
        /\ \A i \in 1..(Len(window) - 1) : window'[i] = window[i + 1]
        /\ queued' /\ work' = work
    BY <1>1, Delivers DEF Deliver, TypeInv
  <2>2. \A i \in 1..Len(window') : i + 1 \in 1..Len(window) /\ window'[i] = window[i + 1]
    BY <1>0, <2>1
  <2>3. Owned'
    BY <1>0, <2>1, <2>2 DEF Owned, isFinalizer
  <2>. QED
    BY <2>1, <2>3, RestQueued
<1>2. CASE PromoteFunc
  <2>1. UNCHANGED <<window, outside, work>> /\ Lister' = Lister /\ Server' = Server
    BY <1>2 DEF PromoteFunc, Lister, Server
  <2>2. Owned'
    BY <2>1, OwnedKept
  <2>3. CASE queued'
    BY <2>2, <2>3, RestQueued
  <2>4. CASE ~queued'
    <3>1. ~queued /\ ~Lister.exists
      BY <1>2, <2>4 DEF PromoteFunc
    <3>2. work.pc = "idle"
      BY <1>0, <3>1 DEF Fresh
    <3>3. Len(window) = 1 => ~Server.exists
      BY <3>1 DEF Lister, Server
    <3>. QED
      BY <2>1, <2>2, <3>2, <3>3
         DEF RestInv, Fresh, Current, RestsOnlyWhenDone
  <2>. QED
    BY <2>3, <2>4
<1>3. CASE Demote
  <2>1. /\ UNCHANGED <<window, outside, work, queued>> /\ leading' = FALSE
        /\ Lister' = Lister
    BY <1>3 DEF Demote, Lister
  <2>2. Owned'
    BY <2>1, OwnedKept
  <2>. QED
    BY <1>0, <2>1, <2>2
       DEF RestInv, Fresh, Current, RestsOnlyWhenDone, isFinalizer
<1>4. CASE Restart
  <2>1. /\ Len(window') = 1 /\ window'[1] = Server /\ leading' = FALSE
        /\ work' = Idle
    BY <1>4, Relists DEF Restart, TypeInv
  <2>2. Server.finalizer => isFinalizer
    BY <1>0 DEF Owned, Server
  <2>3. Owned'
    BY <2>1, <2>2, IdleFacts DEF Owned, isFinalizer
  <2>. QED
    BY <2>1, <2>3, IdleFacts DEF RestInv, Fresh, Current, RestsOnlyWhenDone
<1>. QED
  BY <1>1, <1>2, <1>3, <1>4

\* Every step keeps RestInv unless a method returns a Warning.
LEMMA NextRestInv ==
  ASSUME "warning" \notin Outcomes, TypeInv, RestInv, [Next]_vars
  PROVE  RestInv'
<1>1. CASE Worker
  BY <1>1, RestReconcile, RestBothFinalizers, RestMethods, RestUpdateStatus,
     RestGetExisting DEF Worker
<1>2. CASE UserCreates \/ UserEdits \/ UserDeletes \/ OthersFinish
  <2>1. PICK o \in Object :
           /\ Store(o)
           /\ UNCHANGED <<outside, queued, work, leading, faults>>
           /\ o.finalizer => Server.finalizer
    BY <1>2, UserSteps
  <2>2. Server.finalizer => isFinalizer
    BY EndTypes DEF TypeInv, RestInv, Owned, Server
  <2>. QED
    BY <2>1, <2>2, RestStored
<1>3. CASE UNCHANGED vars
  BY <1>3 DEF vars, RestInv, Owned, Fresh, Current, RestsOnlyWhenDone,
              isFinalizer, Lister, Server
<1>4. CASE RequestFails
  <2>1. queued' /\ work' = Idle /\ UNCHANGED window
    BY <1>4 DEF RequestFails, Return
  <2>. QED
    BY <2>1, OwnedKept, RestQueued
<1>. QED
  BY <1>1, <1>2, <1>3, <1>4, RestProcess DEF Next

\* The generated reconciler loses no event: whenever the leader rests and the
\* informer has nothing to deliver, the object has been reconciled as it is,
\* or finalized.  It holds for any set of interfaces and any bounds, through
\* conflicts, lost answers, demotions and restarts, provided that the methods
\* return no event of type Warning, after which nothing is retried.
THEOREM RestsDone ==
  ASSUME "warning" \notin Outcomes
  PROVE  Spec => []RestsOnlyWhenDone
<1>1. RestInv => RestsOnlyWhenDone
  BY DEF RestInv
<1>2. TypeInv /\ RestInv /\ [Next]_vars => (TypeInv /\ RestInv)'
  BY NextTypeInv, NextRestInv
<1>. QED
  BY <1>1, <1>2, InitTypeInv, InitRestInv, PTL DEF Spec
=============================================================================
