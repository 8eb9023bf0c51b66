----------------- MODULE ProvisionedServiceControllerProofs -----------------
(***************************************************************************)
(* Theorems about ProvisionedServiceController, for any number of replicas *)
(* and objects and any bounds.                                             *)
(***************************************************************************)
EXTENDS ProvisionedServiceController, WindowTheorems

-----------------------------------------------------------------------------
(* Types *)

\* One entry of a table of replicas and names is replaced.
LEMMA EntryReplaced ==
  ASSUME NEW S, NEW f \in [Replicas -> [Names -> S]],
         NEW r \in Replicas, NEW n \in Names, NEW x \in S
  PROVE  /\ [f EXCEPT ![r][n] = x] \in [Replicas -> [Names -> S]]
         /\ \A q \in Replicas, m \in Names :
              [f EXCEPT ![r][n] = x][q][m] = IF q = r /\ m = n THEN x ELSE f[q][m]
OBVIOUS

\* No service has its type.
LEMMA NoServiceType ==
  ASSUME NEW u \in Nat
  PROVE  NoService(u) \in ProvisionedService
BY DEF NoService, ProvisionedService, NoStatus, Status

\* An idle worker has its type.
LEMMA IdleType == Idle \in Work /\ Idle.pc = "idle"
BY NoServiceType DEF Idle, Work

\* ReconcileKind computes a status of the object and leaves the rest.
LEMMA ReconcileKindType ==
  ASSUME NEW o \in ProvisionedService
  PROVE  /\ ReconcileKind(o) \in ProvisionedService
         /\ ReconcileKind(o).status = Asked(o)
         /\ Asked(ReconcileKind(o)) = Asked(o)
         /\ ReconcileKind(o).exists = o.exists
         /\ ReconcileKind(o).deleting = o.deleting
         /\ ReconcileKind(o).uid = o.uid
         /\ ReconcileKind(o).generation = o.generation
         /\ ReconcileKind(o).binding = o.binding
<1>. DEFINE s == [observedGeneration |-> o.generation, binding |-> o.binding,
                  ready |-> TRUE]
<1>1. s \in Status
  BY DEF ProvisionedService, Status
<1>2. ReconcileKind(o) = [o EXCEPT !.status = s] /\ Asked(o) = s
  BY DEF ReconcileKind, Asked
<1>. HIDE DEF s
<1>3. /\ ReconcileKind(o) \in ProvisionedService
      /\ ReconcileKind(o).status = s
      /\ ReconcileKind(o).exists = o.exists
      /\ ReconcileKind(o).deleting = o.deleting
      /\ ReconcileKind(o).uid = o.uid
      /\ ReconcileKind(o).generation = o.generation
      /\ ReconcileKind(o).binding = o.binding
  BY <1>1, <1>2 DEF ProvisionedService
<1>. QED
  BY <1>2, <1>3 DEF Asked

\* The windows of an object, and their two ends.
LEMMA EndTypes ==
  ASSUME TypeOK, NEW r \in Replicas, NEW n \in Names
  PROVE  /\ view[r][n] \in Seq(ProvisionedService)
         /\ view[r][n] # << >>
         /\ Len(view[r][n]) \in Nat \ {0}
         /\ \A i \in 1..Len(view[r][n]) : view[r][n][i] \in ProvisionedService
         /\ Lister(r, n) \in ProvisionedService
         /\ stored[n] \in ProvisionedService
         /\ view[r][n][Len(view[r][n])] = stored[n]
         /\ work[r][n] \in Work
         /\ Len(view[r][n]) = 1 => Lister(r, n) = stored[n]
<1>1. /\ view[r][n] \in Seq(ProvisionedService)
      /\ view[r][n] # << >>
      /\ view[r][n][Len(view[r][n])] = stored[n]
      /\ work[r][n] \in Work
      /\ stored[n] \in ProvisionedService
  BY DEF TypeOK
<1>. QED
  BY <1>1, VersionTypes DEF Lister

\* A write of the API server reaches every informer's window.
LEMMA Stores ==
  ASSUME TypeOK, NEW n \in Names, NEW o \in ProvisionedService, Store(n, o)
  PROVE  /\ stored' \in [Names -> ProvisionedService]
         /\ stored'[n] = o
         /\ \A m \in Names \ {n} : stored'[m] = stored[m]
         /\ view' \in [Replicas -> [Names -> Seq(ProvisionedService)]]
         /\ \A r \in Replicas, m \in Names \ {n} : view'[r][m] = view[r][m]
         /\ \A r \in Replicas :
              /\ view'[r][n] # << >>
              /\ Len(view'[r][n]) = Len(view[r][n]) + 1
              /\ \A i \in 1..Len(view[r][n]) : view'[r][n][i] = view[r][n][i]
              /\ view'[r][n][Len(view[r][n]) + 1] = o
         /\ \A r \in Replicas, m \in Names :
              /\ view'[r][m] # << >>
              /\ view'[r][m][Len(view'[r][m])] = stored'[m]
              /\ Lister(r, m)' = Lister(r, m)
<1>1. /\ stored' = [stored EXCEPT ![n] = o]
      /\ view' = [r \in Replicas |-> [view[r] EXCEPT ![n] = Append(@, o)]]
      /\ stored \in [Names -> ProvisionedService]
      /\ view \in [Replicas -> [Names -> Seq(ProvisionedService)]]
  BY DEF Store, TypeOK
<1>2. ASSUME NEW r \in Replicas
      PROVE  /\ Append(view[r][n], o) \in Seq(ProvisionedService)
             /\ Append(view[r][n], o) # << >>
             /\ Len(Append(view[r][n], o)) = Len(view[r][n]) + 1
             /\ \A i \in 1..Len(view[r][n]) :
                  Append(view[r][n], o)[i] = view[r][n][i]
             /\ Append(view[r][n], o)[1] = view[r][n][1]
             /\ Append(view[r][n], o)[Len(view[r][n]) + 1] = o
  BY EndTypes, VersionAppended
<1>3. \A r \in Replicas, m \in Names :
        view'[r][m] = IF m = n THEN Append(view[r][n], o) ELSE view[r][m]
  BY <1>1
<1>4. view' \in [Replicas -> [Names -> Seq(ProvisionedService)]]
  <2>1. \A r \in Replicas :
          [view[r] EXCEPT ![n] = Append(view[r][n], o)]
            \in [Names -> Seq(ProvisionedService)]
    BY <1>1, <1>2
  <2>. QED
    BY <1>1, <2>1
<1>5. /\ stored' \in [Names -> ProvisionedService]
      /\ stored'[n] = o
      /\ \A m \in Names \ {n} : stored'[m] = stored[m]
  BY <1>1
<1>6. \A r \in Replicas, m \in Names \ {n} : view'[r][m] = view[r][m]
  BY <1>3
<1>7. \A r \in Replicas :
        /\ view'[r][n] # << >>
        /\ Len(view'[r][n]) = Len(view[r][n]) + 1
        /\ \A i \in 1..Len(view[r][n]) : view'[r][n][i] = view[r][n][i]
        /\ view'[r][n][1] = view[r][n][1]
        /\ view'[r][n][Len(view[r][n]) + 1] = o
  <2>. SUFFICES ASSUME NEW r \in Replicas
                PROVE  /\ view'[r][n] # << >>
                       /\ Len(view'[r][n]) = Len(view[r][n]) + 1
                       /\ \A i \in 1..Len(view[r][n]) :
                            view'[r][n][i] = view[r][n][i]
                       /\ view'[r][n][1] = view[r][n][1]
                       /\ view'[r][n][Len(view[r][n]) + 1] = o
    OBVIOUS
  <2>1. view'[r][n] = Append(view[r][n], o)
    BY <1>3
  <2>. DEFINE w == Append(view[r][n], o)
  <2>2. /\ w # << >>
        /\ Len(w) = Len(view[r][n]) + 1
        /\ \A i \in 1..Len(view[r][n]) : w[i] = view[r][n][i]
        /\ w[1] = view[r][n][1]
        /\ w[Len(view[r][n]) + 1] = o
    BY <1>2
  <2>. HIDE DEF w
  <2>3. view'[r][n] = w
    BY <2>1 DEF w
  <2>. QED
    BY <2>2, <2>3, Zenon
<1>8. ASSUME NEW r \in Replicas, NEW m \in Names
      PROVE  /\ view'[r][m] # << >>
             /\ view'[r][m][Len(view'[r][m])] = stored'[m]
             /\ Lister(r, m)' = Lister(r, m)
  <2>1. CASE m = n
    BY <1>5, <1>7, <2>1, Zenon DEF Lister
  <2>2. CASE m # n
    <3>1. view'[r][m] = view[r][m] /\ stored'[m] = stored[m]
      BY <1>5, <1>6, <2>2
    <3>. QED
      BY <3>1, EndTypes, Zenon DEF Lister
  <2>. QED
    BY <2>1, <2>2
<1>. QED
  BY <1>4, <1>5, <1>6, <1>7, <1>8, Zenon

\* TypeOK holds at the start.
LEMMA InitTypeOK == Init => TypeOK
<1>. SUFFICES ASSUME Init PROVE TypeOK
  OBVIOUS
<1>1. /\ NoService(0) \in ProvisionedService
      /\ <<NoService(0)>> \in Seq(ProvisionedService)
      /\ <<NoService(0)>> # << >>
      /\ Len(<<NoService(0)>>) = 1
      /\ <<NoService(0)>>[1] = NoService(0)
  BY NoServiceType, VersionListed
<1>2. /\ stored \in [Names -> ProvisionedService]
      /\ view \in [Replicas -> [Names -> Seq(ProvisionedService)]]
      /\ \A r \in Replicas, n \in Names :
           view[r][n] = <<NoService(0)>> /\ stored[n] = NoService(0)
      /\ work \in [Replicas -> [Names -> Work]]
      /\ \A r \in Replicas, n \in Names : work[r][n] = Idle
  BY <1>1, IdleType DEF Init
<1>3. \A r \in Replicas, n \in Names :
        view[r][n] # << >> /\ view[r][n][Len(view[r][n])] = stored[n]
  <2>. SUFFICES ASSUME NEW r \in Replicas, NEW n \in Names
                PROVE  view[r][n] # << >> /\ view[r][n][Len(view[r][n])] = stored[n]
    OBVIOUS
  <2>. DEFINE w == <<NoService(0)>>
  <2>1. w # << >> /\ Len(w) = 1 /\ w[1] = NoService(0)
    BY <1>1
  <2>2. view[r][n] = w /\ stored[n] = NoService(0)
    BY <1>2
  <2>. HIDE DEF w
  <2>. QED
    BY <2>1, <2>2
<1>4. /\ queue \in [Replicas -> SUBSET Names]
      /\ lease \in Replicas \cup {Nobody}
      /\ promoting \subseteq leaders /\ leaders \subseteq Replicas
      /\ edits \in 0..MaxEdits
      /\ faults \in 0..MaxFaults
  BY BoundsAssumption DEF Init
<1>. QED
  BY <1>2, <1>3, <1>4, IdleType DEF TypeOK

\* What remains to be shown of a step of a worker.
LEMMA WorkTypes ==
  ASSUME TypeOK, NEW r \in Replicas, NEW n \in Names, NEW w \in Work,
         work' = [work EXCEPT ![r][n] = w],
         w.pc # "idle" => Live(w.resource)
  PROVE  /\ work' \in [Replicas -> [Names -> Work]]
         /\ \A q \in Replicas, m \in Names :
              work'[q][m] = IF q = r /\ m = n THEN w ELSE work[q][m]
         /\ \A q \in Replicas, m \in Names :
              work'[q][m].pc # "idle" => Live(work'[q][m].resource)
<1>1. /\ work' \in [Replicas -> [Names -> Work]]
      /\ \A q \in Replicas, m \in Names :
           work'[q][m] = IF q = r /\ m = n THEN w ELSE work[q][m]
  <2>1. work \in [Replicas -> [Names -> Work]]
    BY DEF TypeOK
  <2>. QED
    BY <2>1, EntryReplaced
<1>2. ASSUME NEW q \in Replicas, NEW m \in Names, work'[q][m].pc # "idle"
      PROVE  Live(work'[q][m].resource)
  <2>1. CASE q = r /\ m = n
    BY <1>1, <1>2, <2>1
  <2>2. CASE ~(q = r /\ m = n)
    <3>1. work'[q][m] = work[q][m]
      BY <1>1, <2>2
    <3>. QED
      BY <1>2, <3>1 DEF TypeOK
  <2>. QED
    BY <2>1, <2>2
<1>. QED
  BY <1>1, <1>2

\* Return makes one worker idle and at most queues its key.
LEMMA Returns ==
  ASSUME TypeOK, NEW r \in Replicas, NEW n \in Names, NEW err, Return(r, n, err)
  PROVE  /\ work' \in [Replicas -> [Names -> Work]]
         /\ \A q \in Replicas, m \in Names :
              work'[q][m] = IF q = r /\ m = n THEN Idle ELSE work[q][m]
         /\ \A q \in Replicas, m \in Names :
              work'[q][m].pc # "idle" => Live(work'[q][m].resource)
         /\ queue' \in [Replicas -> SUBSET Names]
         /\ \A q \in Replicas : queue[q] \subseteq queue'[q]
         /\ err => n \in queue'[r]
<1>1. work' = [work EXCEPT ![r][n] = Idle]
  BY DEF Return
<1>2. queue' = [queue EXCEPT ![r] = IF err THEN queue[r] \cup {n} ELSE queue[r]]
      /\ queue \in [Replicas -> SUBSET Names]
  BY DEF Return, TypeOK
<1>3. /\ queue' \in [Replicas -> SUBSET Names]
      /\ \A q \in Replicas : queue[q] \subseteq queue'[q]
      /\ err => n \in queue'[r]
  <2>1. CASE err
    BY <1>2, <2>1
  <2>2. CASE ~err
    BY <1>2, <2>2
  <2>. QED
    BY <2>1, <2>2
<1>. QED
  <2>1. /\ work' \in [Replicas -> [Names -> Work]]
        /\ \A q \in Replicas, m \in Names :
             work'[q][m] = IF q = r /\ m = n THEN Idle ELSE work[q][m]
        /\ \A q \in Replicas, m \in Names :
             work'[q][m].pc # "idle" => Live(work'[q][m].resource)
    BY <1>1, IdleType, WorkTypes, ZenonT(60)
  <2>. QED
    BY <1>3, <2>1

\* What Reconcile hands to updateStatus.
LEMMA Reconciles ==
  ASSUME TypeOK, NEW r \in Replicas, NEW n \in Names, Reconcile(r, n)
  PROVE  /\ UNCHANGED <<stored, view, lease, leaders, promoting, edits, faults>>
         /\ work[r][n].pc = "idle"
         /\ queue' \in [Replicas -> SUBSET Names]
         /\ \A q \in Replicas, m \in Names :
              (q # r \/ m # n) /\ m \in queue[q] => m \in queue'[q]
         /\ \/ work' = work /\ (r \notin leaders \/ ~Live(Lister(r, n)))
            \/ \E w \in Work :
                 /\ work' = [work EXCEPT ![r][n] = w]
                 /\ w.pc = "status"
                 /\ w.existing = Lister(r, n)
                 /\ w.resource = ReconcileKind(Lister(r, n))
                 /\ Live(Lister(r, n))
<1>. DEFINE o == Lister(r, n)
            w == [pc |-> "status", existing |-> o, resource |-> ReconcileKind(o),
                  attempts |-> 0]
<1>1. /\ UNCHANGED <<stored, view, lease, leaders, promoting, edits, faults>>
      /\ work[r][n].pc = "idle"
      /\ queue' = [queue EXCEPT ![r] = @ \ {n}]
  BY DEF Reconcile
<1>2. /\ queue' \in [Replicas -> SUBSET Names]
      /\ \A q \in Replicas, m \in Names :
           (q # r \/ m # n) /\ m \in queue[q] => m \in queue'[q]
  BY <1>1 DEF TypeOK
<1>3. \/ work' = work /\ (r \notin leaders \/ ~Live(o))
      \/ work' = [work EXCEPT ![r][n] = w] /\ Live(o)
  BY DEF Reconcile, isNotLeaderNorObserver, isLeader, reconcileMethodFor
<1>4. w \in Work
  BY EndTypes, ReconcileKindType DEF Work
<1>5. w.pc = "status" /\ w.existing = o /\ w.resource = ReconcileKind(o)
  OBVIOUS
<1>. HIDE DEF w, o
<1>6. \/ work' = work /\ (r \notin leaders \/ ~Live(o))
      \/ \E v \in Work :
           /\ work' = [work EXCEPT ![r][n] = v]
           /\ v.pc = "status" /\ v.existing = o /\ v.resource = ReconcileKind(o)
           /\ Live(o)
  BY <1>3, <1>4, <1>5, Zenon
<1>. QED
  BY <1>1, <1>2, <1>6, Zenon DEF o

\* ReconcileKind neither makes nor deletes an object.
LEMMA LiveReconciled ==
  ASSUME NEW o \in ProvisionedService
  PROVE  Live(ReconcileKind(o)) <=> Live(o)
BY ReconcileKindType, Zenon DEF Live

\* Reconcile keeps TypeOK: a worker holds the copy of a live object.
LEMMA ReconcileTypes ==
  ASSUME TypeOK, NEW r \in Replicas, NEW n \in Names, Reconcile(r, n)
  PROVE  TypeOK'
<1>1. /\ UNCHANGED <<stored, view, lease, leaders, promoting, edits, faults>>
      /\ queue' \in [Replicas -> SUBSET Names]
  BY Reconciles
<1>2. CASE work' = work
  BY <1>1, <1>2 DEF TypeOK
<1>3. ASSUME NEW w \in Work,
             work' = [work EXCEPT ![r][n] = w],
             w.resource = ReconcileKind(Lister(r, n)),
             Live(Lister(r, n))
      PROVE  TypeOK'
  <2>0. Lister(r, n) \in ProvisionedService
    BY EndTypes
  <2>1. Live(w.resource)
    BY <1>3, <2>0, LiveReconciled
  <2>2. /\ work' \in [Replicas -> [Names -> Work]]
        /\ \A q \in Replicas, m \in Names :
             work'[q][m].pc # "idle" => Live(work'[q][m].resource)
    BY <1>3, <2>1, WorkTypes
  <2>. QED
    BY <1>1, <2>2 DEF TypeOK
<1>. QED
  BY <1>2, <1>3, Reconciles

\* What updateStatus stores.
Updated(r, n) == [Revised(stored[n]) EXCEPT !.status = StatusOf(work[r][n])]

\* What updateStatus stores is a service that differs in its status and its
\* version only.
LEMMA UpdatedType ==
  ASSUME TypeOK, NEW r \in Replicas, NEW n \in Names
  PROVE  /\ Updated(r, n) \in ProvisionedService
         /\ Updated(r, n).status = work[r][n].resource.status
         /\ Updated(r, n).exists = stored[n].exists
         /\ Updated(r, n).deleting = stored[n].deleting
         /\ Updated(r, n).uid = stored[n].uid
         /\ Updated(r, n).generation = stored[n].generation
         /\ Updated(r, n).binding = stored[n].binding
<1>. DEFINE s == work[r][n].resource.status
            v == stored[n].resourceVersion + 1
<1>1. s \in Status /\ v \in Nat /\ stored[n] \in ProvisionedService
  <2>1. work[r][n] \in Work /\ stored[n] \in ProvisionedService
    BY EndTypes
  <2>2. \A k \in Work : k.resource \in ProvisionedService
    BY DEF Work
  <2>3. \A o \in ProvisionedService : o.status \in Status /\ o.resourceVersion + 1 \in Nat
    BY DEF ProvisionedService
  <2>. QED
    BY <2>1, <2>2, <2>3
<1>2. Updated(r, n) = [[stored[n] EXCEPT !.resourceVersion = v] EXCEPT !.status = s]
  BY DEF Updated, Revised, StatusOf
<1>. HIDE DEF s, v
<1>3. /\ Updated(r, n) \in ProvisionedService
      /\ Updated(r, n).status = s
      /\ Updated(r, n).exists = stored[n].exists
      /\ Updated(r, n).deleting = stored[n].deleting
      /\ Updated(r, n).uid = stored[n].uid
      /\ Updated(r, n).generation = stored[n].generation
      /\ Updated(r, n).binding = stored[n].binding
  BY <1>1, <1>2 DEF ProvisionedService
<1>. QED
  BY <1>3 DEF s

\* The steps of updateStatus, getExisting and RequestFails.
LEMMA WorkerSteps ==
  ASSUME TypeOK, NEW r \in Replicas, NEW n \in Names,
         updateStatus(r, n) \/ getExisting(r, n) \/ RequestFails(r, n)
  PROVE  /\ UNCHANGED <<lease, leaders, promoting, edits>>
         /\ faults' \in 0..MaxFaults
         /\ work[r][n].pc # "idle"
         /\ \/ /\ work[r][n].pc = "status"
               /\ work[r][n].existing.status = work[r][n].resource.status
               /\ Return(r, n, FALSE)
               /\ UNCHANGED <<stored, view>>
            \/ Return(r, n, TRUE) /\ UNCHANGED <<stored, view>>
            \/ /\ Store(n, Updated(r, n))
               /\ work[r][n].pc = "status"
               /\ Return(r, n, FALSE) \/ Return(r, n, TRUE)
            \/ \E w \in Work :
                 /\ work' = [work EXCEPT ![r][n] = w]
                 /\ w.pc # "idle" /\ w.resource = work[r][n].resource
                 /\ \/ work[r][n].pc = "get"
                    \/ /\ stored[n].exists
                       /\ ~Unmodified(stored[n], work[r][n].existing)
                 /\ UNCHANGED <<stored, view, queue>>
<1>0. /\ faults \in 0..MaxFaults /\ work[r][n] \in Work
      /\ stored[n] \in ProvisionedService
      /\ work \in [Replicas -> [Names -> Work]]
  BY EndTypes DEF TypeOK
<1>f. faults < MaxFaults /\ faults' = faults + 1 => faults' \in 0..MaxFaults
  BY <1>0, BoundsAssumption
<1>1. CASE RequestFails(r, n)
  <2>1. /\ UNCHANGED <<lease, leaders, promoting, edits, stored, view>>
        /\ work[r][n].pc # "idle" /\ Return(r, n, TRUE)
        /\ faults' \in 0..MaxFaults
    BY <1>f, <1>1 DEF RequestFails
  <2>. QED
    BY <2>1
<1>2. CASE getExisting(r, n)
  <2>1. /\ UNCHANGED <<lease, leaders, promoting, edits, stored, view, faults>>
        /\ work[r][n].pc = "get"
    BY <1>2 DEF getExisting
  <2>2. CASE Return(r, n, TRUE)
    BY <1>0, <2>1, <2>2
  <2>3. CASE /\ work' = [work EXCEPT ![r][n].pc = "status",
                                     ![r][n].existing = stored[n]]
             /\ UNCHANGED queue
    <3>. DEFINE w == [work[r][n] EXCEPT !.pc = "status", !.existing = stored[n]]
    <3>1. work' = [work EXCEPT ![r][n] = w]
      BY <1>0, <2>3
    <3>2. w \in Work /\ w.pc # "idle" /\ w.resource = work[r][n].resource
      BY <1>0 DEF Work
    <3>. HIDE DEF w
    <3>. QED
      BY <1>0, <2>1, <2>3, <3>1, <3>2
  <2>. QED
    BY <1>2, <2>2, <2>3 DEF getExisting
<1>3. CASE updateStatus(r, n)
  <2>1. /\ UNCHANGED <<lease, leaders, promoting, edits>>
        /\ work[r][n].pc = "status"
    BY <1>3 DEF updateStatus
  <2>2. CASE /\ work[r][n].existing.status = work[r][n].resource.status
             /\ Return(r, n, FALSE)
             /\ UNCHANGED <<stored, view, faults>>
    BY <1>0, <2>1, <2>2
  <2>3. CASE Return(r, n, TRUE) /\ UNCHANGED <<stored, view, faults>>
    BY <1>0, <2>1, <2>3
  <2>4. CASE /\ Store(n, Updated(r, n))
             /\ \/ Return(r, n, FALSE) /\ UNCHANGED faults
                \/ /\ faults < MaxFaults
                   /\ faults' = faults + 1
                   /\ Return(r, n, TRUE)
    BY <1>0, <1>f, <2>1, <2>4
  <2>5. CASE /\ stored[n].exists
             /\ ~Unmodified(stored[n], work[r][n].existing)
             /\ work' = [work EXCEPT ![r][n].pc = "get", ![r][n].attempts = @ + 1]
             /\ UNCHANGED <<stored, view, faults, queue>>
    <3>. DEFINE k == work[r][n].attempts + 1
                w == [work[r][n] EXCEPT !.pc = "get", !.attempts = k]
    <3>0. k \in Nat
      BY <1>0 DEF Work
    <3>1. work' = [work EXCEPT ![r][n] = w]
      BY <1>0, <2>5
    <3>. HIDE DEF k
    <3>2. w \in Work /\ w.pc # "idle" /\ w.resource = work[r][n].resource
      BY <1>0, <3>0 DEF Work
    <3>. HIDE DEF w
    <3>. QED
      BY <1>0, <2>1, <2>5, <3>1, <3>2
  <2>. QED
    BY <1>3, <2>2, <2>3, <2>4, <2>5, Zenon DEF updateStatus, Updated
<1>. QED
  BY <1>1, <1>2, <1>3

\* The steps after Reconcile keep TypeOK.
LEMMA WorkerTypes ==
  ASSUME TypeOK, NEW r \in Replicas, NEW n \in Names,
         updateStatus(r, n) \/ getExisting(r, n) \/ RequestFails(r, n)
  PROVE  TypeOK'
<1>1. /\ UNCHANGED <<lease, leaders, promoting, edits>>
      /\ faults' \in 0..MaxFaults
      /\ work[r][n].pc # "idle"
  BY WorkerSteps
<1>2. ASSUME NEW err \in BOOLEAN, Return(r, n, err)
      PROVE  /\ work' \in [Replicas -> [Names -> Work]]
             /\ \A q \in Replicas, m \in Names :
                  work'[q][m].pc # "idle" => Live(work'[q][m].resource)
             /\ queue' \in [Replicas -> SUBSET Names]
  BY <1>2, Returns
<1>3. ASSUME NEW err \in BOOLEAN, Return(r, n, err), UNCHANGED <<stored, view>>
      PROVE  TypeOK'
  BY <1>1, <1>2, <1>3 DEF TypeOK
<1>4. ASSUME NEW err \in BOOLEAN, Return(r, n, err), Store(n, Updated(r, n))
      PROVE  TypeOK'
  <2>1. /\ stored' \in [Names -> ProvisionedService]
        /\ view' \in [Replicas -> [Names -> Seq(ProvisionedService)]]
        /\ \A q \in Replicas, m \in Names :
             view'[q][m] # << >> /\ view'[q][m][Len(view'[q][m])] = stored'[m]
    BY <1>4, UpdatedType, Stores
  <2>. QED
    BY <1>1, <1>2, <1>4, <2>1 DEF TypeOK
<1>5. ASSUME NEW w \in Work, work' = [work EXCEPT ![r][n] = w],
             w.resource = work[r][n].resource, UNCHANGED <<stored, view, queue>>
      PROVE  TypeOK'
  <2>1. Live(w.resource)
    BY <1>1, <1>5 DEF TypeOK
  <2>2. /\ work' \in [Replicas -> [Names -> Work]]
        /\ \A q \in Replicas, m \in Names :
             work'[q][m].pc # "idle" => Live(work'[q][m].resource)
    BY <1>5, <2>1, WorkTypes
  <2>. QED
    BY <1>1, <1>5, <2>2 DEF TypeOK
<1>. QED
  BY <1>3, <1>4, <1>5, WorkerSteps, ZenonT(60)

\* A delivery: the first versions of one window are dropped.
LEMMA Delivers ==
  ASSUME TypeOK, NEW r \in Replicas, NEW n \in Names, Deliver(r, n)
  PROVE  /\ UNCHANGED <<stored, work, lease, leaders, promoting, edits, faults>>
         /\ view' \in [Replicas -> [Names -> Seq(ProvisionedService)]]
         /\ queue' \in [Replicas -> SUBSET Names]
         /\ n \in queue'[r]
         /\ \A q \in Replicas : queue[q] \subseteq queue'[q]
         /\ \A q \in Replicas, m \in Names :
              /\ q # r \/ m # n => view'[q][m] = view[q][m]
              /\ view'[q][m] # << >>
              /\ view'[q][m][Len(view'[q][m])] = stored'[m]
              /\ \A i \in 1..Len(view'[q][m]) :
                   \E j \in 1..Len(view[q][m]) : view'[q][m][i] = view[q][m][j]
<1>0. /\ view \in [Replicas -> [Names -> Seq(ProvisionedService)]]
      /\ queue \in [Replicas -> SUBSET Names]
  BY DEF TypeOK
<1>1. PICK k \in 2..Len(view[r][n]) :
        /\ view' = [view EXCEPT ![r][n] = SubSeq(@, k, Len(@))]
        /\ queue' = [queue EXCEPT ![r] = @ \cup {n}]
        /\ UNCHANGED <<stored, work, lease, leaders, promoting, edits, faults>>
  BY DEF Deliver
<1>. DEFINE old == view[r][n]
            new == SubSeq(old, k, Len(old))
<1>2. /\ old \in Seq(ProvisionedService) /\ old # << >> /\ Len(old) \in Nat
      /\ old[Len(old)] = stored[n]
  BY EndTypes
<1>3. k \in 1..Len(old)
  BY <1>2
<1>4. view' = [view EXCEPT ![r][n] = new]
  BY <1>1
<1>. HIDE DEF old
<1>5. /\ new \in Seq(ProvisionedService)
      /\ new # << >>
      /\ Len(new) = Len(old) - k + 1
      /\ \A i \in 1..(Len(old) - k + 1) : new[i] = old[k + i - 1]
      /\ new[Len(old) - k + 1] = old[Len(old)]
  BY <1>2, <1>3, VersionsSkipped
<1>. HIDE DEF new
<1>6. new[Len(new)] = stored[n]
  BY <1>2, <1>5
<1>7. \A i \in 1..Len(new) : \E j \in 1..Len(old) : new[i] = old[j]
  BY <1>2, <1>3, <1>5
<1>8. /\ view' \in [Replicas -> [Names -> Seq(ProvisionedService)]]
      /\ \A q \in Replicas, m \in Names :
           view'[q][m] = IF q = r /\ m = n THEN new ELSE view[q][m]
  BY <1>0, <1>4, <1>5, EntryReplaced
<1>9. ASSUME NEW q \in Replicas, NEW m \in Names
      PROVE  /\ q # r \/ m # n => view'[q][m] = view[q][m]
             /\ view'[q][m] # << >>
             /\ view'[q][m][Len(view'[q][m])] = stored'[m]
             /\ \A i \in 1..Len(view'[q][m]) :
                  \E j \in 1..Len(view[q][m]) : view'[q][m][i] = view[q][m][j]
  <2>1. CASE q = r /\ m = n
    <3>1. view'[q][m] = new /\ view[q][m] = old /\ stored'[m] = stored[n]
      BY <1>1, <1>8, <2>1 DEF old
    <3>. QED
      BY <1>5, <1>6, <1>7, <2>1, <3>1
  <2>2. CASE q # r \/ m # n
    <3>1. view'[q][m] = view[q][m] /\ stored'[m] = stored[m]
      BY <1>1, <1>8, <2>2
    <3>. QED
      BY <3>1, EndTypes, ZenonT(40)
  <2>. QED
    BY <2>1, <2>2
<1>10. /\ queue' \in [Replicas -> SUBSET Names]
       /\ n \in queue'[r]
       /\ \A q \in Replicas : queue[q] \subseteq queue'[q]
  BY <1>0, <1>1
<1>. QED
  BY <1>1, <1>8, <1>9, <1>10, Zenon

\* A restart: the replica's informer lists everything.
LEMMA Restarts ==
  ASSUME TypeOK, NEW r \in Replicas, Restart(r)
  PROVE  /\ UNCHANGED <<stored, lease, edits>>
         /\ faults' \in 0..MaxFaults
         /\ leaders' = leaders \ {r} /\ promoting' = promoting \ {r}
         /\ view' \in [Replicas -> [Names -> Seq(ProvisionedService)]]
         /\ queue' \in [Replicas -> SUBSET Names]
         /\ work' \in [Replicas -> [Names -> Work]]
         /\ \A q \in Replicas \ {r} :
              view'[q] = view[q] /\ queue'[q] = queue[q] /\ work'[q] = work[q]
         /\ \A m \in Names :
              /\ work'[r][m] = Idle
              /\ Len(view'[r][m]) = 1
              /\ view'[r][m][1] = stored[m]
         /\ \A q \in Replicas, m \in Names :
              /\ view'[q][m] # << >>
              /\ view'[q][m][Len(view'[q][m])] = stored'[m]
<1>0. /\ view \in [Replicas -> [Names -> Seq(ProvisionedService)]]
      /\ queue \in [Replicas -> SUBSET Names]
      /\ work \in [Replicas -> [Names -> Work]]
      /\ stored \in [Names -> ProvisionedService]
      /\ faults \in 0..MaxFaults
  BY DEF TypeOK
<1>1. /\ UNCHANGED <<stored, lease, edits>>
      /\ faults < MaxFaults /\ faults' = faults + 1
      /\ leaders' = leaders \ {r} /\ promoting' = promoting \ {r}
      /\ view' = [view EXCEPT ![r] = [n \in Names |-> <<stored[n]>>]]
      /\ queue' = [queue EXCEPT ![r] = {n \in Names : stored[n].exists}]
      /\ work' = [work EXCEPT ![r] = [n \in Names |-> Idle]]
  BY DEF Restart
<1>2. faults' \in 0..MaxFaults
  BY <1>0, <1>1, BoundsAssumption
<1>3. \A m \in Names :
        /\ <<stored[m]>> \in Seq(ProvisionedService)
        /\ <<stored[m]>> # << >>
        /\ Len(<<stored[m]>>) = 1
        /\ <<stored[m]>>[1] = stored[m]
  BY <1>0, VersionListed
<1>4. /\ view' \in [Replicas -> [Names -> Seq(ProvisionedService)]]
      /\ \A m \in Names : view'[r][m] = <<stored[m]>>
      /\ \A q \in Replicas \ {r} : view'[q] = view[q]
  <2>1. [n \in Names |-> <<stored[n]>>] \in [Names -> Seq(ProvisionedService)]
    BY <1>3
  <2>. QED
    BY <1>0, <1>1, <2>1
<1>5. /\ queue' \in [Replicas -> SUBSET Names]
      /\ \A q \in Replicas \ {r} : queue'[q] = queue[q]
  BY <1>0, <1>1
<1>6. /\ work' \in [Replicas -> [Names -> Work]]
      /\ \A m \in Names : work'[r][m] = Idle
      /\ \A q \in Replicas \ {r} : work'[q] = work[q]
  BY <1>0, <1>1, IdleType
<1>7. ASSUME NEW m \in Names
      PROVE  view'[r][m] # << >> /\ Len(view'[r][m]) = 1 /\ view'[r][m][1] = stored[m]
  <2>. DEFINE w == <<stored[m]>>
  <2>1. w # << >> /\ Len(w) = 1 /\ w[1] = stored[m]
    BY <1>3
  <2>2. view'[r][m] = w
    BY <1>4
  <2>. HIDE DEF w
  <2>. QED
    BY <2>1, <2>2, Zenon
<1>8. ASSUME NEW q \in Replicas, NEW m \in Names
      PROVE  view'[q][m] # << >> /\ view'[q][m][Len(view'[q][m])] = stored'[m]
  <2>1. CASE q = r
    BY <1>1, <1>7, <2>1, Zenon
  <2>2. CASE q # r
    <3>1. view'[q][m] = view[q][m] /\ stored'[m] = stored[m]
      BY <1>1, <1>4, <2>2
    <3>. QED
      BY <3>1, EndTypes, ZenonT(40)
  <2>. QED
    BY <2>1, <2>2
<1>. QED
  BY <1>1, <1>2, <1>4, <1>5, <1>6, <1>7, <1>8, Zenon

\* What users store is another object of the name, its next generation, or
\* no object.
LEMMA UserSteps ==
  ASSUME TypeOK, NEW n \in Names, UserCreates(n) \/ UserEdits(n) \/ UserDeletes(n)
  PROVE  \E o \in ProvisionedService :
           /\ Store(n, o)
           /\ UNCHANGED <<queue, work, lease, leaders, promoting, faults>>
           /\ edits' \in 0..MaxEdits
           /\ \/ /\ o.exists /\ ~stored[n].exists
                 /\ o.uid = stored[n].uid + 1
                 /\ o.generation = 1 /\ o.status = NoStatus
              \/ /\ o.exists /\ stored[n].exists
                 /\ o.uid = stored[n].uid
                 /\ o.generation = stored[n].generation + 1
                 /\ o.status = stored[n].status
              \/ ~o.exists /\ o.uid = stored[n].uid /\ o.status = NoStatus
<1>0. stored[n] \in ProvisionedService
  BY DEF TypeOK
<1>e. ASSUME NEW o, Edit(n, o)
      PROVE  /\ Store(n, o)
             /\ UNCHANGED <<queue, work, lease, leaders, promoting, faults>>
             /\ edits' \in 0..MaxEdits
  BY <1>e, BoundsAssumption DEF Edit, TypeOK
<1>1. CASE UserCreates(n)
  <2>1. PICK s \in Secrets :
          /\ ~stored[n].exists
          /\ Edit(n, [exists |-> TRUE, uid |-> stored[n].uid + 1,
                      resourceVersion |-> 1, generation |-> 1,
                      deleting |-> FALSE, binding |-> s, status |-> NoStatus])
    BY <1>1 DEF UserCreates
  <2>. DEFINE o == [exists |-> TRUE, uid |-> stored[n].uid + 1,
                    resourceVersion |-> 1, generation |-> 1,
                    deleting |-> FALSE, binding |-> s, status |-> NoStatus]
  <2>2. /\ o \in ProvisionedService /\ o.exists /\ o.uid = stored[n].uid + 1
        /\ o.generation = 1 /\ o.status = NoStatus
    BY <1>0 DEF ProvisionedService, Status, NoStatus
  <2>. HIDE DEF o
  <2>3. Edit(n, o)
    BY <2>1 DEF o
  <2>. QED
    BY <1>e, <2>1, <2>2, <2>3, Zenon
<1>2. CASE UserEdits(n)
  <2>1. PICK s \in Secrets :
          /\ stored[n].exists
          /\ Edit(n, [Revised(stored[n]) EXCEPT !.generation = @ + 1, !.binding = s])
    BY <1>2 DEF UserEdits
  <2>. DEFINE g == stored[n].generation + 1
              v == stored[n].resourceVersion + 1
              o == [[stored[n] EXCEPT !.resourceVersion = v] EXCEPT
                      !.generation = g, !.binding = s]
  <2>2. g \in Nat /\ v \in Nat /\ g = stored[n].generation + 1
    BY <1>0 DEF ProvisionedService
  <2>3. Edit(n, o)
    BY <1>0, <2>1 DEF Revised, ProvisionedService
  <2>. HIDE DEF g, v
  <2>4. /\ o \in ProvisionedService /\ o.exists = stored[n].exists
        /\ o.uid = stored[n].uid /\ o.generation = g
        /\ o.status = stored[n].status
    BY <1>0, <2>2 DEF ProvisionedService
  <2>. HIDE DEF o
  <2>. QED
    BY <1>e, <2>1, <2>2, <2>3, <2>4, Zenon
<1>3. CASE UserDeletes(n)
  <2>0. stored[n].exists
    BY <1>3 DEF UserDeletes
  <2>1. CASE Edit(n, NoService(stored[n].uid))
    <3>. DEFINE o == NoService(stored[n].uid)
    <3>1. /\ o \in ProvisionedService /\ ~o.exists /\ o.uid = stored[n].uid
          /\ o.status = NoStatus
      BY <1>0, NoServiceType DEF ProvisionedService, NoService
    <3>. HIDE DEF o
    <3>2. Edit(n, o)
      BY <2>1 DEF o
    <3>. QED
      BY <1>e, <3>1, <3>2, Zenon
  <2>2. CASE Edit(n, [Revised(stored[n]) EXCEPT !.deleting = TRUE,
                                                !.generation = @ + 1])
    <3>. DEFINE g == stored[n].generation + 1
                v == stored[n].resourceVersion + 1
                o == [[stored[n] EXCEPT !.resourceVersion = v] EXCEPT
                        !.deleting = TRUE, !.generation = g]
    <3>1. g \in Nat /\ v \in Nat
      BY <1>0 DEF ProvisionedService
    <3>2. Edit(n, o)
      BY <1>0, <2>2 DEF Revised, ProvisionedService
    <3>3. g = stored[n].generation + 1
      OBVIOUS
    <3>. HIDE DEF g, v
    <3>4. /\ o \in ProvisionedService /\ o.exists = stored[n].exists
          /\ o.uid = stored[n].uid /\ o.generation = g
          /\ o.status = stored[n].status
      BY <1>0, <3>1 DEF ProvisionedService
    <3>. HIDE DEF o
    <3>. QED
      BY <1>e, <2>0, <3>2, <3>3, <3>4, Zenon
  <2>. QED
    BY <1>3, <2>1, <2>2 DEF UserDeletes
<1>. QED
  BY <1>1, <1>2, <1>3

\* The elector and a restart keep TypeOK.
LEMMA ElectionTypes ==
  ASSUME TypeOK, Election
  PROVE  TypeOK'
<1>1. CASE Lapse
  <2>1. /\ UNCHANGED <<stored, view, queue, work, leaders, promoting, edits>>
        /\ lease' = Nobody
        /\ faults' = faults \/ (faults < MaxFaults /\ faults' = faults + 1)
    BY <1>1 DEF Lapse
  <2>2. faults' \in 0..MaxFaults
    BY <2>1, BoundsAssumption DEF TypeOK
  <2>. QED
    BY <2>1, <2>2 DEF TypeOK
<1>2. ASSUME NEW r \in Replicas, Acquire(r) \/ PromoteFunc(r) \/ Demote(r)
      PROVE  TypeOK'
  <2>1. UNCHANGED <<stored, view, work, edits, faults>>
    BY <1>2 DEF Acquire, PromoteFunc, Demote
  <2>2. /\ lease' \in Replicas \cup {Nobody}
        /\ promoting' \subseteq leaders' /\ leaders' \subseteq Replicas
        /\ queue' \in [Replicas -> SUBSET Names]
    <3>0. /\ lease \in Replicas \cup {Nobody}
          /\ promoting \subseteq leaders /\ leaders \subseteq Replicas
          /\ queue \in [Replicas -> SUBSET Names]
      BY DEF TypeOK
    <3>1. CASE Acquire(r)
      BY <3>0, <3>1 DEF Acquire
    <3>2. CASE PromoteFunc(r)
      BY <3>0, <3>2 DEF PromoteFunc, Promoted
    <3>3. CASE Demote(r)
      BY <3>0, <3>3 DEF Demote
    <3>. QED
      BY <1>2, <3>1, <3>2, <3>3
  <2>. QED
    BY <2>1, <2>2 DEF TypeOK
<1>. QED
  BY <1>1, <1>2 DEF Election

\* Every step keeps TypeOK.
LEMMA NextTypeOK == TypeOK /\ [Next]_vars => TypeOK'
<1>. SUFFICES ASSUME TypeOK, [Next]_vars PROVE TypeOK'
  OBVIOUS
<1>1. ASSUME NEW r \in Replicas, NEW n \in Names, Deliver(r, n)
      PROVE  TypeOK'
  <2>1. /\ UNCHANGED <<stored, work, lease, leaders, promoting, edits, faults>>
        /\ view' \in [Replicas -> [Names -> Seq(ProvisionedService)]]
        /\ queue' \in [Replicas -> SUBSET Names]
        /\ \A q \in Replicas, m \in Names :
             view'[q][m] # << >> /\ view'[q][m][Len(view'[q][m])] = stored'[m]
    BY <1>1, Delivers
  <2>. QED
    BY <2>1 DEF TypeOK
<1>2. ASSUME NEW r \in Replicas, Restart(r)
      PROVE  TypeOK'
  <2>1. /\ UNCHANGED <<stored, lease, edits>>
        /\ faults' \in 0..MaxFaults
        /\ leaders' = leaders \ {r} /\ promoting' = promoting \ {r}
        /\ view' \in [Replicas -> [Names -> Seq(ProvisionedService)]]
        /\ queue' \in [Replicas -> SUBSET Names]
        /\ work' \in [Replicas -> [Names -> Work]]
        /\ \A q \in Replicas, m \in Names :
             view'[q][m] # << >> /\ view'[q][m][Len(view'[q][m])] = stored'[m]
        /\ \A q \in Replicas \ {r} : work'[q] = work[q]
        /\ \A m \in Names : work'[r][m] = Idle
    BY <1>2, Restarts
  <2>2. \A q \in Replicas, m \in Names :
          work'[q][m].pc # "idle" => Live(work'[q][m].resource)
    <3>1. \A q \in Replicas, m \in Names :
            work[q][m].pc # "idle" => Live(work[q][m].resource)
      BY DEF TypeOK
    <3>. QED
      BY <2>1, <3>1, IdleType, ZenonT(40)
  <2>. QED
    BY <2>1, <2>2 DEF TypeOK
<1>3. ASSUME NEW n \in Names, UserCreates(n) \/ UserEdits(n) \/ UserDeletes(n)
      PROVE  TypeOK'
  <2>1. PICK o \in ProvisionedService :
           /\ Store(n, o)
           /\ UNCHANGED <<queue, work, lease, leaders, promoting, faults>>
           /\ edits' \in 0..MaxEdits
    BY <1>3, UserSteps
  <2>2. /\ stored' \in [Names -> ProvisionedService]
        /\ view' \in [Replicas -> [Names -> Seq(ProvisionedService)]]
        /\ \A q \in Replicas, m \in Names :
             view'[q][m] # << >> /\ view'[q][m][Len(view'[q][m])] = stored'[m]
    BY <2>1, Stores
  <2>. QED
    BY <2>1, <2>2 DEF TypeOK
<1>4. CASE UNCHANGED vars
  BY <1>4 DEF vars, TypeOK
<1>. QED
  BY <1>1, <1>2, <1>3, <1>4, ReconcileTypes, WorkerTypes, ElectionTypes
     DEF Next, Controller

\* Every variable keeps its type, every informer's window ends with the API
\* server's copy, and no worker is busy with an object that it saw being
\* deleted (newState, reconcileMethodFor).
THEOREM TypeCorrect == Spec => []TypeOK
BY InitTypeOK, NextTypeOK, PTL DEF Spec

-----------------------------------------------------------------------------
(* A claim about the current generation is true *)

\* Copy c of a name's object is not younger than o: it is of an earlier
\* object, of an earlier generation, or asks for the same.
Precedes(c, o) ==
  /\ c.uid <= o.uid
  /\ c.exists => c.uid >= 1
  /\ c.exists /\ o.exists /\ c.uid = o.uid =>
       /\ c.generation <= o.generation
       /\ c.generation = o.generation => c.binding = o.binding

\* Every copy precedes what is stored, and a worker's status is about its copy.
Ordered ==
  \A n \in Names :
    /\ Precedes(stored[n], stored[n])
    /\ \A r \in Replicas :
         /\ \A i \in 1..Len(view[r][n]) : Precedes(view[r][n][i], stored[n])
         /\ work[r][n].pc # "idle" =>
              /\ Precedes(work[r][n].resource, stored[n])
              /\ work[r][n].resource.status = Asked(work[r][n].resource)

\* The status of the first object of a name is not ahead of its spec.
Claimed ==
  \A n \in Names :
    stored[n].exists /\ stored[n].uid = 1 =>
      /\ stored[n].status.observedGeneration <= stored[n].generation
      /\ stored[n].status.observedGeneration = stored[n].generation =>
           stored[n].status = Asked(stored[n])

ClaimInv == Ordered /\ Claimed

\* Nothing is claimed at the start.
LEMMA InitClaimInv == Init => ClaimInv
<1>. SUFFICES ASSUME Init PROVE ClaimInv
  OBVIOUS
<1>1. /\ \A n \in Names : stored[n] = NoService(0)
      /\ \A r \in Replicas, n \in Names :
           view[r][n] = <<NoService(0)>> /\ work[r][n] = Idle
  BY DEF Init
<1>2. Precedes(NoService(0), NoService(0)) /\ ~NoService(0).exists
  BY DEF Precedes, NoService
<1>3. \A r \in Replicas, n \in Names :
        \A i \in 1..Len(view[r][n]) : view[r][n][i] = NoService(0)
  <2>. DEFINE w == <<NoService(0)>>
  <2>1. \A i \in 1..Len(w) : w[i] = NoService(0)
    OBVIOUS
  <2>. HIDE DEF w
  <2>2. \A r \in Replicas, n \in Names : view[r][n] = w
    BY <1>1 DEF w
  <2>. QED
    BY <2>1, <2>2
<1>. QED
  BY <1>1, <1>2, <1>3, IdleType DEF ClaimInv, Ordered, Claimed

\* Where the resource of a worker comes from in a step.
Derived(r, n) ==
  work'[r][n].pc # "idle" =>
    \/ work[r][n].pc # "idle" /\ work'[r][n].resource = work[r][n].resource
    \/ \E c \in ProvisionedService :
         Precedes(c, stored[n]) /\ work'[r][n].resource = ReconcileKind(c)

\* A copy that is derived from one which precedes what is stored precedes it.
LEMMA DerivedPrecedes ==
  ASSUME TypeOK, ClaimInv, NEW r \in Replicas, NEW n \in Names, Derived(r, n),
         work'[r][n].pc # "idle"
  PROVE  /\ Precedes(work'[r][n].resource, stored[n])
         /\ work'[r][n].resource.status = Asked(work'[r][n].resource)
<1>1. CASE work[r][n].pc # "idle" /\ work'[r][n].resource = work[r][n].resource
  BY <1>1 DEF ClaimInv, Ordered
<1>2. ASSUME NEW c \in ProvisionedService, Precedes(c, stored[n]),
             work'[r][n].resource = ReconcileKind(c)
      PROVE  /\ Precedes(work'[r][n].resource, stored[n])
             /\ work'[r][n].resource.status = Asked(work'[r][n].resource)
  <2>1. Precedes(ReconcileKind(c), stored[n])
    BY <1>2, ReconcileKindType DEF Precedes
  <2>2. ReconcileKind(c).status = Asked(ReconcileKind(c))
    BY ReconcileKindType
  <2>. QED
    BY <1>2, <2>1, <2>2
<1>. QED
  BY <1>1, <1>2 DEF Derived

\* A step that stores nothing.
LEMMA ClaimKept ==
  ASSUME TypeOK, ClaimInv, UNCHANGED stored,
         \A q \in Replicas, m \in Names :
           \A i \in 1..Len(view'[q][m]) : Precedes(view'[q][m][i], stored[m]),
         \A q \in Replicas, m \in Names : Derived(q, m)
  PROVE  ClaimInv'
<1>1. Claimed'
  BY DEF ClaimInv, Claimed
<1>2. Ordered'
  BY DerivedPrecedes DEF ClaimInv, Ordered
<1>. QED
  BY <1>1, <1>2 DEF ClaimInv

\* A step that stores a successor of the object.
LEMMA ClaimStored ==
  ASSUME TypeOK, ClaimInv, NEW n \in Names, NEW o \in ProvisionedService,
         Store(n, o),
         \A c \in ProvisionedService : Precedes(c, stored[n]) => Precedes(c, o),
         Precedes(o, o),
         o.exists /\ o.uid = 1 =>
           /\ o.status.observedGeneration <= o.generation
           /\ o.status.observedGeneration = o.generation => o.status = Asked(o),
         \A q \in Replicas, m \in Names :
           work'[q][m].pc # "idle" =>
             work[q][m].pc # "idle" /\ work'[q][m].resource = work[q][m].resource
  PROVE  ClaimInv'
<1>1. /\ stored'[n] = o
      /\ \A m \in Names \ {n} : stored'[m] = stored[m]
      /\ \A r \in Replicas, m \in Names \ {n} : view'[r][m] = view[r][m]
      /\ \A r \in Replicas :
           /\ Len(view'[r][n]) = Len(view[r][n]) + 1
           /\ \A i \in 1..Len(view[r][n]) : view'[r][n][i] = view[r][n][i]
           /\ view'[r][n][Len(view[r][n]) + 1] = o
  BY Stores
<1>2. Claimed'
  <2>. SUFFICES ASSUME NEW m \in Names, stored'[m].exists, stored'[m].uid = 1
                PROVE  /\ stored'[m].status.observedGeneration <= stored'[m].generation
                       /\ stored'[m].status.observedGeneration = stored'[m].generation =>
                            stored'[m].status = Asked(stored'[m])
    BY DEF Claimed, Asked
  <2>1. CASE m = n
    BY <1>1, <2>1
  <2>2. CASE m # n
    <3>1. stored'[m] = stored[m]
      BY <1>1, <2>2
    <3>. QED
      BY <3>1 DEF ClaimInv, Claimed
  <2>. QED
    BY <2>1, <2>2
<1>3. ASSUME NEW m \in Names
      PROVE  /\ Precedes(stored'[m], stored'[m])
             /\ \A c \in ProvisionedService :
                  Precedes(c, stored[m]) => Precedes(c, stored'[m])
  <2>1. CASE m = n
    BY <1>1, <2>1
  <2>2. CASE m # n
    <3>1. stored'[m] = stored[m]
      BY <1>1, <2>2
    <3>. QED
      BY <3>1 DEF ClaimInv, Ordered
  <2>. QED
    BY <2>1, <2>2
<1>4. ASSUME NEW r \in Replicas, NEW m \in Names, NEW i \in 1..Len(view'[r][m])
      PROVE  Precedes(view'[r][m][i], stored'[m])
  <2>0. /\ Len(view[r][m]) \in Nat
        /\ \A j \in 1..Len(view[r][m]) :
             view[r][m][j] \in ProvisionedService /\ Precedes(view[r][m][j], stored[m])
    BY EndTypes DEF ClaimInv, Ordered
  <2>1. CASE m = n /\ i = Len(view[r][n]) + 1
    BY <1>1, <2>1
  <2>2. CASE m = n /\ i \in 1..Len(view[r][n])
    <3>1. view'[r][m][i] = view[r][m][i]
      BY <1>1, <2>2
    <3>. QED
      BY <1>3, <2>0, <2>2, <3>1
  <2>3. CASE m # n
    <3>1. view'[r][m] = view[r][m]
      BY <1>1, <2>3
    <3>. QED
      BY <1>3, <2>0, <3>1
  <2>4. m = n => i = Len(view[r][n]) + 1 \/ i \in 1..Len(view[r][n])
    BY <1>1, <2>0
  <2>. QED
    BY <2>1, <2>2, <2>3, <2>4
<1>5. ASSUME NEW r \in Replicas, NEW m \in Names, work'[r][m].pc # "idle"
      PROVE  /\ Precedes(work'[r][m].resource, stored'[m])
             /\ work'[r][m].resource.status = Asked(work'[r][m].resource)
  <2>1. /\ work'[r][m].resource = work[r][m].resource
        /\ Precedes(work[r][m].resource, stored[m])
        /\ work[r][m].resource.status = Asked(work[r][m].resource)
        /\ work[r][m].resource \in ProvisionedService
    BY <1>5, EndTypes DEF ClaimInv, Ordered, Work
  <2>. QED
    BY <1>3, <2>1
<1>6. Ordered'
  BY <1>3, <1>4, <1>5 DEF Ordered, Asked
<1>. QED
  BY <1>2, <1>6 DEF ClaimInv

\* Changes by users keep ClaimInv: what they store is younger than any copy.
LEMMA ClaimUser ==
  ASSUME TypeOK, ClaimInv, NEW n \in Names,
         UserCreates(n) \/ UserEdits(n) \/ UserDeletes(n)
  PROVE  ClaimInv'
<1>1. PICK o \in ProvisionedService :
           /\ Store(n, o)
           /\ work' = work
           /\ \/ /\ o.exists /\ ~stored[n].exists
                 /\ o.uid = stored[n].uid + 1
                 /\ o.generation = 1 /\ o.status = NoStatus
              \/ /\ o.exists /\ stored[n].exists
                 /\ o.uid = stored[n].uid
                 /\ o.generation = stored[n].generation + 1
                 /\ o.status = stored[n].status
              \/ ~o.exists /\ o.uid = stored[n].uid
  BY UserSteps
<1>. DEFINE s == stored[n]
<1>2. /\ s \in ProvisionedService /\ Precedes(s, s)
      /\ s.exists /\ s.uid = 1 => s.status.observedGeneration <= s.generation
  BY DEF TypeOK, ClaimInv, Ordered, Claimed
<1>3. /\ o.uid \in Nat /\ o.generation \in Nat
      /\ s.uid \in Nat /\ s.generation \in Nat
      /\ s.status.observedGeneration \in Nat
      /\ NoStatus.observedGeneration = 0
  BY <1>2 DEF ProvisionedService, Status, NoStatus
<1>4. \/ o.exists /\ ~s.exists /\ o.uid = s.uid + 1 /\ o.generation = 1
         /\ o.status = NoStatus
      \/ o.exists /\ s.exists /\ o.uid = s.uid
         /\ o.generation = s.generation + 1 /\ o.status = s.status
      \/ ~o.exists /\ o.uid = s.uid
  BY <1>1
<1>. HIDE DEF s
<1>5. Precedes(o, o)
  BY <1>2, <1>3, <1>4 DEF Precedes
<1>6. ASSUME NEW c \in ProvisionedService, Precedes(c, s)
      PROVE  Precedes(c, o)
  <2>1. c.uid \in Nat /\ c.generation \in Nat
    BY DEF ProvisionedService
  <2>. QED
    BY <1>3, <1>4, <1>6, <2>1 DEF Precedes
<1>7. o.exists /\ o.uid = 1 => o.status.observedGeneration < o.generation
  BY <1>2, <1>3, <1>4
<1>8. o.exists /\ o.uid = 1 =>
        /\ o.status.observedGeneration <= o.generation
        /\ o.status.observedGeneration = o.generation => o.status = Asked(o)
  <2>1. o.status.observedGeneration \in Nat
    BY DEF ProvisionedService, Status
  <2>. QED
    BY <1>3, <1>7, <2>1
<1>9. \A c \in ProvisionedService : Precedes(c, stored[n]) => Precedes(c, o)
  BY <1>6 DEF s
<1>. QED
  BY <1>1, <1>5, <1>8, <1>9, ClaimStored

\* The worker's requests keep ClaimInv: the status that is stored is of a copy
\* that precedes what is stored.
LEMMA ClaimWorker ==
  ASSUME TypeOK, ClaimInv, NEW r \in Replicas, NEW n \in Names,
         updateStatus(r, n) \/ getExisting(r, n) \/ RequestFails(r, n)
  PROVE  ClaimInv'
<1>0. \A q \in Replicas, m \in Names :
        \A i \in 1..Len(view[q][m]) : Precedes(view[q][m][i], stored[m])
  BY DEF ClaimInv, Ordered
<1>1. ASSUME NEW w \in Work,
             \A q \in Replicas, m \in Names :
               work'[q][m] = IF q = r /\ m = n THEN w ELSE work[q][m],
             w.pc # "idle" => w.resource = work[r][n].resource
      PROVE  \A q \in Replicas, m \in Names :
               work'[q][m].pc # "idle" =>
                 work[q][m].pc # "idle" /\ work'[q][m].resource = work[q][m].resource
  <2>1. work[r][n].pc # "idle"
    BY WorkerSteps
  <2>. SUFFICES ASSUME NEW q \in Replicas, NEW m \in Names, work'[q][m].pc # "idle"
                PROVE  work[q][m].pc # "idle" /\ work'[q][m].resource = work[q][m].resource
    OBVIOUS
  <2>2. CASE q = r /\ m = n
    BY <1>1, <2>1, <2>2
  <2>3. CASE ~(q = r /\ m = n)
    <3>1. work'[q][m] = work[q][m]
      BY <1>1, <2>3
    <3>. QED
      BY <3>1
  <2>. QED
    BY <2>2, <2>3
<1>2. ASSUME NEW err \in BOOLEAN, Return(r, n, err)
      PROVE  \A q \in Replicas, m \in Names :
               work'[q][m].pc # "idle" =>
                 work[q][m].pc # "idle" /\ work'[q][m].resource = work[q][m].resource
  <2>1. \A q \in Replicas, m \in Names :
          work'[q][m] = IF q = r /\ m = n THEN Idle ELSE work[q][m]
    BY <1>2, Returns
  <2>. QED
    BY <1>1, <2>1, IdleType
<1>3. ASSUME UNCHANGED <<stored, view>>,
             \A q \in Replicas, m \in Names :
               work'[q][m].pc # "idle" =>
                 work[q][m].pc # "idle" /\ work'[q][m].resource = work[q][m].resource
      PROVE  ClaimInv'
  BY <1>0, <1>3, ClaimKept DEF Derived
<1>4. ASSUME NEW err \in BOOLEAN, Return(r, n, err), Store(n, Updated(r, n)),
             work[r][n].pc = "status"
      PROVE  ClaimInv'
  <2>. DEFINE o == Updated(r, n)
              s == stored[n]
              d == work[r][n].resource
  <2>1. /\ o \in ProvisionedService
        /\ o.status = d.status
        /\ o.exists = s.exists
        /\ o.uid = s.uid
        /\ o.generation = s.generation
        /\ o.binding = s.binding
    BY UpdatedType
  <2>2. /\ Precedes(d, s) /\ Precedes(s, s) /\ d.status = Asked(d)
        /\ d \in ProvisionedService /\ s \in ProvisionedService
    BY <1>4, EndTypes DEF ClaimInv, Ordered, Work
  <2>3. d.exists
    BY <1>4 DEF TypeOK, Live
  <2>4. Store(n, o)
    BY <1>4
  <2>5. \A c \in ProvisionedService : Precedes(c, s) => Precedes(c, o)
    <3>. HIDE DEF s, o
    <3>. QED
      BY <2>1 DEF Precedes
  <2>6. Precedes(o, o)
    <3>. HIDE DEF s, o
    <3>. QED
      BY <2>1, <2>2 DEF Precedes, ProvisionedService
  <2>. HIDE DEF s, o, d
  <2>7. o.exists /\ o.uid = 1 =>
          /\ o.status.observedGeneration <= o.generation
          /\ o.status.observedGeneration = o.generation => o.status = Asked(o)
    <3>. SUFFICES ASSUME s.exists, s.uid = 1
                  PROVE  /\ d.status.observedGeneration <= s.generation
                         /\ d.status.observedGeneration = s.generation =>
                              d.status = Asked(o)
      BY <2>1
    <3>1. d.uid = 1
      BY <2>2, <2>3 DEF Precedes, ProvisionedService
    <3>2. d.generation <= s.generation
          /\ (d.generation = s.generation => d.binding = s.binding)
      BY <2>2, <2>3, <3>1 DEF Precedes
    <3>3. d.status.observedGeneration = d.generation
      BY <2>2 DEF Asked
    <3>4. d.generation = s.generation => Asked(d) = Asked(o)
      BY <2>1, <3>2 DEF Asked
    <3>. QED
      BY <2>2, <3>2, <3>3, <3>4
  <2>8. \A c \in ProvisionedService : Precedes(c, stored[n]) => Precedes(c, o)
    BY <2>5 DEF s
  <2>9. \A q \in Replicas, m \in Names :
          work'[q][m].pc # "idle" =>
            work[q][m].pc # "idle" /\ work'[q][m].resource = work[q][m].resource
    BY <1>2, <1>4
  <2>. QED
    BY <2>1, <2>4, <2>6, <2>7, <2>8, <2>9, ClaimStored
<1>5. ASSUME NEW w \in Work, work' = [work EXCEPT ![r][n] = w],
             w.resource = work[r][n].resource, UNCHANGED <<stored, view>>
      PROVE  ClaimInv'
  <2>1. \A q \in Replicas, m \in Names :
          work'[q][m] = IF q = r /\ m = n THEN w ELSE work[q][m]
    <3>1. work \in [Replicas -> [Names -> Work]]
      BY DEF TypeOK
    <3>. QED
      BY <1>5, <3>1, EntryReplaced
  <2>. QED
    BY <1>1, <1>3, <1>5, <2>1
<1>6. ASSUME NEW err \in BOOLEAN, Return(r, n, err), UNCHANGED <<stored, view>>
      PROVE  ClaimInv'
  BY <1>2, <1>3, <1>6
<1>. QED
  BY <1>4, <1>5, <1>6, WorkerSteps, ZenonT(60)

\* Every step keeps ClaimInv.
LEMMA NextClaimInv ==
  ASSUME TypeOK, ClaimInv, [Next]_vars
  PROVE  ClaimInv'
<1>0. \A q \in Replicas, m \in Names :
        \A i \in 1..Len(view[q][m]) : Precedes(view[q][m][i], stored[m])
  BY DEF ClaimInv, Ordered
<1>1. ASSUME NEW r \in Replicas, NEW n \in Names, Reconcile(r, n)
      PROVE  ClaimInv'
  <2>1. UNCHANGED <<stored, view>>
    BY <1>1, Reconciles
  <2>2. CASE work' = work
    BY <1>0, <2>1, <2>2, ClaimKept DEF Derived
  <2>3. ASSUME NEW w \in Work, work' = [work EXCEPT ![r][n] = w],
               w.resource = ReconcileKind(Lister(r, n))
        PROVE  ClaimInv'
    <3>1. /\ Lister(r, n) \in ProvisionedService
          /\ Precedes(Lister(r, n), stored[n])
      BY <1>0, EndTypes DEF Lister
    <3>2. \A q \in Replicas, m \in Names :
            work'[q][m] = IF q = r /\ m = n THEN w ELSE work[q][m]
      <4>1. work \in [Replicas -> [Names -> Work]]
        BY DEF TypeOK
      <4>. QED
        BY <2>3, <4>1, EntryReplaced
    <3>3. ASSUME NEW q \in Replicas, NEW m \in Names
          PROVE  Derived(q, m)
      <4>1. CASE q = r /\ m = n
        BY <2>3, <3>1, <3>2, <4>1 DEF Derived
      <4>2. CASE ~(q = r /\ m = n)
        <5>1. work'[q][m] = work[q][m]
          BY <3>2, <4>2
        <5>. QED
          BY <5>1 DEF Derived
      <4>. QED
        BY <4>1, <4>2
    <3>. QED
      BY <1>0, <2>1, <3>3, ClaimKept
  <2>. QED
    BY <1>1, <2>2, <2>3, Reconciles
<1>2. ASSUME NEW r \in Replicas, NEW n \in Names, Deliver(r, n)
      PROVE  ClaimInv'
  <2>1. /\ UNCHANGED <<stored, work>>
        /\ \A q \in Replicas, m \in Names :
             \A i \in 1..Len(view'[q][m]) :
               \E j \in 1..Len(view[q][m]) : view'[q][m][i] = view[q][m][j]
    BY <1>2, Delivers
  <2>2. \A q \in Replicas, m \in Names :
          \A i \in 1..Len(view'[q][m]) : Precedes(view'[q][m][i], stored[m])
    <3>. SUFFICES ASSUME NEW q \in Replicas, NEW m \in Names,
                         NEW i \in 1..Len(view'[q][m])
                  PROVE  Precedes(view'[q][m][i], stored[m])
      OBVIOUS
    <3>1. PICK j \in 1..Len(view[q][m]) : view'[q][m][i] = view[q][m][j]
      BY <2>1
    <3>. QED
      BY <1>0, <3>1
  <2>. QED
    BY <2>1, <2>2, ClaimKept DEF Derived
<1>3. ASSUME NEW r \in Replicas, Restart(r)
      PROVE  ClaimInv'
  <2>1. /\ UNCHANGED stored
        /\ \A q \in Replicas \ {r} : view'[q] = view[q] /\ work'[q] = work[q]
        /\ \A m \in Names : work'[r][m] = Idle /\ Len(view'[r][m]) = 1
                            /\ view'[r][m][1] = stored[m]
    BY <1>3, Restarts
  <2>2. \A q \in Replicas, m \in Names :
          \A i \in 1..Len(view'[q][m]) : Precedes(view'[q][m][i], stored[m])
    <3>. SUFFICES ASSUME NEW q \in Replicas, NEW m \in Names,
                         NEW i \in 1..Len(view'[q][m])
                  PROVE  Precedes(view'[q][m][i], stored[m])
      OBVIOUS
    <3>1. CASE q = r
      BY <2>1, <3>1 DEF ClaimInv, Ordered
    <3>2. CASE q # r
      BY <1>0, <2>1, <3>2
    <3>. QED
      BY <3>1, <3>2
  <2>3. \A q \in Replicas, m \in Names : Derived(q, m)
    BY <2>1, IdleType DEF Derived
  <2>. QED
    BY <2>1, <2>2, <2>3, ClaimKept
<1>4. CASE Election \/ UNCHANGED vars
  <2>1. UNCHANGED <<stored, view, work>>
    BY <1>4 DEF Election, Lapse, Acquire, PromoteFunc, Demote, vars
  <2>. QED
    BY <1>0, <2>1, ClaimKept DEF Derived
<1>. QED
  BY <1>1, <1>2, <1>3, <1>4, ClaimUser, ClaimWorker DEF Next, Controller

\* A status that claims the current generation of the first object of a name
\* publishes that generation's binding, for any number of replicas, leading or
\* not, and copies of any age (updateStatus, ReconcileKind).
THEOREM CurrentClaimIsTrueAlways == Spec => []CurrentClaimIsTrue
<1>1. ClaimInv => CurrentClaimIsTrue
  BY DEF ClaimInv, Claimed, CurrentClaimIsTrue, Live
<1>2. TypeOK /\ ClaimInv /\ [Next]_vars => (TypeOK /\ ClaimInv)'
  BY NextTypeOK, NextClaimInv
<1>. QED
  BY <1>1, <1>2, InitTypeOK, InitClaimInv, PTL DEF Spec

-----------------------------------------------------------------------------
(* A leader rests only when everything is published *)

\* A worker whose key is not queued again works on what its informer has; if
\* that is what is stored, then so is the copy that it is about to write.
Fresh(r, n) ==
  work[r][n].pc # "idle" /\ n \notin queue[r] =>
    /\ work[r][n].resource = ReconcileKind(Lister(r, n))
    /\ Len(view[r][n]) = 1 => /\ work[r][n].pc = "status"
                              /\ work[r][n].existing = Lister(r, n)

\* What a promoted leader has seen and is done with is published.
Published(r, n) ==
  /\ r \in leaders \ promoting
  /\ n \notin queue[r]
  /\ work[r][n].pc = "idle"
  /\ Len(view[r][n]) = 1
  /\ Live(stored[n])
  => stored[n].status = Asked(stored[n])

QuietInv == \A r \in Replicas, n \in Names : Fresh(r, n) /\ Published(r, n)

\* No replica leads at the start.
LEMMA InitQuietInv == Init => QuietInv
<1>. SUFFICES ASSUME Init, NEW r \in Replicas, NEW n \in Names
              PROVE  Fresh(r, n) /\ Published(r, n)
  BY DEF QuietInv
<1>1. work[r][n].pc = "idle" /\ leaders = {}
  BY IdleType DEF Init
<1>. QED
  BY <1>1 DEF Fresh, Published

\* An entry that a step does not touch; whose key is queued; whose window has
\* grown.
LEMMA QuietKept ==
  ASSUME NEW q \in Replicas, NEW m \in Names, Fresh(q, m), Published(q, m),
         work'[q][m] = work[q][m], m \in queue[q] => m \in queue'[q],
         view'[q][m] = view[q][m], stored'[m] = stored[m],
         q \in leaders' \ promoting' => q \in leaders \ promoting
  PROVE  Fresh(q, m)' /\ Published(q, m)'
<1>1. Lister(q, m)' = Lister(q, m)
  BY DEF Lister
<1>2. Fresh(q, m)'
  <2>1. ReconcileKind(Lister(q, m))' = ReconcileKind(Lister(q, m))
    BY <1>1 DEF ReconcileKind
  <2>. QED
    BY <1>1, <2>1 DEF Fresh
<1>3. Published(q, m)'
  BY DEF Published, Live, Asked
<1>. QED
  BY <1>2, <1>3

\* Nothing is claimed of a key that is queued.
LEMMA QuietQueued ==
  ASSUME NEW q \in Replicas, NEW m \in Names, m \in queue'[q]
  PROVE  Fresh(q, m)' /\ Published(q, m)'
BY DEF Fresh, Published

\* Nor of one whose new version is to be delivered, but that its worker has
\* the lister's copy.
LEMMA QuietGrown ==
  ASSUME NEW q \in Replicas, NEW m \in Names, Fresh(q, m),
         Len(view'[q][m]) # 1, Lister(q, m)' = Lister(q, m),
         \/ work'[q][m].pc = "idle"
         \/ work'[q][m] = work[q][m] /\ (m \in queue[q] => m \in queue'[q])
  PROVE  Fresh(q, m)' /\ Published(q, m)'
<1>1. ReconcileKind(Lister(q, m))' = ReconcileKind(Lister(q, m))
  BY DEF ReconcileKind
<1>. QED
  BY <1>1 DEF Fresh, Published

\* A write lets every window of the object grow.
LEMMA QuietStored ==
  ASSUME TypeOK, QuietInv, NEW n \in Names, NEW o \in ProvisionedService,
         Store(n, o), UNCHANGED <<leaders, promoting>>,
         \A q \in Replicas, m \in Names :
           (m = n /\ work'[q][m] = Idle) \/ work'[q][m] = work[q][m],
         \A q \in Replicas : queue[q] \subseteq queue'[q]
  PROVE  QuietInv'
<1>. SUFFICES ASSUME NEW q \in Replicas, NEW m \in Names
              PROVE  Fresh(q, m)' /\ Published(q, m)'
  BY DEF QuietInv
<1>0. Fresh(q, m) /\ Published(q, m) /\ Len(view[q][m]) \in Nat \ {0}
  BY EndTypes DEF QuietInv
<1>1. CASE m = n
  <2>1. Len(view'[q][m]) = Len(view[q][m]) + 1 /\ Lister(q, m)' = Lister(q, m)
    BY <1>1, Stores
  <2>2. Len(view'[q][m]) # 1
    BY <1>0, <2>1
  <2>3. \/ work'[q][m].pc = "idle"
        \/ work'[q][m] = work[q][m] /\ (m \in queue[q] => m \in queue'[q])
    BY IdleType
  <2>. QED
    BY <1>0, <2>1, <2>2, <2>3, QuietGrown
<1>2. CASE m # n
  <2>1. view'[q][m] = view[q][m] /\ stored'[m] = stored[m]
    BY <1>2, Stores
  <2>2. work'[q][m] = work[q][m]
    BY <1>2
  <2>. QED
    BY <1>0, <2>1, <2>2, QuietKept
<1>. QED
  BY <1>1, <1>2

\* Reconcile keeps QuietInv.
LEMMA QuietReconcile ==
  ASSUME TypeOK, QuietInv, NEW r \in Replicas, NEW n \in Names, Reconcile(r, n)
  PROVE  QuietInv'
<1>0. /\ UNCHANGED <<stored, view, leaders, promoting>>
      /\ work[r][n].pc = "idle"
      /\ \A q \in Replicas, m \in Names :
           (q # r \/ m # n) /\ m \in queue[q] => m \in queue'[q]
  BY Reconciles
<1>1. Lister(r, n)' = Lister(r, n) /\ Lister(r, n) \in ProvisionedService
  BY <1>0, EndTypes DEF Lister
<1>2. ASSUME Fresh(r, n)', Published(r, n)',
             \A q \in Replicas, m \in Names :
               q # r \/ m # n => work'[q][m] = work[q][m]
      PROVE  QuietInv'
  <2>. SUFFICES ASSUME NEW q \in Replicas, NEW m \in Names
                PROVE  Fresh(q, m)' /\ Published(q, m)'
    BY DEF QuietInv
  <2>1. CASE q = r /\ m = n
    BY <1>2, <2>1
  <2>2. CASE q # r \/ m # n
    BY <1>0, <1>2, <2>2, QuietKept DEF QuietInv
  <2>. QED
    BY <2>1, <2>2
<1>3. CASE work' = work /\ (r \notin leaders \/ ~Live(Lister(r, n)))
  <2>1. Fresh(r, n)'
    BY <1>0, <1>3 DEF Fresh
  <2>2. Published(r, n)'
    <3>. SUFFICES ASSUME r \in leaders, Len(view[r][n]) = 1, Live(stored[n])
                  PROVE  FALSE
      BY <1>0 DEF Published, Live
    <3>. QED
      BY <1>3, EndTypes
  <2>. QED
    BY <1>2, <1>3, <2>1, <2>2
<1>4. ASSUME NEW w \in Work, work' = [work EXCEPT ![r][n] = w],
             w.pc = "status", w.existing = Lister(r, n),
             w.resource = ReconcileKind(Lister(r, n))
      PROVE  QuietInv'
  <2>1. \A q \in Replicas, m \in Names :
          work'[q][m] = IF q = r /\ m = n THEN w ELSE work[q][m]
    <3>1. work \in [Replicas -> [Names -> Work]]
      BY DEF TypeOK
    <3>. QED
      BY <1>4, <3>1, EntryReplaced
  <2>2. work'[r][n] = w
    BY <2>1
  <2>3. ReconcileKind(Lister(r, n))' = ReconcileKind(Lister(r, n))
    BY <1>1 DEF ReconcileKind
  <2>4. Fresh(r, n)' /\ Published(r, n)'
    BY <1>1, <1>4, <2>2, <2>3 DEF Fresh, Published
  <2>. QED
    BY <1>2, <2>1, <2>4
<1>. QED
  BY <1>3, <1>4, Reconciles

\* The worker's requests keep QuietInv: it returns without an error only if
\* the status is stored.
LEMMA QuietWorker ==
  ASSUME TypeOK, QuietInv, NEW r \in Replicas, NEW n \in Names,
         updateStatus(r, n) \/ getExisting(r, n) \/ RequestFails(r, n)
  PROVE  QuietInv'
<1>0. /\ UNCHANGED <<leaders, promoting>> /\ work[r][n].pc # "idle"
      /\ Fresh(r, n)
  BY WorkerSteps DEF QuietInv
<1>1. ASSUME Fresh(r, n)', Published(r, n)',
             UNCHANGED <<stored, view>>,
             \A q \in Replicas : queue[q] \subseteq queue'[q],
             NEW w,
             \A q \in Replicas, m \in Names :
               work'[q][m] = IF q = r /\ m = n THEN w ELSE work[q][m]
      PROVE  QuietInv'
  <2>. SUFFICES ASSUME NEW q \in Replicas, NEW m \in Names
                PROVE  Fresh(q, m)' /\ Published(q, m)'
    BY DEF QuietInv
  <2>1. CASE q = r /\ m = n
    BY <1>1, <2>1
  <2>2. CASE q # r \/ m # n
    <3>1. work'[q][m] = work[q][m]
      BY <1>1, <2>2
    <3>. QED
      BY <1>0, <1>1, <3>1, QuietKept DEF QuietInv
  <2>. QED
    BY <2>1, <2>2
<1>2. ASSUME NEW err \in BOOLEAN, Return(r, n, err)
      PROVE  /\ \A q \in Replicas, m \in Names :
                  work'[q][m] = IF q = r /\ m = n THEN Idle ELSE work[q][m]
             /\ \A q \in Replicas : queue[q] \subseteq queue'[q]
             /\ err => n \in queue'[r]
  BY <1>2, Returns
<1>3. CASE Return(r, n, TRUE) /\ UNCHANGED <<stored, view>>
  <2>1. n \in queue'[r]
    BY <1>2, <1>3
  <2>2. Fresh(r, n)' /\ Published(r, n)'
    BY <2>1, QuietQueued
  <2>. QED
    BY <1>1, <1>2, <1>3, <2>2
<1>4. CASE /\ work[r][n].existing.status = work[r][n].resource.status
           /\ Return(r, n, FALSE)
           /\ UNCHANGED <<stored, view>>
  <2>1. work'[r][n].pc = "idle"
    BY <1>2, <1>4, IdleType
  <2>2. Fresh(r, n)'
    BY <2>1 DEF Fresh
  <2>3. Published(r, n)'
    <3>. SUFFICES ASSUME n \notin queue'[r], Len(view[r][n]) = 1
                  PROVE  stored[n].status = Asked(stored[n])
      BY <1>4 DEF Published, Asked
    <3>1. n \notin queue[r]
      BY <1>2, <1>4
    <3>2. /\ work[r][n].existing = Lister(r, n)
          /\ work[r][n].resource = ReconcileKind(Lister(r, n))
      BY <1>0, <3>1 DEF Fresh
    <3>3. Lister(r, n) = stored[n] /\ stored[n] \in ProvisionedService
      BY EndTypes
    <3>4. ReconcileKind(stored[n]).status = Asked(stored[n])
      BY <3>3, ReconcileKindType
    <3>. QED
      BY <1>4, <3>2, <3>3, <3>4
  <2>. QED
    BY <1>1, <1>2, <1>4, <2>2, <2>3
<1>5. ASSUME NEW err \in BOOLEAN, Return(r, n, err), Store(n, Updated(r, n))
      PROVE  QuietInv'
  <2>1. \A q \in Replicas, m \in Names :
          (m = n /\ work'[q][m] = Idle) \/ work'[q][m] = work[q][m]
    BY <1>2, <1>5
  <2>. QED
    BY <1>0, <1>2, <1>5, <2>1, UpdatedType, QuietStored
<1>6. ASSUME NEW w \in Work, work' = [work EXCEPT ![r][n] = w],
             w.pc # "idle", w.resource = work[r][n].resource,
             \/ work[r][n].pc = "get"
             \/ /\ stored[n].exists
                /\ ~Unmodified(stored[n], work[r][n].existing),
             UNCHANGED <<stored, view, queue>>
      PROVE  QuietInv'
  <2>1. \A q \in Replicas, m \in Names :
          work'[q][m] = IF q = r /\ m = n THEN w ELSE work[q][m]
    <3>1. work \in [Replicas -> [Names -> Work]]
      BY DEF TypeOK
    <3>. QED
      BY <1>6, <3>1, EntryReplaced
  <2>2. n \in queue[r] \/ Len(view[r][n]) # 1
    <3>. SUFFICES ASSUME n \notin queue[r], Len(view[r][n]) = 1
                  PROVE  FALSE
      OBVIOUS
    <3>1. work[r][n].pc = "status" /\ work[r][n].existing = Lister(r, n)
      BY <1>0 DEF Fresh
    <3>2. Lister(r, n) = stored[n]
      BY EndTypes
    <3>. QED
      BY <1>6, <3>1, <3>2 DEF Unmodified
  <2>3. Lister(r, n)' = Lister(r, n)
    BY <1>6 DEF Lister
  <2>4. ReconcileKind(Lister(r, n))' = ReconcileKind(Lister(r, n))
    BY <2>3 DEF ReconcileKind
  <2>5. work'[r][n] = w
    BY <2>1
  <2>6. Fresh(r, n)' /\ Published(r, n)'
    BY <1>0, <1>6, <2>2, <2>4, <2>5 DEF Fresh, Published
  <2>. QED
    BY <1>1, <1>6, <2>1, <2>6
<1>. QED
  BY <1>3, <1>4, <1>5, <1>6, WorkerSteps

\* The elector keeps QuietInv: a replica counts as leader only after
\* PromoteFunc has queued what it lists.
LEMMA QuietElection ==
  ASSUME TypeOK, QuietInv, Election
  PROVE  QuietInv'
<1>0. UNCHANGED <<stored, view, work>>
  BY DEF Election, Lapse, Acquire, PromoteFunc, Demote
<1>. SUFFICES ASSUME NEW q \in Replicas, NEW m \in Names
              PROVE  Fresh(q, m)' /\ Published(q, m)'
  BY DEF QuietInv
<1>1. Fresh(q, m) /\ Published(q, m) /\ queue \in [Replicas -> SUBSET Names]
  BY DEF QuietInv, TypeOK
<1>2. CASE /\ m \in queue[q] => m \in queue'[q]
           /\ q \in leaders' \ promoting' => q \in leaders \ promoting
  BY <1>0, <1>1, <1>2, QuietKept
<1>3. CASE Lapse
  BY <1>2, <1>3 DEF Lapse
<1>4. ASSUME NEW r \in Replicas, Acquire(r) \/ Demote(r)
      PROVE  Fresh(q, m)' /\ Published(q, m)'
  <2>1. /\ queue' = queue
        /\ q \in leaders' \ promoting' => q \in leaders \ promoting
    BY <1>4 DEF Acquire, Demote
  <2>. QED
    BY <1>2, <2>1
<1>5. ASSUME NEW r \in Replicas, PromoteFunc(r)
      PROVE  Fresh(q, m)' /\ Published(q, m)'
  <2>1. /\ leaders' = leaders /\ promoting' = promoting \ {r}
        /\ \A p \in Replicas : queue'[p] = IF p = r THEN queue[p] \cup Promoted(r)
                                                    ELSE queue[p]
    BY <1>1, <1>5 DEF PromoteFunc
  <2>2. CASE q # r
    BY <1>2, <2>1, <2>2
  <2>3. CASE q = r /\ m \in queue'[q]
    BY <2>3, QuietQueued
  <2>4. CASE q = r /\ m \notin queue'[q]
    <3>1. m \notin queue[q] /\ ~Lister(q, m).exists
      BY <2>1, <2>4 DEF Promoted
    <3>2. Len(view[q][m]) = 1 => ~Live(stored[m])
      BY <3>1, EndTypes DEF Live
    <3>3. Published(q, m)'
      BY <1>0, <3>2 DEF Published, Live
    <3>4. Fresh(q, m)'
      BY <1>0, <1>1, <3>1 DEF Fresh, ReconcileKind, Lister
    <3>. QED
      BY <3>3, <3>4
  <2>. QED
    BY <2>2, <2>3, <2>4
<1>. QED
  BY <1>3, <1>4, <1>5 DEF Election

\* Every step keeps QuietInv.
LEMMA NextQuietInv ==
  ASSUME TypeOK, QuietInv, [Next]_vars
  PROVE  QuietInv'
<1>1. ASSUME NEW r \in Replicas, NEW n \in Names, Deliver(r, n)
      PROVE  QuietInv'
  <2>1. /\ UNCHANGED <<stored, work, leaders, promoting>>
        /\ n \in queue'[r]
        /\ \A q \in Replicas : queue[q] \subseteq queue'[q]
        /\ \A q \in Replicas, m \in Names :
             q # r \/ m # n => view'[q][m] = view[q][m]
    BY <1>1, Delivers
  <2>. SUFFICES ASSUME NEW q \in Replicas, NEW m \in Names
                PROVE  Fresh(q, m)' /\ Published(q, m)'
    BY DEF QuietInv
  <2>2. CASE q = r /\ m = n
    BY <2>1, <2>2, QuietQueued
  <2>3. CASE q # r \/ m # n
    BY <2>1, <2>3, QuietKept DEF QuietInv
  <2>. QED
    BY <2>2, <2>3
<1>2. ASSUME NEW r \in Replicas, Restart(r)
      PROVE  QuietInv'
  <2>1. /\ UNCHANGED stored
        /\ leaders' = leaders \ {r} /\ promoting' = promoting \ {r}
        /\ \A q \in Replicas \ {r} :
             view'[q] = view[q] /\ queue'[q] = queue[q] /\ work'[q] = work[q]
        /\ \A m \in Names : work'[r][m] = Idle
    BY <1>2, Restarts
  <2>. SUFFICES ASSUME NEW q \in Replicas, NEW m \in Names
                PROVE  Fresh(q, m)' /\ Published(q, m)'
    BY DEF QuietInv
  <2>2. CASE q = r
    BY <2>1, <2>2, IdleType DEF Fresh, Published
  <2>3. CASE q # r
    BY <2>1, <2>3, QuietKept DEF QuietInv
  <2>. QED
    BY <2>2, <2>3
<1>3. ASSUME NEW n \in Names, UserCreates(n) \/ UserEdits(n) \/ UserDeletes(n)
      PROVE  QuietInv'
  <2>1. PICK o \in ProvisionedService :
           Store(n, o) /\ UNCHANGED <<queue, work, leaders, promoting>>
    BY <1>3, UserSteps
  <2>. QED
    BY <2>1, QuietStored
<1>4. CASE UNCHANGED vars
  <2>1. UNCHANGED <<stored, view, work, queue, leaders, promoting>>
    BY <1>4 DEF vars
  <2>. QED
    BY <2>1, QuietKept DEF QuietInv
<1>. QED
  BY <1>1, <1>2, <1>3, <1>4, QuietReconcile, QuietWorker, QuietElection
     DEF Next, Controller

\* No change is lost, however many replicas hand over to each other: when a
\* promoted leader has seen and handled everything, every live
\* ProvisionedService publishes what its spec asks for (Reconcile's SkipKey,
\* PromoteFunc, updateStatus).
THEOREM RestsOnlyWhenPublishedAlways == Spec => []RestsOnlyWhenPublished
<1>1. TypeOK /\ QuietInv => RestsOnlyWhenPublished
  <2>. SUFFICES ASSUME TypeOK, QuietInv, Rest, NEW n \in Names, Live(stored[n])
                PROVE  stored[n].status = Asked(stored[n])
    BY DEF RestsOnlyWhenPublished
  <2>1. lease \in Replicas /\ lease \in leaders \ promoting
    BY DEF Rest, TypeOK
  <2>2. /\ n \notin queue[lease] /\ work[lease][n].pc = "idle"
        /\ Len(view[lease][n]) = 1
    BY <2>1 DEF Rest
  <2>3. Published(lease, n)
    BY <2>1 DEF QuietInv
  <2>. QED
    BY <2>1, <2>2, <2>3 DEF Published
<1>2. TypeOK /\ QuietInv /\ [Next]_vars => (TypeOK /\ QuietInv)'
  BY NextTypeOK, NextQuietInv
<1>. QED
  BY <1>1, <1>2, InitTypeOK, InitQuietInv, PTL DEF Spec

-----------------------------------------------------------------------------
(* The controller implements StatusFollower *)

\* What the refinement mapping gives StatusFollower of name n.
WantOf(n) == IF Live(stored[n]) THEN Asked(stored[n]) ELSE NoStatus
InflightOf(n) == {Asked(o) : o \in {c \in Copies(n) : Live(c)}}

Forgets(n) == InflightOf(n)' \subseteq InflightOf(n) \cup ({WantOf(n)'} \ {NoStatus})

\* No object asks for an empty status.
LEMMA NeverAsked ==
  ASSUME NEW o
  PROVE  Asked(o) # NoStatus
<1>1. Asked(o).ready = TRUE /\ NoStatus.ready = FALSE
  BY DEF Asked, NoStatus
<1>. QED
  BY <1>1, Zenon

\* An idle worker holds no copy.
LEMMA IdleNotLive == ~Live(Idle.resource)
BY DEF Live, Idle, NoService

\* Membership in Copies, spelled out.
IsCopy(c, n) ==
  \/ c = stored[n]
  \/ \E r \in Replicas : c = work[r][n].resource
  \/ \E r \in Replicas : \E i \in 1..Len(view[r][n]) : c = view[r][n][i]

CopiesSpelledOut == \A n \in Names : \A c : c \in Copies(n) <=> IsCopy(c, n)

\* Copies has exactly those members.
LEMMA CopiesMembers == TypeOK => CopiesSpelledOut
<1>. SUFFICES ASSUME TypeOK, NEW n \in Names, NEW c
              PROVE  c \in Copies(n) <=> IsCopy(c, n)
  BY DEF CopiesSpelledOut
<1>. DEFINE V(r) == {view[r][n][i] : i \in DOMAIN view[r][n]}
            U == UNION {V(r) : r \in Replicas}
            W == {work[r][n].resource : r \in Replicas}
<1>1. Copies(n) = {stored[n]} \cup U \cup W
  BY DEF Copies
<1>2. \A r \in Replicas :
        c \in V(r) <=> \E i \in 1..Len(view[r][n]) : c = view[r][n][i]
  <2>1. \A r \in Replicas : DOMAIN view[r][n] = 1..Len(view[r][n])
    BY EndTypes, VersionTypes
  <2>. QED
    BY <2>1
<1>. HIDE DEF V
<1>3. c \in U <=> \E r \in Replicas : c \in V(r)
  BY Zenon
<1>4. c \in W <=> \E r \in Replicas : c = work[r][n].resource
  BY Zenon
<1>. HIDE DEF U, W
<1>5. c \in Copies(n) <=> c = stored[n] \/ c \in W \/ c \in U
  BY <1>1
<1>. QED
  BY <1>2, <1>3, <1>4, <1>5, Zenon DEF IsCopy

\* What is stored, listed or worked on is a copy.
LEMMA CopiesOf ==
  ASSUME TypeOK, NEW n \in Names
  PROVE  /\ stored[n] \in Copies(n)
         /\ \A r \in Replicas : work[r][n].resource \in Copies(n)
         /\ \A r \in Replicas : \A i \in 1..Len(view[r][n]) :
              view[r][n][i] \in Copies(n)
<1>1. \A c : c \in Copies(n) <=> IsCopy(c, n)
  BY CopiesMembers DEF CopiesSpelledOut
<1>2. \A r \in Replicas : IsCopy(work[r][n].resource, n)
  BY DEF IsCopy
<1>3. \A r \in Replicas : \A i \in 1..Len(view[r][n]) : IsCopy(view[r][n][i], n)
  BY Zenon DEF IsCopy
<1>4. IsCopy(stored[n], n)
  BY DEF IsCopy
<1>. QED
  BY <1>1, <1>2, <1>3, <1>4, Zenon

\* Copies are dropped, taken over or made of what is stored.
LEMMA Forgetting ==
  ASSUME TypeOK, TypeOK', NEW n \in Names,
         \A q \in Replicas : \A i \in 1..Len(view'[q][n]) :
           \/ view'[q][n][i] = stored'[n]
           \/ \E j \in 1..Len(view[q][n]) : view'[q][n][i] = view[q][n][j],
         \A q \in Replicas :
           Live(work'[q][n].resource) =>
             \/ work'[q][n].resource = work[q][n].resource
             \/ work'[q][n].resource = ReconcileKind(Lister(q, n))
  PROVE  Forgets(n)
<1>. SUFFICES ASSUME NEW c \in Copies(n)', Live(c)
              PROVE  \/ \E o \in Copies(n) : Live(o) /\ Asked(c) = Asked(o)
                     \/ Live(stored'[n]) /\ c = stored'[n]
  <2>1. ASSUME NEW a \in InflightOf(n)'
        PROVE  a \in InflightOf(n) \cup ({WantOf(n)'} \ {NoStatus})
    <3>1. PICK c \in Copies(n)' : Live(c) /\ a = Asked(c)
      BY <2>1 DEF InflightOf, Live, Asked
    <3>2. CASE \E o \in Copies(n) : Live(o) /\ Asked(c) = Asked(o)
      BY <3>1, <3>2 DEF InflightOf
    <3>3. CASE Live(stored'[n]) /\ c = stored'[n]
      <4>1. WantOf(n)' = Asked(c)
        BY <3>3 DEF WantOf, Live, Asked
      <4>. QED
        BY <3>1, <4>1, NeverAsked
    <3>. QED
      BY <3>1, <3>2, <3>3
  <2>. QED
    BY <2>1 DEF Forgets
<1>1. \/ c = stored'[n]
      \/ \E r \in Replicas : c = work'[r][n].resource
      \/ \E r \in Replicas : \E i \in 1..Len(view'[r][n]) : c = view'[r][n][i]
  <2>1. TypeOK' => CopiesSpelledOut'
    BY CopiesMembers, PTL
  <2>2. IsCopy(c, n)'
    BY <2>1 DEF CopiesSpelledOut
  <2>. QED
    BY <2>2 DEF IsCopy
<1>2. CASE c = stored'[n]
  BY <1>2
<1>3. ASSUME NEW r \in Replicas, c = work'[r][n].resource
      PROVE  \E o \in Copies(n) : Live(o) /\ Asked(c) = Asked(o)
  <2>1. CASE c = work[r][n].resource
    BY <2>1, CopiesOf
  <2>2. CASE c = ReconcileKind(Lister(r, n))
    <3>1. Lister(r, n) \in ProvisionedService /\ Lister(r, n) \in Copies(n)
      BY EndTypes, CopiesOf DEF Lister
    <3>2. Live(Lister(r, n)) /\ Asked(c) = Asked(Lister(r, n))
      BY <2>2, <3>1, LiveReconciled, ReconcileKindType
    <3>. QED
      BY <3>1, <3>2
  <2>. QED
    BY <1>3, <2>1, <2>2
<1>4. ASSUME NEW r \in Replicas, NEW i \in 1..Len(view'[r][n]), c = view'[r][n][i]
      PROVE  \/ \E o \in Copies(n) : Live(o) /\ Asked(c) = Asked(o)
             \/ Live(stored'[n]) /\ c = stored'[n]
  <2>1. CASE view'[r][n][i] = stored'[n]
    BY <1>4, <2>1
  <2>2. CASE \E j \in 1..Len(view[r][n]) : view'[r][n][i] = view[r][n][j]
    BY <1>4, <2>2, CopiesOf
  <2>. QED
    BY <2>1, <2>2
<1>. QED
  BY <1>1, <1>2, <1>3, <1>4

\* A name that no write is about.
Aside(n) ==
  /\ WantOf(n)' = WantOf(n)
  /\ stored'[n].status = stored[n].status
  /\ Forgets(n)

\* A name whose object is not written, and of which no copy is made.
LEMMA KeptAside ==
  ASSUME NEW n \in Names, stored'[n] = stored[n], Forgets(n)
  PROVE  Aside(n)
BY DEF Aside, WantOf, Live, Asked

\* StatusFollower's steps, name by name.
LEMMA FollowerSteps ==
  /\ \A n \in Names :
       /\ WantOf(n)' \in Status
       /\ stored'[n].status \in {stored[n].status, NoStatus}
       /\ Forgets(n)
       /\ \A m \in Names \ {n} : Aside(m)
       => Follower!Ask(n)
  /\ \A n \in Names :
       /\ WantOf(n)' = WantOf(n)
       /\ stored'[n].status \in InflightOf(n) \cup {stored[n].status}
       /\ Forgets(n)
       /\ \A m \in Names \ {n} : Aside(m)
       => Follower!Report(n)
<1>1. ASSUME NEW m \in Names, Aside(m)
      PROVE  Follower!Forget(m)
  BY <1>1 DEF Follower!Forget, Aside, Forgets, WantOf, InflightOf
<1>2. ASSUME NEW n \in Names, \A m \in Names \ {n} : Aside(m)
      PROVE  Follower!Others(n)
  BY <1>1, <1>2 DEF Follower!Others, Aside, WantOf
<1>3. ASSUME NEW n \in Names, Forgets(n)
      PROVE  Follower!Forget(n)
  BY <1>3 DEF Follower!Forget, Forgets, WantOf, InflightOf
<1>4. ASSUME NEW n \in Names, WantOf(n)' \in Status,
             stored'[n].status \in {stored[n].status, NoStatus},
             Forgets(n), \A m \in Names \ {n} : Aside(m)
      PROVE  Follower!Ask(n)
  BY <1>2, <1>3, <1>4 DEF Follower!Ask, WantOf
<1>5. ASSUME NEW n \in Names, WantOf(n)' = WantOf(n),
             stored'[n].status \in InflightOf(n) \cup {stored[n].status},
             Forgets(n), \A m \in Names \ {n} : Aside(m)
      PROVE  Follower!Report(n)
  BY <1>2, <1>3, <1>5 DEF Follower!Report, WantOf, InflightOf
<1>. QED
  BY <1>4, <1>5

\* A step that stores nothing reports nothing new.
LEMMA FollowerKept ==
  ASSUME TypeOK, TypeOK', UNCHANGED stored,
         \A q \in Replicas, n \in Names : \A i \in 1..Len(view'[q][n]) :
           \/ view'[q][n][i] = stored'[n]
           \/ \E j \in 1..Len(view[q][n]) : view'[q][n][i] = view[q][n][j],
         \A q \in Replicas, n \in Names :
           Live(work'[q][n].resource) =>
             \/ work'[q][n].resource = work[q][n].resource
             \/ work'[q][n].resource = ReconcileKind(Lister(q, n))
  PROVE  [Follower!Next]_(Follower!vars)
<1>1. \A m \in Names : Aside(m)
  <2>. SUFFICES ASSUME NEW m \in Names PROVE Aside(m)
    OBVIOUS
  <2>1. Forgets(m)
    BY Forgetting
  <2>. QED
    BY <2>1, KeptAside
<1>2. CASE Names = {}
  <2>1. UNCHANGED Follower!vars
    BY <1>2 DEF Follower!vars
  <2>. QED
    BY <2>1
<1>3. ASSUME NEW n \in Names
      PROVE  [Follower!Next]_(Follower!vars)
  <2>1. Follower!Report(n)
    BY <1>1, FollowerSteps DEF Aside
  <2>. QED
    BY <2>1 DEF Follower!Next
<1>. QED
  BY <1>2, <1>3

\* A write: another name's copies stay, and so do the workers' copies.
LEMMA FollowerStored ==
  ASSUME TypeOK, TypeOK', NEW n \in Names, NEW o \in ProvisionedService,
         Store(n, o),
         \A q \in Replicas, m \in Names :
           work'[q][m] = Idle \/ work'[q][m] = work[q][m]
  PROVE  Forgets(n) /\ \A m \in Names \ {n} : Aside(m)
<1>1. /\ stored'[n] = o
      /\ \A m \in Names \ {n} : stored'[m] = stored[m]
      /\ \A r \in Replicas, m \in Names \ {n} : view'[r][m] = view[r][m]
      /\ \A r \in Replicas :
           /\ Len(view'[r][n]) = Len(view[r][n]) + 1
           /\ \A i \in 1..Len(view[r][n]) : view'[r][n][i] = view[r][n][i]
           /\ view'[r][n][Len(view[r][n]) + 1] = o
  BY Stores
<1>2. ASSUME NEW m \in Names
      PROVE  Forgets(m)
  <2>1. ASSUME NEW q \in Replicas, NEW i \in 1..Len(view'[q][m])
        PROVE  \/ view'[q][m][i] = stored'[m]
               \/ \E j \in 1..Len(view[q][m]) : view'[q][m][i] = view[q][m][j]
    <3>0. Len(view[q][m]) \in Nat
      BY EndTypes
    <3>1. CASE m # n
      BY <1>1, <3>1
    <3>2. CASE m = n /\ i = Len(view[q][n]) + 1
      BY <1>1, <3>2
    <3>3. CASE m = n /\ i \in 1..Len(view[q][n])
      <4>1. view'[q][m][i] = view[q][m][i]
        BY <1>1, <3>3
      <4>. QED
        BY <3>3, <4>1
    <3>4. m = n => i = Len(view[q][n]) + 1 \/ i \in 1..Len(view[q][n])
      BY <1>1, <3>0
    <3>. QED
      BY <3>1, <3>2, <3>3, <3>4
  <2>2. \A q \in Replicas :
          Live(work'[q][m].resource) => work'[q][m].resource = work[q][m].resource
    BY IdleNotLive
  <2>. QED
    BY <2>1, <2>2, Forgetting
<1>. QED
  BY <1>1, <1>2, KeptAside

\* A change by a user asks for something.
LEMMA FollowerUser ==
  ASSUME TypeOK, TypeOK', NEW n \in Names,
         UserCreates(n) \/ UserEdits(n) \/ UserDeletes(n)
  PROVE  Follower!Ask(n)
<1>1. PICK o \in ProvisionedService :
        /\ Store(n, o) /\ work' = work
        /\ o.status \in {stored[n].status, NoStatus}
  BY UserSteps
<1>2. Forgets(n) /\ \A m \in Names \ {n} : Aside(m)
  BY <1>1, FollowerStored
<1>3. stored'[n] = o
  BY <1>1, Stores
<1>4. WantOf(n)' \in Status
  BY <1>3 DEF WantOf, Asked, NoStatus, Status, ProvisionedService
<1>. QED
  BY <1>1, <1>2, <1>3, <1>4, FollowerSteps

\* What updateStatus stores is what its copy asks for.
LEMMA FollowerUpdated ==
  ASSUME TypeOK, TypeOK', ClaimInv, NEW r \in Replicas, NEW n \in Names,
         work[r][n].pc = "status", Store(n, Updated(r, n)),
         NEW err \in BOOLEAN, Return(r, n, err)
  PROVE  Follower!Report(n)
<1>. DEFINE o == Updated(r, n)
            s == stored[n]
            d == work[r][n].resource
<1>1. /\ o \in ProvisionedService
      /\ o.status = d.status
      /\ o.exists = s.exists
      /\ o.deleting = s.deleting
      /\ o.generation = s.generation
      /\ o.binding = s.binding
  BY UpdatedType
<1>2. \A q \in Replicas, m \in Names :
        work'[q][m] = Idle \/ work'[q][m] = work[q][m]
  BY Returns
<1>3. Store(n, o)
  OBVIOUS
<1>. HIDE DEF o
<1>4. Forgets(n) /\ \A m \in Names \ {n} : Aside(m)
  BY <1>1, <1>2, <1>3, FollowerStored
<1>5. stored'[n] = o
  BY <1>1, <1>3, Stores
<1>6. WantOf(n)' = WantOf(n)
  <2>1. Live(o) <=> Live(s)
    BY <1>1, Zenon DEF Live
  <2>2. Asked(o) = Asked(s)
    BY <1>1 DEF Asked
  <2>3. WantOf(n)' = IF Live(o) THEN Asked(o) ELSE NoStatus
    BY <1>5 DEF WantOf, Live, Asked
  <2>. QED
    BY <2>1, <2>2, <2>3 DEF WantOf
<1>7. o.status \in InflightOf(n)
  <2>1. d \in Copies(n) /\ Live(d)
    BY CopiesOf DEF TypeOK
  <2>2. d.status = Asked(d)
    BY DEF ClaimInv, Ordered
  <2>. QED
    BY <1>1, <2>1, <2>2 DEF InflightOf
<1>. QED
  BY <1>4, <1>5, <1>6, <1>7, FollowerSteps

\* Every step is one of StatusFollower, or stutters.
LEMMA FollowerNext ==
  ASSUME TypeOK, TypeOK', ClaimInv, [Next]_vars
  PROVE  [Follower!Next]_(Follower!vars)
<1>1. ASSUME NEW r \in Replicas, NEW n \in Names, Reconcile(r, n)
      PROVE  [Follower!Next]_(Follower!vars)
  <2>1. UNCHANGED <<stored, view>>
    BY <1>1, Reconciles
  <2>2. \A q \in Replicas, m \in Names :
          \/ work'[q][m].resource = work[q][m].resource
          \/ work'[q][m].resource = ReconcileKind(Lister(q, m))
    <3>1. CASE work' = work
      BY <3>1
    <3>2. ASSUME NEW w \in Work, work' = [work EXCEPT ![r][n] = w],
                 w.resource = ReconcileKind(Lister(r, n))
          PROVE  \A q \in Replicas, m \in Names :
                   \/ work'[q][m].resource = work[q][m].resource
                   \/ work'[q][m].resource = ReconcileKind(Lister(q, m))
      <4>1. \A q \in Replicas, m \in Names :
              work'[q][m] = IF q = r /\ m = n THEN w ELSE work[q][m]
        <5>1. work \in [Replicas -> [Names -> Work]]
          BY DEF TypeOK
        <5>. QED
          BY <3>2, <5>1, EntryReplaced
      <4>. QED
        BY <3>2, <4>1
    <3>. QED
      BY <1>1, <3>1, <3>2, Reconciles
  <2>. QED
    BY <2>1, <2>2, FollowerKept
<1>2. ASSUME NEW r \in Replicas, NEW n \in Names,
             updateStatus(r, n) \/ getExisting(r, n) \/ RequestFails(r, n)
      PROVE  [Follower!Next]_(Follower!vars)
  <2>1. ASSUME NEW err \in BOOLEAN, Return(r, n, err), UNCHANGED <<stored, view>>
        PROVE  [Follower!Next]_(Follower!vars)
    <3>1. \A q \in Replicas, m \in Names :
            work'[q][m] = Idle \/ work'[q][m] = work[q][m]
      BY <2>1, Returns
    <3>2. \A q \in Replicas, m \in Names :
            Live(work'[q][m].resource) => work'[q][m].resource = work[q][m].resource
      BY <3>1, IdleNotLive
    <3>. QED
      BY <2>1, <3>2, FollowerKept
  <2>2. ASSUME NEW err \in BOOLEAN, Return(r, n, err), Store(n, Updated(r, n)),
               work[r][n].pc = "status"
        PROVE  [Follower!Next]_(Follower!vars)
    BY <2>2, FollowerUpdated DEF Follower!Next
  <2>3. ASSUME NEW w \in Work, work' = [work EXCEPT ![r][n] = w],
               w.resource = work[r][n].resource, UNCHANGED <<stored, view>>
        PROVE  [Follower!Next]_(Follower!vars)
    <3>1. \A q \in Replicas, m \in Names :
            work'[q][m] = IF q = r /\ m = n THEN w ELSE work[q][m]
      <4>1. work \in [Replicas -> [Names -> Work]]
        BY DEF TypeOK
      <4>. QED
        BY <2>3, <4>1, EntryReplaced
    <3>2. \A q \in Replicas, m \in Names :
            work'[q][m].resource = work[q][m].resource
      BY <2>3, <3>1
    <3>. QED
      BY <2>3, <3>2, FollowerKept
  <2>. QED
    BY <1>2, <2>1, <2>2, <2>3, WorkerSteps, ZenonT(60)
<1>3. ASSUME NEW r \in Replicas, NEW n \in Names, Deliver(r, n)
      PROVE  [Follower!Next]_(Follower!vars)
  <2>1. /\ UNCHANGED <<stored, work>>
        /\ \A q \in Replicas, m \in Names :
             \A i \in 1..Len(view'[q][m]) :
               \E j \in 1..Len(view[q][m]) : view'[q][m][i] = view[q][m][j]
    BY <1>3, Delivers
  <2>. QED
    BY <2>1, FollowerKept
<1>4. ASSUME NEW r \in Replicas, Restart(r)
      PROVE  [Follower!Next]_(Follower!vars)
  <2>1. /\ UNCHANGED stored
        /\ \A q \in Replicas \ {r} : view'[q] = view[q] /\ work'[q] = work[q]
        /\ \A m \in Names : work'[r][m] = Idle /\ Len(view'[r][m]) = 1
                            /\ view'[r][m][1] = stored[m]
    BY <1>4, Restarts
  <2>2. ASSUME NEW q \in Replicas, NEW m \in Names, NEW i \in 1..Len(view'[q][m])
        PROVE  \/ view'[q][m][i] = stored'[m]
               \/ \E j \in 1..Len(view[q][m]) : view'[q][m][i] = view[q][m][j]
    <3>1. CASE q = r
      BY <2>1, <3>1
    <3>2. CASE q # r
      BY <2>1, <3>2
    <3>. QED
      BY <3>1, <3>2
  <2>3. \A q \in Replicas, m \in Names :
          Live(work'[q][m].resource) => work'[q][m].resource = work[q][m].resource
    BY <2>1, IdleNotLive
  <2>. QED
    BY <2>1, <2>2, <2>3, FollowerKept
<1>5. CASE Election \/ UNCHANGED vars
  <2>1. UNCHANGED <<stored, view, work>>
    BY <1>5 DEF Election, Lapse, Acquire, PromoteFunc, Demote, vars
  <2>. QED
    BY <2>1, FollowerKept
<1>6. ASSUME NEW n \in Names, UserCreates(n) \/ UserEdits(n) \/ UserDeletes(n)
      PROVE  [Follower!Next]_(Follower!vars)
  BY <1>6, FollowerUser DEF Follower!Next
<1>. QED
  BY <1>1, <1>2, <1>3, <1>4, <1>5, <1>6 DEF Next, Controller

\* The initial state is one of StatusFollower.
LEMMA FollowerInit == Init => Follower!Init
<1>. SUFFICES ASSUME Init PROVE Follower!Init
  OBVIOUS
<1>0. TypeOK
  BY InitTypeOK
<1>1. \A n \in Names : stored[n] = NoService(0)
  BY DEF Init
<1>2. ~Live(NoService(0)) /\ NoService(0).status = NoStatus
  BY DEF Live, NoService
<1>3. \A n \in Names : WantOf(n) = NoStatus /\ stored[n].status = NoStatus
  BY <1>1, <1>2 DEF WantOf
<1>4. ASSUME NEW n \in Names
      PROVE  InflightOf(n) = {}
  <2>1. ASSUME NEW c \in Copies(n)
        PROVE  ~Live(c)
    <3>1. IsCopy(c, n)
      BY <1>0, CopiesMembers DEF CopiesSpelledOut
    <3>2. \A r \in Replicas : work[r][n] = Idle
      BY DEF Init
    <3>3. \A r \in Replicas : Len(view[r][n]) = 1 /\ view[r][n][1] = NoService(0)
      <4>. DEFINE w == <<NoService(0)>>
      <4>1. Len(w) = 1 /\ w[1] = NoService(0)
        OBVIOUS
      <4>2. \A r \in Replicas : view[r][n] = w
        BY DEF Init
      <4>. HIDE DEF w
      <4>. QED
        BY <4>1, <4>2
    <3>. QED
      BY <1>1, <1>2, <3>1, <3>2, <3>3, IdleNotLive DEF IsCopy
  <2>. QED
    BY <2>1 DEF InflightOf
<1>. QED
  BY <1>3, <1>4 DEF Follower!Init, WantOf, InflightOf

\* The controller implements the safety part of StatusFollower, for any
\* number of replicas and objects: a status is only ever overwritten by what
\* some copy of the object, in an informer or in a worker's hands, asks for,
\* and what every copy has forgotten does not come back (ReconcileKind,
\* updateStatus, Restart).
THEOREM Implements == Spec => ImplementsFollower
<1>1. TypeOK /\ ClaimInv /\ [Next]_vars => (TypeOK /\ ClaimInv)'
  BY NextTypeOK, NextClaimInv
<1>2. TypeOK /\ TypeOK' /\ ClaimInv /\ [Next]_vars => [Follower!Next]_(Follower!vars)
  BY FollowerNext
<1>. QED
  BY <1>1, <1>2, InitTypeOK, InitClaimInv, FollowerInit, PTL
     DEF Spec, ImplementsFollower, Follower!Spec
=============================================================================
