--------------------- MODULE ProjectionControllerProofs ---------------------
(***************************************************************************)
(* Theorems about ProjectionController, for any projections, workloads and *)
(* secrets, any selection of the webhook and any bounds.                   *)
(***************************************************************************)
EXTENDS ProjectionController, WindowTheorems

\* A worker has a copy that lives or bears the finalizer, from the start on:
\* TypeOK says so of its later steps only and does not survive by itself.
WorkOK(k) ==
  k.pc \notin {"idle", "status"} => Live(k.resource) \/ k.resource.finalizer

TypeInv == TypeOK /\ \A n \in Names : WorkOK(work[n])

\* The worker's copy of p differs from it in the status only.
Same(q, p) ==
  /\ q.exists = p.exists /\ q.deleting = p.deleting
  /\ q.finalizer = p.finalizer /\ q.generation = p.generation
  /\ q.resourceVersion = p.resourceVersion
  /\ q.workload = p.workload /\ q.binding = p.binding

\* The status of a projection that is reflected in its workloads.
Achieved(p) ==
  [observedGeneration |-> p.generation, ready |-> "True", reason |-> ""]

\* With the tracker ts and the windows ls of the workloads: of the workloads
\* outside of rest, those of p that have no event to deliver bear its secret,
\* and an event of any of them wakes the worker up.
Reflected(ts, ls, n, p, rest) ==
  /\ n \in ts[p.workload]
  /\ \A w \in Workloads \ rest :
       (GetSubject(p, w) /\ Len(ls[w]) = 1 /\ ls[w][1].exists)
         => ls[w][1].bound[n] = p.binding

\* What the worker k of n has achieved for the projection p, the patches of the
\* workloads in os having been overruled.
Underway(ts, ls, os, n, k, p) ==
  /\ k.original = p
  /\ Same(k.resource, p)
  /\ k.pc = "removeFinalizer" => p.deleting
  /\ (k.pc = "patch" /\ ~k.failed /\ Live(p)) =>
       Reflected(ts, ls, n, p, k.referents \cup os)
  /\ (k.pc = "status" /\ ~k.failed /\ Live(p)) =>
       k.resource.status = Achieved(p) /\ Reflected(ts, ls, n, p, os)

\* As long as no event of the projection waits and its key was not skipped,
\* the worker's copy is current, and an idle worker has left nothing undone
\* but what was overruled.
Served(n) ==
  (n \notin queue /\ n \notin skipped /\ Len(projs[n]) = 1) =>
    /\ (work[n].pc = "idle" /\ Live(Lister(n))) =>
         /\ Lister(n).status = Achieved(Lister(n))
         /\ Reflected(tracked, loads, n, Lister(n), overruled[n])
    /\ work[n].pc # "idle" =>
         Underway(tracked, loads, overruled[n], n, work[n], Lister(n))

\* Every projection that exists refers to a workload.
Referred(n) ==
  \A i \in 1..Len(projs[n]) : projs[n][i].exists => projs[n][i].workload \in References

RestInv == \A n \in Names : Served(n) /\ Referred(n)

-----------------------------------------------------------------------------
(***************************************************************************)
(* The windows.                                                            *)
(***************************************************************************)

\* What the window of a projection holds.
LEMMA ProjTypes ==
  ASSUME TypeOK, NEW n \in Names
  PROVE  /\ projs[n] \in Seq(Projection) /\ projs[n] # << >>
         /\ Len(projs[n]) \in Nat \ {0}
         /\ \A i \in 1..Len(projs[n]) : projs[n][i] \in Projection
         /\ Lister(n) \in Projection
         /\ Server(n) \in Projection
<1>1. projs[n] \in Seq(Projection) /\ projs[n] # << >>
  BY DEF TypeOK
<1>. QED
  BY <1>1, VersionTypes DEF Lister, Server

\* What the window of a workload holds.
LEMMA LoadTypes ==
  ASSUME TypeOK, NEW w \in Workloads
  PROVE  /\ loads[w] \in Seq(Workload) /\ loads[w] # << >>
         /\ Len(loads[w]) \in Nat \ {0}
         /\ Cached(w) \in Workload
         /\ Current(w) \in Workload
<1>1. loads[w] \in Seq(Workload) /\ loads[w] # << >>
  BY DEF TypeOK
<1>. QED
  BY <1>1, VersionTypes DEF Cached, Current

\* A window longer than one is not of length one.
LEMMA Longer == \A k \in Nat \ {0} : k + 1 \in Nat \ {0} /\ k + 1 # 1
OBVIOUS

\* No projection is a projection, and does not exist.
LEMMA NoProjectionType ==
  ASSUME NEW v \in Nat
  PROVE  NoProjection(v) \in Projection /\ NoProjection(v).exists = FALSE
BY DEF NoProjection, Projection, NoStatus, Status

\* What Store does to the windows: one version more for n, which refers to
\* the workload of what was stored.
LEMMA StoreWindows ==
  ASSUME TypeOK, NEW n \in Names, NEW p \in Projection, Store(n, p)
  PROVE  /\ projs' \in [Names -> Seq(Projection)]
         /\ \A m \in Names : projs'[m] # << >>
         /\ \A m \in Names \ {n} : projs'[m] = projs[m]
         /\ Len(projs'[n]) = Len(projs[n]) + 1
         /\ Len(projs'[n]) # 1
         /\ \A i \in 1..Len(projs[n]) : projs'[n][i] = projs[n][i]
         /\ Lister(n)' = Lister(n)
         /\ projs'[n][Len(projs[n]) + 1].exists =>
              p.exists /\ projs'[n][Len(projs[n]) + 1].workload = p.workload
<1>. DEFINE o == IF p.deleting /\ ~p.finalizer
                 THEN NoProjection(p.resourceVersion + 1)
                 ELSE [p EXCEPT !.resourceVersion = @ + 1]
<1>1. /\ projs \in [Names -> Seq(Projection)] /\ \A m \in Names : projs[m] # << >>
      /\ projs' = [projs EXCEPT ![n] = Append(projs[n], o)]
  BY DEF TypeOK, Store
<1>2. p.resourceVersion + 1 \in Nat
  BY DEF Projection
<1>3. o \in Projection /\ (o.exists => p.exists /\ o.workload = p.workload)
  <2>1. CASE p.deleting /\ ~p.finalizer
    BY <2>1, <1>2, NoProjectionType
  <2>2. CASE ~(p.deleting /\ ~p.finalizer)
    <3>1. o = [p EXCEPT !.resourceVersion = p.resourceVersion + 1]
      BY <2>2
    <3>. QED
      BY <3>1, <1>2 DEF Projection
  <2>. QED
    BY <2>1, <2>2
<1>. HIDE DEF o
<1>4. projs[n] \in Seq(Projection) /\ projs[n] # << >> /\ Len(projs[n]) \in Nat \ {0}
  BY <1>1, ProjTypes
<1>5. /\ projs'[n] = Append(projs[n], o)
      /\ \A m \in Names \ {n} : projs'[m] = projs[m]
  BY <1>1
<1>6. /\ Append(projs[n], o) \in Seq(Projection)
      /\ Append(projs[n], o) # << >>
      /\ Len(Append(projs[n], o)) = Len(projs[n]) + 1
      /\ \A i \in 1..Len(projs[n]) : Append(projs[n], o)[i] = projs[n][i]
      /\ Append(projs[n], o)[1] = projs[n][1]
      /\ Append(projs[n], o)[Len(projs[n]) + 1] = o
  BY <1>3, <1>4, VersionAppended, ZenonT(40)
<1>7. projs' \in [Names -> Seq(Projection)]
  BY <1>1, <1>6
<1>8. \A m \in Names : projs'[m] # << >>
  BY <1>1, <1>5, <1>6, Zenon
<1>9. Len(projs'[n]) = Len(projs[n]) + 1 /\ Len(projs'[n]) # 1
  BY <1>4, <1>5, <1>6, Longer, Zenon
<1>10. \A i \in 1..Len(projs[n]) : projs'[n][i] = projs[n][i]
  BY <1>5, <1>6, Zenon
<1>11. Lister(n)' = Lister(n)
  BY <1>5, <1>6, Zenon DEF Lister
<1>12. projs'[n][Len(projs[n]) + 1].exists =>
         p.exists /\ projs'[n][Len(projs[n]) + 1].workload = p.workload
  BY <1>3, <1>5, <1>6, Zenon
<1>. QED
  BY <1>5, <1>7, <1>8, <1>9, <1>10, <1>11, <1>12

\* What StoreWorkload does to the windows: the workload has an event to
\* deliver unless it already is as requested.
LEMMA StoreLoads ==
  ASSUME TypeOK, NEW w \in Workloads, NEW load \in Workload, StoreWorkload(w, load)
  PROVE  /\ loads' \in [Workloads -> Seq(Workload)]
         /\ \A v \in Workloads : loads'[v] # << >>
         /\ \A v \in Workloads \ {w} : loads'[v] = loads[v]
         /\ \/ loads' = loads /\ load = Current(w)
            \/ Len(loads'[w]) # 1
<1>0. loads \in [Workloads -> Seq(Workload)] /\ \A v \in Workloads : loads[v] # << >>
  BY DEF TypeOK
<1>1. CASE load = Current(w) /\ loads' = loads
  BY <1>0, <1>1
<1>2. CASE loads' = [loads EXCEPT ![w] = Append(loads[w], load)]
  <2>1. loads[w] \in Seq(Workload) /\ loads[w] # << >> /\ Len(loads[w]) \in Nat \ {0}
    BY LoadTypes
  <2>2. /\ Append(loads[w], load) \in Seq(Workload)
        /\ Append(loads[w], load) # << >>
        /\ Len(Append(loads[w], load)) = Len(loads[w]) + 1
    BY <2>1, VersionAppended
  <2>3. /\ loads'[w] = Append(loads[w], load)
        /\ \A v \in Workloads \ {w} : loads'[v] = loads[v]
    BY <1>0, <1>2
  <2>4. loads' \in [Workloads -> Seq(Workload)]
    BY <1>0, <1>2, <2>2
  <2>5. \A v \in Workloads : loads'[v] # << >>
    BY <1>0, <2>2, <2>3, Zenon
  <2>6. Len(loads'[w]) # 1
    BY <2>1, <2>2, <2>3, Longer, Zenon
  <2>. QED
    BY <2>3, <2>4, <2>5, <2>6
<1>. QED
  BY <1>1, <1>2 DEF StoreWorkload

-----------------------------------------------------------------------------
(***************************************************************************)
(* What a step makes of the worker that takes it.                          *)
(***************************************************************************)

\* Reconcile begins with the lister's copy.
Begun(p) ==
  [pc |-> IF p.deleting \/ p.finalizer THEN "subject" ELSE "finalizer",
   original |-> p,
   resource |-> IF p.deleting THEN p ELSE InitializeConditions(p),
   referents |-> {}, failed |-> FALSE]

At(k, pc) == [k EXCEPT !.pc = pc]
Failed(k) == [k EXCEPT !.pc = "status", !.failed = TRUE]
Without(k, w, failed) == [k EXCEPT !.referents = @ \ {w}, !.failed = failed]

\* The workloads that Reconcile finds for p.
Found(p) == {w \in Workloads : Cached(w).exists /\ GetSubject(p, w)}
NotFound(p) == p.workload # Everything /\ Found(p) = {}

LookedUp(n, k) ==
  [k EXCEPT
     !.resource = IF NotFound(k.resource)
                  THEN MarkBindingUnavailable(k.resource, "SubjectMissing")
                  ELSE k.resource,
     !.failed = NotFound(k.resource) /\ ~k.resource.deleting,
     !.pc = IF ~NotFound(k.resource) THEN "patch"
            ELSE IF k.resource.deleting THEN "removeFinalizer" ELSE "status",
     !.referents = {w \in Found(k.resource) : Cached(w).bound[n] # Mutation(k.resource)}]

Concluded(k) ==
  [k EXCEPT
     !.resource = IF k.failed THEN MarkBindingUnavailable(k.resource, "BindingFailed")
                  ELSE IF k.resource.deleting THEN MarkBindingAvailable(k.resource)
                  ELSE SetObservedGeneration(MarkBindingAvailable(k.resource)),
     !.pc = IF k.resource.deleting /\ ~k.failed THEN "removeFinalizer" ELSE "status"]

\* The status setters return a projection that differs in its status only.
LEMMA InitializeType ==
  ASSUME NEW p \in Projection
  PROVE  InitializeConditions(p) \in Projection /\ Same(InitializeConditions(p), p)
BY DEF InitializeConditions, Projection, Status, Same

\* MarkBindingAvailable makes it ready, without a reason.
LEMMA AvailableType ==
  ASSUME NEW p \in Projection
  PROVE  /\ MarkBindingAvailable(p) \in Projection /\ Same(MarkBindingAvailable(p), p)
         /\ MarkBindingAvailable(p).status.ready = "True"
         /\ MarkBindingAvailable(p).status.reason = ""
BY DEF MarkBindingAvailable, Projection, Status, Same

\* MarkBindingUnavailable gives a reason that Renamed knows.
LEMMA UnavailableType ==
  ASSUME NEW p \in Projection, NEW reason \in {"SubjectMissing", "BindingFailed"}
  PROVE  /\ MarkBindingUnavailable(p, reason) \in Projection
         /\ Same(MarkBindingUnavailable(p, reason), p)
<1>1. Renamed(reason) \in {"", "WorkloadMissing", "BindingFailed"}
  BY DEF Renamed
<1>. QED
  BY <1>1 DEF MarkBindingUnavailable, Projection, Status, Same

\* SetObservedGeneration completes the status of a bound projection.
LEMMA ObservedType ==
  ASSUME NEW p \in Projection, p.status.ready = "True", p.status.reason = ""
  PROVE  /\ SetObservedGeneration(p) \in Projection /\ Same(SetObservedGeneration(p), p)
         /\ SetObservedGeneration(p).status = Achieved(p)
BY DEF SetObservedGeneration, Projection, Status, Same, Achieved

\* Copies of the same projection are alike in all that matters to WorkOK.
LEMMA SameLive ==
  ASSUME NEW q, NEW p, Same(q, p)
  PROVE  (Live(q) <=> Live(p)) /\ q.finalizer = p.finalizer /\ q.deleting = p.deleting
BY DEF Same, Live

\* To be the same but for the status is transitive.
LEMMA SameTrans ==
  ASSUME NEW q, NEW p, NEW r, Same(q, p), Same(p, r)
  PROVE  Same(q, r)
BY DEF Same

\* And reflexive.
LEMMA SameSelf == \A p : Same(p, p)
BY DEF Same

\* The fields of a worker.
LEMMA WorkTypes ==
  ASSUME NEW k \in Work
  PROVE  /\ k.original \in Projection /\ k.resource \in Projection
         /\ k.referents \in SUBSET Workloads /\ k.failed \in BOOLEAN
         /\ k.pc \in {"idle", "finalizer", "subject", "patch", "removeFinalizer", "status"}
         /\ k.resource.deleting \in BOOLEAN
BY DEF Work, Projection

\* A worker that has begun holds the lister's copy and has touched nothing.
LEMMA BegunOK ==
  ASSUME NEW p \in Projection, Live(p) \/ p.finalizer
  PROVE  /\ Begun(p) \in Work /\ WorkOK(Begun(p))
         /\ Begun(p).pc \in {"subject", "finalizer"}
         /\ Begun(p).original = p /\ Same(Begun(p).resource, p)
<1>. DEFINE r == IF p.deleting THEN p ELSE InitializeConditions(p)
            c == IF p.deleting \/ p.finalizer THEN "subject" ELSE "finalizer"
<1>1. r \in Projection /\ Same(r, p)
  BY InitializeType, SameSelf
<1>2. c \in {"subject", "finalizer"}
  OBVIOUS
<1>3. Begun(p) = [pc |-> c, original |-> p, resource |-> r, referents |-> {},
                  failed |-> FALSE]
  BY DEF Begun
<1>. HIDE DEF r, c
<1>4. Begun(p) \in Work
  BY <1>1, <1>2, <1>3 DEF Work
<1>5. Begun(p).resource = r /\ Begun(p).pc = c /\ Begun(p).original = p
  BY <1>3
<1>6. WorkOK(Begun(p))
  BY <1>1, <1>5, SameLive DEF WorkOK
<1>. QED
  BY <1>1, <1>2, <1>4, <1>5, <1>6

\* A worker at its next step.
LEMMA AtOK ==
  ASSUME NEW k \in Work, NEW pc \in {"subject", "status"},
         pc = "status" \/ Live(k.resource) \/ k.resource.finalizer
  PROVE  At(k, pc) \in Work /\ WorkOK(At(k, pc))
BY DEF At, Work, WorkOK

\* A worker that has failed holds what it held.
LEMMA FailedOK ==
  ASSUME NEW k \in Work
  PROVE  /\ Failed(k) \in Work /\ WorkOK(Failed(k))
         /\ Failed(k).original = k.original /\ Failed(k).resource = k.resource
         /\ Failed(k).pc = "status" /\ Failed(k).failed = TRUE
BY DEF Failed, Work, WorkOK

\* A worker that is done with one workload.
LEMMA WithoutOK ==
  ASSUME NEW k \in Work, WorkOK(k), NEW w, NEW f \in BOOLEAN
  PROVE  /\ Without(k, w, f) \in Work /\ WorkOK(Without(k, w, f))
         /\ Without(k, w, f).original = k.original
         /\ Without(k, w, f).resource = k.resource
         /\ Without(k, w, f).pc = k.pc /\ Without(k, w, f).failed = f
         /\ Without(k, w, f).referents = k.referents \ {w}
BY DEF Without, Work, WorkOK

\* After the lookup there are workloads to patch, or the subject is missing:
\* then the finalizer goes, or the worker has failed.
LEMMA LookedUpOK ==
  ASSUME TypeOK, NEW n \in Names, NEW k \in Work, WorkOK(k), k.pc = "subject"
  PROVE  /\ LookedUp(n, k) \in Work /\ WorkOK(LookedUp(n, k))
         /\ LookedUp(n, k).original = k.original
         /\ Same(LookedUp(n, k).resource, k.resource)
         /\ LookedUp(n, k).pc = "removeFinalizer" => k.resource.deleting
         /\ LookedUp(n, k).pc = "status" => LookedUp(n, k).failed
         /\ LookedUp(n, k).pc # "idle"
         /\ LookedUp(n, k).referents =
              {w \in Found(k.resource) : Cached(w).bound[n] # Mutation(k.resource)}
<1>. DEFINE r == IF NotFound(k.resource)
                 THEN MarkBindingUnavailable(k.resource, "SubjectMissing")
                 ELSE k.resource
            f == NotFound(k.resource) /\ ~k.resource.deleting
            c == IF ~NotFound(k.resource) THEN "patch"
                 ELSE IF k.resource.deleting THEN "removeFinalizer" ELSE "status"
            ws == {w \in Found(k.resource) : Cached(w).bound[n] # Mutation(k.resource)}
<1>1. r \in Projection /\ Same(r, k.resource)
  BY WorkTypes, UnavailableType, SameSelf
<1>2. f \in BOOLEAN
  BY WorkTypes DEF NotFound
<1>3. /\ c \in {"patch", "removeFinalizer", "status"}
      /\ c = "removeFinalizer" => k.resource.deleting
      /\ c = "status" => f
  OBVIOUS
<1>4. ws \in SUBSET Workloads
  BY DEF Found
<1>5. LookedUp(n, k) =
        [k EXCEPT !.resource = r, !.failed = f, !.pc = c, !.referents = ws]
  BY DEF LookedUp
<1>. HIDE DEF r, f, c, ws
<1>6. LookedUp(n, k) \in Work
  BY <1>1, <1>2, <1>3, <1>4, <1>5 DEF Work
<1>7. /\ LookedUp(n, k).original = k.original /\ LookedUp(n, k).resource = r
      /\ LookedUp(n, k).pc = c /\ LookedUp(n, k).failed = f
      /\ LookedUp(n, k).referents = ws
  BY <1>5 DEF Work
<1>8. WorkOK(LookedUp(n, k))
  BY <1>1, <1>3, <1>7, SameLive DEF WorkOK
<1>9. ws = {w \in Found(k.resource) : Cached(w).bound[n] # Mutation(k.resource)}
  BY DEF ws
<1>. QED
  BY <1>1, <1>3, <1>6, <1>7, <1>8, <1>9

\* After the patches the status says that the generation is bound, unless a
\* patch failed or the projection is being deleted.
LEMMA ConcludedOK ==
  ASSUME NEW k \in Work, WorkOK(k), k.pc = "patch"
  PROVE  /\ Concluded(k) \in Work /\ WorkOK(Concluded(k))
         /\ Concluded(k).original = k.original
         /\ Same(Concluded(k).resource, k.resource)
         /\ Concluded(k).failed = k.failed
         /\ Concluded(k).pc \in {"removeFinalizer", "status"}
         /\ Concluded(k).pc = "removeFinalizer" => k.resource.deleting
         /\ ~k.failed /\ ~k.resource.deleting =>
              Concluded(k).resource.status = Achieved(k.resource)
<1>. DEFINE a == MarkBindingAvailable(k.resource)
            r == IF k.failed THEN MarkBindingUnavailable(k.resource, "BindingFailed")
                 ELSE IF k.resource.deleting THEN a
                 ELSE SetObservedGeneration(a)
            c == IF k.resource.deleting /\ ~k.failed THEN "removeFinalizer" ELSE "status"
<1>1. k.resource \in Projection
  BY WorkTypes
<1>2. /\ a \in Projection /\ Same(a, k.resource)
      /\ a.status.ready = "True" /\ a.status.reason = ""
  BY <1>1, AvailableType
<1>. HIDE DEF a
<1>3. /\ SetObservedGeneration(a) \in Projection
      /\ Same(SetObservedGeneration(a), k.resource)
      /\ SetObservedGeneration(a).status = Achieved(k.resource)
  <2>1. /\ SetObservedGeneration(a) \in Projection /\ Same(SetObservedGeneration(a), a)
        /\ SetObservedGeneration(a).status = Achieved(a)
    BY <1>2, ObservedType
  <2>2. Achieved(a) = Achieved(k.resource)
    BY <1>2 DEF Achieved, Same
  <2>. QED
    BY <1>2, <2>1, <2>2, SameTrans, Zenon
<1>4. r \in Projection /\ Same(r, k.resource)
  BY <1>1, <1>2, <1>3, UnavailableType
<1>5. /\ c \in {"removeFinalizer", "status"}
      /\ c = "removeFinalizer" => k.resource.deleting
      /\ ~k.failed /\ ~k.resource.deleting => r = SetObservedGeneration(a)
  OBVIOUS
<1>6. Concluded(k) = [k EXCEPT !.resource = r, !.pc = c]
  BY DEF Concluded, a
<1>. HIDE DEF r, c
<1>7. Concluded(k) \in Work
  BY <1>4, <1>5, <1>6 DEF Work
<1>8. /\ Concluded(k).original = k.original /\ Concluded(k).resource = r
      /\ Concluded(k).pc = c /\ Concluded(k).failed = k.failed
  BY <1>6 DEF Work
<1>9. WorkOK(Concluded(k))
  BY <1>4, <1>5, <1>8, SameLive DEF WorkOK
<1>. QED
  BY <1>3, <1>4, <1>5, <1>7, <1>8, <1>9

\* The worker of n moves on to k.
Moves(n, k) == work' = [work EXCEPT ![n] = k]

\* A worker that moves leaves the others alone.
LEMMA MovesTypes ==
  ASSUME TypeInv, NEW n \in Names, NEW k \in Work, WorkOK(k), Moves(n, k)
  PROVE  /\ work' \in [Names -> Work] /\ work'[n] = k
         /\ \A m \in Names \ {n} : work'[m] = work[m]
         /\ \A m \in Names : WorkOK(work'[m])
<1>1. work \in [Names -> Work] /\ work' = [work EXCEPT ![n] = k]
  BY DEF TypeInv, TypeOK, Moves
<1>2. \A m \in Names : WorkOK(work[m])
  BY DEF TypeInv
<1>3. /\ work' \in [Names -> Work] /\ work'[n] = k
      /\ \A m \in Names \ {n} : work'[m] = work[m]
  BY <1>1
<1>. QED
  BY <1>2, <1>3, Zenon

\* A worker has its type.
LEMMA WorkerTypes ==
  ASSUME TypeInv, NEW n \in Names
  PROVE  work[n] \in Work /\ WorkOK(work[n])
BY DEF TypeInv, TypeOK

\* An idle worker has its type.
LEMMA IdleOK == Idle \in Work /\ WorkOK(Idle) /\ Idle.pc = "idle"
<1>1. NoProjection(0) \in Projection
  BY NoProjectionType
<1>. QED
  BY <1>1 DEF Idle, Work, WorkOK

\* Reconcile takes the key and begins, unless there is nothing to do.
LEMMA ReconcileShape ==
  ASSUME TypeInv, NEW n \in Names, Reconcile(n)
  PROVE  /\ n \in queue /\ queue' = queue \ {n} /\ work[n].pc = "idle"
         /\ UNCHANGED <<projs, loads, tracked, index, leading, edits, faults>>
         /\ skipped' = IF leading THEN skipped \ {n} ELSE skipped \cup {n}
         /\ overruled' = IF leading THEN [overruled EXCEPT ![n] = {}] ELSE overruled
         /\ \/ /\ leading /\ (Live(Lister(n)) \/ Lister(n).finalizer)
               /\ Moves(n, Begun(Lister(n)))
            \/ ~(leading /\ (Live(Lister(n)) \/ Lister(n).finalizer)) /\ work' = work
BY DEF Reconcile, Begun, Moves

\* A failure.
LEMMA FailShape ==
  ASSUME TypeInv, NEW n \in Names, Fail(n)
  PROVE  Moves(n, Failed(work[n]))
<1>1. work \in [Names -> Work]
  BY DEF TypeInv, TypeOK
<1>. QED
  BY <1>1 DEF Fail, Failed, Moves, Work

\* The two patches of the finalizers.
LEMMA FinalizedShape ==
  ASSUME TypeInv, NEW n \in Names, NEW b \in BOOLEAN, NEW c \in {"subject", "status"},
         Finalized(n, b, c)
  PROVE  /\ UNCHANGED <<loads, tracked, queue, index, leading, edits, skipped, overruled>>
         /\ \/ /\ [Server(n) EXCEPT !.finalizer = b] \in Projection
               /\ Store(n, [Server(n) EXCEPT !.finalizer = b])
               /\ [Server(n) EXCEPT !.finalizer = b].workload = Server(n).workload
               /\ [Server(n) EXCEPT !.finalizer = b].exists = Server(n).exists
               /\ \/ Moves(n, At(work[n], c)) /\ faults' = faults
                  \/ Moves(n, Failed(work[n])) /\ Fault
            \/ Moves(n, Failed(work[n])) /\ UNCHANGED <<projs, faults>>
<1>1. work \in [Names -> Work] /\ TypeOK
  BY DEF TypeInv, TypeOK
<1>2. Server(n) \in Projection
  BY <1>1, ProjTypes
<1>3. /\ [Server(n) EXCEPT !.finalizer = b] \in Projection
      /\ [Server(n) EXCEPT !.finalizer = b].workload = Server(n).workload
      /\ [Server(n) EXCEPT !.finalizer = b].exists = Server(n).exists
  BY <1>2 DEF Projection
<1>4. work' = [work EXCEPT ![n].pc = c] => Moves(n, At(work[n], c))
  BY <1>1 DEF Moves, At, Work
<1>. QED
  BY <1>3, <1>4, FailShape DEF Finalized, history

\* The subject is looked up.
LEMMA SubjectShape ==
  ASSUME TypeInv, NEW n \in Names, ReconcileSubject(n)
  PROVE  /\ work[n].pc = "subject"
         /\ TrackReference(n)
         /\ UNCHANGED <<projs, loads, queue, index, leading, edits, faults, skipped, overruled>>
         /\ Moves(n, LookedUp(n, work[n]))
<1>. DEFINE p == work[n].resource
            r == IF NotFound(p) THEN MarkBindingUnavailable(p, "SubjectMissing") ELSE p
            f == NotFound(p) /\ ~p.deleting
            c == CASE ~NotFound(p) -> "patch"
                   [] NotFound(p) /\ p.deleting -> "removeFinalizer"
                   [] NotFound(p) /\ ~p.deleting -> "status"
            d == IF ~NotFound(p) THEN "patch"
                 ELSE IF p.deleting THEN "removeFinalizer" ELSE "status"
            ws == {w \in Found(p) : Cached(w).bound[n] # Mutation(p)}
<1>1. work \in [Names -> Work] /\ TypeOK
  BY DEF TypeInv, TypeOK
<1>2. c = d
  BY DEF NotFound
<1>3. work' = [work EXCEPT ![n].resource = r, ![n].failed = f, ![n].pc = c,
                           ![n].referents = ws]
  BY DEF ReconcileSubject, NotFound, Found
<1>4. LookedUp(n, work[n]) =
        [work[n] EXCEPT !.resource = r, !.failed = f, !.pc = d, !.referents = ws]
  BY DEF LookedUp
<1>. HIDE DEF r, f, c, d, ws
<1>5. Moves(n, LookedUp(n, work[n]))
  BY <1>1, <1>2, <1>3, <1>4 DEF Moves, Work
<1>. QED
  BY <1>5 DEF ReconcileSubject, history

\* The outcome of the patches.
LEMMA PatchedShape ==
  ASSUME TypeInv, NEW n \in Names, Patched(n)
  PROVE  /\ work[n].pc = "patch" /\ work[n].referents = {}
         /\ UNCHANGED <<projs, loads, tracked, queue, index, leading, edits, faults, skipped, overruled>>
         /\ Moves(n, Concluded(work[n]))
<1>. DEFINE p == work[n].resource
            r == CASE work[n].failed -> MarkBindingUnavailable(p, "BindingFailed")
                   [] ~work[n].failed /\ p.deleting -> MarkBindingAvailable(p)
                   [] ~work[n].failed /\ ~p.deleting ->
                        SetObservedGeneration(MarkBindingAvailable(p))
            q == IF work[n].failed THEN MarkBindingUnavailable(p, "BindingFailed")
                 ELSE IF p.deleting THEN MarkBindingAvailable(p)
                 ELSE SetObservedGeneration(MarkBindingAvailable(p))
            c == IF p.deleting /\ ~work[n].failed THEN "removeFinalizer" ELSE "status"
<1>1. work \in [Names -> Work]
  BY DEF TypeInv, TypeOK
<1>2. r = q
  OBVIOUS
<1>3. work' = [work EXCEPT ![n].resource = r, ![n].pc = c]
  BY DEF Patched, history
<1>4. Concluded(work[n]) = [work[n] EXCEPT !.resource = q, !.pc = c]
  BY DEF Concluded
<1>. HIDE DEF r, q, c
<1>5. Moves(n, Concluded(work[n]))
  BY <1>1, <1>2, <1>3, <1>4 DEF Moves, Work
<1>. QED
  BY <1>5 DEF Patched, history

\* What is stored by a patch is a workload.
LEMMA AdmitType ==
  ASSUME TypeOK, NEW w \in Workloads, NEW b \in [Names -> Secrets \cup {NoSecret}]
  PROVE  [exists |-> TRUE, bound |-> Admit(w, b)] \in Workload
<1>1. \A n \in Names : Mutation(index[n]) \in Secrets \cup {NoSecret}
  <2>1. \A n \in Names : index[n] \in Projection
    BY DEF TypeOK
  <2>2. \A p \in Projection : p.binding \in Secrets \cup {NoSecret}
    BY DEF Projection
  <2>. QED
    BY <2>1, <2>2 DEF Mutation
<1>2. Admit(w, b) \in [Names -> Secrets \cup {NoSecret}]
  BY <1>1 DEF Admit
<1>. QED
  BY <1>2 DEF Workload

\* One patch.
LEMMA PatchShape ==
  ASSUME TypeInv, NEW n \in Names, NEW w \in Workloads, PatchWorkload(n, w)
  PROVE  /\ work[n].pc = "patch"
         /\ UNCHANGED <<projs, tracked, queue, index, leading, edits, skipped>>
         /\ overruled' = [overruled EXCEPT ![n] = overruled[n] \cup {w}]
              \/ /\ overruled' = overruled
                 /\ \/ [exists |-> TRUE, bound |->
                          Admit(w, [Current(w).bound EXCEPT ![n] = Mutation(work[n].resource)])]
                         # Current(w)
                    \/ Admit(w, [Current(w).bound EXCEPT ![n] = Mutation(work[n].resource)])[n]
                         = Mutation(work[n].resource)
         /\ \E f \in BOOLEAN :
              /\ Moves(n, Without(work[n], w, f))
              /\ (~f => ~work[n].failed)
              /\ Fault \/ faults' = faults
              /\ \/ /\ [exists |-> TRUE, bound |->
                          Admit(w, [Current(w).bound EXCEPT ![n] = Mutation(work[n].resource)])]
                         \in Workload
                    /\ StoreWorkload(w, [exists |-> TRUE, bound |->
                          Admit(w, [Current(w).bound EXCEPT ![n] = Mutation(work[n].resource)])])
                 \/ /\ loads' = loads
                    /\ ~work[n].resource.deleting => f
<1>. DEFINE b == [Current(w).bound EXCEPT ![n] = Mutation(work[n].resource)]
            load == [exists |-> TRUE, bound |-> Admit(w, b)]
            g == work[n].failed \/ ~work[n].resource.deleting
<1>1. work \in [Names -> Work] /\ TypeOK
  BY DEF TypeInv, TypeOK
<1>2. work[n] \in Work /\ work[n].failed \in BOOLEAN /\ work[n].resource \in Projection
  BY <1>1, WorkTypes
<1>3. load \in Workload
  <2>1. Current(w).bound \in [Names -> Secrets \cup {NoSecret}]
    BY <1>1, LoadTypes DEF Workload
  <2>2. Mutation(work[n].resource) \in Secrets \cup {NoSecret}
    BY <1>2 DEF Mutation, Projection
  <2>3. b \in [Names -> Secrets \cup {NoSecret}]
    BY <2>1, <2>2
  <2>. HIDE DEF b
  <2>. QED
    BY <1>1, <2>3, AdmitType
<1>4. /\ work' = [work EXCEPT ![n].referents = @ \ {w}] =>
           Moves(n, Without(work[n], w, work[n].failed))
      /\ work' = [work EXCEPT ![n].referents = @ \ {w}, ![n].failed = TRUE] =>
           Moves(n, Without(work[n], w, TRUE))
  BY <1>1 DEF Moves, Without, Work
<1>5. work' = [work EXCEPT ![n].referents = @ \ {w}, ![n].failed = g] =>
           Moves(n, Without(work[n], w, g))
  <2>. HIDE DEF g
  <2>. QED
    BY <1>1 DEF Moves, Without, Work
<1>6. g \in BOOLEAN /\ (~g => ~work[n].failed) /\ (~work[n].resource.deleting => g)
  BY <1>2
<1>7. /\ work[n].pc = "patch"
      /\ UNCHANGED <<projs, tracked, queue, index, leading, edits, skipped>>
      /\ \/ overruled' = [overruled EXCEPT ![n] = overruled[n] \cup {w}]
         \/ /\ overruled' = overruled
            /\ load # Current(w) \/ Admit(w, b)[n] = Mutation(work[n].resource)
  <2>1. load.bound = Admit(w, b)
    OBVIOUS
  <2>. QED
    BY <2>1 DEF PatchWorkload
<1>8. CASE /\ StoreWorkload(w, load)
           /\ work' = [work EXCEPT ![n].referents = @ \ {w}] /\ UNCHANGED faults
  BY <1>2, <1>3, <1>4, <1>7, <1>8
<1>9. CASE /\ StoreWorkload(w, load)
           /\ Fault
           /\ work' = [work EXCEPT ![n].referents = @ \ {w}, ![n].failed = TRUE]
  BY <1>2, <1>3, <1>4, <1>7, <1>9
<1>10. CASE /\ work' = [work EXCEPT ![n].referents = @ \ {w}, ![n].failed = g]
            /\ UNCHANGED <<loads, faults>>
  <2>. HIDE DEF g
  <2>. QED
    BY <1>2, <1>5, <1>6, <1>7, <1>10
<1>. QED
  BY <1>8, <1>9, <1>10 DEF PatchWorkload

\* The status is stored, or there is nothing to store, and the key is done
\* with; or the key is put back.
LEMMA StatusShape ==
  ASSUME TypeInv, NEW n \in Names, UpdateStatus(n)
  PROVE  /\ work[n].pc = "status"
         /\ UNCHANGED <<loads, tracked, index, leading, edits, skipped, overruled>>
         /\ Moves(n, Idle)
         /\ queue \subseteq queue' /\ queue' \subseteq Names
         /\ Fault \/ faults' = faults
         /\ \/ /\ projs' = projs
               /\ \/ work[n].resource.status = work[n].original.status
                  \/ Lister(n).status = work[n].resource.status
               /\ work[n].failed => n \in queue'
            \/ \E s \in Status :
                 /\ [Server(n) EXCEPT !.status = s] \in Projection
                 /\ Store(n, [Server(n) EXCEPT !.status = s])
                 /\ [Server(n) EXCEPT !.status = s].workload = Server(n).workload
                 /\ [Server(n) EXCEPT !.status = s].exists = Server(n).exists
            \/ projs' = projs /\ n \in queue'
<1>. DEFINE same == \/ work[n].resource.status = work[n].original.status
                    \/ Lister(n).exists /\ Lister(n).status = work[n].resource.status
            s == work[n].resource.status
<1>1. work[n] \in Work /\ TypeOK /\ queue \subseteq Names
  BY DEF TypeInv, TypeOK
<1>2. s \in Status
  BY <1>1, WorkTypes DEF Projection
<1>3. /\ [Server(n) EXCEPT !.status = s] \in Projection
      /\ [Server(n) EXCEPT !.status = s].workload = Server(n).workload
      /\ [Server(n) EXCEPT !.status = s].exists = Server(n).exists
  <2>1. Server(n) \in Projection
    BY <1>1, ProjTypes
  <2>. HIDE DEF s
  <2>. QED
    BY <1>2, <2>1 DEF Projection
<1>4. ASSUME NEW err, Return(n, err)
      PROVE  /\ Moves(n, Idle)
             /\ queue \subseteq queue' /\ queue' \subseteq Names
             /\ err => n \in queue'
  BY <1>1, <1>4 DEF Return, Moves
<1>5. work[n].pc = "status" /\ UNCHANGED <<loads, tracked, index, leading, edits, skipped, overruled>>
  BY DEF UpdateStatus, history
<1>6. CASE same /\ Return(n, work[n].failed) /\ UNCHANGED <<projs, faults>>
  BY <1>4, <1>5, <1>6
<1>7. CASE /\ Store(n, [Server(n) EXCEPT !.status = s])
           /\ Return(n, work[n].failed) /\ UNCHANGED faults
  <2>. HIDE DEF s
  <2>. QED
    BY <1>2, <1>3, <1>4, <1>5, <1>7
<1>8. CASE Store(n, [Server(n) EXCEPT !.status = s]) /\ Return(n, TRUE) /\ Fault
  <2>. HIDE DEF s
  <2>. QED
    BY <1>2, <1>3, <1>4, <1>5, <1>8
<1>9. CASE Return(n, TRUE) /\ UNCHANGED <<projs, faults>>
  BY <1>4, <1>5, <1>9
<1>. QED
  BY <1>6, <1>7, <1>8, <1>9 DEF UpdateStatus, history

\* A request that fails is as good as a step that fails.
LEMMA RequestFailsShape ==
  ASSUME TypeInv, NEW n \in Names, RequestFails(n)
  PROVE  /\ UNCHANGED <<projs, loads, tracked, index, leading, edits, skipped, overruled>>
         /\ Fault
         /\ \/ work[n].pc \in {"finalizer", "removeFinalizer"}
               /\ Moves(n, Failed(work[n])) /\ queue' = queue
            \/ (\E w \in Workloads : Moves(n, Without(work[n], w, TRUE))) /\ queue' = queue
            \/ Moves(n, Idle) /\ queue' = queue \cup {n}
<1>1. work \in [Names -> Work] /\ work[n].referents \subseteq Workloads
  BY WorkTypes DEF TypeInv, TypeOK
<1>2. \A w :
        work' = [work EXCEPT ![n].referents = @ \ {w}, ![n].failed = TRUE] =>
          Moves(n, Without(work[n], w, TRUE))
  BY <1>1 DEF Moves, Without, Work
<1>3. Return(n, TRUE) => Moves(n, Idle) /\ queue' = queue \cup {n}
  BY DEF Return, Moves
<1>. QED
  BY <1>1, <1>2, <1>3, FailShape DEF RequestFails, history

-----------------------------------------------------------------------------
(***************************************************************************)
(* Type correctness.                                                       *)
(***************************************************************************)

\* What is left of TypeInv when the windows and the worker have their types.
LEMMA TypeInvParts ==
  ASSUME projs' \in [Names -> Seq(Projection)],
         \A m \in Names : projs'[m] # << >>,
         loads' \in [Workloads -> Seq(Workload)],
         \A w \in Workloads : loads'[w] # << >>,
         tracked' \in [References -> SUBSET Names],
         queue' \subseteq Names,
         work' \in [Names -> Work],
         \A m \in Names : WorkOK(work'[m]),
         index' \in [Names -> Projection],
         leading' \in BOOLEAN,
         edits' \in 0..MaxEdits,
         faults' \in 0..MaxFaults,
         skipped' \subseteq Names,
         overruled' \in [Names -> SUBSET Workloads]
  PROVE  TypeInv'
<1>1. \A n \in Names :
        work'[n].pc \in {"subject", "patch", "removeFinalizer"}
          => Live(work'[n].resource) \/ work'[n].resource.finalizer
  BY DEF WorkOK
<1>. QED
  BY <1>1 DEF TypeInv, TypeOK

\* TypeInv holds at the start.
LEMMA TypeInit == Init => TypeInv
<1>. SUFFICES ASSUME Init PROVE TypeInv
  OBVIOUS
<1>1. NoProjection(0) \in Projection
  BY NoProjectionType
<1>2. NoWorkload \in Workload
  BY DEF NoWorkload, Workload, Unbound
<1>3. /\ <<NoProjection(0)>> \in Seq(Projection) /\ <<NoProjection(0)>> # << >>
      /\ <<NoWorkload>> \in Seq(Workload) /\ <<NoWorkload>> # << >>
  BY <1>1, <1>2, VersionListed
<1>4. /\ projs \in [Names -> Seq(Projection)] /\ \A n \in Names : projs[n] # << >>
      /\ loads \in [Workloads -> Seq(Workload)] /\ \A w \in Workloads : loads[w] # << >>
  BY <1>3 DEF Init
<1>5. work \in [Names -> Work] /\ \A n \in Names : work[n] = Idle
  BY IdleOK DEF Init
<1>6. index \in [Names -> Projection]
  BY <1>1 DEF Init
<1>7. /\ tracked \in [References -> SUBSET Names] /\ queue \subseteq Names
      /\ leading \in BOOLEAN /\ edits \in 0..MaxEdits /\ faults \in 0..MaxFaults
      /\ skipped \subseteq Names /\ overruled \in [Names -> SUBSET Workloads]
  BY BoundsAssumption DEF Init
<1>8. \A n \in Names : WorkOK(work[n])
  BY <1>5, IdleOK
<1>9. \A n \in Names : work[n].pc = "idle"
  BY <1>5, IdleOK
<1>. QED
  BY <1>4, <1>5, <1>6, <1>7, <1>8, <1>9 DEF TypeInv, TypeOK

\* The parts of TypeInv.
LEMMA TypeParts ==
  ASSUME TypeInv
  PROVE  /\ projs \in [Names -> Seq(Projection)]
         /\ \A m \in Names : projs[m] # << >>
         /\ loads \in [Workloads -> Seq(Workload)]
         /\ \A w \in Workloads : loads[w] # << >>
         /\ tracked \in [References -> SUBSET Names]
         /\ queue \subseteq Names
         /\ work \in [Names -> Work]
         /\ \A m \in Names : WorkOK(work[m])
         /\ index \in [Names -> Projection]
         /\ leading \in BOOLEAN
         /\ edits \in 0..MaxEdits
         /\ faults \in 0..MaxFaults
         /\ skipped \subseteq Names
         /\ overruled \in [Names -> SUBSET Workloads]
         /\ TypeOK
BY DEF TypeInv, TypeOK

\* Tracking adds to what is tracked.
LEMMA TrackedType ==
  ASSUME TypeInv, NEW n \in Names, TrackReference(n)
  PROVE  /\ tracked' \in [References -> SUBSET Names]
         /\ work[n].resource.workload \in References =>
              n \in tracked'[work[n].resource.workload]
         /\ \A ref \in References : tracked[ref] \subseteq tracked'[ref]
<1>. DEFINE r == work[n].resource.workload
<1>1. /\ tracked \in [References -> SUBSET Names]
      /\ tracked' = [tracked EXCEPT ![r] = tracked[r] \cup {n}]
  BY DEF TypeInv, TypeOK, TrackReference
<1>. HIDE DEF r
<1>2. CASE r \in References
  BY <1>1, <1>2 DEF r
<1>3. CASE r \notin References
  <2>1. tracked' = tracked
    BY <1>1, <1>3
  <2>. QED
    BY <1>1, <1>3, <2>1 DEF r
<1>. QED
  BY <1>2, <1>3

\* Faults keep within their bound.
LEMMA FaultType ==
  ASSUME TypeInv, Fault \/ faults' = faults
  PROVE  faults' \in 0..MaxFaults
BY BoundsAssumption DEF TypeInv, TypeOK, Fault

\* Finalized keeps TypeInv.
LEMMA FinalizedType ==
  ASSUME TypeInv, NEW n \in Names, NEW b \in BOOLEAN, NEW c \in {"subject", "status"},
         c = "status" \/ Live(work[n].resource) \/ work[n].resource.finalizer,
         Finalized(n, b, c)
  PROVE  TypeInv'
<1>0. work[n] \in Work
  BY WorkerTypes
<1>1. At(work[n], c) \in Work /\ WorkOK(At(work[n], c))
  BY <1>0, AtOK
<1>2. Failed(work[n]) \in Work /\ WorkOK(Failed(work[n]))
  BY <1>0, FailedOK
<1>3. work' \in [Names -> Work] /\ \A m \in Names : WorkOK(work'[m])
  BY <1>1, <1>2, FinalizedShape, MovesTypes
<1>4. projs' \in [Names -> Seq(Projection)] /\ \A m \in Names : projs'[m] # << >>
  BY FinalizedShape, StoreWindows, TypeParts
<1>5. faults' \in 0..MaxFaults
  BY FinalizedShape, FaultType
<1>6. UNCHANGED <<loads, tracked, queue, index, leading, edits, skipped, overruled>>
  BY FinalizedShape
<1>. QED
  BY <1>3, <1>4, <1>5, <1>6, TypeParts, TypeInvParts

\* Every step of a worker keeps TypeInv.
LEMMA WorkerType ==
  ASSUME TypeInv, NEW n \in Names, Worker(n)
  PROVE  TypeInv'
<1>0. /\ work[n] \in Work /\ WorkOK(work[n]) /\ TypeOK
      /\ work[n].failed \in BOOLEAN /\ work[n].resource \in Projection
  BY WorkerTypes, WorkTypes, TypeParts
<1>1. CASE Reconcile(n)
  <2>1. queue' \subseteq Names /\ UNCHANGED <<projs, loads, tracked, index, leading, edits, faults>>
    BY <1>1, ReconcileShape, TypeParts
  <2>3. skipped' \subseteq Names /\ overruled' \in [Names -> SUBSET Workloads]
    BY <1>1, ReconcileShape, TypeParts
  <2>2. work' \in [Names -> Work] /\ \A m \in Names : WorkOK(work'[m])
    <3>1. CASE work' = work
      BY <3>1, TypeParts
    <3>2. CASE /\ leading /\ (Live(Lister(n)) \/ Lister(n).finalizer)
               /\ Moves(n, Begun(Lister(n)))
      <4>1. Begun(Lister(n)) \in Work /\ WorkOK(Begun(Lister(n)))
        BY <1>0, <3>2, ProjTypes, BegunOK
      <4>. QED
        BY <3>2, <4>1, MovesTypes
    <3>. QED
      BY <1>1, <3>1, <3>2, ReconcileShape
  <2>. QED
    BY <2>1, <2>2, <2>3, TypeParts, TypeInvParts
<1>2. CASE EnsureFinalizer(n)
  <2>1. Live(work[n].resource) \/ work[n].resource.finalizer
    BY <1>0, <1>2 DEF EnsureFinalizer, WorkOK
  <2>. QED
    BY <1>2, <2>1, FinalizedType DEF EnsureFinalizer
<1>3. CASE ReconcileSubject(n)
  <2>1. LookedUp(n, work[n]) \in Work /\ WorkOK(LookedUp(n, work[n]))
    BY <1>0, <1>3, SubjectShape, LookedUpOK
  <2>2. work' \in [Names -> Work] /\ \A m \in Names : WorkOK(work'[m])
    BY <1>3, <2>1, SubjectShape, MovesTypes
  <2>3. tracked' \in [References -> SUBSET Names]
    BY <1>3, SubjectShape, TrackedType
  <2>4. UNCHANGED <<projs, loads, queue, index, leading, edits, faults, skipped, overruled>>
    BY <1>3, SubjectShape
  <2>. QED
    BY <2>2, <2>3, <2>4, TypeParts, TypeInvParts
<1>4. CASE Patched(n)
  <2>1. Concluded(work[n]) \in Work /\ WorkOK(Concluded(work[n]))
    BY <1>0, <1>4, PatchedShape, ConcludedOK
  <2>2. work' \in [Names -> Work] /\ \A m \in Names : WorkOK(work'[m])
    BY <1>4, <2>1, PatchedShape, MovesTypes
  <2>3. UNCHANGED <<projs, loads, tracked, queue, index, leading, edits, faults, skipped, overruled>>
    BY <1>4, PatchedShape
  <2>. QED
    BY <2>2, <2>3, TypeParts, TypeInvParts
<1>5. ASSUME NEW w \in Workloads, PatchWorkload(n, w)
      PROVE  TypeInv'
  <2>. DEFINE load == [exists |-> TRUE, bound |->
                Admit(w, [Current(w).bound EXCEPT ![n] = Mutation(work[n].resource)])]
  <2>1. PICK f \in BOOLEAN :
          /\ Moves(n, Without(work[n], w, f))
          /\ Fault \/ faults' = faults
          /\ \/ load \in Workload /\ StoreWorkload(w, load)
             \/ loads' = loads
    BY <1>5, PatchShape
  <2>. HIDE DEF load
  <2>2. work' \in [Names -> Work] /\ \A m \in Names : WorkOK(work'[m])
    BY <1>0, <2>1, WithoutOK, MovesTypes
  <2>3. loads' \in [Workloads -> Seq(Workload)] /\ \A v \in Workloads : loads'[v] # << >>
    BY <2>1, StoreLoads, TypeParts
  <2>4. faults' \in 0..MaxFaults
    BY <2>1, FaultType
  <2>5. UNCHANGED <<projs, tracked, queue, index, leading, edits, skipped>>
    BY <1>5, PatchShape
  <2>6. overruled' \in [Names -> SUBSET Workloads]
    <3>1. \/ overruled' = [overruled EXCEPT ![n] = overruled[n] \cup {w}]
          \/ overruled' = overruled
      BY <1>5, PatchShape
    <3>2. overruled \in [Names -> SUBSET Workloads]
      BY TypeParts
    <3>. QED
      BY <3>1, <3>2
  <2>. QED
    BY <2>2, <2>3, <2>4, <2>5, <2>6, TypeParts, TypeInvParts
<1>6. CASE RemoveFinalizer(n)
  BY <1>6, FinalizedType DEF RemoveFinalizer
<1>7. CASE UpdateStatus(n)
  <2>1. work' \in [Names -> Work] /\ \A m \in Names : WorkOK(work'[m])
    BY <1>7, StatusShape, IdleOK, MovesTypes
  <2>2. projs' \in [Names -> Seq(Projection)] /\ \A m \in Names : projs'[m] # << >>
    <3>1. CASE projs' = projs
      BY <3>1, TypeParts
    <3>2. CASE \E s \in Status : /\ [Server(n) EXCEPT !.status = s] \in Projection
                                 /\ Store(n, [Server(n) EXCEPT !.status = s])
      BY <1>0, <3>2, StoreWindows
    <3>. QED
      BY <1>7, <3>1, <3>2, StatusShape
  <2>3. faults' \in 0..MaxFaults /\ queue' \subseteq Names
    BY <1>7, StatusShape, FaultType
  <2>4. UNCHANGED <<loads, tracked, index, leading, edits, skipped, overruled>>
    BY <1>7, StatusShape
  <2>. QED
    BY <2>1, <2>2, <2>3, <2>4, TypeParts, TypeInvParts
<1>. QED
  BY <1>1, <1>2, <1>3, <1>4, <1>5, <1>6, <1>7 DEF Worker

\* The owner of the system changes it.
LEMMA EditedType ==
  ASSUME TypeInv, Edited
  PROVE  /\ edits' \in 0..MaxEdits
         /\ UNCHANGED <<tracked, queue, work, index, leading, faults, skipped, overruled>>
BY BoundsAssumption DEF TypeInv, TypeOK, Edited, history

\* What is created, updated or deleted from outside is a projection, and
\* refers to a workload.
LEMMA CreateShape ==
  ASSUME TypeInv, NEW n \in Names, CreateProjection(n)
  PROVE  /\ UNCHANGED loads /\ Edited
         /\ \E p \in Projection : Store(n, p) /\ p.workload \in References
<1>1. Server(n) \in Projection
  BY TypeParts, ProjTypes
<1>2. Server(n).resourceVersion \in Nat
  BY <1>1 DEF Projection
<1>3. PICK ref \in References : \E s \in Secrets :
        Store(n, [exists |-> TRUE, resourceVersion |-> Server(n).resourceVersion,
                  generation |-> 1, deleting |-> FALSE, finalizer |-> FALSE,
                  workload |-> ref, binding |-> s, status |-> NoStatus])
  BY DEF CreateProjection
<1>4. PICK s \in Secrets :
        Store(n, [exists |-> TRUE, resourceVersion |-> Server(n).resourceVersion,
                  generation |-> 1, deleting |-> FALSE, finalizer |-> FALSE,
                  workload |-> ref, binding |-> s, status |-> NoStatus])
  BY <1>3
<1>. DEFINE p == [exists |-> TRUE, resourceVersion |-> Server(n).resourceVersion,
                  generation |-> 1, deleting |-> FALSE, finalizer |-> FALSE,
                  workload |-> ref, binding |-> s, status |-> NoStatus]
<1>5. p \in Projection /\ p.workload \in References
  <2>1. NoStatus \in Status
    BY DEF NoStatus, Status
  <2>. QED
    BY <1>2, <2>1 DEF Projection
<1>6. Store(n, p)
  BY <1>4
<1>7. UNCHANGED loads /\ Edited
  BY DEF CreateProjection
<1>. HIDE DEF p
<1>. QED
  BY <1>5, <1>6, <1>7

\* An update refers to a workload.
LEMMA UpdateShape ==
  ASSUME TypeInv, NEW n \in Names, UpdateProjection(n)
  PROVE  /\ UNCHANGED loads /\ Edited
         /\ \E p \in Projection : Store(n, p) /\ p.workload \in References
<1>1. Server(n) \in Projection
  BY TypeParts, ProjTypes
<1>2. PICK ref \in References : \E s \in Secrets :
        Store(n, [Server(n) EXCEPT !.generation = @ + 1, !.workload = ref, !.binding = s])
  BY DEF UpdateProjection
<1>3. PICK s \in Secrets :
        Store(n, [Server(n) EXCEPT !.generation = @ + 1, !.workload = ref, !.binding = s])
  BY <1>2
<1>. DEFINE p == [Server(n) EXCEPT !.generation = @ + 1, !.workload = ref, !.binding = s]
            g == Server(n).generation + 1
<1>4. p \in Projection /\ p.workload \in References
  <2>1. g \in Nat
    BY <1>1 DEF Projection
  <2>2. p = [Server(n) EXCEPT !.generation = g, !.workload = ref, !.binding = s]
    OBVIOUS
  <2>. HIDE DEF p, g
  <2>. QED
    BY <1>1, <2>1, <2>2 DEF Projection
<1>5. Store(n, p)
  BY <1>3
<1>6. UNCHANGED loads /\ Edited
  BY DEF UpdateProjection
<1>. HIDE DEF p
<1>. QED
  BY <1>4, <1>5, <1>6

\* A deletion refers to what the projection referred to.
LEMMA DeleteShape ==
  ASSUME TypeInv, NEW n \in Names, DeleteProjection(n)
  PROVE  /\ UNCHANGED loads /\ Edited
         /\ \E p \in Projection : Store(n, p) /\ p.workload = Server(n).workload
         /\ Server(n).exists
<1>1. Server(n) \in Projection
  BY TypeParts, ProjTypes
<1>. DEFINE p == [Server(n) EXCEPT !.deleting = TRUE, !.generation = @ + 1]
            g == Server(n).generation + 1
<1>2. p \in Projection /\ p.workload = Server(n).workload
  <2>1. g \in Nat
    BY <1>1 DEF Projection
  <2>2. p = [Server(n) EXCEPT !.deleting = TRUE, !.generation = g]
    OBVIOUS
  <2>. HIDE DEF p, g
  <2>. QED
    BY <1>1, <2>1, <2>2 DEF Projection
<1>3. Store(n, p) /\ UNCHANGED loads /\ Edited /\ Server(n).exists
  BY DEF DeleteProjection, Live
<1>. HIDE DEF p
<1>. QED
  BY <1>2, <1>3

\* A workload is applied or deleted.
LEMMA ApplyShape ==
  ASSUME TypeInv, NEW w \in Workloads, ApplyWorkload(w) \/ DeleteWorkload(w)
  PROVE  /\ UNCHANGED projs /\ Edited
         /\ \E load \in Workload : StoreWorkload(w, load)
<1>1. Unbound \in [Names -> Secrets \cup {NoSecret}]
  BY DEF Unbound
<1>2. [exists |-> TRUE, bound |-> Admit(w, Unbound)] \in Workload
  BY <1>1, AdmitType, TypeParts
<1>3. NoWorkload \in Workload
  BY <1>1 DEF NoWorkload, Workload
<1>. QED
  BY <1>2, <1>3 DEF ApplyWorkload, DeleteWorkload

\* The informer delivers the next version of n.
LEMMA DeliverWindows ==
  ASSUME TypeOK, NEW n \in Names, DeliverProjection(n)
  PROVE  /\ projs' \in [Names -> Seq(Projection)]
         /\ \A m \in Names : projs'[m] # << >>
         /\ \A m \in Names \ {n} : projs'[m] = projs[m]
         /\ Len(projs[n]) > 1 /\ Len(projs'[n]) = Len(projs[n]) - 1
         /\ \A i \in 1..Len(projs'[n]) : projs'[n][i] = projs[n][i + 1]
         /\ projs'[n][1] = projs[n][2]
         /\ projs[n][2] \in Projection
<1>1. /\ projs \in [Names -> Seq(Projection)] /\ \A m \in Names : projs[m] # << >>
      /\ projs' = [projs EXCEPT ![n] = Tail(projs[n])]
      /\ Len(projs[n]) > 1
  BY DEF TypeOK, DeliverProjection
<1>2. /\ Tail(projs[n]) \in Seq(Projection)
      /\ Tail(projs[n]) # << >>
      /\ Len(Tail(projs[n])) = Len(projs[n]) - 1
      /\ \A i \in 1..(Len(projs[n]) - 1) : Tail(projs[n])[i] = projs[n][i + 1]
      /\ Tail(projs[n])[1] = projs[n][2]
  BY <1>1, VersionDelivered
<1>3. projs'[n] = Tail(projs[n]) /\ \A m \in Names \ {n} : projs'[m] = projs[m]
  BY <1>1
<1>4. projs' \in [Names -> Seq(Projection)] /\ \A m \in Names : projs'[m] # << >>
  BY <1>1, <1>2, <1>3
<1>5. Len(projs'[n]) = Len(projs[n]) - 1 /\ projs'[n][1] = projs[n][2]
  BY <1>2, <1>3, Zenon
<1>6. \A i \in 1..Len(projs'[n]) : projs'[n][i] = projs[n][i + 1]
  BY <1>2, <1>3, Zenon
<1>7. projs[n][2] \in Projection
  BY <1>2, VersionTypes
<1>. QED
  BY <1>1, <1>3, <1>4, <1>5, <1>6, <1>7

\* The informer delivers the next version of w.
LEMMA DeliverLoads ==
  ASSUME TypeOK, NEW w \in Workloads, DeliverWorkload(w)
  PROVE  /\ loads' \in [Workloads -> Seq(Workload)]
         /\ \A v \in Workloads : loads'[v] # << >>
         /\ \A v \in Workloads \ {w} : loads'[v] = loads[v]
<1>1. /\ loads \in [Workloads -> Seq(Workload)] /\ \A v \in Workloads : loads[v] # << >>
      /\ loads' = [loads EXCEPT ![w] = Tail(loads[w])]
      /\ Len(loads[w]) > 1
  BY DEF TypeOK, DeliverWorkload
<1>2. Tail(loads[w]) \in Seq(Workload) /\ Tail(loads[w]) # << >>
  BY <1>1, VersionDelivered
<1>. QED
  BY <1>1, <1>2

\* Every step keeps TypeInv.
LEMMA TypeStep == TypeInv /\ [Next]_vars => TypeInv'
<1>. SUFFICES ASSUME TypeInv, [Next]_vars PROVE TypeInv'
  OBVIOUS
<1>0. TypeOK
  BY TypeParts
<1>1. ASSUME NEW n \in Names, Worker(n) PROVE TypeInv'
  BY <1>1, WorkerType
<1>2. ASSUME NEW n \in Names, RequestFails(n) PROVE TypeInv'
  <2>0. work[n] \in Work /\ WorkOK(work[n])
    BY WorkerTypes
  <2>1. work' \in [Names -> Work] /\ \A m \in Names : WorkOK(work'[m])
    <3>1. CASE Moves(n, Failed(work[n]))
      BY <2>0, <3>1, FailedOK, MovesTypes
    <3>2. CASE \E w \in Workloads : Moves(n, Without(work[n], w, TRUE))
      <4>1. PICK w \in Workloads : Moves(n, Without(work[n], w, TRUE))
        BY <3>2
      <4>. QED
        BY <2>0, <4>1, WithoutOK, MovesTypes
    <3>3. CASE Moves(n, Idle)
      BY <3>3, IdleOK, MovesTypes
    <3>. QED
      BY <1>2, <3>1, <3>2, <3>3, RequestFailsShape
  <2>2. faults' \in 0..MaxFaults /\ UNCHANGED <<projs, loads, tracked, index, leading, edits, skipped, overruled>>
    BY <1>2, RequestFailsShape, FaultType
  <2>3. queue' \subseteq Names
    BY <1>2, RequestFailsShape, TypeParts
  <2>. QED
    BY <2>1, <2>2, <2>3, TypeParts, TypeInvParts
<1>3. ASSUME NEW n \in Names, DeliverProjection(n) PROVE TypeInv'
  <2>1. UNCHANGED <<loads, tracked, work, index, leading, edits, faults, skipped, overruled>> /\ queue' \subseteq Names
    BY <1>3, TypeParts DEF DeliverProjection, history
  <2>. QED
    BY <1>0, <1>3, <2>1, DeliverWindows, TypeParts, TypeInvParts
<1>4. ASSUME NEW n \in Names,
             CreateProjection(n) \/ UpdateProjection(n) \/ DeleteProjection(n)
      PROVE  TypeInv'
  <2>1. UNCHANGED loads /\ Edited /\ \E p \in Projection : Store(n, p)
    BY <1>4, CreateShape, UpdateShape, DeleteShape
  <2>2. projs' \in [Names -> Seq(Projection)] /\ \A m \in Names : projs'[m] # << >>
    BY <1>0, <2>1, StoreWindows
  <2>3. edits' \in 0..MaxEdits /\ UNCHANGED <<tracked, queue, work, index, leading, faults, skipped, overruled>>
    BY <2>1, EditedType
  <2>. QED
    BY <2>1, <2>2, <2>3, TypeParts, TypeInvParts
<1>5. ASSUME NEW w \in Workloads, DeliverWorkload(w) PROVE TypeInv'
  <2>1. UNCHANGED <<projs, tracked, work, index, leading, edits, faults, skipped, overruled>>
    BY <1>5 DEF DeliverWorkload, history
  <2>2. queue' \subseteq Names
    BY <1>5, TypeParts DEF DeliverWorkload, history
  <2>. QED
    BY <1>0, <1>5, <2>1, <2>2, DeliverLoads, TypeParts, TypeInvParts
<1>6. ASSUME NEW w \in Workloads, ApplyWorkload(w) \/ DeleteWorkload(w) PROVE TypeInv'
  <2>1. UNCHANGED projs /\ Edited /\ \E load \in Workload : StoreWorkload(w, load)
    BY <1>6, ApplyShape
  <2>2. loads' \in [Workloads -> Seq(Workload)] /\ \A v \in Workloads : loads'[v] # << >>
    BY <1>0, <2>1, StoreLoads
  <2>3. edits' \in 0..MaxEdits /\ UNCHANGED <<tracked, queue, work, index, leading, faults, skipped, overruled>>
    BY <2>1, EditedType
  <2>. QED
    BY <2>1, <2>2, <2>3, TypeParts, TypeInvParts
<1>7. CASE ProgramWebhook
  <2>1. /\ UNCHANGED <<projs, loads, tracked, queue, work, leading, edits, faults, skipped, overruled>>
        /\ index' = [n \in Names |-> Lister(n)]
    BY <1>7 DEF ProgramWebhook, ListAll, history
  <2>2. index' \in [Names -> Projection]
    BY <1>0, <2>1, ProjTypes
  <2>. QED
    BY <2>1, <2>2, TypeParts, TypeInvParts
<1>8. CASE Promote
  <2>1. /\ UNCHANGED <<projs, loads, tracked, work, index, edits, faults, skipped, overruled>>
        /\ leading' \in BOOLEAN /\ queue' \subseteq Names
    BY <1>8, TypeParts DEF Promote, Promoted, history
  <2>. QED
    BY <2>1, TypeParts, TypeInvParts
<1>9. CASE Demote
  <2>1. UNCHANGED <<projs, loads, tracked, queue, work, index, edits, skipped, overruled>> /\ leading' \in BOOLEAN
    BY <1>9 DEF Demote, history
  <2>2. faults' \in 0..MaxFaults
    BY <1>9, FaultType DEF Demote, history
  <2>. QED
    BY <2>1, <2>2, TypeParts, TypeInvParts
<1>10. CASE Restart
  <2>1. \A n \in Names : <<Server(n)>> \in Seq(Projection) /\ <<Server(n)>> # << >>
    BY <1>0, ProjTypes, VersionListed
  <2>2. \A w \in Workloads : <<Current(w)>> \in Seq(Workload) /\ <<Current(w)>> # << >>
    BY <1>0, LoadTypes, VersionListed
  <2>3. projs' \in [Names -> Seq(Projection)] /\ \A m \in Names : projs'[m] # << >>
    BY <1>10, <2>1 DEF Restart
  <2>4. loads' \in [Workloads -> Seq(Workload)] /\ \A w \in Workloads : loads'[w] # << >>
    BY <1>10, <2>2 DEF Restart
  <2>5. work' \in [Names -> Work] /\ \A m \in Names : WorkOK(work'[m])
    <3>1. work' = [n \in Names |-> Idle]
      BY <1>10 DEF Restart
    <3>2. work' \in [Names -> Work] /\ \A n \in Names : work'[n] = Idle
      BY <3>1, IdleOK
    <3>. QED
      BY <3>2, IdleOK, Zenon
  <2>6. index' \in [Names -> Projection]
    BY <1>10, NoProjectionType DEF Restart
  <2>7. /\ tracked' \in [References -> SUBSET Names] /\ queue' \subseteq Names
        /\ leading' \in BOOLEAN /\ Fault
        /\ UNCHANGED <<edits, skipped, overruled>>
    BY <1>10 DEF Restart, history
  <2>8. faults' \in 0..MaxFaults
    BY <2>7, FaultType
  <2>. QED
    BY <2>3, <2>4, <2>5, <2>6, <2>7, <2>8, TypeParts, TypeInvParts
<1>11. CASE Resync
  <2>1. /\ UNCHANGED <<projs, loads, tracked, work, index, leading, edits, faults, skipped, overruled>>
        /\ queue' \subseteq Names
    BY <1>11, TypeParts DEF Resync, history
  <2>. QED
    BY <2>1, TypeParts, TypeInvParts
<1>12. CASE UNCHANGED vars
  <2>1. UNCHANGED <<projs, loads, tracked, queue, work, index, leading, edits, faults, skipped, overruled>>
    BY <1>12 DEF vars, history
  <2>. QED
    BY <2>1, TypeParts, TypeInvParts
<1>. QED
  BY <1>1, <1>2, <1>3, <1>4, <1>5, <1>6, <1>7, <1>8, <1>9, <1>10, <1>11, <1>12 DEF Next

\* So TypeInv is an invariant.
LEMMA TypeInvAlways == Spec => []TypeInv
<1>. QED
  BY TypeInit, TypeStep, PTL DEF Spec

\* Every variable keeps its type, and a worker that deals with a subject, or
\* removes the finalizer, does so for a copy that lives or bears the
\* finalizer: whatever is delivered, refused or lost meanwhile, and also
\* when the process restarts or the webhook's index is behind (Reconcile,
\* ReconcileKind and ReconcileDeletion of psbinding, Do and Undo).
THEOREM TypeCorrect == Spec => []TypeOK
<1>1. TypeInv => TypeOK
  BY DEF TypeInv
<1>. QED
  BY <1>1, TypeInvAlways, PTL

-----------------------------------------------------------------------------
(***************************************************************************)
(* What is projected when the controller rests.                            *)
(***************************************************************************)

\* RestInv holds at the start: there is no projection.
LEMMA RestInit == Init => RestInv
<1>. SUFFICES ASSUME Init PROVE RestInv
  OBVIOUS
<1>1. ASSUME NEW n \in Names
      PROVE  /\ projs[n] = <<NoProjection(0)>> /\ work[n] = Idle
  BY DEF Init
<1>2. NoProjection(0).exists = FALSE
  BY NoProjectionType
<1>3. \A n \in Names : Len(projs[n]) = 1 /\ Lister(n) = NoProjection(0)
  <2>1. Len(<<NoProjection(0)>>) = 1 /\ <<NoProjection(0)>>[1] = NoProjection(0)
    BY NoProjectionType, VersionListed
  <2>. QED
    BY <1>1, <2>1, Zenon DEF Lister
<1>5. \A n \in Names : Served(n)
  BY <1>1, <1>2, <1>3, IdleOK DEF Served, Live
<1>6. \A n \in Names : Referred(n)
  <2>. SUFFICES ASSUME NEW n \in Names, NEW i \in 1..Len(projs[n])
                PROVE  ~projs[n][i].exists
    BY DEF Referred
  <2>1. i = 1
    <3>1. \A j \in 1..1 : j = 1
      OBVIOUS
    <3>2. Len(projs[n]) = 1
      BY <1>3
    <3>. QED
      BY <3>1, <3>2, Zenon
  <2>. QED
    BY <1>2, <1>3, <2>1 DEF Lister
<1>. QED
  BY <1>5, <1>6 DEF RestInv

\* What exists refers to a workload, at both ends of the window.
LEMMA EndsReferred ==
  ASSUME TypeOK, RestInv, NEW n \in Names
  PROVE  /\ Lister(n).exists => Lister(n).workload \in References
         /\ Server(n).exists => Server(n).workload \in References
<1>1. Len(projs[n]) \in Nat \ {0} /\ Referred(n)
  BY ProjTypes DEF RestInv
<1>2. 1 \in 1..Len(projs[n]) /\ Len(projs[n]) \in 1..Len(projs[n])
  BY <1>1
<1>. QED
  BY <1>1, <1>2 DEF Referred, Lister, Server

\* Work that is waiting needs no more to be said about.
LEMMA ServedAwake ==
  ASSUME NEW n \in Names, n \in queue' \/ n \in skipped' \/ Len(projs'[n]) # 1
  PROVE  Served(n)'
BY DEF Served

\* What is reflected stays so as long as no event of a workload is delivered.
LEMMA ReflectedKept ==
  ASSUME NEW ts, NEW ts1, NEW ls, NEW ls1, NEW n, NEW p, NEW rest,
         Reflected(ts, ls, n, p, rest),
         n \in ts[p.workload] => n \in ts1[p.workload],
         \A w \in Workloads : ls1[w] = ls[w] \/ Len(ls1[w]) # 1 \/ ~GetSubject(p, w)
  PROVE  Reflected(ts1, ls1, n, p, rest)
<1>1. n \in ts1[p.workload]
  BY DEF Reflected
<1>2. ASSUME NEW w \in Workloads \ rest,
             GetSubject(p, w), Len(ls1[w]) = 1, ls1[w][1].exists
      PROVE  ls1[w][1].bound[n] = p.binding
  <2>1. ls1[w] = ls[w]
    BY <1>2
  <2>2. (GetSubject(p, w) /\ Len(ls[w]) = 1 /\ ls[w][1].exists)
          => ls[w][1].bound[n] = p.binding
    BY DEF Reflected
  <2>. QED
    BY <1>2, <2>1, <2>2, Zenon
<1>. QED
  BY <1>1, <1>2, Zenon DEF Reflected

\* A step of another, which at most queues m, tracks more, stores workloads
\* or delivers the event of a workload that m does not track.
LEMMA ServedKept ==
  ASSUME TypeOK, RestInv, NEW m \in Names,
         work'[m] = work[m], projs'[m] = projs[m], m \in queue => m \in queue',
         m \in skipped => m \in skipped', overruled'[m] = overruled[m],
         \A ref \in References : m \in tracked[ref] => m \in tracked'[ref],
         \A w \in Workloads :
           \/ loads'[w] = loads[w]
           \/ Len(loads'[w]) # 1
           \/ \A ref \in References \cap {w, Everything} : m \notin tracked[ref]
  PROVE  Served(m)'
<1>. DEFINE p == projs[m][1]
            k == work[m]
<1>1. ASSUME NEW rest, Live(p), Reflected(tracked, loads, m, p, rest)
      PROVE  Reflected(tracked', loads', m, p, rest)
  <2>1. p.workload \in References
    BY <1>1, EndsReferred DEF Live, Lister
  <2>2. m \in tracked[p.workload]
    BY <1>1 DEF Reflected
  <2>3. \A w \in Workloads :
          loads'[w] = loads[w] \/ Len(loads'[w]) # 1 \/ ~GetSubject(p, w)
    BY <2>1, <2>2 DEF GetSubject
  <2>4. m \in tracked'[p.workload]
    BY <2>1, <2>2
  <2>. HIDE DEF p
  <2>. QED
    BY <1>1, <2>3, <2>4, ReflectedKept, Zenon
<1>2. Underway(tracked, loads, overruled[m], m, k, p) =>
        Underway(tracked', loads', overruled'[m], m, k, p)
  <2>. HIDE DEF p, k
  <2>. QED
    BY <1>1, Zenon DEF Underway
<1>3. Served(m)
  BY DEF RestInv
<1>. QED
  BY <1>1, <1>2, <1>3, Zenon DEF Served, Lister

\* Only the worker of n moves, and it is served as it was meant to be.
LEMMA ServedMoved ==
  ASSUME TypeOK, RestInv, NEW n \in Names, NEW k, work'[n] = k, projs'[n] = projs[n],
         n \notin queue' /\ n \notin skipped' /\ Len(projs[n]) = 1 =>
           k.pc # "idle" /\ Underway(tracked', loads', overruled'[n], n, k, Lister(n))
  PROVE  Served(n)'
BY DEF Served, Lister

\* What the worker of n is at, when no event waits.
LEMMA IsUnderway ==
  ASSUME RestInv, NEW n \in Names, n \notin queue, n \notin skipped,
         Len(projs[n]) = 1, work[n].pc # "idle"
  PROVE  Underway(tracked, loads, overruled[n], n, work[n], Lister(n))
BY DEF RestInv, Served

\* A failure leaves nothing to be said but that the copy is current.
LEMMA UnderwayFailed ==
  ASSUME NEW k \in Work, NEW ts, NEW ls, NEW os, NEW ts1, NEW ls1, NEW os1,
         NEW n, NEW p, Underway(ts, ls, os, n, k, p)
  PROVE  Underway(ts1, ls1, os1, n, Failed(k), p)
BY FailedOK DEF Underway

\* What exists refers to a workload, also when the API server stores p.
LEMMA StoreReferred ==
  ASSUME TypeOK, RestInv, NEW n \in Names, NEW p \in Projection, Store(n, p),
         p.exists => p.workload \in References
  PROVE  \A m \in Names : Referred(m)'
<1>0. \A m \in Names : Referred(m)
  BY DEF RestInv
<1>1. /\ \A m \in Names \ {n} : projs'[m] = projs[m]
      /\ Len(projs'[n]) = Len(projs[n]) + 1
      /\ \A i \in 1..Len(projs[n]) : projs'[n][i] = projs[n][i]
      /\ Lister(n)' = Lister(n)
      /\ projs'[n][Len(projs[n]) + 1].exists =>
           p.exists /\ projs'[n][Len(projs[n]) + 1].workload = p.workload
  BY StoreWindows
<1>4. ASSUME NEW m \in Names \ {n} PROVE Referred(m)'
  BY <1>0, <1>1 DEF Referred
<1>5. Referred(n)'
  <2>. SUFFICES ASSUME NEW i \in 1..Len(projs'[n]), projs'[n][i].exists
                PROVE  projs'[n][i].workload \in References
    BY DEF Referred
  <2>1. CASE i \in 1..Len(projs[n])
    BY <1>0, <1>1, <2>1 DEF Referred
  <2>2. CASE i = Len(projs[n]) + 1
    BY <1>1, <2>2
  <2>3. i \in 1..Len(projs[n]) \/ i = Len(projs[n]) + 1
    BY <1>1, ProjTypes
  <2>. QED
    BY <2>1, <2>2, <2>3
<1>. QED
  BY <1>4, <1>5

\* The same when no projection is stored.
LEMMA SameReferred ==
  ASSUME RestInv, UNCHANGED projs
  PROVE  \A m \in Names : Referred(m)'
BY DEF RestInv, Referred

\* The patches of the finalizers: what is stored is to be delivered, and a
\* patch that is refused is a failure.
LEMMA FinalizedRest ==
  ASSUME TypeInv, RestInv, NEW n \in Names, NEW b \in BOOLEAN, NEW c \in {"subject", "status"},
         work[n].pc # "idle",
         c = "status" \/ Live(work[n].resource) \/ work[n].resource.finalizer,
         Finalized(n, b, c)
  PROVE  RestInv'
<1>0. TypeOK /\ work[n] \in Work
  BY TypeParts, WorkerTypes
<1>1. UNCHANGED <<loads, tracked, queue, index, leading, skipped, overruled>>
  BY FinalizedShape
<1>2. /\ Moves(n, At(work[n], c)) \/ Moves(n, Failed(work[n]))
      /\ \/ \E p \in Projection : Store(n, p) /\ (p.exists => p.workload \in References)
         \/ Moves(n, Failed(work[n])) /\ projs' = projs
  BY <1>0, FinalizedShape, EndsReferred
<1>3. \A m \in Names \ {n} : work'[m] = work[m]
  BY <1>0, <1>2, AtOK, FailedOK, MovesTypes
<1>4. CASE \E p \in Projection : Store(n, p) /\ (p.exists => p.workload \in References)
  <2>1. \A m \in Names : Referred(m)'
    BY <1>0, <1>1, <1>4, StoreReferred
  <2>2. Len(projs'[n]) # 1 /\ \A m \in Names \ {n} : projs'[m] = projs[m]
    BY <1>0, <1>4, StoreWindows
  <2>3. Served(n)'
    BY <2>2, ServedAwake
  <2>4. \A m \in Names \ {n} : Served(m)'
    BY <1>0, <1>1, <1>3, <2>2, ServedKept
  <2>. QED
    BY <2>1, <2>3, <2>4 DEF RestInv
<1>5. CASE Moves(n, Failed(work[n])) /\ projs' = projs
  <2>1. \A m \in Names : Referred(m)'
    BY <1>1, <1>5, SameReferred
  <2>2. work'[n] = Failed(work[n]) /\ Failed(work[n]).pc = "status"
    BY <1>0, <1>5, FailedOK, MovesTypes
  <2>3. n \notin queue' /\ n \notin skipped' /\ Len(projs[n]) = 1 =>
          Underway(tracked', loads', overruled'[n], n, Failed(work[n]), Lister(n))
    BY <1>0, <1>1, IsUnderway, UnderwayFailed
  <2>4. Served(n)'
    BY <1>0, <1>5, <2>2, <2>3, ServedMoved
  <2>5. \A m \in Names \ {n} : Served(m)'
    BY <1>0, <1>1, <1>3, <1>5, ServedKept
  <2>. QED
    BY <2>1, <2>4, <2>5 DEF RestInv
<1>. QED
  BY <1>2, <1>4, <1>5

\* Reconcile takes the key, and with it the lister's copy: a leader drops
\* only keys of projections that are gone, another replica skips the key.
LEMMA ReconcileRest ==
  ASSUME TypeInv, RestInv, NEW n \in Names, Reconcile(n)
  PROVE  RestInv'
<1>0. TypeOK /\ work[n] \in Work /\ Lister(n) \in Projection
  BY TypeParts, WorkerTypes, ProjTypes
<1>1. /\ queue' = queue \ {n} /\ work[n].pc = "idle"
      /\ UNCHANGED <<projs, loads, tracked, index, leading>>
  BY ReconcileShape
<1>2. \A m \in Names : Referred(m)'
  BY <1>1, SameReferred
<1>5. ASSUME NEW m \in Names \ {n}
      PROVE  (m \in skipped <=> m \in skipped') /\ overruled'[m] = overruled[m]
  BY ReconcileShape, TypeParts
<1>3. CASE (Live(Lister(n)) \/ Lister(n).finalizer) /\ Moves(n, Begun(Lister(n)))
  <2>1. /\ Begun(Lister(n)) \in Work /\ WorkOK(Begun(Lister(n)))
        /\ Begun(Lister(n)).pc \in {"subject", "finalizer"}
        /\ Begun(Lister(n)).original = Lister(n)
        /\ Same(Begun(Lister(n)).resource, Lister(n))
    BY <1>0, <1>3, BegunOK
  <2>2. /\ work'[n] = Begun(Lister(n))
        /\ \A m \in Names \ {n} : work'[m] = work[m]
    BY <1>3, <2>1, MovesTypes
  <2>3. /\ Begun(Lister(n)).pc # "idle"
        /\ Underway(tracked', loads', overruled'[n], n, Begun(Lister(n)), Lister(n))
    BY <2>1 DEF Underway
  <2>4. Served(n)'
    BY <1>0, <1>1, <2>2, <2>3, ServedMoved
  <2>5. \A m \in Names \ {n} : Served(m)'
    BY <1>0, <1>1, <1>5, <2>2, ServedKept
  <2>. QED
    BY <1>2, <2>4, <2>5 DEF RestInv
<1>4. CASE /\ n \in skipped' \/ ~(Live(Lister(n)) \/ Lister(n).finalizer)
           /\ work' = work
  <2>1. Served(n)'
    BY <1>1, <1>4 DEF Served, Lister
  <2>2. \A m \in Names \ {n} : Served(m)'
    BY <1>0, <1>1, <1>4, <1>5, ServedKept
  <2>. QED
    BY <1>2, <2>1, <2>2 DEF RestInv
<1>. QED
  BY <1>0, <1>3, <1>4, ReconcileShape

\* Once the subject has been looked up, all workloads but those that are left
\* to patch are as the projection asks, and the tracker reports any change.
LEMMA SubjectRest ==
  ASSUME TypeInv, RestInv, NEW n \in Names, ReconcileSubject(n)
  PROVE  RestInv'
<1>. DEFINE k == work[n]
            j == LookedUp(n, k)
            p == Lister(n)
<1>0. TypeOK /\ k \in Work /\ WorkOK(k) /\ k.pc = "subject"
  BY TypeParts, WorkerTypes, SubjectShape
<1>1. UNCHANGED <<projs, loads, queue, index, leading, skipped, overruled>> /\ TrackReference(n) /\ Moves(n, j)
  BY SubjectShape
<1>2. \A m \in Names : Referred(m)'
  BY <1>1, SameReferred
<1>3. /\ j \in Work /\ WorkOK(j)
      /\ j.original = k.original
      /\ Same(j.resource, k.resource)
      /\ j.pc = "removeFinalizer" => k.resource.deleting
      /\ j.pc = "status" => j.failed
      /\ j.pc # "idle"
      /\ j.referents =
           {w \in Found(k.resource) : Cached(w).bound[n] # Mutation(k.resource)}
  BY <1>0, LookedUpOK
<1>. HIDE DEF j
<1>4. work'[n] = j /\ \A m \in Names \ {n} : work'[m] = work[m]
  BY <1>1, <1>3, MovesTypes
<1>5. /\ \A ref \in References : tracked[ref] \subseteq tracked'[ref]
      /\ k.resource.workload \in References => n \in tracked'[k.resource.workload]
  BY <1>1, TrackedType
<1>6. ASSUME n \notin queue', n \notin skipped', Len(projs[n]) = 1
      PROVE  Underway(tracked', loads', overruled'[n], n, j, p)
  <2>1. Underway(tracked, loads, overruled[n], n, k, p)
    BY <1>0, <1>1, <1>6, IsUnderway
  <2>2. k.original = p /\ Same(k.resource, p)
    BY <2>1 DEF Underway
  <2>3. j.original = p /\ Same(j.resource, p)
    BY <1>3, <2>2, SameTrans
  <2>4. j.pc = "removeFinalizer" => p.deleting
    BY <1>3, <2>2, SameLive
  <2>5. ASSUME Live(p)
        PROVE  Reflected(tracked', loads', n, p, j.referents \cup overruled'[n])
    <3>1. n \in tracked'[p.workload]
      <4>1. p.workload \in References
        BY <1>0, <2>5, EndsReferred DEF Live
      <4>2. k.resource.workload = p.workload
        BY <2>2 DEF Same
      <4>. QED
        BY <1>5, <4>1, <4>2
    <3>2. ASSUME NEW w \in Workloads \ j.referents, GetSubject(p, w), loads[w][1].exists
          PROVE  loads[w][1].bound[n] = p.binding
      <4>1. w \in Found(k.resource)
        BY <2>2, <3>2 DEF Found, Cached, GetSubject, Same
      <4>2. Cached(w).bound[n] = Mutation(k.resource)
        BY <1>3, <3>2, <4>1
      <4>3. Mutation(k.resource) = p.binding
        BY <2>2, <2>5 DEF Mutation, Same, Live
      <4>. QED
        BY <4>2, <4>3 DEF Cached
    <3>3. loads' = loads
      BY <1>1
    <3>. HIDE DEF p, k
    <3>. QED
      BY <3>1, <3>2, <3>3 DEF Reflected
  <2>. QED
    BY <1>3, <2>3, <2>4, <2>5 DEF Underway
<1>7. Served(n)'
  BY <1>0, <1>1, <1>3, <1>4, <1>6, ServedMoved
<1>8. \A m \in Names \ {n} : Served(m)'
  BY <1>0, <1>1, <1>4, <1>5, ServedKept
<1>. QED
  BY <1>2, <1>7, <1>8 DEF RestInv

\* When the last patch has succeeded, the status to store is the one achieved.
LEMMA PatchedRest ==
  ASSUME TypeInv, RestInv, NEW n \in Names, Patched(n)
  PROVE  RestInv'
<1>. DEFINE k == work[n]
            j == Concluded(k)
            p == Lister(n)
<1>0. TypeOK /\ k \in Work /\ WorkOK(k) /\ k.pc = "patch" /\ k.referents = {}
  BY TypeParts, WorkerTypes, PatchedShape
<1>1. UNCHANGED <<projs, loads, tracked, queue, index, leading, skipped, overruled>> /\ Moves(n, j)
  BY PatchedShape
<1>2. \A m \in Names : Referred(m)'
  BY <1>1, SameReferred
<1>3. /\ j \in Work /\ WorkOK(j)
      /\ j.original = k.original
      /\ Same(j.resource, k.resource)
      /\ j.failed = k.failed
      /\ j.pc \in {"removeFinalizer", "status"}
      /\ j.pc = "removeFinalizer" => k.resource.deleting
      /\ ~k.failed /\ ~k.resource.deleting => j.resource.status = Achieved(k.resource)
  BY <1>0, ConcludedOK
<1>. HIDE DEF j
<1>4. work'[n] = j /\ \A m \in Names \ {n} : work'[m] = work[m]
  BY <1>1, <1>3, MovesTypes
<1>5. ASSUME n \notin queue', n \notin skipped', Len(projs[n]) = 1
      PROVE  Underway(tracked', loads', overruled'[n], n, j, p)
  <2>1. Underway(tracked, loads, overruled[n], n, k, p)
    BY <1>0, <1>1, <1>5, IsUnderway
  <2>2. k.original = p /\ Same(k.resource, p)
    BY <2>1 DEF Underway
  <2>3. j.original = p /\ Same(j.resource, p)
    BY <1>3, <2>2, SameTrans
  <2>4. j.pc = "removeFinalizer" => p.deleting
    BY <1>3, <2>2, SameLive
  <2>5. ASSUME ~j.failed, Live(p)
        PROVE  /\ j.resource.status = Achieved(p)
               /\ Reflected(tracked, loads, n, p, overruled[n])
    <3>1. Achieved(k.resource) = Achieved(p)
      BY <2>2 DEF Achieved, Same
    <3>2. ~k.failed /\ ~k.resource.deleting
      BY <1>3, <2>2, <2>5 DEF Same, Live
    <3>3. Reflected(tracked, loads, n, p, k.referents \cup overruled[n])
      BY <1>0, <2>1, <2>5, <3>2 DEF Underway
    <3>4. k.referents \cup overruled[n] = overruled[n]
      BY <1>0
    <3>. QED
      BY <1>3, <3>1, <3>2, <3>3, <3>4
  <2>6. tracked' = tracked /\ loads' = loads /\ overruled' = overruled
    BY <1>1
  <2>. HIDE DEF p, k
  <2>. QED
    BY <1>3, <2>3, <2>4, <2>5, <2>6 DEF Underway
<1>6. Served(n)'
  BY <1>0, <1>1, <1>3, <1>4, <1>5, ServedMoved
<1>7. \A m \in Names \ {n} : Served(m)'
  BY <1>0, <1>1, <1>4, ServedKept
<1>. QED
  BY <1>2, <1>6, <1>7 DEF RestInv

\* A patch goes through the webhook: either the workload gets a version, to be
\* delivered, or it was as the projection asks, or the patch was overruled.
LEMMA PatchRest ==
  ASSUME TypeInv, RestInv, NEW n \in Names, NEW w \in Workloads, PatchWorkload(n, w)
  PROVE  RestInv'
<1>. DEFINE k == work[n]
            p == Lister(n)
            b == [Current(w).bound EXCEPT ![n] = Mutation(k.resource)]
            load == [exists |-> TRUE, bound |-> Admit(w, b)]
<1>0. TypeOK /\ k \in Work /\ WorkOK(k) /\ k.pc = "patch"
  BY TypeParts, WorkerTypes, PatchShape
<1>1. UNCHANGED <<projs, tracked, queue, index, leading, skipped>>
  BY PatchShape
<1>2. PICK f \in BOOLEAN :
        /\ Moves(n, Without(k, w, f))
        /\ ~f => ~k.failed
        /\ \/ load \in Workload /\ StoreWorkload(w, load)
           \/ loads' = loads /\ (~k.resource.deleting => f)
  BY PatchShape
<1>3. \A m \in Names : Referred(m)'
  BY <1>1, SameReferred
<1>. DEFINE j == Without(k, w, f)
<1>4. /\ j \in Work /\ WorkOK(j)
      /\ j.original = k.original /\ j.resource = k.resource
      /\ j.pc = k.pc /\ j.failed = f /\ j.referents = k.referents \ {w}
  BY <1>0, WithoutOK
<1>. HIDE DEF j
<1>5. work'[n] = j /\ \A m \in Names \ {n} : work'[m] = work[m]
  BY <1>2, <1>4, MovesTypes DEF j
<1>6. /\ \A v \in Workloads : loads'[v] = loads[v] \/ Len(loads'[v]) # 1
      /\ \/ loads' = loads /\ (~k.resource.deleting => f)
         \/ loads' = loads /\ load = Current(w)
         \/ Len(loads'[w]) # 1
  <2>. HIDE DEF load, k
  <2>. QED
    BY <1>0, <1>2, StoreLoads
<1>10. /\ \A m \in Names \ {n} : overruled'[m] = overruled[m]
       /\ overruled[n] \subseteq overruled'[n]
       /\ \/ w \in overruled'[n]
          \/ load # Current(w)
          \/ Admit(w, b)[n] = Mutation(k.resource)
  <2>1. /\ overruled \in [Names -> SUBSET Workloads]
        /\ \/ overruled' = [overruled EXCEPT ![n] = overruled[n] \cup {w}]
           \/ /\ overruled' = overruled
              /\ load # Current(w) \/ Admit(w, b)[n] = Mutation(k.resource)
    BY PatchShape, TypeParts
  <2>. HIDE DEF load, b, k
  <2>. QED
    BY <2>1
<1>7. ASSUME n \notin queue', n \notin skipped', Len(projs[n]) = 1
      PROVE  Underway(tracked', loads', overruled'[n], n, j, p)
  <2>1. Underway(tracked, loads, overruled[n], n, k, p)
    BY <1>0, <1>1, <1>7, IsUnderway
  <2>2. k.original = p /\ Same(k.resource, p)
    BY <2>1 DEF Underway
  <2>3. ASSUME ~f, Live(p)
        PROVE  Reflected(tracked', loads', n, p, j.referents \cup overruled'[n])
    <3>1. Reflected(tracked, loads, n, p, k.referents \cup overruled[n])
      BY <1>0, <1>2, <2>1, <2>3 DEF Underway
    <3>2. k.resource.deleting = FALSE /\ p.deleting = FALSE
      <4>1. k.resource.deleting \in BOOLEAN /\ ~k.resource.deleting
        BY <1>0, <2>2, <2>3, WorkTypes DEF Same, Live
      <4>. QED
        BY <2>2, <4>1 DEF Same
    <3>3. Mutation(k.resource) = p.binding
      BY <2>2, <3>2 DEF Mutation, Same
    <3>4. ASSUME load = Current(w), Len(loads[w]) = 1, w \notin overruled'[n]
          PROVE  loads[w][1].bound[n] = p.binding
      <4>1. Admit(w, b)[n] = p.binding
        BY <1>10, <3>3, <3>4
      <4>2. Current(w) = loads[w][1]
        BY <3>4 DEF Current
      <4>3. load.bound = Admit(w, b)
        OBVIOUS
      <4>. HIDE DEF load, b
      <4>. QED
        BY <3>4, <4>1, <4>2, <4>3
    <3>5. ASSUME NEW v \in Workloads \ (j.referents \cup overruled'[n]),
                 GetSubject(p, v), Len(loads'[v]) = 1, loads'[v][1].exists
          PROVE  loads'[v][1].bound[n] = p.binding
      <4>1. loads'[v] = loads[v]
        BY <1>6, <3>5
      <4>2. CASE v \notin k.referents
        <5>1. (GetSubject(p, v) /\ Len(loads[v]) = 1 /\ loads[v][1].exists)
                => loads[v][1].bound[n] = p.binding
          <6>1. v \in Workloads \ (k.referents \cup overruled[n])
            BY <1>10, <3>5, <4>2
          <6>. HIDE DEF p, k
          <6>. QED
            BY <3>1, <6>1 DEF Reflected
        <5>. QED
          BY <3>5, <4>1, <5>1, Zenon
      <4>3. CASE v = w
        <5>1. load = Current(w)
          BY <1>6, <2>3, <3>2, <3>5, <4>3
        <5>2. Len(loads[w]) = 1
          BY <3>5, <4>1, <4>3
        <5>. QED
          BY <3>4, <3>5, <4>1, <4>3, <5>1, <5>2, Zenon
      <4>. QED
        BY <1>4, <3>5, <4>2, <4>3
    <3>6. n \in tracked'[p.workload]
      BY <1>1, <3>1 DEF Reflected
    <3>. HIDE DEF p, k, load, b
    <3>. QED
      BY <3>5, <3>6, Zenon DEF Reflected
  <2>4. j.pc = "patch" /\ j.original = p /\ Same(j.resource, p) /\ j.failed = f
    BY <1>0, <1>4, <2>2
  <2>. HIDE DEF p, k, load, b
  <2>. QED
    BY <2>3, <2>4 DEF Underway
<1>8. Served(n)'
  <2>1. j.pc # "idle"
    BY <1>0, <1>4
  <2>. QED
    BY <1>0, <1>1, <1>5, <1>7, <2>1, ServedMoved
<1>9. \A m \in Names \ {n} : Served(m)'
  BY <1>0, <1>1, <1>5, <1>6, <1>10, ServedKept
<1>. QED
  BY <1>3, <1>8, <1>9 DEF RestInv

\* When the key is done with and not put back, the lister's status is the
\* one that was achieved, or the new one is to be delivered.
LEMMA StatusRest ==
  ASSUME TypeInv, RestInv, NEW n \in Names, UpdateStatus(n)
  PROVE  RestInv'
<1>. DEFINE k == work[n]
            p == Lister(n)
<1>0. TypeOK /\ k \in Work /\ k.pc = "status"
  BY TypeParts, WorkerTypes, StatusShape
<1>1. /\ UNCHANGED <<loads, tracked, index, leading, skipped, overruled>>
      /\ Moves(n, Idle) /\ queue \subseteq queue'
  BY StatusShape
<1>2. work'[n] = Idle /\ \A m \in Names \ {n} : work'[m] = work[m]
  BY <1>1, IdleOK, MovesTypes
<1>3. CASE \E q \in Projection : Store(n, q) /\ (q.exists => q.workload \in References)
  <2>1. \A m \in Names : Referred(m)'
    BY <1>0, <1>1, <1>3, StoreReferred
  <2>2. Len(projs'[n]) # 1 /\ \A m \in Names \ {n} : projs'[m] = projs[m]
    BY <1>0, <1>3, StoreWindows
  <2>3. Served(n)'
    BY <2>2, ServedAwake
  <2>4. \A m \in Names \ {n} : Served(m)'
    BY <1>0, <1>1, <1>2, <2>2, ServedKept
  <2>. QED
    BY <2>1, <2>3, <2>4 DEF RestInv
<1>4. CASE projs' = projs /\ n \in queue'
  <2>1. \A m \in Names : Referred(m)'
    BY <1>1, <1>4, SameReferred
  <2>2. Served(n)'
    BY <1>4, ServedAwake
  <2>3. \A m \in Names \ {n} : Served(m)'
    BY <1>0, <1>1, <1>2, <1>4, ServedKept
  <2>. QED
    BY <2>1, <2>2, <2>3 DEF RestInv
<1>5. CASE /\ projs' = projs
           /\ k.resource.status = k.original.status \/ p.status = k.resource.status
           /\ ~k.failed
  <2>1. \A m \in Names : Referred(m)'
    BY <1>1, <1>5, SameReferred
  <2>2. ASSUME n \notin queue', n \notin skipped, Len(projs[n]) = 1, Live(p)
        PROVE  p.status = Achieved(p) /\ Reflected(tracked, loads, n, p, overruled[n])
    <3>1. Underway(tracked, loads, overruled[n], n, k, p)
      BY <1>0, <1>1, <2>2, IsUnderway
    <3>2. k.original = p
      BY <3>1 DEF Underway
    <3>3. /\ k.resource.status = Achieved(p)
          /\ Reflected(tracked, loads, n, p, overruled[n])
      BY <1>0, <1>5, <2>2, <3>1 DEF Underway
    <3>. QED
      BY <1>5, <3>2, <3>3
  <2>3. Served(n)'
    <3>1. work'[n].pc = "idle"
      BY <1>2, IdleOK
    <3>2. projs'[n][1] = p
      BY <1>5 DEF Lister
    <3>3. /\ projs' = projs /\ tracked' = tracked /\ loads' = loads
          /\ skipped' = skipped /\ overruled' = overruled
      BY <1>1, <1>5
    <3>. HIDE DEF p
    <3>. QED
      BY <2>2, <3>1, <3>2, <3>3 DEF Served, Lister
  <2>4. \A m \in Names \ {n} : Served(m)'
    BY <1>0, <1>1, <1>2, <1>5, ServedKept
  <2>. QED
    BY <2>1, <2>3, <2>4 DEF RestInv
<1>. QED
  <2>1. \/ \E q \in Projection : Store(n, q) /\ (q.exists => q.workload \in References)
        \/ projs' = projs /\ n \in queue'
        \/ /\ projs' = projs
           /\ k.resource.status = k.original.status \/ p.status = k.resource.status
           /\ ~k.failed
    BY <1>0, StatusShape, EndsReferred
  <2>. QED
    BY <1>3, <1>4, <1>5, <2>1

\* A failed request leads to a status that is not the one achieved, with the
\* key put back in the end.
LEMMA RequestFailsRest ==
  ASSUME TypeInv, RestInv, NEW n \in Names, RequestFails(n)
  PROVE  RestInv'
<1>. DEFINE k == work[n]
            p == Lister(n)
<1>0. TypeOK /\ k \in Work /\ WorkOK(k)
  BY TypeParts, WorkerTypes
<1>1. UNCHANGED <<projs, loads, tracked, index, leading, skipped, overruled>>
  BY RequestFailsShape
<1>2. \A m \in Names : Referred(m)'
  BY <1>1, SameReferred
<1>3. CASE /\ k.pc \in {"finalizer", "removeFinalizer"}
           /\ Moves(n, Failed(k)) /\ queue' = queue
  <2>1. /\ work'[n] = Failed(k) /\ Failed(k).pc # "idle"
        /\ \A m \in Names \ {n} : work'[m] = work[m]
    BY <1>0, <1>3, FailedOK, MovesTypes
  <2>2. n \notin queue' /\ n \notin skipped' /\ Len(projs[n]) = 1 =>
          Underway(tracked', loads', overruled'[n], n, Failed(k), p)
    BY <1>0, <1>1, <1>3, IsUnderway, UnderwayFailed
  <2>3. Served(n)'
    BY <1>0, <1>1, <2>1, <2>2, ServedMoved
  <2>4. \A m \in Names \ {n} : Served(m)'
    BY <1>0, <1>1, <1>3, <2>1, ServedKept
  <2>. QED
    BY <1>2, <2>3, <2>4 DEF RestInv
<1>4. CASE (\E w \in Workloads : Moves(n, Without(k, w, TRUE))) /\ queue' = queue
  <2>1. PICK w \in Workloads : Moves(n, Without(k, w, TRUE))
    BY <1>4
  <2>. DEFINE j == Without(k, w, TRUE)
  <2>2. /\ j \in Work /\ WorkOK(j)
        /\ j.original = k.original /\ j.resource = k.resource
        /\ j.pc = k.pc /\ j.failed = TRUE
    BY <1>0, WithoutOK
  <2>3. work'[n] = j /\ \A m \in Names \ {n} : work'[m] = work[m]
    BY <2>1, <2>2, MovesTypes
  <2>. HIDE DEF j
  <2>4. Served(n)'
    <3>1. CASE k.pc = "idle"
      <4>1. /\ work'[n].pc = "idle" /\ work[n].pc = "idle" /\ projs' = projs
            /\ tracked' = tracked /\ loads' = loads /\ queue' = queue
            /\ skipped' = skipped /\ overruled' = overruled
        BY <1>1, <1>4, <2>2, <2>3, <3>1
      <4>2. Served(n)
        BY DEF RestInv
      <4>. QED
        BY <4>1, <4>2 DEF Served, Lister
    <3>2. CASE k.pc # "idle"
      <4>1. ASSUME n \notin queue', n \notin skipped', Len(projs[n]) = 1
            PROVE  Underway(tracked', loads', overruled'[n], n, j, p)
        <5>1. Underway(tracked, loads, overruled[n], n, k, p)
          BY <1>1, <1>4, <3>2, <4>1, IsUnderway
        <5>. HIDE DEF k, p
        <5>. QED
          BY <2>2, <5>1 DEF Underway
      <4>. QED
        BY <1>0, <1>1, <2>2, <2>3, <3>2, <4>1, ServedMoved
    <3>. QED
      BY <3>1, <3>2
  <2>5. \A m \in Names \ {n} : Served(m)'
    BY <1>0, <1>1, <1>4, <2>3, ServedKept
  <2>. QED
    BY <1>2, <2>4, <2>5 DEF RestInv
<1>5. CASE Moves(n, Idle) /\ queue' = queue \cup {n}
  <2>1. \A m \in Names \ {n} : work'[m] = work[m]
    BY <1>5, IdleOK, MovesTypes
  <2>2. Served(n)'
    BY <1>5, ServedAwake
  <2>3. \A m \in Names \ {n} : Served(m)'
    BY <1>0, <1>1, <1>5, <2>1, ServedKept
  <2>. QED
    BY <1>2, <2>2, <2>3 DEF RestInv
<1>. QED
  BY <1>3, <1>4, <1>5, RequestFailsShape

-----------------------------------------------------------------------------
\* The informer's event: the key is queued.
LEMMA DeliverRest ==
  ASSUME TypeInv, RestInv, NEW n \in Names, DeliverProjection(n)
  PROVE  RestInv'
<1>0. TypeOK /\ \A m \in Names : Referred(m)
  BY TypeParts DEF RestInv
<1>1. /\ UNCHANGED <<loads, tracked, work, skipped, overruled>>
      /\ queue' = queue \cup {n}
  BY DEF DeliverProjection, history
<1>2. /\ \A m \in Names \ {n} : projs'[m] = projs[m]
      /\ Len(projs[n]) > 1 /\ Len(projs'[n]) = Len(projs[n]) - 1
      /\ \A i \in 1..Len(projs'[n]) : projs'[n][i] = projs[n][i + 1]
      /\ projs'[n][1] = projs[n][2]
  BY <1>0, DeliverWindows
<1>4. \A m \in Names : Referred(m)'
  <2>1. ASSUME NEW m \in Names \ {n} PROVE Referred(m)'
    BY <1>0, <1>2 DEF Referred
  <2>2. Referred(n)'
    <3>. SUFFICES ASSUME NEW i \in 1..Len(projs'[n]), projs'[n][i].exists
                  PROVE  projs'[n][i].workload \in References
      BY DEF Referred
    <3>1. i + 1 \in 1..Len(projs[n])
      BY <1>0, <1>2, ProjTypes
    <3>. QED
      BY <1>0, <1>2, <3>1 DEF Referred
  <2>. QED
    BY <2>1, <2>2
<1>5. Served(n)'
  BY <1>1, ServedAwake
<1>6. \A m \in Names \ {n} : Served(m)'
  BY <1>0, <1>1, <1>2, ServedKept
<1>. QED
  BY <1>4, <1>5, <1>6 DEF RestInv

\* Whoever tracks the workload is queued; for the others it is none of theirs.
LEMMA DeliverWorkloadRest ==
  ASSUME TypeInv, RestInv, NEW w \in Workloads, DeliverWorkload(w)
  PROVE  RestInv'
<1>0. TypeOK
  BY TypeParts
<1>1. /\ UNCHANGED <<projs, tracked, work, index, leading, skipped, overruled>>
      /\ queue' = queue \cup UNION {tracked[ref] : ref \in References \cap {w, Everything}}
  BY DEF DeliverWorkload, history
<1>2. \A v \in Workloads \ {w} : loads'[v] = loads[v]
  BY <1>0, DeliverLoads
<1>3. ASSUME NEW m \in Names PROVE Served(m)'
  <2>1. CASE m \in queue'
    BY <2>1, ServedAwake
  <2>2. CASE m \notin queue'
    <3>1. m \notin queue /\ \A ref \in References \cap {w, Everything} : m \notin tracked[ref]
      BY <1>1, <2>2
    <3>. QED
      BY <1>0, <1>1, <1>2, <3>1, ServedKept
  <2>. QED
    BY <2>1, <2>2
<1>. QED
  BY <1>1, <1>3, SameReferred DEF RestInv

\* From outside: what is stored is to be delivered.
LEMMA EditRest ==
  ASSUME TypeInv, RestInv, NEW n \in Names,
         CreateProjection(n) \/ UpdateProjection(n) \/ DeleteProjection(n)
  PROVE  RestInv'
<1>0. TypeOK
  BY TypeParts
<1>1. /\ UNCHANGED loads /\ Edited
      /\ \E p \in Projection : Store(n, p) /\ p.workload \in References
  BY <1>0, CreateShape, UpdateShape, DeleteShape, EndsReferred
<1>2. UNCHANGED <<loads, tracked, queue, work, index, leading, skipped, overruled>>
  BY <1>1 DEF Edited, history
<1>3. \A m \in Names : Referred(m)'
  BY <1>0, <1>1, <1>2, StoreReferred
<1>4. Len(projs'[n]) # 1 /\ \A m \in Names \ {n} : projs'[m] = projs[m]
  BY <1>0, <1>1, StoreWindows
<1>5. Served(n)'
  BY <1>4, ServedAwake
<1>6. \A m \in Names \ {n} : Served(m)'
  BY <1>0, <1>2, <1>4, ServedKept
<1>. QED
  BY <1>3, <1>5, <1>6 DEF RestInv

\* A workload that is applied or deleted has an event to deliver.
LEMMA ApplyRest ==
  ASSUME TypeInv, RestInv, NEW w \in Workloads, ApplyWorkload(w) \/ DeleteWorkload(w)
  PROVE  RestInv'
<1>0. TypeOK
  BY TypeParts
<1>1. UNCHANGED projs /\ Edited /\ \E load \in Workload : StoreWorkload(w, load)
  BY ApplyShape
<1>2. UNCHANGED <<projs, tracked, queue, work, index, leading, skipped, overruled>>
  BY <1>1 DEF Edited, history
<1>3. \A v \in Workloads : loads'[v] = loads[v] \/ Len(loads'[v]) # 1
  BY <1>0, <1>1, StoreLoads
<1>4. \A m \in Names : Served(m)'
  BY <1>0, <1>2, <1>3, ServedKept
<1>. QED
  BY <1>2, <1>4, SameReferred DEF RestInv

\* After a restart all that exists is queued.
LEMMA RestartRest ==
  ASSUME TypeInv, RestInv, Restart
  PROVE  RestInv'
<1>0. TypeOK
  BY TypeParts
<1>1. ASSUME NEW n \in Names
      PROVE  /\ projs'[n] = <<Server(n)>> /\ work'[n] = Idle
             /\ Server(n).exists => n \in queue'
  BY DEF Restart
<1>2. ASSUME NEW n \in Names
      PROVE  Len(projs'[n]) = 1 /\ projs'[n][1] = Server(n)
  <2>1. Server(n) \in Projection
    BY <1>0, ProjTypes
  <2>2. Len(<<Server(n)>>) = 1 /\ <<Server(n)>>[1] = Server(n)
    BY <2>1, VersionListed
  <2>. QED
    BY <1>1, <2>2, Zenon
<1>3. ASSUME NEW n \in Names PROVE Served(n)'
  <2>1. CASE Server(n).exists
    BY <1>1, <2>1, ServedAwake
  <2>2. CASE ~Server(n).exists
    BY <1>1, <1>2, <2>2, IdleOK DEF Served, Lister, Live
  <2>. QED
    BY <2>1, <2>2
<1>4. ASSUME NEW n \in Names PROVE Referred(n)'
  <2>1. \A i \in 1..1 : i = 1
    OBVIOUS
  <2>2. Server(n).exists => Server(n).workload \in References
    BY <1>0, EndsReferred
  <2>. QED
    BY <1>2, <2>1, <2>2 DEF Referred
<1>. QED
  BY <1>3, <1>4 DEF RestInv

\* RestInv is inductive: the webhook's index and the lead are no part of it.
LEMMA RestStep ==
  ASSUME TypeInv, RestInv, [Next]_vars
  PROVE  RestInv'
<1>0. TypeOK
  BY TypeParts
<1>1. ASSUME NEW n \in Names, Worker(n) PROVE RestInv'
  <2>0. WorkOK(work[n])
    BY WorkerTypes
  <2>1. CASE EnsureFinalizer(n)
    BY <2>0, <2>1, FinalizedRest DEF EnsureFinalizer, WorkOK
  <2>2. CASE RemoveFinalizer(n)
    BY <2>2, FinalizedRest DEF RemoveFinalizer
  <2>. QED
    BY <1>1, <2>1, <2>2, ReconcileRest, SubjectRest, PatchedRest, PatchRest, StatusRest
       DEF Worker
<1>2. ASSUME NEW n \in Names,
             \/ RequestFails(n) \/ DeliverProjection(n)
             \/ CreateProjection(n) \/ UpdateProjection(n) \/ DeleteProjection(n)
      PROVE  RestInv'
  BY <1>2, RequestFailsRest, DeliverRest, EditRest
<1>3. ASSUME NEW w \in Workloads,
             DeliverWorkload(w) \/ ApplyWorkload(w) \/ DeleteWorkload(w)
      PROVE  RestInv'
  BY <1>3, DeliverWorkloadRest, ApplyRest
<1>4. CASE ProgramWebhook \/ Promote \/ Demote \/ Resync \/ UNCHANGED vars
  <2>1. /\ UNCHANGED <<projs, loads, tracked, work, skipped, overruled>>
        /\ queue \subseteq queue'
    BY <1>4 DEF ProgramWebhook, Promote, Demote, Resync, vars, history
  <2>2. \A m \in Names : Served(m)'
    BY <1>0, <2>1, ServedKept
  <2>. QED
    BY <2>1, <2>2, SameReferred DEF RestInv
<1>. QED
  BY <1>1, <1>2, <1>3, <1>4, RestartRest DEF Next

\* RestInv says at rest what RestsOnlyWhenProjected says.
LEMMA RestImplies == TypeOK /\ RestInv => RestsOnlyWhenProjected
<1>. SUFFICES ASSUME TypeOK, RestInv, Rest, NEW n \in Names, Live(Server(n)),
                     n \notin skipped
              PROVE  Projected(n, overruled[n]) /\ Server(n).status = Achieved(Server(n))
  BY DEF RestsOnlyWhenProjected, Achieved
<1>1. /\ n \notin queue /\ Len(projs[n]) = 1 /\ work[n].pc = "idle"
      /\ \A w \in Workloads : Len(loads[w]) = 1
  BY DEF Rest
<1>2. Server(n) = Lister(n) /\ \A w \in Workloads : Current(w) = loads[w][1]
  BY <1>1, Zenon DEF Server, Lister, Current
<1>3. /\ Lister(n).status = Achieved(Lister(n))
      /\ Reflected(tracked, loads, n, Lister(n), overruled[n])
  BY <1>1, <1>2 DEF RestInv, Served
<1>4. ASSUME NEW w \in Workloads \ overruled[n], Current(w).exists, GetSubject(Server(n), w)
      PROVE  Current(w).bound[n] = Server(n).binding
  <2>1. (GetSubject(Lister(n), w) /\ Len(loads[w]) = 1 /\ loads[w][1].exists)
          => loads[w][1].bound[n] = Lister(n).binding
    BY <1>3 DEF Reflected
  <2>. QED
    BY <1>1, <1>2, <1>4, <2>1, Zenon
<1>. QED
  BY <1>2, <1>3, <1>4 DEF Projected

\* Whenever the controller rests, every projection that is not being deleted
\* says of its generation that it is reflected in its workloads, and is so,
\* but for a key that was dropped for want of the lead and a workload whose
\* patch the webhook has overruled: for any number of projections and
\* workloads, any selection of the webhook and any bounds, through conflicts,
\* failed requests, restarts and changes of the lead, with a webhook whose
\* index is as far behind as it may be (NewController, GetSubject).
THEOREM RestsOnlyWhenProjectedAlways == Spec => []RestsOnlyWhenProjected
<1>1. TypeInv /\ RestInv => RestsOnlyWhenProjected
  BY RestImplies DEF TypeInv
<1>2. TypeInv /\ RestInv /\ [Next]_vars => (TypeInv /\ RestInv)'
  BY TypeStep, RestStep
<1>. QED
  BY <1>1, <1>2, TypeInit, RestInit, PTL DEF Spec
=============================================================================
