------------------ MODULE ServiceBindingControllerProofs --------------------
(***************************************************************************)
(* Theorems about ServiceBindingController, for any sets of keys, services,*)
(* secrets and values and any bounds.                                      *)
(***************************************************************************)
EXTENDS ServiceBindingController, SequenceTheorems, TLAPS

-----------------------------------------------------------------------------
(* Conditions: what the setters return, for any conditions and any time *)

\* Conditions that the setters may have produced: all unset, or all set with
\* Ready their aggregate.  Aggregated alone does not survive a setter, since
\* a condition without a status would be repeated as it is.
WellFormed(c) ==
  \/ c = NoConditions
  \/ /\ \A t \in CondTypes : c[t].status # ""
     /\ c["Ready"].status = ReadyStatus(c)

\* Conditions that InitializeConditions has seen.
Complete(c) == \A t \in CondTypes : c[t].status # ""

\* A status that nothing has been set in is a set of conditions.
LEMMA NoConditionsType == NoConditions \in ConditionSet
BY ReasonsAssumption
   DEF Reason, NoConditions, NoCondition, ConditionSet, Condition, CondStatuses

\* A transition yields a condition.
LEMMA TransitionType ==
  ASSUME NEW c \in Condition, NEW status \in CondStatuses,
         NEW reason \in Reason, NEW now \in Nat
  PROVE  /\ Transition(c, status, reason, now) \in Condition
         /\ Transition(c, status, reason, now).status = status
BY DEF Transition, Condition

\* The aggregate is a set of conditions; it changes Ready only, and makes it
\* what ReadyStatus says, provided that the other two have a status.
LEMMA AggregateCorrect ==
  ASSUME NEW c \in ConditionSet, NEW now \in Nat
  PROVE  /\ aggregateReadyCondition(c, now) \in ConditionSet
         /\ Complete(c) =>
              /\ Complete(aggregateReadyCondition(c, now))
              /\ WellFormed(aggregateReadyCondition(c, now))
<1>. DEFINE svc == c["ServiceAvailable"]
            proj == c["ProjectionReady"]
            b == Blamed(c)
            both == svc.status = "True" /\ proj.status = "True"
            st == IF both THEN "True" ELSE c[b].status
            why == IF both THEN <<"", "Ready">> ELSE <<b, c[b].reason[2]>>
            r == Transition(c["Ready"], st, why, now)
            d == [c EXCEPT !["Ready"] = r]
<1>1. \A t \in CondTypes : c[t] \in Condition
  BY DEF ConditionSet
<1>2. b \in {"ServiceAvailable", "ProjectionReady"} /\ b \in CondTypes
  BY DEF Blamed, CondTypes
<1>3. st \in CondStatuses /\ why \in Reason
  <2>1. c[b].status \in CondStatuses /\ c[b].reason[2] \in Reasons
    BY <1>1, <1>2 DEF Condition, Reason
  <2>2. <<b, c[b].reason[2]>> \in Reason
    BY <1>2, <2>1 DEF Reason
  <2>3. <<"", "Ready">> \in Reason
    BY ReasonsAssumption DEF Reason
  <2>. QED
    BY <2>1, <2>2, <2>3 DEF CondStatuses
<1>4. r \in Condition /\ r.status = st
  <2>1. c["Ready"] \in Condition
    BY <1>1 DEF CondTypes
  <2>. HIDE DEF st, why
  <2>. QED
    BY <1>3, <2>1, TransitionType
<1>5. aggregateReadyCondition(c, now) = d
  BY DEF aggregateReadyCondition
<1>6. d \in ConditionSet
  BY <1>4 DEF ConditionSet
<1>7. /\ d["Ready"].status = st
      /\ d["ServiceAvailable"] = svc
      /\ d["ProjectionReady"] = proj
  BY <1>4 DEF ConditionSet, CondTypes
<1>8. ASSUME Complete(c)
      PROVE  Complete(d) /\ WellFormed(d)
  <2>1. svc.status \in {"True", "False", "Unknown"}
        /\ proj.status \in {"True", "False", "Unknown"}
    BY <1>1, <1>8 DEF Complete, CondTypes, Condition, CondStatuses
  <2>2. st = ReadyStatus(d) /\ st # ""
    BY <1>7, <2>1 DEF ReadyStatus, Blamed
  <2>3. Complete(d)
    BY <1>7, <1>8, <2>2 DEF Complete, CondTypes
  <2>. QED
    BY <1>7, <2>2, <2>3 DEF Complete, WellFormed
<1>. QED
  BY <1>5, <1>6, <1>8

\* InitializeConditions completes the conditions and keeps them well-formed.
LEMMA InitializeCorrect ==
  ASSUME NEW c \in ConditionSet, NEW now \in Nat
  PROVE  /\ InitializeConditions(c, now) \in ConditionSet
         /\ WellFormed(c) => /\ Complete(InitializeConditions(c, now))
                             /\ WellFormed(InitializeConditions(c, now))
<1>. DEFINE unset == [status |-> "Unknown", reason |-> <<"", "Unknown">>,
                      lastTransitionTime |-> now]
            d == InitializeConditions(c, now)
<1>1. unset \in Condition
  BY ReasonsAssumption DEF Condition, CondStatuses, Reason
<1>2. d \in ConditionSet
  BY <1>1 DEF InitializeConditions, ConditionSet
<1>3. ASSUME c = NoConditions
      PROVE  Complete(d) /\ WellFormed(d)
  <2>1. \A t \in CondTypes : d[t].status = "Unknown"
    BY <1>3 DEF InitializeConditions, NoConditions
  <2>. QED
    BY <2>1 DEF Complete, WellFormed, ReadyStatus, CondTypes
<1>4. ASSUME Complete(c), c["Ready"].status = ReadyStatus(c)
      PROVE  Complete(d) /\ WellFormed(d)
  <2>1. ASSUME NEW t \in CondTypes
        PROVE  d[t] = c[t]
    <3>1. NoCondition.status = ""
      BY DEF NoCondition
    <3>2. c[t] # NoCondition
      BY <1>4, <3>1 DEF Complete
    <3>. QED
      BY <3>2 DEF InitializeConditions
  <2>. QED
    BY <1>4, <2>1 DEF Complete, WellFormed, ReadyStatus, CondTypes
<1>. QED
  BY <1>2, <1>3, <1>4 DEF WellFormed, Complete

\* MarkServiceAvailable leaves a complete status well-formed.
LEMMA AvailableCorrect ==
  ASSUME NEW c \in ConditionSet, NEW now \in Nat
  PROVE  /\ MarkServiceAvailable(c, now) \in ConditionSet
         /\ Complete(c) => /\ Complete(MarkServiceAvailable(c, now))
                           /\ WellFormed(MarkServiceAvailable(c, now))
<1>. DEFINE r == Transition(c["ServiceAvailable"], "True", <<"", "Available">>, now)
            d == [c EXCEPT !["ServiceAvailable"] = r]
<1>1. r \in Condition /\ r.status = "True"
  <2>1. <<"", "Available">> \in Reason
    BY ReasonsAssumption DEF Reason
  <2>2. c["ServiceAvailable"] \in Condition
    BY DEF ConditionSet, CondTypes
  <2>. QED
    BY <2>1, <2>2, TransitionType DEF CondStatuses
<1>2. d \in ConditionSet
  BY <1>1 DEF ConditionSet
<1>3. Complete(c) => Complete(d)
  BY <1>1 DEF Complete, ConditionSet, CondTypes
<1>. QED
  BY <1>2, <1>3, AggregateCorrect DEF MarkServiceAvailable

\* So does PropagateServiceBindingProjectionStatus, whatever is reported.
LEMMA PropagateCorrect ==
  ASSUME NEW c \in ConditionSet, NEW report \in Report, NEW now \in Nat
  PROVE  /\ PropagateServiceBindingProjectionStatus(c, report, now)
              \in ConditionSet
         /\ Complete(c) =>
              /\ Complete(
                   PropagateServiceBindingProjectionStatus(c, report, now))
              /\ WellFormed(
                   PropagateServiceBindingProjectionStatus(c, report, now))
<1>. DEFINE st == ReportedStatus(report)
            why == <<"", ReportedReason(report)>>
            r == Transition(c["ProjectionReady"], st, why, now)
            d == [c EXCEPT !["ProjectionReady"] = r]
<1>1. st \in CondStatuses /\ st # "" /\ why \in Reason
  BY ReasonsAssumption
     DEF Report, CondStatuses, ReportedStatus, ReportedReason, Reason
<1>2. r \in Condition /\ r.status = st
  <2>1. c["ProjectionReady"] \in Condition
    BY DEF ConditionSet, CondTypes
  <2>. HIDE DEF st, why
  <2>. QED
    BY <1>1, <2>1, TransitionType, ZenonT(40)
<1>3. d \in ConditionSet
  BY <1>2 DEF ConditionSet
<1>4. Complete(c) => Complete(d)
  BY <1>1, <1>2 DEF Complete, ConditionSet, CondTypes
<1>. QED
  BY <1>3, <1>4, AggregateCorrect DEF PropagateServiceBindingProjectionStatus

-----------------------------------------------------------------------------
(* Windows *)

\* The copy in the lister and the copy of the API server are versions.
LEMMA WindowEnds ==
  ASSUME NEW S, NEW w \in Seq(S), w # << >>
  PROVE  /\ Len(w) \in Nat \ {0}
         /\ 1 \in DOMAIN w
         /\ Len(w) \in DOMAIN w
         /\ Lister(w) \in S
         /\ Server(w) \in S
BY EmptySeq, LenProperties DEF Lister, Server

\* A write adds a version at the API server's end.
LEMMA WindowStored ==
  ASSUME NEW S, NEW w \in Seq(S), w # << >>, NEW o \in S
  PROVE  /\ Stored(w, o) \in Seq(S)
         /\ Stored(w, o) # << >>
         /\ Server(Stored(w, o)) = o
         /\ Lister(Stored(w, o)) = Lister(w)
         /\ \A i \in DOMAIN Stored(w, o) :
              Stored(w, o)[i] = o \/ \E j \in DOMAIN w : Stored(w, o)[i] = w[j]
<1>1. /\ Append(w, o) \in Seq(S)
      /\ Len(Append(w, o)) = Len(w) + 1
      /\ \A i \in 1..Len(w) : Append(w, o)[i] = w[i]
      /\ Append(w, o)[Len(w) + 1] = o
  BY AppendProperties
<1>2. Len(w) \in Nat \ {0} /\ DOMAIN w = 1..Len(w)
  BY EmptySeq, LenProperties
<1>3. DOMAIN Append(w, o) = 1..(Len(w) + 1)
  BY <1>1, LenProperties
<1>4. Append(w, o) # << >>
  BY <1>3, <1>2
<1>. QED
  BY <1>1, <1>2, <1>3, <1>4 DEF Stored, Server, Lister

\* A write changes the window.
LEMMA StoredIsNew ==
  ASSUME NEW S, NEW w \in Seq(S), NEW o \in S
  PROVE  Stored(w, o) # w
<1>1. Len(Append(w, o)) = Len(w) + 1 /\ Len(w) \in Nat
  BY AppendProperties, LenProperties
<1>2. Len(Append(w, o)) # Len(w)
  BY <1>1
<1>. QED
  BY <1>2, Zenon DEF Stored

\* A delivery drops the oldest version and leaves the API server's alone.
LEMMA WindowTail ==
  ASSUME NEW S, NEW w \in Seq(S), w # << >>, ~Settled(w)
  PROVE  /\ Tail(w) \in Seq(S)
         /\ Tail(w) # << >>
         /\ Server(Tail(w)) = Server(w)
         /\ \A i \in DOMAIN Tail(w) : \E j \in DOMAIN w : Tail(w)[i] = w[j]
         /\ 2 \in DOMAIN w
<1>1. Len(w) \in Nat /\ Len(w) > 1 /\ DOMAIN w = 1..Len(w)
  <2>1. Len(w) \in Nat \ {0} /\ DOMAIN w = 1..Len(w)
    BY EmptySeq, LenProperties
  <2>2. Len(w) # 1
    BY DEF Settled
  <2>. QED
    BY <2>1, <2>2
<1>2. /\ Tail(w) \in Seq(S)
      /\ Len(Tail(w)) = Len(w) - 1
      /\ \A i \in 1..Len(Tail(w)) : Tail(w)[i] = w[i + 1]
  BY HeadTailProperties
<1>3. DOMAIN Tail(w) = 1..(Len(w) - 1)
  BY <1>2, LenProperties
<1>4. Tail(w) # << >>
  <2>1. Len(Tail(w)) # 0
    <3>1. \A k \in Nat : k > 1 => k - 1 # 0
      OBVIOUS
    <3>. QED
      BY <1>1, <1>2, <3>1, Zenon
  <2>2. Len(<< >>) = 0
    BY EmptySeq
  <2>. QED
    BY <2>1, <2>2, Zenon
<1>5. Server(Tail(w)) = Server(w)
  BY <1>1, <1>2 DEF Server
<1>6. ASSUME NEW i \in DOMAIN Tail(w)
      PROVE  \E j \in DOMAIN w : Tail(w)[i] = w[j]
  <2>1. i + 1 \in DOMAIN w /\ Tail(w)[i] = w[i + 1]
    BY <1>1, <1>2, <1>3
  <2>. QED
    BY <2>1
<1>. QED
  BY <1>1, <1>2, <1>4, <1>5, <1>6

\* A relist keeps the API server's version only.
LEMMA WindowRelist ==
  ASSUME NEW S, NEW w \in Seq(S), w # << >>
  PROVE  /\ <<Server(w)>> \in Seq(S)
         /\ <<Server(w)>> # << >>
         /\ Server(<<Server(w)>>) = Server(w)
         /\ \A i \in DOMAIN <<Server(w)>> :
              \E j \in DOMAIN w : <<Server(w)>>[i] = w[j]
<1>1. Server(w) \in S /\ Len(w) \in DOMAIN w
  BY WindowEnds
<1>. QED
  BY <1>1 DEF Server

-----------------------------------------------------------------------------
(* Types of the objects *)

\* The empty status of a binding that was just created is a status.
LEMMA NoStatusType == NoStatus \in Status
BY NoConditionsType DEF NoStatus, Status

\* The slot of a binding that is not there has the type of a binding.
LEMMA NoServiceBindingType ==
  ASSUME NEW uid \in Nat
  PROVE  NoServiceBinding(uid) \in ServiceBinding
<1>1. /\ (CHOOSE r \in References : TRUE) \in References
      /\ (CHOOSE w \in Wants : TRUE) \in Wants
      /\ (CHOOSE m \in Metas : TRUE) \in Metas
  BY NonemptyAssumption DEF References
<1>. QED
  BY <1>1, NoStatusType DEF NoServiceBinding, ServiceBinding

\* A new resource version changes nothing else of a binding.
LEMMA RevisedType ==
  ASSUME NEW o \in ServiceBinding
  PROVE  /\ Revised(o) \in ServiceBinding
         /\ Revised(o).exists = o.exists /\ Revised(o).uid = o.uid
         /\ Revised(o).generation = o.generation
         /\ Revised(o).status = o.status
<1>1. o.resourceVersion + 1 \in Nat
  BY DEF ServiceBinding
<1>. QED
  BY <1>1 DEF Revised, ServiceBinding

\* A later version of a binding, as edits and a foreground deletion make it.
Later(o, r) ==
  /\ o \in ServiceBinding
  /\ o.exists = r.exists
  /\ o.uid = r.uid
  /\ o.generation >= r.generation
  /\ o.status = r.status

\* A change of the spec makes a later version.
LEMMA SpecEdited ==
  ASSUME NEW r \in ServiceBinding, NEW service \in References,
         NEW want \in Wants
  PROVE  Later([r EXCEPT !.generation = @ + 1, !.service = service,
                         !.want = want], r)
<1>. DEFINE o == [r EXCEPT !.generation = r.generation + 1,
                           !.service = service, !.want = want]
<1>1. r.generation \in Nat /\ r.generation + 1 \in Nat
  BY DEF ServiceBinding
<1>2. o \in ServiceBinding
  BY <1>1 DEF ServiceBinding
<1>3. o.generation = r.generation + 1
  BY DEF ServiceBinding
<1>4. o.exists = r.exists /\ o.uid = r.uid /\ o.status = r.status
  BY DEF ServiceBinding
<1>. QED
  BY <1>1, <1>2, <1>3, <1>4 DEF Later

\* A change of the labels and annotations makes a later version.
LEMMA MetaEdited ==
  ASSUME NEW r \in ServiceBinding, NEW meta \in Metas
  PROVE  Later([r EXCEPT !.meta = meta], r)
<1>1. r.generation \in Nat
  BY DEF ServiceBinding
<1>. QED
  BY <1>1 DEF ServiceBinding, Later

\* A deletion in the foreground makes a later version.
LEMMA MarkedDeleting ==
  ASSUME NEW r \in ServiceBinding
  PROVE  Later([r EXCEPT !.deleting = TRUE], r)
<1>. DEFINE o == [r EXCEPT !.deleting = TRUE]
<1>1. r.generation \in Nat
  BY DEF ServiceBinding
<1>2. o \in ServiceBinding
  BY DEF ServiceBinding
<1>3. o.generation = r.generation
  BY DEF ServiceBinding
<1>4. o.exists = r.exists /\ o.uid = r.uid /\ o.status = r.status
  BY DEF ServiceBinding
<1>. QED
  BY <1>1, <1>2, <1>3, <1>4 DEF Later

\* The slot of a projection that is not there has the type of one.
LEMMA NoProjectionType == NoProjection \in ServiceBindingProjection
<1>1. /\ (CHOOSE w \in Wants : TRUE) \in Wants
      /\ (CHOOSE m \in Metas : TRUE) \in Metas
  BY NonemptyAssumption
<1>2. NoReport \in Report
  BY ReasonsAssumption DEF NoReport, Report, CondStatuses
<1>. QED
  BY <1>1, <1>2 DEF NoProjection, ServiceBindingProjection, Bindings

\* A worker that holds no key has the type of a worker.
LEMMA IdleType == Idle \in Work
BY NoServiceBindingType DEF Idle, Work, Steps

\* What a worker does to its record.
LEMMA FailedType ==
  ASSUME NEW w \in Work
  PROVE  Failed(w) \in Work /\ StepOK(Failed(w))
BY DEF Failed, Work, Steps, StepOK

\* A resolved reference leaves the worker typed and ready to project.
LEMMA ResolvedType ==
  ASSUME NEW w \in Work, NEW b \in Bindings
  PROVE  Resolved(w, b) \in Work /\ StepOK(Resolved(w, b))
<1>1. w.resource.status.conditions \in ConditionSet /\ w.now \in Nat
  BY DEF Work, ServiceBinding, Status
<1>2. MarkServiceAvailable(w.resource.status.conditions, w.now) \in ConditionSet
  BY <1>1, AvailableCorrect
<1>. QED
  BY <1>2, SentinelsAssumption
     DEF Resolved, Work, Steps, ServiceBinding, Status, StepOK, Bindings

\* A projection in hand leaves the worker typed.
LEMMA ProjectedType ==
  ASSUME NEW w \in Work, NEW p \in ServiceBindingProjection
  PROVE  Projected(w, p) \in Work /\ StepOK(Projected(w, p))
<1>1. /\ w.resource.status.conditions \in ConditionSet
      /\ w.now \in Nat
      /\ p.ready \in Report
  BY DEF Work, ServiceBinding, Status, ServiceBindingProjection
<1>2. PropagateServiceBindingProjectionStatus(
        w.resource.status.conditions, p.ready, w.now) \in ConditionSet
  BY <1>1, PropagateCorrect
<1>. QED
  BY <1>2 DEF Projected, Work, Steps, ServiceBinding, Status, StepOK

\* Resolving sets the conditions and keeps the generations.
LEMMA ResolvedFields ==
  ASSUME NEW w \in Work, NEW b \in Bindings
  PROVE  /\ Resolved(w, b).resource.status.conditions =
              MarkServiceAvailable(w.resource.status.conditions, w.now)
         /\ Resolved(w, b).resource.status.observedGeneration =
              w.resource.status.observedGeneration
         /\ Resolved(w, b).resource.generation = w.resource.generation
<1>1. w.resource \in ServiceBinding /\ w.resource.status \in Status
  BY DEF Work, ServiceBinding
<1>. QED
  BY <1>1 DEF Resolved, Work, ServiceBinding, Status

\* ReconcileKind's end records the generation that it worked on.
LEMMA ProjectedFields ==
  ASSUME NEW w \in Work, NEW p \in ServiceBindingProjection
  PROVE  /\ Projected(w, p).resource.status.conditions =
              PropagateServiceBindingProjectionStatus(
                w.resource.status.conditions, p.ready, w.now)
         /\ Projected(w, p).resource.status.observedGeneration =
              w.resource.generation
         /\ Projected(w, p).resource.generation = w.resource.generation
<1>1. w.resource \in ServiceBinding /\ w.resource.status \in Status
  BY DEF Work, ServiceBinding
<1>. QED
  BY <1>1 DEF Projected, Work, ServiceBinding, Status

-----------------------------------------------------------------------------
(* Type correctness *)

\* The facts about one key that most steps need.
LEMMA KeyTypes ==
  ASSUME TypeOK, NEW n \in Names
  PROVE  /\ sbs[n] \in Seq(ServiceBinding) /\ sbs[n] # << >>
         /\ projs[n] \in Seq(ServiceBindingProjection) /\ projs[n] # << >>
         /\ Lister(sbs[n]) \in ServiceBinding
         /\ Server(sbs[n]) \in ServiceBinding
         /\ Lister(projs[n]) \in ServiceBindingProjection
         /\ Server(projs[n]) \in ServiceBindingProjection
         /\ work[n] \in Work
         /\ work[n].resource \in ServiceBinding
         /\ work[n].existing \in ServiceBinding
<1>1. /\ sbs[n] \in Seq(ServiceBinding) /\ sbs[n] # << >>
      /\ projs[n] \in Seq(ServiceBindingProjection) /\ projs[n] # << >>
      /\ work[n] \in Work
  BY DEF TypeOK
<1>2. work[n].resource \in ServiceBinding /\ work[n].existing \in ServiceBinding
  BY <1>1 DEF Work
<1>. QED
  BY <1>1, <1>2, WindowEnds

\* What a write leaves in a window.
LEMMA StoredTypes ==
  ASSUME TypeOK, NEW n \in Names
  PROVE  /\ \A o \in ServiceBinding :
              /\ Stored(sbs[n], o) \in Seq(ServiceBinding)
              /\ Stored(sbs[n], o) # << >>
         /\ \A p \in ServiceBindingProjection :
              /\ Stored(projs[n], p) \in Seq(ServiceBindingProjection)
              /\ Stored(projs[n], p) # << >>
<1>1. /\ sbs[n] \in Seq(ServiceBinding) /\ sbs[n] # << >>
      /\ projs[n] \in Seq(ServiceBindingProjection) /\ projs[n] # << >>
  BY KeyTypes
<1>. QED
  BY <1>1, WindowStored, ZenonT(40)

\* Writes from outside keep the types if what they store has its type.
LEMMA StoreTypes ==
  ASSUME TypeOK, edits' \in 0..MaxEdits,
         \/ \E n \in Names, o \in ServiceBinding : StoreBinding(n, o)
         \/ \E n \in Names, o \in ServiceBindingProjection :
              StoreProjection(n, o)
         \/ \E s \in Services, b \in Bindings \cup {Missing} :
              StoreService(s, b)
  PROVE  TypeOK'
<1>1. ASSUME NEW n \in Names, NEW o \in ServiceBinding, StoreBinding(n, o)
      PROVE  TypeOK'
  <2>1. Stored(sbs[n], o) \in Seq(ServiceBinding) /\ Stored(sbs[n], o) # << >>
    BY WindowStored, KeyTypes
  <2>. QED
    BY <1>1, <2>1 DEF StoreBinding, TypeOK
<1>2. ASSUME NEW n \in Names, NEW o \in ServiceBindingProjection,
             StoreProjection(n, o)
      PROVE  TypeOK'
  <2>1. /\ Stored(projs[n], o) \in Seq(ServiceBindingProjection)
        /\ Stored(projs[n], o) # << >>
    BY WindowStored, KeyTypes
  <2>. QED
    BY <1>2, <2>1 DEF StoreProjection, TypeOK
<1>3. ASSUME NEW s \in Services, NEW b \in Bindings \cup {Missing},
             StoreService(s, b)
      PROVE  TypeOK'
  <2>. DEFINE B == Bindings \cup {Missing}
  <2>0. svcs[s] \in Seq(B) /\ svcs[s] # << >> /\ b \in B
    BY <1>3 DEF TypeOK
  <2>. HIDE DEF B
  <2>2. Stored(svcs[s], b) \in Seq(B) /\ Stored(svcs[s], b) # << >>
    BY <2>0, WindowStored, ZenonT(40)
  <2>1. /\ Stored(svcs[s], b) \in Seq(Bindings \cup {Missing})
        /\ Stored(svcs[s], b) # << >>
    BY <2>2 DEF B
  <2>. QED
    BY <1>3, <2>1 DEF StoreService, TypeOK
<1>. QED
  BY <1>1, <1>2, <1>3

\* A step of a worker keeps the types if its record and its writes have theirs.
LEMMA WorkerTypes ==
  ASSUME TypeOK, NEW n \in Names, NEW w \in Work,
         StepOK(w),
         work' = [work EXCEPT ![n] = w],
         queue' \subseteq Names,
         faults' \in 0..MaxFaults,
         tracked' \in [Services -> SUBSET Names],
         \/ UNCHANGED sbs
         \/ \E o \in ServiceBinding :
              sbs' = [sbs EXCEPT ![n] = Stored(@, o)],
         \/ UNCHANGED projs
         \/ \E p \in ServiceBindingProjection :
              projs' = [projs EXCEPT ![n] = Stored(@, p)],
         UNCHANGED <<svcs, clock, edits>>
  PROVE  TypeOK'
<1>1. /\ sbs' \in [Names -> Seq(ServiceBinding)]
      /\ \A m \in Names : sbs'[m] # << >>
  <2>1. \A o \in ServiceBinding :
          /\ Stored(sbs[n], o) \in Seq(ServiceBinding)
          /\ Stored(sbs[n], o) # << >>
    BY StoredTypes, Zenon
  <2>. QED
    BY <2>1 DEF TypeOK
<1>2. /\ projs' \in [Names -> Seq(ServiceBindingProjection)]
      /\ \A m \in Names : projs'[m] # << >>
  <2>1. \A p \in ServiceBindingProjection :
          /\ Stored(projs[n], p) \in Seq(ServiceBindingProjection)
          /\ Stored(projs[n], p) # << >>
    BY StoredTypes, Zenon
  <2>. QED
    BY <2>1 DEF TypeOK
<1>3. /\ work' \in [Names -> Work]
      /\ \A m \in Names : StepOK(work'[m])
  BY DEF TypeOK
<1>. QED
  BY <1>1, <1>2, <1>3 DEF TypeOK

\* The types hold initially.
LEMMA InitTypeOK == Init => TypeOK
<1>. SUFFICES ASSUME Init PROVE TypeOK
  OBVIOUS
<1>1. \A S, e : e \in S => <<e>> \in Seq(S) /\ <<e>> # << >>
  OBVIOUS
<1>2. /\ <<NoServiceBinding(0)>> \in Seq(ServiceBinding)
      /\ <<NoServiceBinding(0)>> # << >>
      /\ <<NoProjection>> \in Seq(ServiceBindingProjection)
      /\ <<NoProjection>> # << >>
      /\ \A s \in Services : /\ <<Deployed[s]>> \in Seq(Bindings \cup {Missing})
                             /\ <<Deployed[s]>> # << >>
  BY <1>1, NoServiceBindingType, NoProjectionType, DeployedAssumption
     DEF Bindings
<1>3. Idle \in Work /\ StepOK(Idle)
  BY IdleType DEF Idle, StepOK
<1>. QED
  BY <1>2, <1>3, BoundsAssumption DEF Init, TypeOK

\* The steps of a worker keep the types.
LEMMA ReconcileTypes ==
  ASSUME TypeOK, NEW n \in Names, Reconcile(n)
  PROVE  TypeOK'
<1>. DEFINE original == Lister(sbs[n])
            c == InitializeConditions(original.status.conditions, clock)
            resource == [original EXCEPT !.status.conditions = c]
            w == [pc |-> "track", now |-> clock, err |-> FALSE,
                  existing |-> original, attempts |-> 0,
                  resource |-> resource]
<1>1. original \in ServiceBinding /\ clock \in Nat
  BY KeyTypes, BoundsAssumption DEF TypeOK
<1>2. c \in ConditionSet
  BY <1>1, InitializeCorrect DEF ServiceBinding, Status
<1>3. resource \in ServiceBinding
  BY <1>1, <1>2 DEF ServiceBinding, Status
<1>4. w \in Work
  BY <1>1, <1>3 DEF Work, Steps
<1>5. work' = work \/ work' = [work EXCEPT ![n] = w]
  BY DEF Reconcile
<1>6. queue' \subseteq Names
  BY DEF Reconcile, TypeOK
<1>7. CASE work' = work
  BY <1>6, <1>7 DEF Reconcile, TypeOK
<1>8. CASE work' = [work EXCEPT ![n] = w]
  <2>1. UNCHANGED <<sbs, projs, svcs, tracked, clock, edits, faults>>
    BY DEF Reconcile
  <2>2. tracked' \in [Services -> SUBSET Names] /\ faults' \in 0..MaxFaults
    BY <2>1 DEF TypeOK
  <2>3. StepOK(w)
    BY DEF StepOK
  <2>. QED
    BY <1>4, <1>6, <1>8, <2>1, <2>2, <2>3, WorkerTypes
<1>. QED
  BY <1>5, <1>7, <1>8

\* TrackReference keeps the types: only a service is looked up.
LEMMA TrackTypes ==
  ASSUME TypeOK, NEW n \in Names, TrackReference(n)
  PROVE  TypeOK'
<1>. DEFINE ref == work[n].resource.service
            looking == [work[n] EXCEPT !.pc = "lookup"]
<1>1. work[n] \in Work /\ ref \in Services \cup Secrets
  BY KeyTypes DEF ServiceBinding, References
<1>2. UNCHANGED <<sbs, projs, svcs, queue, clock, edits, faults>>
  BY DEF TrackReference
<1>3. queue' \subseteq Names /\ faults' \in 0..MaxFaults
  BY <1>2 DEF TypeOK
<1>4. CASE ref \in Secrets
  <2>1. Resolved(work[n], ref) \in Work /\ StepOK(Resolved(work[n], ref))
    BY <1>1, <1>4, ResolvedType DEF Bindings
  <2>2. work' = [work EXCEPT ![n] = Resolved(work[n], ref)]
    BY <1>4 DEF TrackReference
  <2>3. tracked' \in [Services -> SUBSET Names]
    BY <1>4 DEF TrackReference, TypeOK
  <2>. QED
    BY <1>2, <1>3, <2>1, <2>2, <2>3, WorkerTypes
<1>5. CASE ref \notin Secrets
  <2>1. looking \in Work /\ StepOK(looking)
    BY <1>1, <1>5 DEF Work, Steps, StepOK
  <2>2. work' = [work EXCEPT ![n] = looking]
    BY <1>5 DEF TrackReference
  <2>3. tracked' \in [Services -> SUBSET Names]
    <3>1. tracked' = [tracked EXCEPT ![ref] = tracked[ref] \cup {n}]
      BY <1>5 DEF TrackReference
    <3>2. tracked \in [Services -> SUBSET Names] /\ ref \in Services
      BY <1>1, <1>5 DEF TypeOK
    <3>3. tracked[ref] \cup {n} \in SUBSET Names
      BY <3>2
    <3>. QED
      BY <3>1, <3>2, <3>3
  <2>. QED
    BY <1>2, <1>3, <2>1, <2>2, <2>3, WorkerTypes
<1>. QED
  BY <1>4, <1>5

\* LookupService keeps the types: a missing service resolves to nothing.
LEMMA LookupTypes ==
  ASSUME TypeOK, NEW n \in Names, LookupService(n)
  PROVE  TypeOK'
<1>. DEFINE service == Lister(svcs[work[n].resource.service])
            w == IF service = Missing THEN Failed(work[n])
                                      ELSE Resolved(work[n], service)
<1>1. work[n] \in Work /\ work[n].resource.service \in Services
  BY KeyTypes DEF LookupService, TypeOK, StepOK
<1>2. service \in Bindings \cup {Missing}
  <2>1. /\ svcs[work[n].resource.service] \in Seq(Bindings \cup {Missing})
        /\ svcs[work[n].resource.service] # << >>
    BY <1>1 DEF TypeOK
  <2>. QED
    BY <2>1, WindowEnds
<1>3. w \in Work /\ StepOK(w)
  BY <1>1, <1>2, FailedType, ResolvedType
<1>4. work' = [work EXCEPT ![n] = w]
  BY DEF LookupService
<1>5. UNCHANGED <<sbs, projs, svcs, tracked, queue, clock, edits, faults>>
  BY DEF LookupService
<1>6. /\ queue' \subseteq Names
      /\ faults' \in 0..MaxFaults
      /\ tracked' \in [Services -> SUBSET Names]
  BY <1>5 DEF TypeOK
<1>. QED
  BY <1>3, <1>4, <1>5, <1>6, WorkerTypes

\* The requests for the projection, whatever their answers.
LEMMA ProjectTypes ==
  ASSUME TypeOK, NEW n \in Names, serviceBindingProjection(n)
  PROVE  TypeOK'
<1>. DEFINE binding == work[n].resource
            listed == Lister(projs[n])
            server == Server(projs[n])
            created == MakeServiceBindingProjection(binding)
            updated == [server EXCEPT !.binding = binding.status.binding,
                                      !.want = binding.want,
                                      !.meta = binding.meta]
<1>1. /\ work[n] \in Work /\ binding \in ServiceBinding
      /\ listed \in ServiceBindingProjection
      /\ server \in ServiceBindingProjection
  BY KeyTypes
<1>2. UNCHANGED <<sbs, svcs, tracked, queue, clock, edits>>
  BY DEF serviceBindingProjection
<1>3. faults \in 0..MaxFaults /\ faults' \in 0..MaxFaults
  BY BoundsAssumption
     DEF TypeOK, serviceBindingProjection, createServiceBindingProjection,
         reconcileServiceBindingProjection, Answered
<1>4. queue' \subseteq Names /\ tracked' \in [Services -> SUBSET Names]
  BY <1>2 DEF TypeOK
<1>5. ASSUME NEW p \in ServiceBindingProjection,
             projs' = [projs EXCEPT ![n] = Stored(@, p)],
             Answered(n, Projected(work[n], p))
      PROVE  TypeOK'
  <2>1. PICK w \in {Failed(work[n]), Projected(work[n], p)} :
          work' = [work EXCEPT ![n] = w]
    BY <1>5 DEF Answered
  <2>2. w \in Work /\ StepOK(w)
    BY <1>1, <2>1, FailedType, ProjectedType
  <2>. QED
    BY <1>2, <1>3, <1>4, <1>5, <2>1, <2>2, WorkerTypes
<1>6. ASSUME NEW w \in Work, StepOK(w), UNCHANGED projs,
             work' = [work EXCEPT ![n] = w]
      PROVE  TypeOK'
  BY <1>2, <1>3, <1>4, <1>6, WorkerTypes
<1>7. Failed(work[n]) \in Work /\ StepOK(Failed(work[n]))
  BY <1>1, FailedType
<1>8. binding.status.binding \in Bindings
  BY <1>1 DEF serviceBindingProjection, TypeOK, StepOK, ServiceBinding, Status
<1>9. CASE createServiceBindingProjection(n)
  <2>1. created \in ServiceBindingProjection
    BY <1>1, <1>8, NoProjectionType
       DEF MakeServiceBindingProjection, ServiceBindingProjection,
           ServiceBinding, Status, NoProjection
  <2>. QED
    BY <1>5, <1>6, <1>7, <1>9, <2>1 DEF createServiceBindingProjection
<1>10. CASE reconcileServiceBindingProjection(n)
  <2>1. updated \in ServiceBindingProjection
    BY <1>1, <1>8 DEF ServiceBindingProjection, ServiceBinding, Status
  <2>. QED
    BY <1>5, <1>6, <1>7, <1>10, <2>1 DEF reconcileServiceBindingProjection
<1>11. CASE UNCHANGED projs /\ work' = [work EXCEPT ![n] = Failed(@)]
  BY <1>6, <1>7, <1>11
<1>12. CASE UNCHANGED projs /\ work' = [work EXCEPT ![n] = Projected(@, listed)]
  <2>1. Projected(work[n], listed) \in Work /\ StepOK(Projected(work[n], listed))
    BY <1>1, ProjectedType
  <2>. QED
    BY <1>6, <1>12, <2>1
<1>. QED
  BY <1>9, <1>10, <1>11, <1>12 DEF serviceBindingProjection

\* Reconcile returns.
LEMMA ReturnTypes ==
  ASSUME TypeOK, NEW n \in Names, NEW err \in BOOLEAN, Return(n, err),
         faults' \in 0..MaxFaults,
         \/ UNCHANGED sbs
         \/ \E o \in ServiceBinding :
              sbs' = [sbs EXCEPT ![n] = Stored(@, o)],
         UNCHANGED <<projs, svcs, tracked, clock, edits>>
  PROVE  TypeOK'
<1>1. Idle \in Work /\ StepOK(Idle)
  BY IdleType DEF Idle, StepOK
<1>2. work' = [work EXCEPT ![n] = Idle] /\ queue' \subseteq Names
  BY DEF Return, TypeOK
<1>3. tracked' \in [Services -> SUBSET Names]
  BY DEF TypeOK
<1>. QED
  BY <1>1, <1>2, <1>3, WorkerTypes

\* updateStatus keeps the types, whichever of its four ends it takes.
LEMMA UpdateStatusTypes ==
  ASSUME TypeOK, NEW n \in Names, updateStatus(n)
  PROVE  TypeOK'
<1>. DEFINE w == work[n]
            server == Server(sbs[n])
            o == [Revised(server) EXCEPT !.status = w.resource.status]
            again == [w EXCEPT !.pc = "get", !.attempts = @ + 1]
<1>1. w \in Work /\ w.err \in BOOLEAN /\ server \in ServiceBinding
  BY KeyTypes DEF Work
<1>2. o \in ServiceBinding
  <2>1. w.resource.status \in Status
    BY <1>1 DEF Work, ServiceBinding
  <2>2. Revised(server) \in ServiceBinding
    BY <1>1, RevisedType
  <2>. QED
    BY <2>1, <2>2 DEF ServiceBinding
<1>3. UNCHANGED <<projs, svcs, tracked, clock, edits>>
  BY DEF updateStatus
<1>4. faults' \in 0..MaxFaults
  <2>1. \/ faults' = faults
        \/ faults < MaxFaults /\ faults' = faults + 1
    BY DEF updateStatus
  <2>. QED
    BY <2>1, BoundsAssumption DEF TypeOK
<1>5. \/ UNCHANGED sbs
      \/ sbs' = [sbs EXCEPT ![n] = Stored(@, o)]
  BY DEF updateStatus
<1>6. CASE \E err \in BOOLEAN : Return(n, err)
  BY <1>2, <1>3, <1>4, <1>5, <1>6, ReturnTypes
<1>7. CASE work' = [work EXCEPT ![n] = again] /\ UNCHANGED <<queue, sbs>>
  <2>1. again \in Work /\ StepOK(again)
    <3>1. w.attempts + 1 \in Nat
      BY <1>1 DEF Work
    <3>2. again = [w EXCEPT !.pc = "get", !.attempts = w.attempts + 1]
      BY <1>1 DEF Work
    <3>. QED
      BY <1>1, <3>1, <3>2 DEF Work, Steps, StepOK
  <2>2. queue' \subseteq Names /\ tracked' \in [Services -> SUBSET Names]
    BY <1>3, <1>7 DEF TypeOK
  <2>. QED
    BY <1>3, <1>4, <1>7, <2>1, <2>2, WorkerTypes
<1>8. \/ \E err \in BOOLEAN : Return(n, err)
      \/ work' = [work EXCEPT ![n] = again] /\ UNCHANGED <<queue, sbs>>
  BY <1>1 DEF updateStatus
<1>. QED
  BY <1>6, <1>7, <1>8

\* getExisting keeps the types.
LEMMA GetExistingTypes ==
  ASSUME TypeOK, NEW n \in Names, getExisting(n)
  PROVE  TypeOK'
<1>. DEFINE server == Server(sbs[n])
            w == [work[n] EXCEPT !.pc = "status", !.existing = server]
<1>1. UNCHANGED <<sbs, projs, svcs, tracked, clock, edits, faults>>
  BY DEF getExisting
<1>2. /\ faults' \in 0..MaxFaults
      /\ tracked' \in [Services -> SUBSET Names]
  BY <1>1 DEF TypeOK
<1>3. CASE Return(n, TRUE)
  BY <1>1, <1>2, <1>3, ReturnTypes
<1>4. CASE work' = [work EXCEPT ![n] = w] /\ UNCHANGED queue
  <2>1. w \in Work /\ StepOK(w)
    BY KeyTypes DEF Work, Steps, StepOK
  <2>2. queue' \subseteq Names
    BY <1>4 DEF TypeOK
  <2>. QED
    BY <1>1, <1>2, <1>4, <2>1, <2>2, WorkerTypes
<1>. QED
  BY <1>3, <1>4 DEF getExisting

\* A failed request keeps the types.
LEMMA RequestFailsTypes ==
  ASSUME TypeOK, NEW n \in Names, RequestFails(n)
  PROVE  TypeOK'
<1>1. UNCHANGED <<sbs, projs, svcs, tracked, clock, edits>>
  BY DEF RequestFails
<1>2. /\ faults' \in 0..MaxFaults
      /\ tracked' \in [Services -> SUBSET Names]
  BY <1>1, BoundsAssumption DEF RequestFails, TypeOK
<1>3. CASE Return(n, TRUE)
  BY <1>1, <1>2, <1>3, ReturnTypes
<1>4. CASE work' = [work EXCEPT ![n] = Failed(@)] /\ UNCHANGED queue
  <2>1. Failed(work[n]) \in Work /\ StepOK(Failed(work[n]))
    BY KeyTypes, FailedType
  <2>2. queue' \subseteq Names
    BY <1>4 DEF TypeOK
  <2>. QED
    BY <1>1, <1>2, <1>4, <2>1, <2>2, WorkerTypes
<1>. QED
  BY <1>3, <1>4 DEF RequestFails

\* A delivery or a resync keeps the types.
LEMMA InformersTypes ==
  ASSUME TypeOK, Informers
  PROVE  TypeOK'
<1>1. ASSUME NEW n \in Names, DeliverServiceBinding(n)
      PROVE  TypeOK'
  <2>1. Tail(sbs[n]) \in Seq(ServiceBinding) /\ Tail(sbs[n]) # << >>
    BY <1>1, KeyTypes, WindowTail DEF DeliverServiceBinding
  <2>. QED
    BY <1>1, <2>1 DEF DeliverServiceBinding, TypeOK
<1>2. ASSUME NEW n \in Names, DeliverProjection(n)
      PROVE  TypeOK'
  <2>1. /\ Tail(projs[n]) \in Seq(ServiceBindingProjection)
        /\ Tail(projs[n]) # << >>
    BY <1>2, KeyTypes, WindowTail DEF DeliverProjection
  <2>. QED
    BY <1>2, <2>1 DEF DeliverProjection, TypeOK
<1>3. ASSUME NEW n \in Names, Resync(n)
      PROVE  TypeOK'
  BY <1>3 DEF Resync, TypeOK
<1>4. ASSUME NEW s \in Services, DeliverService(s)
      PROVE  TypeOK'
  <2>1. svcs[s] \in Seq(Bindings \cup {Missing}) /\ svcs[s] # << >>
    BY DEF TypeOK
  <2>2. Tail(svcs[s]) \in Seq(Bindings \cup {Missing}) /\ Tail(svcs[s]) # << >>
    BY <1>4, <2>1, WindowTail DEF DeliverService
  <2>3. queue' \subseteq Names
    BY <1>4 DEF DeliverService, TypeOK
  <2>. QED
    BY <1>4, <2>2, <2>3 DEF DeliverService, TypeOK
<1>. QED
  BY <1>1, <1>2, <1>3, <1>4 DEF Informers

\* A restart keeps the types.
LEMMA RestartTypes ==
  ASSUME TypeOK, Restart
  PROVE  TypeOK'
<1>1. ASSUME NEW n \in Names
      PROVE  /\ <<Server(sbs[n])>> \in Seq(ServiceBinding)
             /\ <<Server(sbs[n])>> # << >>
             /\ <<Server(projs[n])>> \in Seq(ServiceBindingProjection)
             /\ <<Server(projs[n])>> # << >>
  BY KeyTypes, WindowRelist
<1>2. ASSUME NEW s \in Services
      PROVE  /\ <<Server(svcs[s])>> \in Seq(Bindings \cup {Missing})
             /\ <<Server(svcs[s])>> # << >>
  <2>1. svcs[s] \in Seq(Bindings \cup {Missing}) /\ svcs[s] # << >>
    BY DEF TypeOK
  <2>. QED
    BY <2>1, WindowRelist
<1>3. Idle \in Work /\ StepOK(Idle)
  BY IdleType DEF Idle, StepOK
<1>4. faults' \in 0..MaxFaults /\ queue' \subseteq Names
  BY BoundsAssumption DEF Restart, TypeOK
<1>. QED
  BY <1>1, <1>2, <1>3, <1>4 DEF Restart, TypeOK

\* Users, the projection controller and the garbage collector.
LEMMA OutsideTypes ==
  ASSUME TypeOK, Users \/ Cluster
  PROVE  TypeOK'
<1>1. ASSUME Edit PROVE edits' \in 0..MaxEdits
  BY <1>1, BoundsAssumption DEF Edit, TypeOK
<1>2. ASSUME UNCHANGED edits PROVE edits' \in 0..MaxEdits
  BY <1>2 DEF TypeOK
<1>3. ASSUME NEW n \in Names, CreateBinding(n)
      PROVE  TypeOK'
  <2>1. PICK service \in References, want \in Wants, meta \in Metas :
          StoreBinding(n,
            [exists |-> TRUE, uid |-> Server(sbs[n]).uid + 1,
             resourceVersion |-> 1, generation |-> 1, deleting |-> FALSE,
             service |-> service, want |-> want, meta |-> meta,
             status |-> NoStatus])
    BY <1>3 DEF CreateBinding
  <2>2. Server(sbs[n]).uid + 1 \in Nat
    BY KeyTypes DEF ServiceBinding
  <2>3. [exists |-> TRUE, uid |-> Server(sbs[n]).uid + 1,
         resourceVersion |-> 1, generation |-> 1, deleting |-> FALSE,
         service |-> service, want |-> want, meta |-> meta,
         status |-> NoStatus] \in ServiceBinding
    BY <2>2, NoStatusType DEF ServiceBinding
  <2>. QED
    BY <1>1, <1>3, <2>1, <2>3, StoreTypes DEF CreateBinding
<1>4. ASSUME NEW n \in Names, EditBinding(n)
      PROVE  TypeOK'
  <2>. DEFINE r == Revised(Server(sbs[n]))
  <2>1. r \in ServiceBinding
    BY KeyTypes, RevisedType
  <2>2. ASSUME NEW service \in References, NEW want \in Wants
        PROVE  [r EXCEPT !.generation = @ + 1, !.service = service,
                         !.want = want] \in ServiceBinding
    <3>. HIDE DEF r
    <3>1. r.generation + 1 \in Nat
      BY <2>1 DEF ServiceBinding
    <3>. QED
      BY <2>1, <3>1 DEF ServiceBinding
  <2>3. ASSUME NEW meta \in Metas
        PROVE  [r EXCEPT !.meta = meta] \in ServiceBinding
    BY <2>1 DEF ServiceBinding
  <2>4. \E o \in ServiceBinding : StoreBinding(n, o)
    BY <1>4, <2>2, <2>3 DEF EditBinding
  <2>. QED
    BY <1>1, <1>4, <2>4, StoreTypes DEF EditBinding
<1>5. ASSUME NEW n \in Names, DeleteBinding(n)
      PROVE  TypeOK'
  <2>1. Revised(Server(sbs[n])) \in ServiceBinding
    BY KeyTypes, RevisedType
  <2>2. [Revised(Server(sbs[n])) EXCEPT !.deleting = TRUE] \in ServiceBinding
    BY <2>1 DEF ServiceBinding
  <2>3. NoServiceBinding(Server(sbs[n]).uid) \in ServiceBinding
    BY KeyTypes, NoServiceBindingType DEF ServiceBinding
  <2>. QED
    BY <1>1, <1>5, <2>2, <2>3, StoreTypes DEF DeleteBinding
<1>6. ASSUME NEW s \in Services, PublishService(s)
      PROVE  TypeOK'
  BY <1>1, <1>6, StoreTypes DEF PublishService
<1>7. ASSUME NEW n \in Names
      PROVE  /\ Server(projs[n]) \in ServiceBindingProjection
             /\ [Server(projs[n]) EXCEPT !.deleting = TRUE]
                  \in ServiceBindingProjection
             /\ NoProjection \in ServiceBindingProjection
  BY KeyTypes, NoProjectionType DEF ServiceBindingProjection
<1>8. ASSUME NEW n \in Names, ReportProjection(n)
      PROVE  TypeOK'
  <2>1. PICK r \in Reports :
          StoreProjection(n, [Server(projs[n]) EXCEPT !.ready = r,
                                                      !.finalizer = TRUE])
    BY <1>8 DEF ReportProjection
  <2>2. [Server(projs[n]) EXCEPT !.ready = r, !.finalizer = TRUE]
          \in ServiceBindingProjection
    BY <1>7, ReportsAssumption DEF ServiceBindingProjection
  <2>. QED
    BY <1>1, <1>8, <2>1, <2>2, StoreTypes DEF ReportProjection
<1>9. ASSUME NEW n \in Names, IntrudeProjection(n)
      PROVE  TypeOK'
  <2>1. ASSUME NEW want \in Wants
        PROVE  [Server(projs[n]) EXCEPT !.want = want]
                 \in ServiceBindingProjection
    BY <1>7 DEF ServiceBindingProjection
  <2>2. ASSUME NEW b \in Secrets
        PROVE  [NoProjection EXCEPT !.exists = TRUE, !.binding = b]
                 \in ServiceBindingProjection
    BY <1>7 DEF ServiceBindingProjection, Bindings
  <2>3. \E o \in ServiceBindingProjection : StoreProjection(n, o)
    BY <1>7, <1>9, <2>1, <2>2 DEF IntrudeProjection
  <2>. QED
    BY <1>1, <1>9, <2>3, StoreTypes DEF IntrudeProjection
<1>10. ASSUME NEW n \in Names, FinalizeProjection(n) \/ CollectProjection(n)
       PROVE  TypeOK'
  <2>1. \E o \in ServiceBindingProjection : StoreProjection(n, o)
    BY <1>7, <1>10 DEF FinalizeProjection, CollectProjection
  <2>. QED
    BY <1>2, <1>10, <2>1, StoreTypes DEF FinalizeProjection, CollectProjection
<1>11. ASSUME NEW n \in Names, CollectBinding(n)
       PROVE  TypeOK'
  <2>1. NoServiceBinding(Server(sbs[n]).uid) \in ServiceBinding
    BY KeyTypes, NoServiceBindingType DEF ServiceBinding
  <2>. QED
    BY <1>2, <1>11, <2>1, StoreTypes DEF CollectBinding
<1>. QED
  BY <1>3, <1>4, <1>5, <1>6, <1>8, <1>9, <1>10, <1>11 DEF Users, Cluster

\* Every step keeps the types.
LEMMA NextTypeOK == TypeOK /\ [Next]_vars => TypeOK'
<1>. SUFFICES ASSUME TypeOK, [Next]_vars PROVE TypeOK'
  OBVIOUS
<1>1. ASSUME NEW n \in Names, Worker(n) PROVE TypeOK'
  BY <1>1, ReconcileTypes, TrackTypes, LookupTypes, ProjectTypes,
     UpdateStatusTypes, GetExistingTypes, RequestFailsTypes DEF Worker
<1>2. CASE Tick
  BY <1>2, BoundsAssumption DEF Tick, TypeOK
<1>3. CASE UNCHANGED vars
  BY <1>3 DEF vars, TypeOK
<1>. QED
  BY <1>1, <1>2, <1>3, InformersTypes, RestartTypes, OutsideTypes DEF Next

\* Whatever the interleaving of the workers, the informers, the users and the
\* failures, every variable keeps its type; in particular the controller never
\* makes a projection from a binding that it has not resolved.
THEOREM TypeCorrect == Spec => []TypeOK
BY InitTypeOK, NextTypeOK, PTL DEF Spec

-----------------------------------------------------------------------------
(* What a step may do to a ServiceBinding and to the worker's copy of it *)

\* The versions that some step stores after the present one: a status of the
\* worker's, a creation, an edit or a deletion.
NewVersion(n, o) ==
  LET sb == Server(sbs[n])
  IN  \/ /\ sb.exists
         /\ work[n].pc = "status"
         /\ o = [Revised(sb) EXCEPT !.status = work[n].resource.status]
      \/ /\ ~sb.exists
         /\ NameReuse \/ sb.uid = 0
         /\ o.exists
         /\ o.uid = sb.uid + 1
         /\ o.generation = 1
         /\ o.status = NoStatus
      \/ sb.exists /\ Later(o, sb)
      \/ o = NoServiceBinding(sb.uid)

\* The window of n is left alone, shortened or relisted.
NoNewVersion(n) ==
  /\ Server(sbs'[n]) = Server(sbs[n])
  /\ \A i \in DOMAIN sbs'[n] : \E j \in DOMAIN sbs[n] : sbs'[n][i] = sbs[n][j]

\* The copy on which ReconcileKind works.
ResourceStep(n) ==
  \/ /\ work'[n].resource = work[n].resource
     /\ work'[n].pc = "idle" <=> work[n].pc = "idle"
  \/ work'[n] = Idle
  \/ /\ sbs' = sbs
     /\ Lister(sbs[n]).exists
     /\ work'[n].resource =
          [Lister(sbs[n]) EXCEPT
             !.status.conditions = InitializeConditions(@, clock)]
  \/ /\ work[n].pc \in {"track", "lookup"}
     /\ \E b \in Bindings : work'[n] = Resolved(work[n], b)
  \/ /\ work[n].pc = "project"
     /\ \E p \in ServiceBindingProjection : work'[n] = Projected(work[n], p)

\* A step leaves the versions of a binding alone or stores one new version of
\* the four kinds.
LEMMA BindingSteps ==
  ASSUME TypeOK, [Next]_vars, NEW n \in Names
  PROVE  \/ NoNewVersion(n)
         \/ \E o \in ServiceBinding :
              NewVersion(n, o) /\ sbs'[n] = Stored(sbs[n], o)
<1>. DEFINE Goal == \/ NoNewVersion(n)
                    \/ \E o \in ServiceBinding :
                         NewVersion(n, o) /\ sbs'[n] = Stored(sbs[n], o)
            sb == Server(sbs[n])
<1>0. /\ sb \in ServiceBinding
      /\ Revised(sb) \in ServiceBinding
      /\ sbs \in [Names -> Seq(ServiceBinding)]
      /\ sbs[n] # << >>
  BY KeyTypes, RevisedType DEF TypeOK
<1>1. ASSUME sbs'[n] = sbs[n] PROVE Goal
  BY <1>1 DEF NoNewVersion
<1>2. ASSUME NEW o \in ServiceBinding, StoreBinding(n, o), NewVersion(n, o)
      PROVE  Goal
  <2>1. sbs'[n] = Stored(sbs[n], o)
    BY <1>0, <1>2 DEF StoreBinding
  <2>. QED
    BY <1>2, <2>1
<1>3. ASSUME NEW m \in Names, NEW o, StoreBinding(m, o), m # n
      PROVE  Goal
  BY <1>0, <1>1, <1>3 DEF StoreBinding
<1>4. ASSUME updateStatus(n) PROVE Goal
  <2>. DEFINE o == [Revised(sb) EXCEPT !.status = work[n].resource.status]
  <2>1. o \in ServiceBinding
    <3>1. work[n].resource.status \in Status
      BY KeyTypes DEF ServiceBinding
    <3>. QED
      BY <1>0, <3>1 DEF ServiceBinding
  <2>2. \/ sbs' = sbs
        \/ /\ sb.exists
           /\ work[n].pc = "status"
           /\ sbs' = [sbs EXCEPT ![n] = Stored(@, o)]
    BY <1>4 DEF updateStatus, Unmodified
  <2>3. CASE sbs' = sbs
    BY <1>1, <2>3
  <2>4. CASE /\ sb.exists
             /\ work[n].pc = "status"
             /\ sbs' = [sbs EXCEPT ![n] = Stored(@, o)]
    <3>1. NewVersion(n, o)
      BY <2>4 DEF NewVersion
    <3>2. sbs'[n] = Stored(sbs[n], o)
      BY <1>0, <2>4
    <3>. QED
      BY <2>1, <3>1, <3>2
  <2>. QED
    BY <2>2, <2>3, <2>4
<1>5. ASSUME NEW m \in Names, m # n, updateStatus(m) PROVE Goal
  <2>1. sbs'[n] = sbs[n]
    BY <1>0, <1>5 DEF updateStatus
  <2>. QED
    BY <1>1, <2>1
<1>6. ASSUME NEW m \in Names, Worker(m), ~updateStatus(m) PROVE Goal
  <2>1. sbs' = sbs
    BY <1>6 DEF Worker, Reconcile, TrackReference, LookupService,
       serviceBindingProjection, getExisting, RequestFails
  <2>. QED
    BY <1>1, <2>1
<1>7. ASSUME NEW m \in Names, CreateBinding(m) PROVE Goal
  <2>1. PICK service \in References, want \in Wants, meta \in Metas :
          StoreBinding(m,
            [exists |-> TRUE, uid |-> Server(sbs[m]).uid + 1,
             resourceVersion |-> 1, generation |-> 1, deleting |-> FALSE,
             service |-> service, want |-> want, meta |-> meta,
             status |-> NoStatus])
    BY <1>7 DEF CreateBinding
  <2>. DEFINE o == [exists |-> TRUE, uid |-> Server(sbs[m]).uid + 1,
                    resourceVersion |-> 1, generation |-> 1,
                    deleting |-> FALSE, service |-> service, want |-> want,
                    meta |-> meta, status |-> NoStatus]
  <2>2. CASE m = n
    <3>1. sb.uid + 1 \in Nat
      BY <1>0 DEF ServiceBinding
    <3>2. o \in ServiceBinding
      BY <2>2, <3>1, NoStatusType DEF ServiceBinding
    <3>3. NewVersion(n, o)
      BY <1>7, <2>2 DEF CreateBinding, NewVersion
    <3>. QED
      BY <1>2, <2>1, <2>2, <3>2, <3>3
  <2>. QED
    BY <1>3, <2>1, <2>2
<1>8. ASSUME NEW m \in Names, EditBinding(m) PROVE Goal
  <2>1. CASE m = n
    <3>. DEFINE r == Revised(sb)
    <3>1. ASSUME NEW o, Later(o, r)
          PROVE  o \in ServiceBinding /\ NewVersion(n, o)
      BY <1>0, <1>8, <2>1, <3>1, RevisedType DEF Later, NewVersion, EditBinding
    <3>2. PICK o : StoreBinding(n, o) /\ Later(o, r)
      BY <1>0, <1>8, <2>1, SpecEdited, MetaEdited DEF EditBinding
    <3>. QED
      BY <1>2, <3>1, <3>2
  <2>. QED
    BY <1>3, <1>8, <2>1 DEF EditBinding
<1>9. ASSUME NEW m \in Names, DeleteBinding(m) PROVE Goal
  <2>1. CASE m = n
    <3>. DEFINE gone == NoServiceBinding(sb.uid)
                marked == [Revised(sb) EXCEPT !.deleting = TRUE]
    <3>1. gone \in ServiceBinding /\ NewVersion(n, gone)
      BY <1>0, NoServiceBindingType DEF NewVersion, ServiceBinding
    <3>2. marked \in ServiceBinding /\ Later(marked, sb)
      BY <1>0, MarkedDeleting, RevisedType DEF Later
    <3>3. NewVersion(n, marked)
      BY <1>9, <2>1, <3>2 DEF NewVersion, DeleteBinding
    <3>. QED
      BY <1>2, <1>9, <2>1, <3>1, <3>2, <3>3 DEF DeleteBinding
  <2>. QED
    BY <1>3, <1>9, <2>1 DEF DeleteBinding
<1>10. ASSUME NEW m \in Names, CollectBinding(m) PROVE Goal
  <2>1. CASE m = n
    <3>1. /\ NoServiceBinding(sb.uid) \in ServiceBinding
          /\ NewVersion(n, NoServiceBinding(sb.uid))
      BY <1>0, NoServiceBindingType DEF NewVersion, ServiceBinding
    <3>. QED
      BY <1>2, <1>10, <2>1, <3>1 DEF CollectBinding
  <2>. QED
    BY <1>3, <1>10, <2>1 DEF CollectBinding
<1>11. ASSUME NEW m \in Names, DeliverServiceBinding(m) PROVE Goal
  <2>1. CASE m = n
    <3>1. ~Settled(sbs[n]) /\ sbs'[n] = Tail(sbs[n])
      BY <1>0, <1>11, <2>1 DEF DeliverServiceBinding
    <3>. QED
      BY <1>0, <3>1, WindowTail DEF NoNewVersion
  <2>. QED
    BY <1>0, <1>1, <1>11, <2>1 DEF DeliverServiceBinding
<1>12. CASE Restart
  <2>1. sbs'[n] = <<Server(sbs[n])>>
    BY <1>12 DEF Restart
  <2>. QED
    BY <1>0, <2>1, WindowRelist DEF NoNewVersion
<1>13. CASE \/ Tick
            \/ UNCHANGED vars
            \/ \E m \in Names : \/ ReportProjection(m)
                                \/ IntrudeProjection(m)
                                \/ FinalizeProjection(m)
                                \/ CollectProjection(m)
                                \/ DeliverProjection(m)
                                \/ Resync(m)
            \/ \E s \in Services : PublishService(s) \/ DeliverService(s)
  <2>1. sbs' = sbs
    BY <1>13 DEF Tick, vars, ReportProjection, IntrudeProjection,
       FinalizeProjection, CollectProjection, DeliverProjection, Resync,
       PublishService, DeliverService, StoreProjection, StoreService
  <2>. QED
    BY <1>1, <2>1
<1>. QED
  BY <1>4, <1>5, <1>6, <1>7, <1>8, <1>9, <1>10, <1>11, <1>12, <1>13
     DEF Next, Informers, Cluster, Users

\* A step changes the worker's copy of a binding in one of five ways.
LEMMA ResourceSteps ==
  ASSUME TypeOK, [Next]_vars, NEW n \in Names
  PROVE  ResourceStep(n)
<1>0. work \in [Names -> Work] /\ work[n] \in Work
  BY DEF TypeOK
<1>1. ASSUME work'[n] = work[n] PROVE ResourceStep(n)
  BY <1>1 DEF ResourceStep
<1>2. ASSUME work' = [work EXCEPT ![n] = Idle] PROVE ResourceStep(n)
  BY <1>0, <1>2 DEF ResourceStep
<1>3. ASSUME work' = [work EXCEPT ![n] = Failed(@)], work[n].pc # "idle"
      PROVE  ResourceStep(n)
  <2>1. work'[n] = Failed(work[n])
    BY <1>0, <1>3
  <2>2. Failed(work[n]).resource = work[n].resource
        /\ Failed(work[n]).pc = "status"
    BY <1>0 DEF Failed, Work
  <2>. QED
    BY <1>3, <2>1, <2>2 DEF ResourceStep
<1>4. ASSUME NEW p \in ServiceBindingProjection, work[n].pc = "project",
             work' = [work EXCEPT ![n] = Projected(@, p)]
      PROVE  ResourceStep(n)
  BY <1>0, <1>4 DEF ResourceStep
<1>5. ASSUME NEW b \in Bindings, work[n].pc \in {"track", "lookup"},
             work' = [work EXCEPT ![n] = Resolved(@, b)]
      PROVE  ResourceStep(n)
  BY <1>0, <1>5 DEF ResourceStep
<1>6. ASSUME Reconcile(n) PROVE ResourceStep(n)
  <2>1. CASE work' = work
    BY <1>1, <2>1
  <2>2. CASE work' # work
    <3>. DEFINE original == Lister(sbs[n])
                resource == [original EXCEPT !.status.conditions =
                               InitializeConditions(@, clock)]
    <3>1. /\ sbs' = sbs
          /\ original.exists
          /\ work' = [work EXCEPT ![n] =
                        [pc |-> "track", now |-> clock, err |-> FALSE,
                         existing |-> original, attempts |-> 0,
                         resource |-> resource]]
      BY <1>6, <2>2 DEF Reconcile
    <3>2. work'[n].resource = resource
      BY <1>0, <3>1
    <3>. QED
      BY <3>1, <3>2 DEF ResourceStep
  <2>. QED
    BY <2>1, <2>2
<1>7. ASSUME TrackReference(n) PROVE ResourceStep(n)
  <2>1. CASE work[n].resource.service \in Secrets
    <3>1. /\ work[n].resource.service \in Bindings
          /\ work[n].pc = "track"
          /\ work' = [work EXCEPT ![n] = Resolved(@, work[n].resource.service)]
      BY <1>7, <2>1 DEF TrackReference, Bindings
    <3>. QED
      BY <1>5, <3>1
  <2>2. CASE work[n].resource.service \notin Secrets
    <3>1. work' = [work EXCEPT ![n].pc = "lookup"] /\ work[n].pc = "track"
      BY <1>7, <2>2 DEF TrackReference
    <3>2. work'[n].resource = work[n].resource /\ work'[n].pc = "lookup"
      BY <1>0, <3>1 DEF Work
    <3>. QED
      BY <3>1, <3>2 DEF ResourceStep
  <2>. QED
    BY <2>1, <2>2
<1>8. ASSUME LookupService(n) PROVE ResourceStep(n)
  <2>. DEFINE service == Lister(svcs[work[n].resource.service])
  <2>1. service \in Bindings \cup {Missing}
    <3>1. work[n].resource.service \in Services
      BY <1>8 DEF LookupService, TypeOK, StepOK
    <3>2. /\ svcs[work[n].resource.service] \in Seq(Bindings \cup {Missing})
          /\ svcs[work[n].resource.service] # << >>
      BY <3>1 DEF TypeOK
    <3>. QED
      BY <3>2, WindowEnds
  <2>2. CASE service = Missing
    BY <1>3, <1>8, <2>2 DEF LookupService
  <2>3. CASE service # Missing
    BY <1>5, <1>8, <2>1, <2>3 DEF LookupService
  <2>. QED
    BY <2>2, <2>3
<1>9. ASSUME serviceBindingProjection(n) PROVE ResourceStep(n)
  <2>1. work[n].pc = "project"
    BY <1>9 DEF serviceBindingProjection
  <2>2. \/ work' = [work EXCEPT ![n] = Failed(@)]
        \/ \E p \in ServiceBindingProjection :
             work' = [work EXCEPT ![n] = Projected(@, p)]
    <3>. DEFINE binding == work[n].resource
                created == MakeServiceBindingProjection(binding)
                updated == [Server(projs[n]) EXCEPT
                              !.binding = binding.status.binding,
                              !.want = binding.want,
                              !.meta = binding.meta]
    <3>1. binding.status.binding \in Bindings
      BY <2>1, KeyTypes DEF TypeOK, StepOK, ServiceBinding, Status
    <3>2. created \in ServiceBindingProjection
      BY <3>1, KeyTypes, NoProjectionType
         DEF MakeServiceBindingProjection, ServiceBindingProjection,
             ServiceBinding, NoProjection
    <3>3. updated \in ServiceBindingProjection
      BY <3>1, KeyTypes DEF ServiceBindingProjection, ServiceBinding
    <3>4. Lister(projs[n]) \in ServiceBindingProjection
      BY KeyTypes
    <3>. QED
      BY <1>9, <3>2, <3>3, <3>4
         DEF serviceBindingProjection, createServiceBindingProjection,
             reconcileServiceBindingProjection, Answered
  <2>. QED
    BY <1>3, <1>4, <2>1, <2>2
<1>10. ASSUME updateStatus(n) PROVE ResourceStep(n)
  <2>1. CASE work' = [work EXCEPT ![n] = Idle]
    BY <1>2, <2>1
  <2>2. CASE work' = [work EXCEPT ![n].pc = "get", ![n].attempts = @ + 1]
    <3>1. work'[n].resource = work[n].resource /\ work'[n].pc = "get"
      BY <1>0, <2>2 DEF Work
    <3>2. work[n].pc = "status"
      BY <1>10 DEF updateStatus
    <3>. QED
      BY <3>1, <3>2 DEF ResourceStep
  <2>. QED
    BY <1>10, <2>1, <2>2 DEF updateStatus, Return
<1>11. ASSUME getExisting(n) PROVE ResourceStep(n)
  <2>1. CASE work' = [work EXCEPT ![n] = Idle]
    BY <1>2, <2>1
  <2>2. CASE work' = [work EXCEPT ![n].pc = "status",
                                  ![n].existing = Server(sbs[n])]
    <3>1. work'[n].resource = work[n].resource /\ work'[n].pc = "status"
      BY <1>0, <2>2 DEF Work
    <3>2. work[n].pc = "get"
      BY <1>11 DEF getExisting
    <3>. QED
      BY <3>1, <3>2 DEF ResourceStep
  <2>. QED
    BY <1>11, <2>1, <2>2 DEF getExisting, Return
<1>12. ASSUME RequestFails(n) PROVE ResourceStep(n)
  BY <1>2, <1>3, <1>12 DEF RequestFails, Return
<1>13. ASSUME NEW m \in Names, m # n, Worker(m) PROVE ResourceStep(n)
  <2>1. work'[n] = work[n]
    BY <1>0, <1>13
       DEF Worker, Reconcile, TrackReference, LookupService,
           serviceBindingProjection, createServiceBindingProjection,
           reconcileServiceBindingProjection, Answered, updateStatus,
           getExisting, RequestFails, Return
  <2>. QED
    BY <1>1, <2>1
<1>14. CASE Restart
  BY <1>14 DEF Restart, ResourceStep
<1>15. CASE Tick \/ UNCHANGED vars \/ Informers \/ Users \/ Cluster
  <2>1. work' = work
    BY <1>15 DEF Tick, vars, Informers, Users, Cluster, CreateBinding,
       EditBinding, DeleteBinding, ReportProjection, IntrudeProjection,
       FinalizeProjection, CollectProjection, CollectBinding, PublishService,
       DeliverServiceBinding, DeliverProjection, DeliverService, Resync,
       StoreBinding, StoreProjection, StoreService
  <2>. QED
    BY <1>1, <2>1
<1>. QED
  BY <1>6, <1>7, <1>8, <1>9, <1>10, <1>11, <1>12, <1>13, <1>14, <1>15
     DEF Next, Worker

-----------------------------------------------------------------------------
(* Ready is the aggregate of the other conditions *)

\* Every status is well-formed, and the one that a worker is computing has no
\* condition left without a status: aggregateReadyCondition relies on that.
StatusInv ==
  \A n \in Names :
    /\ \A i \in DOMAIN sbs[n] : WellFormed(sbs[n][i].status.conditions)
    /\ WellFormed(work[n].resource.status.conditions)
    /\ work[n].pc # "idle" => Complete(work[n].resource.status.conditions)

\* Where nothing has been set, the status is well-formed.
LEMMA NoStatusWellFormed ==
  /\ WellFormed(NoStatus.conditions)
  /\ Idle.pc = "idle"
  /\ WellFormed(Idle.resource.status.conditions)
  /\ \A uid : WellFormed(NoServiceBinding(uid).status.conditions)
BY DEF NoStatus, WellFormed, Idle, NoServiceBinding

\* The invariant on statuses holds initially.
LEMMA InitStatusInv == Init => StatusInv
<1>. SUFFICES ASSUME Init, NEW n \in Names
              PROVE  /\ \A i \in DOMAIN sbs[n] :
                          WellFormed(sbs[n][i].status.conditions)
                     /\ WellFormed(work[n].resource.status.conditions)
                     /\ work[n].pc = "idle"
  BY DEF StatusInv
<1>1. sbs[n] = <<NoServiceBinding(0)>> /\ work[n] = Idle
  BY DEF Init
<1>2. \A i \in DOMAIN sbs[n] : sbs[n][i] = NoServiceBinding(0)
  BY <1>1
<1>. QED
  BY <1>1, <1>2, NoStatusWellFormed

\* Every step keeps the invariant on statuses.
LEMMA NextStatusInv == TypeOK /\ StatusInv /\ [Next]_vars => StatusInv'
<1>. SUFFICES ASSUME TypeOK, StatusInv, [Next]_vars, NEW n \in Names
              PROVE  /\ \A i \in DOMAIN sbs'[n] :
                          WellFormed(sbs'[n][i].status.conditions)
                     /\ WellFormed(work'[n].resource.status.conditions)
                     /\ work'[n].pc # "idle" =>
                          Complete(work'[n].resource.status.conditions)
  BY DEF StatusInv
<1>. DEFINE w == work[n]
            c == w.resource.status.conditions
<1>1. /\ w \in Work /\ c \in ConditionSet /\ w.now \in Nat
      /\ sbs[n] \in Seq(ServiceBinding) /\ sbs[n] # << >>
  BY KeyTypes DEF Work, ServiceBinding, Status
<1>2. /\ \A i \in DOMAIN sbs[n] : WellFormed(sbs[n][i].status.conditions)
      /\ WellFormed(c)
      /\ w.pc # "idle" => Complete(c)
  BY DEF StatusInv
<1>3. WellFormed(Server(sbs[n]).status.conditions)
      /\ WellFormed(Lister(sbs[n]).status.conditions)
  BY <1>1, <1>2, WindowEnds DEF Server, Lister
<1>4. ASSUME NEW i \in DOMAIN sbs'[n]
      PROVE  WellFormed(sbs'[n][i].status.conditions)
  <2>1. CASE NoNewVersion(n)
    BY <1>2, <2>1 DEF NoNewVersion
  <2>2. ASSUME NEW o \in ServiceBinding, NewVersion(n, o),
               sbs'[n] = Stored(sbs[n], o)
        PROVE  WellFormed(sbs'[n][i].status.conditions)
    <3>1. WellFormed(o.status.conditions)
      <4>1. CASE o = [Revised(Server(sbs[n])) EXCEPT
                        !.status = work[n].resource.status]
        <5>1. Revised(Server(sbs[n])) \in ServiceBinding
          BY KeyTypes, RevisedType
        <5>2. o.status = work[n].resource.status
          BY <4>1, <5>1 DEF ServiceBinding
        <5>. QED
          BY <1>2, <5>2
      <4>. QED
        BY <1>3, <2>2, <4>1, NoStatusWellFormed DEF NewVersion, Later
    <3>2. sbs'[n][i] = o \/ \E j \in DOMAIN sbs[n] : sbs'[n][i] = sbs[n][j]
      BY <1>1, <2>2, WindowStored
    <3>. QED
      BY <1>2, <3>1, <3>2
  <2>. QED
    BY <2>1, <2>2, BindingSteps
<1>5. /\ WellFormed(work'[n].resource.status.conditions)
      /\ work'[n].pc # "idle" => Complete(work'[n].resource.status.conditions)
  <2>1. CASE /\ work'[n].resource = w.resource
             /\ work'[n].pc = "idle" <=> w.pc = "idle"
    BY <1>2, <2>1
  <2>2. CASE work'[n] = Idle
    BY <2>2, NoStatusWellFormed
  <2>3. CASE work'[n].resource = [Lister(sbs[n]) EXCEPT
               !.status.conditions = InitializeConditions(@, clock)]
    <3>. DEFINE l == Lister(sbs[n])
                d == InitializeConditions(l.status.conditions, clock)
    <3>0. clock \in Nat
      BY BoundsAssumption DEF TypeOK
    <3>1. l \in ServiceBinding /\ l.status.conditions \in ConditionSet
      BY KeyTypes DEF ServiceBinding, Status
    <3>2. Complete(d) /\ WellFormed(d)
      BY <1>3, <3>0, <3>1, InitializeCorrect
    <3>3. work'[n].resource.status.conditions = d
      BY <2>3, <3>1 DEF ServiceBinding, Status
    <3>. QED
      BY <3>2, <3>3
  <2>4. ASSUME NEW b \in Bindings, w.pc \in {"track", "lookup"},
               work'[n] = Resolved(w, b)
        PROVE  /\ WellFormed(work'[n].resource.status.conditions)
               /\ Complete(work'[n].resource.status.conditions)
    <3>1. work'[n].resource.status.conditions = MarkServiceAvailable(c, w.now)
      BY <1>1, <2>4, ResolvedFields
    <3>2. Complete(c)
      BY <1>2, <2>4
    <3>. QED
      BY <1>1, <3>1, <3>2, AvailableCorrect
  <2>5. ASSUME NEW p \in ServiceBindingProjection, w.pc = "project",
               work'[n] = Projected(w, p)
        PROVE  /\ WellFormed(work'[n].resource.status.conditions)
               /\ Complete(work'[n].resource.status.conditions)
    <3>1. work'[n].resource.status.conditions =
            PropagateServiceBindingProjectionStatus(c, p.ready, w.now)
      BY <1>1, <2>5, ProjectedFields
    <3>2. Complete(c) /\ p.ready \in Report
      BY <1>2, <2>5 DEF ServiceBindingProjection
    <3>. QED
      BY <1>1, <3>1, <3>2, PropagateCorrect
  <2>. QED
    BY <2>1, <2>2, <2>3, <2>4, <2>5, ResourceSteps DEF ResourceStep
<1>. QED
  BY <1>4, <1>5

\* In every state, the Ready condition of every version of a ServiceBinding,
\* stored or delivered, and of the status being computed, is the aggregate of
\* ServiceAvailable and ProjectionReady.
THEOREM ReadyAggregatesAlways == Spec => []ReadyAggregates
<1>1. StatusInv => ReadyAggregates
  BY DEF StatusInv, ReadyAggregates, WellFormed, Aggregated
<1>. QED
  BY <1>1, InitStatusInv, NextStatusInv, TypeCorrect, PTL DEF Spec

-----------------------------------------------------------------------------
(* The observed generation *)

\* While a name has had one binding at most, what the worker may store over
\* the API server's copy never claims more than that copy has reached.
FirstOK(n) ==
  LET sb == Server(sbs[n])
      r == work[n].resource
  IN  /\ \A i \in DOMAIN sbs[n] :
           /\ sbs[n][i].status.observedGeneration <= sbs[n][i].generation
           /\ sb.exists => sbs[n][i].generation <= sb.generation
           /\ sb.uid = 0 => sbs[n][i].generation = 0
      /\ r.status.observedGeneration <= r.generation
      /\ sb.exists => r.generation <= sb.generation /\ sb.uid # 0
      /\ sb.uid = 0 => r.generation = 0

\* One key: the versions of its first binding are right, also once the name
\* has been used again.
GenerationOK(n) ==
  /\ Server(sbs[n]).uid <= 1 => FirstOK(n)
  /\ \A i \in DOMAIN sbs[n] :
       sbs[n][i].uid = 1 =>
         sbs[n][i].status.observedGeneration <= sbs[n][i].generation

GenerationInv == \A n \in Names : GenerationOK(n)

\* Where there is no binding, no generation has been reached or observed.
LEMMA IdleGenerations ==
  /\ Idle.resource.generation = 0
  /\ Idle.resource.status.observedGeneration = 0
  /\ \A uid : /\ NoServiceBinding(uid).generation = 0
              /\ NoServiceBinding(uid).status.observedGeneration = 0
              /\ NoServiceBinding(uid).exists = FALSE
              /\ NoServiceBinding(uid).uid = uid
BY DEF Idle, NoServiceBinding, NoStatus

\* The invariant on generations holds initially.
LEMMA InitGenerationInv == Init => GenerationInv
<1>. SUFFICES ASSUME Init, NEW n \in Names
              PROVE  GenerationOK(n)
  BY DEF GenerationInv
<1>1. /\ sbs[n] = <<NoServiceBinding(0)>>
      /\ work[n] = Idle
  BY DEF Init
<1>2. /\ \A i \in DOMAIN sbs[n] : sbs[n][i] = NoServiceBinding(0)
      /\ Server(sbs[n]) = NoServiceBinding(0)
  BY <1>1 DEF Server
<1>. QED
  BY <1>1, <1>2, IdleGenerations DEF GenerationOK, FirstOK

\* Every step keeps a name's first binding right: a worker's copy is then a
\* version of the binding it writes to.
LEMMA NextFirstOK ==
  ASSUME TypeOK, [Next]_vars, NEW n \in Names, FirstOK(n),
         Server(sbs'[n]).uid <= 1
  PROVE  FirstOK(n)'
<1>. DEFINE sb == Server(sbs[n])
            r == work[n].resource
            tb == Server(sbs'[n])
            t == work'[n].resource
<1>1. /\ work[n] \in Work
      /\ sbs[n] \in Seq(ServiceBinding) /\ sbs[n] # << >>
      /\ sb \in ServiceBinding /\ Revised(sb) \in ServiceBinding
  BY KeyTypes, RevisedType
<1>2. /\ sb.generation \in Nat /\ sb.uid \in Nat
      /\ sb.status.observedGeneration \in Nat
      /\ r.generation \in Nat /\ r.status.observedGeneration \in Nat
      /\ r.status \in Status
  BY KeyTypes DEF ServiceBinding, Status
<1>3. FirstOK(n)
  OBVIOUS
<1>4. ASSUME NEW i \in DOMAIN sbs[n]
      PROVE  /\ sbs[n][i].generation \in Nat
             /\ sbs[n][i].status.observedGeneration \in Nat
  <2>1. sbs[n][i] \in ServiceBinding
    BY <1>1, ElementOfSeq, LenProperties
  <2>. QED
    BY <2>1 DEF ServiceBinding, Status
\* The worker's copy: as it was, idle, or the lister's.
<1>5. \/ t.generation = r.generation
      \/ t.generation = 0
      \/ sbs' = sbs /\ t.generation = Lister(sbs[n]).generation
  <2>1. ASSUME NEW b \in Bindings, work'[n] = Resolved(work[n], b)
        PROVE  t.generation = r.generation
    BY <1>1, <2>1, ResolvedFields
  <2>2. ASSUME NEW p \in ServiceBindingProjection,
               work'[n] = Projected(work[n], p)
        PROVE  t.generation = r.generation
    BY <1>1, <2>2, ProjectedFields
  <2>3. ASSUME t = [Lister(sbs[n]) EXCEPT !.status.conditions =
                      InitializeConditions(@, clock)]
        PROVE  t.generation = Lister(sbs[n]).generation
    BY <2>3, KeyTypes DEF ServiceBinding
  <2>. QED
    BY <2>1, <2>2, <2>3, ResourceSteps, IdleGenerations DEF ResourceStep
<1>6. t.status.observedGeneration <= t.generation
  <2>1. ASSUME NEW b \in Bindings, work'[n] = Resolved(work[n], b)
        PROVE  t.status.observedGeneration <= t.generation
    BY <1>1, <1>3, <2>1, ResolvedFields DEF FirstOK
  <2>2. ASSUME NEW p \in ServiceBindingProjection,
               work'[n] = Projected(work[n], p)
        PROVE  t.status.observedGeneration <= t.generation
    BY <1>1, <1>2, <2>2, ProjectedFields
  <2>3. ASSUME t = [Lister(sbs[n]) EXCEPT !.status.conditions =
                      InitializeConditions(@, clock)]
        PROVE  t.status.observedGeneration <= t.generation
    <3>1. /\ Lister(sbs[n]) \in ServiceBinding
          /\ Lister(sbs[n]).status \in Status
      BY KeyTypes DEF ServiceBinding
    <3>2. /\ t.generation = Lister(sbs[n]).generation
          /\ t.status.observedGeneration =
               Lister(sbs[n]).status.observedGeneration
      BY <2>3, <3>1 DEF ServiceBinding, Status
    <3>. QED
      BY <1>1, <1>3, <3>2, WindowEnds DEF FirstOK, Lister
  <2>4. CASE t = r
    BY <1>3, <2>4 DEF FirstOK
  <2>. QED
    BY <2>1, <2>2, <2>3, <2>4, ResourceSteps, IdleGenerations DEF ResourceStep
<1>7. CASE NoNewVersion(n)
  <2>1. /\ tb = sb
        /\ \A i \in DOMAIN sbs'[n] :
             \E j \in DOMAIN sbs[n] : sbs'[n][i] = sbs[n][j]
    BY <1>7 DEF NoNewVersion
  <2>2. \/ t.generation = r.generation
        \/ t.generation = 0
        \/ \E j \in DOMAIN sbs[n] : t.generation = sbs[n][j].generation
    BY <1>1, <1>5, WindowEnds DEF Lister
  <2>3. /\ sb.exists => t.generation <= sb.generation /\ sb.uid # 0
        /\ sb.uid = 0 => t.generation = 0
    BY <1>2, <1>3, <2>2 DEF FirstOK
  <2>4. \A i \in DOMAIN sbs'[n] :
           /\ sbs'[n][i].status.observedGeneration <= sbs'[n][i].generation
           /\ sb.exists => sbs'[n][i].generation <= sb.generation
           /\ sb.uid = 0 => sbs'[n][i].generation = 0
    BY <1>3, <2>1 DEF FirstOK
  <2>. QED
    BY <1>6, <2>1, <2>3, <2>4 DEF FirstOK
<1>8. ASSUME NEW o \in ServiceBinding, NewVersion(n, o),
             sbs'[n] = Stored(sbs[n], o)
      PROVE  FirstOK(n)'
  <2>0. /\ Server(Stored(sbs[n], o)) = o
        /\ Stored(sbs[n], o) # sbs[n]
        /\ \A i \in DOMAIN Stored(sbs[n], o) :
             \/ Stored(sbs[n], o)[i] = o
             \/ \E j \in DOMAIN sbs[n] : Stored(sbs[n], o)[i] = sbs[n][j]
    BY <1>1, WindowStored, StoredIsNew
  <2>1. /\ tb = o
        /\ sbs' # sbs
        /\ \A i \in DOMAIN sbs'[n] :
             sbs'[n][i] = o \/ \E j \in DOMAIN sbs[n] : sbs'[n][i] = sbs[n][j]
    BY <1>8, <2>0, Zenon
  <2>2. /\ o.generation \in Nat /\ o.uid \in Nat
        /\ o.status.observedGeneration \in Nat
    BY DEF ServiceBinding, Status
  <2>3. /\ o.status.observedGeneration <= o.generation
        /\ o.exists => /\ o.uid # 0
                       /\ \/ sb.uid = 0
                          \/ sb.exists /\ sb.generation <= o.generation
        /\ o.uid = 0 => o.generation = 0 /\ sb.uid = 0
    <3>1. CASE /\ sb.exists
               /\ o = [Revised(sb) EXCEPT !.status = r.status]
      <4>1. /\ o.exists = sb.exists /\ o.uid = sb.uid
            /\ o.generation = sb.generation /\ o.status = r.status
        BY <1>1, <1>2, <3>1, RevisedType DEF ServiceBinding
      <4>. QED
        BY <1>2, <1>3, <3>1, <4>1 DEF FirstOK
    <3>2. CASE /\ sb.uid = 0 /\ o.uid = sb.uid + 1
               /\ o.generation = 1 /\ o.status = NoStatus
      BY <3>2 DEF NoStatus
    <3>3. CASE sb.exists /\ Later(o, sb)
      <4>1. sb.status.observedGeneration <= sb.generation
        BY <1>1, <1>3, WindowEnds DEF FirstOK, Server
      <4>. QED
        BY <1>2, <1>3, <2>2, <3>3, <4>1 DEF FirstOK, Later
    <3>4. CASE o = NoServiceBinding(sb.uid)
      BY <1>2, <1>3, <3>4, IdleGenerations DEF FirstOK
    <3>5. o.uid = sb.uid + 1 => sb.uid = 0
      BY <1>2, <2>1
    <3>. QED
      BY <1>8, <3>1, <3>2, <3>3, <3>4, <3>5 DEF NewVersion
  <2>4. t.generation = r.generation \/ t.generation = 0
    BY <1>5, <2>1
  <2>5. /\ o.exists => t.generation <= o.generation /\ o.uid # 0
        /\ o.uid = 0 => t.generation = 0
    BY <1>2, <1>3, <2>2, <2>3, <2>4 DEF FirstOK
  <2>6. \A j \in DOMAIN sbs[n] :
           /\ o.exists => sbs[n][j].generation <= o.generation
           /\ o.uid = 0 => sbs[n][j].generation = 0
           /\ sbs[n][j].status.observedGeneration <= sbs[n][j].generation
    BY <1>2, <1>3, <1>4, <2>2, <2>3 DEF FirstOK
  <2>. QED
    BY <1>6, <2>1, <2>2, <2>3, <2>5, <2>6 DEF FirstOK
<1>. QED
  BY <1>7, <1>8, BindingSteps

\* Every step keeps the invariant on generations.  A name is not used for a
\* first time again, so that nothing becomes a first version later.
LEMMA NextGenerationInv == TypeOK /\ GenerationInv /\ [Next]_vars => GenerationInv'
<1>. SUFFICES ASSUME TypeOK, GenerationInv, [Next]_vars, NEW n \in Names
              PROVE  GenerationOK(n)'
  BY DEF GenerationInv
<1>. DEFINE sb == Server(sbs[n])
            tb == Server(sbs'[n])
<1>1. /\ sbs[n] \in Seq(ServiceBinding) /\ sbs[n] # << >>
      /\ sb \in ServiceBinding /\ Revised(sb) \in ServiceBinding
      /\ sb.uid \in Nat
  BY KeyTypes, RevisedType DEF ServiceBinding
<1>2. GenerationOK(n)
  BY DEF GenerationInv
<1>3. \/ tb = sb
      \/ \E o \in ServiceBinding : tb = o /\ NewVersion(n, o)
  BY <1>1, BindingSteps, WindowStored DEF NoNewVersion
<1>4. sb.uid <= tb.uid /\ tb.uid \in Nat
  <2>1. ASSUME NEW o \in ServiceBinding, NewVersion(n, o)
        PROVE  sb.uid <= o.uid /\ o.uid \in Nat
    <3>1. o.uid \in Nat
      BY DEF ServiceBinding
    <3>2. ASSUME o = [Revised(sb) EXCEPT !.status = work[n].resource.status]
          PROVE  o.uid = sb.uid
      BY <1>1, <3>2, RevisedType DEF ServiceBinding
    <3>. QED
      BY <1>1, <2>1, <3>1, <3>2, IdleGenerations DEF NewVersion, Later
  <2>. QED
    BY <1>1, <1>3, <2>1
<1>5. CASE tb.uid <= 1
  <2>1. FirstOK(n)
    BY <1>1, <1>2, <1>4, <1>5 DEF GenerationOK
  <2>2. FirstOK(n)'
    BY <1>5, <2>1, NextFirstOK
  <2>. QED
    BY <2>2 DEF GenerationOK, FirstOK
<1>6. CASE ~(tb.uid <= 1)
  <2>1. \A i \in DOMAIN sbs'[n] :
          sbs'[n][i] = tb \/ \E j \in DOMAIN sbs[n] : sbs'[n][i] = sbs[n][j]
    <3>1. CASE NoNewVersion(n)
      BY <3>1 DEF NoNewVersion
    <3>2. ASSUME NEW o \in ServiceBinding, sbs'[n] = Stored(sbs[n], o)
          PROVE  \A i \in DOMAIN sbs'[n] :
                   sbs'[n][i] = tb \/ \E j \in DOMAIN sbs[n] : sbs'[n][i] = sbs[n][j]
      <4>1. /\ Server(Stored(sbs[n], o)) = o
            /\ \A i \in DOMAIN Stored(sbs[n], o) :
                 \/ Stored(sbs[n], o)[i] = o
                 \/ \E j \in DOMAIN sbs[n] : Stored(sbs[n], o)[i] = sbs[n][j]
        BY <1>1, WindowStored
      <4>. QED
        BY <3>2, <4>1, Zenon
    <3>. QED
      BY <3>1, <3>2, BindingSteps
  <2>. QED
    BY <1>2, <1>4, <1>6, <2>1 DEF GenerationOK
<1>. QED
  BY <1>5, <1>6

\* No version of the first ServiceBinding of a name claims that the controller
\* has processed a generation it has not reached, whatever happens to the name
\* later.
THEOREM ObservedWithinGenerationAlways == Spec => []ObservedWithinGeneration
<1>1. GenerationInv => ObservedWithinGeneration
  BY DEF GenerationInv, GenerationOK, ObservedWithinGeneration
<1>2. TypeOK /\ GenerationInv /\ [Next]_vars => GenerationInv'
  BY NextGenerationInv
<1>. QED
  BY <1>1, <1>2, InitGenerationInv, TypeCorrect, PTL DEF Spec

-----------------------------------------------------------------------------
(* Ownership *)

\* One step: only a worker that found itself the owner in the copy that the
\* API server still holds changes what a projection says.
LEMMA OwnProjectionStep ==
  ASSUME TypeOK, [Next]_vars, NEW n \in Names, edits' = edits,
         Server(projs[n]).exists, Server(projs'[n]).exists,
         LET p == Server(projs[n])
             q == Server(projs'[n])
         IN  <<q.binding, q.want, q.meta>> # <<p.binding, p.want, p.meta>>
  PROVE  /\ Server(projs[n]).owner = work[n].resource.uid
         /\ Server(projs'[n]).owner = Server(projs[n]).owner
<1>. DEFINE p == Server(projs[n])
            q == Server(projs'[n])
<1>0. /\ projs \in [Names -> Seq(ServiceBindingProjection)]
      /\ projs[n] \in Seq(ServiceBindingProjection) /\ projs[n] # << >>
      /\ p \in ServiceBindingProjection
      /\ edits \in Nat
  BY KeyTypes, BoundsAssumption DEF TypeOK
<1>1. ASSUME projs'[n] = projs[n] PROVE FALSE
  BY <1>1
<1>2. ASSUME NEW o \in ServiceBindingProjection,
             projs'[n] = Stored(projs[n], o)
      PROVE  q = o
  <2>1. Server(Stored(projs[n], o)) = o
    BY <1>0, WindowStored
  <2>. QED
    BY <1>2, <2>1
<1>3. ASSUME NEW m \in Names, serviceBindingProjection(m)
      PROVE  p.owner = work[n].resource.uid /\ q.owner = p.owner
  <2>1. CASE m # n
    <3>1. projs'[n] = projs[n]
      BY <1>0, <1>3, <2>1
         DEF serviceBindingProjection, createServiceBindingProjection,
             reconcileServiceBindingProjection
    <3>. QED
      BY <1>1, <3>1
  <2>2. CASE m = n
    <3>. DEFINE binding == work[n].resource
                updated == [p EXCEPT !.binding = binding.status.binding,
                                     !.want = binding.want,
                                     !.meta = binding.meta]
    <3>1. projs' # projs
      BY <1>1
    <3>2. /\ IsControlledBy(Lister(projs[n]), binding)
          /\ Settled(projs[n])
          /\ projs' = [projs EXCEPT ![n] = Stored(@, updated)]
      BY <1>3, <2>2, <3>1
         DEF serviceBindingProjection, createServiceBindingProjection,
             reconcileServiceBindingProjection
    <3>3. Lister(projs[n]) = p
      BY <3>2 DEF Settled, Lister, Server
    <3>4. updated \in ServiceBindingProjection /\ updated.owner = p.owner
      <4>1. binding.status.binding \in Bindings
        BY <1>3, <2>2, KeyTypes
           DEF serviceBindingProjection, TypeOK, StepOK, ServiceBinding, Status
      <4>. QED
        BY <1>0, <4>1, KeyTypes DEF ServiceBindingProjection, ServiceBinding
    <3>5. q = updated
      <4>1. projs'[n] = Stored(projs[n], updated)
        BY <1>0, <3>2
      <4>. QED
        BY <1>2, <3>4, <4>1
    <3>. QED
      BY <3>2, <3>3, <3>4, <3>5 DEF IsControlledBy
  <2>. QED
    BY <2>1, <2>2
<1>4. ASSUME NEW m \in Names, Worker(m), ~serviceBindingProjection(m)
      PROVE  FALSE
  <2>1. projs' = projs
    BY <1>4 DEF Worker, Reconcile, TrackReference, LookupService,
       updateStatus, getExisting, RequestFails
  <2>. QED
    BY <1>1, <2>1
<1>5. ASSUME NEW m \in Names, FinalizeProjection(m) \/ CollectProjection(m)
      PROVE  FALSE
  <2>. DEFINE marked == [p EXCEPT !.deleting = TRUE]
  <2>1. CASE m # n
    <3>1. projs'[n] = projs[n]
      BY <1>0, <1>5, <2>1
         DEF FinalizeProjection, CollectProjection, StoreProjection
    <3>. QED
      BY <1>1, <3>1
  <2>2. CASE m = n
    <3>1. \/ projs'[n] = Stored(projs[n], NoProjection)
          \/ projs'[n] = Stored(projs[n], marked)
      BY <1>0, <1>5, <2>2
         DEF FinalizeProjection, CollectProjection, StoreProjection
    <3>2. /\ marked \in ServiceBindingProjection
          /\ marked.binding = p.binding /\ marked.want = p.want
          /\ marked.meta = p.meta
      BY <1>0 DEF ServiceBindingProjection
    <3>3. NoProjection \in ServiceBindingProjection /\ ~NoProjection.exists
      BY NoProjectionType DEF NoProjection
    <3>4. q = NoProjection \/ q = marked
      BY <1>2, <3>1, <3>2, <3>3
    <3>. QED
      BY <3>2, <3>3, <3>4
  <2>. QED
    BY <2>1, <2>2
<1>6. ASSUME NEW m \in Names, DeliverProjection(m) PROVE FALSE
  <2>1. CASE m # n
    BY <1>0, <1>1, <1>6, <2>1 DEF DeliverProjection
  <2>2. CASE m = n
    <3>1. ~Settled(projs[n]) /\ projs'[n] = Tail(projs[n])
      BY <1>0, <1>6, <2>2 DEF DeliverProjection
    <3>2. Server(Tail(projs[n])) = p
      BY <1>0, <3>1, WindowTail
    <3>. QED
      BY <3>1, <3>2
  <2>. QED
    BY <2>1, <2>2
<1>7. CASE Restart
  <2>1. projs'[n] = <<p>> /\ Server(<<p>>) = p
    BY <1>7 DEF Restart, Server
  <2>. QED
    BY <2>1
<1>8. ASSUME Users PROVE FALSE
  <2>1. Edit
    BY <1>8 DEF Users, CreateBinding, EditBinding, DeleteBinding,
       ReportProjection, IntrudeProjection, PublishService
  <2>. QED
    BY <1>0, <2>1 DEF Edit
<1>9. ASSUME \/ Tick
             \/ UNCHANGED vars
             \/ \E m \in Names : \/ CollectBinding(m)
                                 \/ DeliverServiceBinding(m)
                                 \/ Resync(m)
             \/ \E s \in Services : DeliverService(s)
      PROVE  FALSE
  <2>1. projs' = projs
    BY <1>9 DEF Tick, vars, CollectBinding, StoreBinding,
       DeliverServiceBinding, Resync, DeliverService
  <2>. QED
    BY <1>1, <2>1
<1>. QED
  BY <1>3, <1>4, <1>5, <1>6, <1>7, <1>8, <1>9 DEF Next, Informers, Cluster

\* The controller writes a projection only on behalf of the incarnation of the
\* ServiceBinding that controls it, although it decides from a cached copy.
THEOREM WritesOnlyOwnProjectionsAlways == Spec => WritesOnlyOwnProjections
<1>1. TypeOK /\ [Next]_vars =>
        [\A n \in Names :
           LET p == Server(projs[n])
               q == Server(projs'[n])
           IN  (/\ edits' = edits
                /\ p.exists /\ q.exists
                /\ <<q.binding, q.want, q.meta>> # <<p.binding, p.want, p.meta>>)
               => p.owner = work[n].resource.uid /\ q.owner = p.owner]_vars
  BY OwnProjectionStep
<1>. QED
  BY <1>1, TypeCorrect, PTL DEF Spec, WritesOnlyOwnProjections

-----------------------------------------------------------------------------
(* The controller rests only when every binding is bound *)

\* The secret that a reference resolves to in the lister.
ProvidedHere(ref) == IF ref \in Secrets THEN ref ELSE Lister(svcs[ref])

\* A change of the service behind a reference will put n into the queue.
Watched(n, ref) == ref \in Services => n \in tracked[ref]

\* A change of the projection will: its informer has yet to deliver one that
\* a ServiceBinding owns.
Pending(n) ==
  /\ ~Settled(projs[n])
  /\ \E i \in DOMAIN projs[n] : projs[n][i].owner # 0

\* The projection p and the status of o are what ReconcileKind makes of o, if
\* its service provides secret.
Made(p, secret, o) ==
  LET c == o.status.conditions
  IN  /\ p.exists
      /\ p.owner = o.uid
      /\ p.binding = secret
      /\ p.want = o.want
      /\ p.meta = o.meta
      /\ o.status.observedGeneration = o.generation
      /\ o.status.binding = p.binding
      /\ c["ServiceAvailable"].status = "True"
      /\ c["ProjectionReady"].status = ReportedStatus(p.ready)
      /\ c["ProjectionReady"].reason = <<"", ReportedReason(p.ready)>>

\* ReconcileKind has nothing more to do for o, or will be called again.
Done(n, o) ==
  \/ Pending(n)
  \/ /\ Watched(n, o.service)
     /\ Made(Lister(projs[n]), ProvidedHere(o.service), o)

\* The worker's copy has the fields that ReconcileKind reads from sb.
Same(o, sb) ==
  /\ o.uid = sb.uid /\ o.generation = sb.generation
  /\ o.service = sb.service /\ o.want = sb.want /\ o.meta = sb.meta

\* What a worker has achieved so far, while its key is not in the queue and
\* the API server has no other version than the lister's: a change that it has
\* not seen would put the key back into the queue.
Underway(n, w, sb) ==
  /\ w.pc # "get"
  /\ w.existing = sb
  /\ sb.exists
  /\ Same(w.resource, sb)
  /\ w.pc \in {"lookup", "project"} => Watched(n, sb.service)
  /\ w.pc = "project" =>
       /\ w.resource.status.binding = ProvidedHere(sb.service)
       /\ w.resource.status.conditions["ServiceAvailable"].status = "True"
  /\ w.pc = "status" => (w.err \/ Done(n, w.resource))

Served(n) ==
  LET sb == Lister(sbs[n])
  IN  (n \notin queue /\ Settled(sbs[n])) =>
        /\ (work[n].pc = "idle" /\ sb.exists /\ ~sb.deleting) => Done(n, sb)
        /\ work[n].pc # "idle" => Underway(n, work[n], sb)

\* A binding that exists has a uid, so that its projection has an owner.
Identified(n) ==
  \A i \in DOMAIN sbs[n] : sbs[n][i].exists => sbs[n][i].uid # 0

RestInv == \A n \in Names : Served(n) /\ Identified(n)

\* The windows, whatever is stored.
LEMMA StoredAny ==
  ASSUME NEW S, NEW w \in Seq(S), w # << >>, NEW o
  PROVE  /\ Lister(Stored(w, o)) = Lister(w)
         /\ ~Settled(Stored(w, o))
         /\ \A i \in DOMAIN w :
              i \in DOMAIN Stored(w, o) /\ Stored(w, o)[i] = w[i]
         /\ \E i \in DOMAIN Stored(w, o) : Stored(w, o)[i] = o
<1>. DEFINE T == S \cup {o}
<1>1. w \in Seq(T) /\ o \in T
  BY SeqDef, LenProperties, ElementOfSeq
<1>. HIDE DEF T
<1>2. /\ Append(w, o) \in Seq(T)
      /\ Len(Append(w, o)) = Len(w) + 1
      /\ \A i \in 1..Len(w) : Append(w, o)[i] = w[i]
      /\ Append(w, o)[Len(w) + 1] = o
  BY <1>1, AppendProperties
<1>3. Len(w) \in Nat \ {0} /\ DOMAIN w = 1..Len(w)
  BY EmptySeq, LenProperties
<1>4. DOMAIN Append(w, o) = 1..(Len(w) + 1)
  BY <1>2, LenProperties
<1>5. Len(w) + 1 \in DOMAIN Append(w, o) /\ Len(Append(w, o)) # 1
  BY <1>2, <1>3, <1>4
<1>. QED
  BY <1>2, <1>3, <1>4, <1>5 DEF Stored, Lister, Settled

\* In a settled window the lister has the API server's copy.
LEMMA SettledEnds ==
  ASSUME NEW w, Settled(w)
  PROVE  Lister(w) = Server(w)
BY DEF Settled, Lister, Server

-----------------------------------------------------------------------------
\* MarkServiceAvailable makes the service available.
LEMMA AvailableFields ==
  ASSUME NEW c \in ConditionSet, NEW now \in Nat
  PROVE  MarkServiceAvailable(c, now)["ServiceAvailable"].status = "True"
<1>. DEFINE r == Transition(c["ServiceAvailable"], "True", <<"", "Available">>, now)
            d == [c EXCEPT !["ServiceAvailable"] = r]
<1>1. r.status = "True"
  BY DEF Transition
<1>2. "ServiceAvailable" \in DOMAIN c /\ "Ready" \in DOMAIN c
  BY DEF ConditionSet, CondTypes
<1>3. d["ServiceAvailable"] = r /\ DOMAIN d = DOMAIN c
  BY <1>2
<1>. HIDE DEF d, r
<1>4. aggregateReadyCondition(d, now)["ServiceAvailable"] = d["ServiceAvailable"]
  BY <1>2, <1>3 DEF aggregateReadyCondition
<1>. QED
  BY <1>1, <1>3, <1>4 DEF MarkServiceAvailable, d, r

\* The projection's report becomes the condition ProjectionReady.
LEMMA PropagateFields ==
  ASSUME NEW c \in ConditionSet, NEW rep, NEW now \in Nat
  PROVE  LET d == PropagateServiceBindingProjectionStatus(c, rep, now)
         IN  /\ d["ServiceAvailable"] = c["ServiceAvailable"]
             /\ d["ProjectionReady"].status = ReportedStatus(rep)
             /\ d["ProjectionReady"].reason = <<"", ReportedReason(rep)>>
<1>. DEFINE r == Transition(c["ProjectionReady"], ReportedStatus(rep),
                            <<"", ReportedReason(rep)>>, now)
            m == [c EXCEPT !["ProjectionReady"] = r]
<1>1. /\ r.status = ReportedStatus(rep)
      /\ r.reason = <<"", ReportedReason(rep)>>
  BY DEF Transition
<1>2. /\ "ServiceAvailable" \in DOMAIN c /\ "Ready" \in DOMAIN c
      /\ "ProjectionReady" \in DOMAIN c
  BY DEF ConditionSet, CondTypes
<1>3. /\ m["ProjectionReady"] = r /\ DOMAIN m = DOMAIN c
      /\ m["ServiceAvailable"] = c["ServiceAvailable"]
  BY <1>2
<1>. HIDE DEF m, r
<1>4. /\ aggregateReadyCondition(m, now)["ServiceAvailable"] = m["ServiceAvailable"]
      /\ aggregateReadyCondition(m, now)["ProjectionReady"] = m["ProjectionReady"]
  BY <1>2, <1>3 DEF aggregateReadyCondition
<1>. QED
  BY <1>1, <1>3, <1>4 DEF PropagateServiceBindingProjectionStatus, m, r

\* What the ends of ReconcileKind's parts leave in a worker's record.
LEMMA FailedRecord ==
  ASSUME NEW w \in Work
  PROVE  /\ Failed(w).pc = "status" /\ Failed(w).err = TRUE
         /\ Failed(w).existing = w.existing
         /\ Failed(w).resource = w.resource
BY DEF Failed, Work

\* Once the secret is resolved the worker is to make the projection, and the
\* service is available.
LEMMA ResolvedRecord ==
  ASSUME NEW w \in Work, NEW b \in Bindings
  PROVE  LET v == Resolved(w, b)
         IN  /\ v.pc = "project"
             /\ v.existing = w.existing
             /\ Same(v.resource, w.resource)
             /\ v.resource.status.binding = b
             /\ v.resource.status.conditions["ServiceAvailable"].status = "True"
<1>1. /\ w.resource \in ServiceBinding /\ w.resource.status \in Status
      /\ w.resource.status.conditions \in ConditionSet /\ w.now \in Nat
  BY DEF Work, ServiceBinding, Status
<1>2. Resolved(w, b).resource.status.conditions =
        MarkServiceAvailable(w.resource.status.conditions, w.now)
  BY ResolvedFields
<1>3. Resolved(w, b).resource.status.conditions["ServiceAvailable"].status = "True"
  BY <1>1, <1>2, AvailableFields
<1>4. /\ Resolved(w, b).pc = "project"
      /\ Resolved(w, b).existing = w.existing
      /\ Resolved(w, b).resource.status.binding = b
  BY <1>1 DEF Resolved, Work, ServiceBinding, Status
<1>5. Same(Resolved(w, b).resource, w.resource)
  BY <1>1 DEF Resolved, Work, ServiceBinding, Status, Same
<1>. QED
  BY <1>3, <1>4, <1>5

\* After the projection the status is to be stored: it observes the generation
\* of the worker's copy and reports what the projection reports.
LEMMA ProjectedRecord ==
  ASSUME NEW w \in Work, NEW p \in ServiceBindingProjection
  PROVE  LET v == Projected(w, p)
             c == v.resource.status.conditions
         IN  /\ v.pc = "status"
             /\ v.existing = w.existing
             /\ Same(v.resource, w.resource)
             /\ v.resource.status.binding = w.resource.status.binding
             /\ v.resource.status.observedGeneration = w.resource.generation
             /\ c["ServiceAvailable"] =
                  w.resource.status.conditions["ServiceAvailable"]
             /\ c["ProjectionReady"].status = ReportedStatus(p.ready)
             /\ c["ProjectionReady"].reason = <<"", ReportedReason(p.ready)>>
<1>1. /\ w.resource \in ServiceBinding /\ w.resource.status \in Status
      /\ w.resource.status.conditions \in ConditionSet /\ w.now \in Nat
  BY DEF Work, ServiceBinding, Status
<1>2. /\ Projected(w, p).resource.status.conditions =
           PropagateServiceBindingProjectionStatus(
             w.resource.status.conditions, p.ready, w.now)
      /\ Projected(w, p).resource.status.observedGeneration =
           w.resource.generation
  BY ProjectedFields
<1>3. /\ Projected(w, p).pc = "status"
      /\ Projected(w, p).existing = w.existing
      /\ Projected(w, p).resource.status.binding = w.resource.status.binding
  BY <1>1 DEF Projected, Work, ServiceBinding, Status
<1>4. Same(Projected(w, p).resource, w.resource)
  BY <1>1 DEF Projected, Work, ServiceBinding, Status, Same
<1>. DEFINE c == w.resource.status.conditions
            d == PropagateServiceBindingProjectionStatus(c, p.ready, w.now)
<1>5. /\ d["ServiceAvailable"] = c["ServiceAvailable"]
      /\ d["ProjectionReady"].status = ReportedStatus(p.ready)
      /\ d["ProjectionReady"].reason = <<"", ReportedReason(p.ready)>>
  BY <1>1, PropagateFields
<1>. QED
  BY <1>2, <1>3, <1>4, <1>5, Zenon

-----------------------------------------------------------------------------
\* A key that waits, or for which an event waits, is served.
LEMMA ServedAwake ==
  ASSUME NEW n \in Names, n \in queue' \/ ~Settled(sbs'[n])
  PROVE  Served(n)'
BY DEF Served

\* A step that leaves the worker, the listers' copies and what wakes the key
\* up alone.
LEMMA ServedKept ==
  ASSUME TypeOK, NEW n \in Names, Served(n),
         n \in queue => n \in queue',
         sbs'[n] = sbs[n],
         work'[n] = work[n],
         Lister(projs'[n]) = Lister(projs[n]),
         Pending(n) => Pending(n)',
         \A s \in Services : n \in tracked[s] =>
           n \in tracked'[s] /\ Lister(svcs'[s]) = Lister(svcs[s])
  PROVE  Served(n)'
<1>. SUFFICES ASSUME n \notin queue', Settled(sbs'[n])
              PROVE  Served(n)'
  BY ServedAwake
<1>. DEFINE sb == Lister(sbs[n])
            w == work[n]
<1>1. n \notin queue /\ Settled(sbs[n])
  OBVIOUS
<1>2. sb \in ServiceBinding /\ w \in Work /\ w.resource \in ServiceBinding
  BY KeyTypes
<1>3. sb.service \in References /\ w.resource.service \in References
  BY <1>2 DEF ServiceBinding
<1>. HIDE DEF sb, w
<1>4. ASSUME NEW ref \in References, Watched(n, ref)
      PROVE  /\ ref \in Services => n \in tracked'[ref]
             /\ (IF ref \in Secrets THEN ref ELSE Lister(svcs'[ref])) =
                  ProvidedHere(ref)
  BY <1>4 DEF Watched, ProvidedHere, References
<1>5. ASSUME NEW o, o.service \in References, Done(n, o)
      PROVE  \/ Pending(n)'
             \/ /\ o.service \in Services => n \in tracked'[o.service]
                /\ Made(Lister(projs'[n]),
                        IF o.service \in Secrets THEN o.service
                                                 ELSE Lister(svcs'[o.service]),
                        o)
  <2>1. CASE Pending(n)
    BY <2>1
  <2>2. CASE /\ Watched(n, o.service)
             /\ Made(Lister(projs[n]), ProvidedHere(o.service), o)
    BY <1>4, <1>5, <2>2
  <2>. QED
    BY <1>5, <2>1, <2>2 DEF Done
<1>6. w.pc = "idle" /\ sb.exists /\ ~sb.deleting => Done(n, sb)
  BY <1>1 DEF Served, sb, w
<1>7. w.pc # "idle" => Underway(n, w, sb)
  BY <1>1 DEF Served, sb, w
<1>8. w' = w /\ sb' = sb
  BY DEF sb, w
<1>9. (w.pc = "idle" /\ sb.exists /\ ~sb.deleting) => Done(n, sb)'
  BY <1>3, <1>5, <1>6, <1>8 DEF Done, Watched, ProvidedHere
<1>10. w.pc # "idle" => Underway(n, w, sb)'
  <2>. SUFFICES ASSUME w.pc # "idle" PROVE Underway(n, w, sb)'
    OBVIOUS
  <2>1. Underway(n, w, sb)
    BY <1>7
  <2>2. /\ w.pc # "get" /\ w.existing = sb /\ sb.exists
        /\ Same(w.resource, sb)
    BY <2>1 DEF Underway
  <2>3. w.pc \in {"lookup", "project"} => Watched(n, sb.service)'
    BY <1>3, <1>4, <1>8, <2>1 DEF Underway, Watched
  <2>4. w.pc = "project" =>
          /\ (w.resource.status.binding = ProvidedHere(sb.service))'
          /\ w.resource.status.conditions["ServiceAvailable"].status = "True"
    BY <1>3, <1>4, <1>8, <2>1 DEF Underway, ProvidedHere
  <2>5. w.pc = "status" => (w.err \/ Done(n, w.resource)')
    BY <1>3, <1>5, <1>8, <2>1 DEF Underway, Done, Watched, ProvidedHere
  <2>. QED
    BY <1>8, <2>2, <2>3, <2>4, <2>5 DEF Underway
<1>. QED
  BY <1>8, <1>9, <1>10 DEF Served, sb, w

\* A worker's step serves the other keys as before.
LEMMA ServedOthers ==
  ASSUME TypeOK, NEW n \in Names, NEW m \in Names, m # n, Served(m), Worker(n)
  PROVE  Served(m)'
<1>0. /\ work \in [Names -> Work] /\ sbs \in [Names -> Seq(ServiceBinding)]
      /\ projs \in [Names -> Seq(ServiceBindingProjection)]
      /\ tracked \in [Services -> SUBSET Names]
  BY DEF TypeOK
<1>1. work'[m] = work[m]
  BY <1>0
     DEF Worker, Reconcile, TrackReference, LookupService,
         serviceBindingProjection, createServiceBindingProjection,
         reconcileServiceBindingProjection, Answered, updateStatus,
         getExisting, RequestFails, Return
<1>2. sbs'[m] = sbs[m]
  BY <1>0
     DEF Worker, Reconcile, TrackReference, LookupService,
         serviceBindingProjection, updateStatus, getExisting, RequestFails
<1>3. projs'[m] = projs[m]
  BY <1>0
     DEF Worker, Reconcile, TrackReference, LookupService,
         serviceBindingProjection, createServiceBindingProjection,
         reconcileServiceBindingProjection, updateStatus, getExisting,
         RequestFails
<1>4. m \in queue => m \in queue'
  BY DEF Worker, Reconcile, TrackReference, LookupService,
         serviceBindingProjection, updateStatus, getExisting, RequestFails,
         Return
<1>5. svcs' = svcs
  BY DEF Worker, Reconcile, TrackReference, LookupService,
         serviceBindingProjection, updateStatus, getExisting, RequestFails
<1>6. ASSUME NEW s \in Services, m \in tracked[s] PROVE m \in tracked'[s]
  <2>1. CASE TrackReference(n)
    BY <1>0, <1>6, <2>1 DEF TrackReference
  <2>2. CASE ~TrackReference(n)
    <3>1. tracked' = tracked
      BY <2>2
         DEF Worker, Reconcile, LookupService, serviceBindingProjection,
             updateStatus, getExisting, RequestFails
    <3>. QED
      BY <1>6, <3>1
  <2>. QED
    BY <2>1, <2>2
<1>7. Pending(m) => Pending(m)'
  BY <1>3 DEF Pending
<1>. QED
  BY <1>1, <1>2, <1>3, <1>4, <1>5, <1>6, <1>7, ServedKept

\* What holds of a key while nothing waits for it.
LEMMA ServedFacts ==
  ASSUME TypeOK, NEW n \in Names, Served(n), Identified(n),
         n \notin queue, Settled(sbs[n])
  PROVE  LET sb == Lister(sbs[n])
         IN  /\ sb = Server(sbs[n])
             /\ sb \in ServiceBinding
             /\ sb.service \in References
             /\ sb.exists => sb.uid # 0
             /\ work[n].pc # "idle" => Underway(n, work[n], sb)
<1>1. Lister(sbs[n]) \in ServiceBinding /\ 1 \in DOMAIN sbs[n]
  BY KeyTypes, WindowEnds
<1>. QED
  BY <1>1, SettledEnds DEF Served, Identified, ServiceBinding, Lister

\* reconcilerImpl.Reconcile starts from the lister's copy.
LEMMA ServedReconcile ==
  ASSUME TypeOK, NEW n \in Names, Reconcile(n)
  PROVE  Served(n)'
<1>. DEFINE sb == Lister(sbs[n])
            c == InitializeConditions(sb.status.conditions, clock)
            resource == [sb EXCEPT !.status.conditions = c]
<1>1. sb \in ServiceBinding /\ work \in [Names -> Work]
  BY KeyTypes DEF TypeOK
<1>2. sbs' = sbs /\ work[n].pc = "idle"
  BY DEF Reconcile
<1>3. CASE ~sb.exists \/ sb.deleting
  <2>1. work' = work
    BY <1>3 DEF Reconcile
  <2>. QED
    BY <1>2, <1>3, <2>1 DEF Served
<1>4. CASE ~(~sb.exists \/ sb.deleting)
  <2>1. work' = [work EXCEPT ![n] =
                   [pc |-> "track", now |-> clock, err |-> FALSE,
                    existing |-> sb, attempts |-> 0, resource |-> resource]]
    BY <1>4 DEF Reconcile
  <2>2. work'[n].pc = "track" /\ work'[n].existing = sb
        /\ work'[n].resource = resource
    BY <1>1, <2>1
  <2>3. Same(resource, sb)
    BY <1>1 DEF ServiceBinding, Same
  <2>4. Same(work'[n].resource, sb)
    BY <2>2, <2>3
  <2>. HIDE DEF resource, c
  <2>. QED
    BY <1>2, <1>4, <2>2, <2>4 DEF Served, Underway
<1>. QED
  BY <1>3, <1>4

\* A resolved reference is what the lister provides, and is watched.
LEMMA ServedResolved ==
  ASSUME TypeOK, NEW n \in Names, NEW b \in Bindings,
         n \notin queue, Settled(sbs[n]), sbs' = sbs, svcs' = svcs,
         work[n].pc # "idle", Served(n), Identified(n),
         work'[n] = Resolved(work[n], b),
         b = ProvidedHere(work[n].resource.service),
         work[n].resource.service \in Services =>
           n \in tracked'[work[n].resource.service]
  PROVE  Served(n)'
<1>. DEFINE sb == Lister(sbs[n])
            v == Resolved(work[n], b)
<1>1. Underway(n, work[n], sb)
  BY ServedFacts
<1>2. /\ v.pc = "project" /\ v.existing = work[n].existing
      /\ Same(v.resource, work[n].resource)
      /\ v.resource.status.binding = b
      /\ v.resource.status.conditions["ServiceAvailable"].status = "True"
  BY KeyTypes, ResolvedRecord
<1>. HIDE DEF v
<1>3. sb.service = work[n].resource.service /\ Same(v.resource, sb)
      /\ v.existing = sb /\ sb.exists
  BY <1>1, <1>2 DEF Underway, Same
<1>4. Lister(sbs'[n]) = sb /\ work'[n] = v
  BY DEF v
<1>. HIDE DEF sb
<1>. QED
  BY <1>2, <1>3, <1>4 DEF Served, Underway, Watched, ProvidedHere

\* An error is remembered until the key is put back.
LEMMA ServedFailed ==
  ASSUME TypeOK, NEW n \in Names, sbs' = sbs,
         n \notin queue, Settled(sbs[n]),
         work[n].pc # "idle", Served(n), Identified(n),
         work' = [work EXCEPT ![n] = Failed(@)]
  PROVE  Served(n)'
<1>1. Underway(n, work[n], Lister(sbs[n]))
  BY ServedFacts
<1>2. work'[n] = Failed(work[n]) /\ work[n] \in Work
  BY DEF TypeOK
<1>3. /\ work'[n].pc = "status" /\ work'[n].err = TRUE
      /\ work'[n].existing = work[n].existing
      /\ work'[n].resource = work[n].resource
  BY <1>2, FailedRecord
<1>. QED
  BY <1>1, <1>3 DEF Served, Underway

\* The two ways of ServiceableFromObjectReference.
LEMMA ServedTrack ==
  ASSUME TypeOK, NEW n \in Names, Served(n), Identified(n), TrackReference(n)
  PROVE  Served(n)'
<1>. DEFINE ref == work[n].resource.service
<1>0. queue' = queue /\ sbs' = sbs /\ svcs' = svcs /\ work[n].pc = "track"
  BY DEF TrackReference
<1>. SUFFICES ASSUME n \notin queue, Settled(sbs[n])
              PROVE  Served(n)'
  BY <1>0, ServedAwake
<1>1. /\ ref \in References /\ work[n] \in Work
      /\ work \in [Names -> Work] /\ tracked \in [Services -> SUBSET Names]
  BY KeyTypes DEF TypeOK, ServiceBinding
<1>2. CASE ref \in Secrets
  <2>1. work'[n] = Resolved(work[n], ref)
    BY <1>1, <1>2 DEF TrackReference
  <2>2. ref \notin Services /\ ref \in Bindings /\ ref = ProvidedHere(ref)
    BY <1>2, SentinelsAssumption DEF Bindings, ProvidedHere
  <2>. QED
    BY <1>0, <2>1, <2>2, ServedResolved
<1>3. CASE ref \notin Secrets
  <2>1. /\ work' = [work EXCEPT ![n].pc = "lookup"]
        /\ tracked' = [tracked EXCEPT ![ref] = @ \cup {n}]
    BY <1>3 DEF TrackReference
  <2>2. /\ work'[n].pc = "lookup"
        /\ work'[n].existing = work[n].existing
        /\ work'[n].resource = work[n].resource
    BY <1>1, <2>1 DEF Work
  <2>3. n \in tracked'[ref]
    BY <1>1, <1>3, <2>1 DEF References
  <2>4. Underway(n, work[n], Lister(sbs[n]))
    BY <1>0, ServedFacts
  <2>. QED
    BY <1>0, <2>2, <2>3, <2>4 DEF Served, Underway, Watched, Same
<1>. QED
  BY <1>2, <1>3

\* The lister's copy of the service, or its error.
LEMMA ServedLookup ==
  ASSUME TypeOK, NEW n \in Names, Served(n), Identified(n), LookupService(n)
  PROVE  Served(n)'
<1>. DEFINE ref == work[n].resource.service
            service == Lister(svcs[ref])
<1>0. /\ queue' = queue /\ sbs' = sbs /\ svcs' = svcs /\ tracked' = tracked
      /\ work[n].pc = "lookup"
  BY DEF LookupService
<1>. SUFFICES ASSUME n \notin queue, Settled(sbs[n])
              PROVE  Served(n)'
  BY <1>0, ServedAwake
<1>1. ref \in Services /\ work \in [Names -> Work]
  BY <1>0 DEF TypeOK, StepOK
<1>2. service \in Bindings \cup {Missing}
  <2>. DEFINE B == Bindings \cup {Missing}
  <2>1. svcs[ref] \in Seq(B) /\ svcs[ref] # << >>
    BY <1>1 DEF TypeOK
  <2>. HIDE DEF B
  <2>2. service \in B
    BY <2>1, WindowEnds
  <2>. QED
    BY <2>2 DEF B
<1>3. CASE service = Missing
  <2>1. work' = [work EXCEPT ![n] = Failed(@)]
    BY <1>3 DEF LookupService
  <2>. QED
    BY <1>0, <2>1, ServedFailed
<1>4. CASE service # Missing
  <2>1. work'[n] = Resolved(work[n], service)
    BY <1>1, <1>4 DEF LookupService
  <2>2. service = ProvidedHere(ref) /\ service \in Bindings
    BY <1>1, <1>2, <1>4, SentinelsAssumption DEF ProvidedHere
  <2>3. n \in tracked'[ref]
    <3>1. Underway(n, work[n], Lister(sbs[n]))
      BY <1>0, ServedFacts
    <3>. QED
      BY <1>0, <1>1, <3>1 DEF Underway, Watched, Same
  <2>. QED
    BY <1>0, <2>1, <2>2, <2>3, ServedResolved
<1>. QED
  BY <1>3, <1>4

\* A write to the projection of an owner is one to be delivered.
LEMMA PendingStored ==
  ASSUME TypeOK, NEW n \in Names, NEW p,
         projs' = [projs EXCEPT ![n] = Stored(@, p)]
  PROVE  /\ Lister(projs'[n]) = Lister(projs[n])
         /\ Pending(n) => Pending(n)'
         /\ p.owner # 0 => Pending(n)'
         /\ \A m \in Names : m # n => projs'[m] = projs[m]
<1>1. /\ projs[n] \in Seq(ServiceBindingProjection) /\ projs[n] # << >>
      /\ projs \in [Names -> Seq(ServiceBindingProjection)]
  BY KeyTypes DEF TypeOK
<1>. DEFINE v == Stored(projs[n], p)
<1>2. projs'[n] = v /\ \A m \in Names : m # n => projs'[m] = projs[m]
  BY <1>1
<1>3. /\ Lister(v) = Lister(projs[n])
      /\ ~Settled(v)
      /\ \A i \in DOMAIN projs[n] : i \in DOMAIN v /\ v[i] = projs[n][i]
      /\ \E i \in DOMAIN v : v[i] = p
  BY <1>1, StoredAny
<1>. HIDE DEF v
<1>4. p.owner # 0 => Pending(n)'
  BY <1>2, <1>3 DEF Pending
<1>5. Pending(n) => Pending(n)'
  BY <1>2, <1>3 DEF Pending
<1>. QED
  BY <1>2, <1>3, <1>4, <1>5

\* The worker has stored a projection that the binding owns, and its answer
\* came or was lost.
LEMMA ServedAnswered ==
  ASSUME TypeOK, NEW n \in Names, Served(n), Identified(n),
         NEW p \in ServiceBindingProjection, p.owner = work[n].resource.uid,
         work[n].pc = "project", sbs' = sbs, queue' = queue,
         projs' = [projs EXCEPT ![n] = Stored(@, p)],
         Answered(n, Projected(work[n], p))
  PROVE  Served(n)'
<1>. SUFFICES ASSUME n \notin queue, Settled(sbs[n])
              PROVE  Served(n)'
  BY ServedAwake
<1>. DEFINE sb == Lister(sbs[n])
            v == Projected(work[n], p)
<1>1. Underway(n, work[n], sb) /\ (sb.exists => sb.uid # 0)
  BY ServedFacts
<1>2. CASE work' = [work EXCEPT ![n] = Failed(@)]
  BY <1>2, ServedFailed
<1>3. CASE work' = [work EXCEPT ![n] = v]
  <2>1. work'[n] = v
    BY <1>3 DEF TypeOK
  <2>2. /\ v.pc = "status" /\ v.existing = work[n].existing
        /\ Same(v.resource, work[n].resource)
    BY KeyTypes, ProjectedRecord
  <2>. HIDE DEF v
  <2>3. p.owner # 0
    BY <1>1 DEF Underway, Same
  <2>4. Pending(n)'
    BY <2>3, PendingStored
  <2>. QED
    BY <1>1, <2>1, <2>2, <2>4 DEF Served, Underway, Done, Same
<1>. QED
  BY <1>2, <1>3 DEF Answered

\* The projection is left as it is because it is the desired one.
LEMMA ServedEqual ==
  ASSUME TypeOK, NEW n \in Names, Served(n), Identified(n),
         work[n].pc = "project", sbs' = sbs, queue' = queue, projs' = projs,
         svcs' = svcs, tracked' = tracked,
         Lister(projs[n]).exists,
         IsControlledBy(Lister(projs[n]), work[n].resource),
         serviceBindingProjectionSemanticEquals(
           Desired(work[n].resource), Lister(projs[n])),
         work' = [work EXCEPT ![n] = Projected(@, Lister(projs[n]))]
  PROVE  Served(n)'
<1>. SUFFICES ASSUME n \notin queue, Settled(sbs[n])
              PROVE  Served(n)'
  BY ServedAwake
<1>. DEFINE sb == Lister(sbs[n])
            p == Lister(projs[n])
            w == work[n]
            v == Projected(w, p)
            c == v.resource.status.conditions
<1>1. Underway(n, w, sb)
  BY ServedFacts
<1>2. work'[n] = v
  BY DEF TypeOK
<1>3. /\ v.pc = "status" /\ v.existing = w.existing
      /\ Same(v.resource, w.resource)
      /\ v.resource.status.binding = w.resource.status.binding
      /\ v.resource.status.observedGeneration = w.resource.generation
      /\ c["ServiceAvailable"] =
           w.resource.status.conditions["ServiceAvailable"]
      /\ c["ProjectionReady"].status = ReportedStatus(p.ready)
      /\ c["ProjectionReady"].reason = <<"", ReportedReason(p.ready)>>
  <2>1. w \in Work /\ p \in ServiceBindingProjection
    BY KeyTypes
  <2>. HIDE DEF w, p
  <2>. QED
    BY <2>1, ProjectedRecord
<1>4. /\ p.binding = w.resource.status.binding
      /\ p.want = w.resource.want
      /\ p.meta = w.resource.meta
      /\ p.owner = w.resource.uid
  BY DEF serviceBindingProjectionSemanticEquals, Desired, IsControlledBy
<1>5. /\ w.resource.status.binding = ProvidedHere(sb.service)
      /\ w.resource.status.conditions["ServiceAvailable"].status = "True"
      /\ Watched(n, sb.service) /\ Same(w.resource, sb)
      /\ w.existing = sb /\ sb.exists
  BY <1>1 DEF Underway
<1>. HIDE DEF v, p, w, sb
<1>6. v.resource.service = sb.service /\ Same(v.resource, sb)
  BY <1>3, <1>5 DEF Same
<1>7. Made(p, ProvidedHere(sb.service), v.resource)
  BY <1>3, <1>4, <1>5, <1>6 DEF Made, Same, p
<1>8. Lister(sbs'[n]) = sb /\ Lister(projs'[n]) = p
  BY DEF sb, p
<1>9. Done(n, work[n].resource)'
  BY <1>2, <1>5, <1>6, <1>7, <1>8 DEF Done, Watched, ProvidedHere
<1>. QED
  BY <1>2, <1>3, <1>5, <1>6, <1>8, <1>9 DEF Served, Underway

\* The steps of serviceBindingProjection.
LEMMA ServedProject ==
  ASSUME TypeOK, NEW n \in Names, Served(n), Identified(n),
         serviceBindingProjection(n)
  PROVE  Served(n)'
<1>. DEFINE binding == work[n].resource
            listed == Lister(projs[n])
            server == Server(projs[n])
            created == MakeServiceBindingProjection(binding)
            updated == [server EXCEPT !.binding = binding.status.binding,
                                      !.want = binding.want,
                                      !.meta = binding.meta]
<1>0. /\ queue' = queue /\ sbs' = sbs /\ svcs' = svcs /\ tracked' = tracked
      /\ work[n].pc = "project"
  BY DEF serviceBindingProjection
<1>. SUFFICES ASSUME n \notin queue, Settled(sbs[n])
              PROVE  Served(n)'
  BY <1>0, ServedAwake
<1>1. /\ binding \in ServiceBinding /\ binding.status.binding \in Bindings
      /\ server \in ServiceBindingProjection
  BY <1>0, KeyTypes DEF TypeOK, StepOK, ServiceBinding, Status
<1>2. CASE work' = [work EXCEPT ![n] = Failed(@)]
  BY <1>0, <1>2, ServedFailed
<1>3. CASE /\ projs' = [projs EXCEPT ![n] = Stored(@, created)]
           /\ Answered(n, Projected(work[n], created))
  <2>1. created \in ServiceBindingProjection /\ created.owner = binding.uid
    BY <1>1, NoProjectionType
       DEF MakeServiceBindingProjection, ServiceBindingProjection,
           ServiceBinding, Status, NoProjection
  <2>. HIDE DEF created
  <2>. QED
    BY <1>0, <1>3, <2>1, ServedAnswered
<1>4. CASE /\ projs' = [projs EXCEPT ![n] = Stored(@, updated)]
           /\ Answered(n, Projected(work[n], updated))
           /\ Settled(projs[n])
           /\ IsControlledBy(listed, binding)
  <2>1. updated \in ServiceBindingProjection /\ updated.owner = server.owner
    BY <1>1 DEF ServiceBindingProjection, ServiceBinding, Status
  <2>2. server.owner = binding.uid
    BY <1>4, SettledEnds DEF IsControlledBy
  <2>. HIDE DEF updated
  <2>. QED
    BY <1>0, <1>4, <2>1, <2>2, ServedAnswered
<1>5. CASE /\ listed.exists
           /\ IsControlledBy(listed, binding)
           /\ serviceBindingProjectionSemanticEquals(Desired(binding), listed)
           /\ work' = [work EXCEPT ![n] = Projected(@, listed)]
           /\ projs' = projs
  BY <1>0, <1>5, ServedEqual
<1>. QED
  BY <1>2, <1>3, <1>4, <1>5
     DEF serviceBindingProjection, createServiceBindingProjection,
         reconcileServiceBindingProjection

\* Reconcile returns with an error.
LEMMA ServedReturn ==
  ASSUME NEW n \in Names, Return(n, TRUE)
  PROVE  Served(n)'
BY ServedAwake DEF Return

\* updateStatus: the status is what it should be, or an event will come.
LEMMA ServedUpdate ==
  ASSUME TypeOK, NEW n \in Names, Served(n), Identified(n), updateStatus(n)
  PROVE  Served(n)'
<1>. DEFINE w == work[n]
            sb == Lister(sbs[n])
            server == Server(sbs[n])
            o == [Revised(server) EXCEPT !.status = w.resource.status]
<1>0. w.pc = "status" /\ projs' = projs /\ svcs' = svcs /\ tracked' = tracked
  BY DEF updateStatus
<1>1. CASE Return(n, TRUE)
  BY <1>1, ServedReturn
<1>2. CASE sbs' = [sbs EXCEPT ![n] = Stored(@, o)]
  <2>1. sbs'[n] = Stored(sbs[n], o)
    BY <1>2 DEF TypeOK
  <2>2. sbs[n] \in Seq(ServiceBinding) /\ sbs[n] # << >>
    BY KeyTypes
  <2>3. ~Settled(sbs'[n])
    <3>. HIDE DEF o
    <3>. QED
      BY <2>1, <2>2, StoredAny
  <2>. QED
    BY <2>3, ServedAwake
<1>3. ASSUME sbs' = sbs, n \in queue => n \in queue',
             \/ w.existing.status = w.resource.status /\ Return(n, w.err)
             \/ ~Unmodified(server, w.existing)
      PROVE  Served(n)'
  <2>. SUFFICES ASSUME n \notin queue, Settled(sbs[n])
                PROVE  Served(n)'
    BY <1>3, ServedAwake
  <2>1. Underway(n, w, sb) /\ sb = server
    BY <1>0, ServedFacts
  <2>2. Unmodified(server, w.existing)
    BY <2>1 DEF Underway, Unmodified
  <2>3. w.existing.status = w.resource.status /\ Return(n, w.err)
    BY <1>3, <2>2
  <2>4. CASE w.err
    BY <2>3, <2>4, ServedAwake DEF Return
  <2>5. CASE ~w.err
    <3>1. Done(n, w.resource) /\ Same(w.resource, sb) /\ w.existing = sb
      BY <1>0, <2>1, <2>5 DEF Underway
    <3>2. w.resource.status = sb.status
      BY <2>3, <3>1
    <3>3. Done(n, sb)
      <4>1. CASE Pending(n)
        BY <4>1 DEF Done
      <4>2. CASE ~Pending(n)
        BY <3>1, <3>2, <4>2 DEF Done, Made, Same
      <4>. QED
        BY <4>1, <4>2
    <3>4. work'[n] = Idle
      BY <2>3 DEF Return, TypeOK
    <3>5. work'[n].pc = "idle"
      BY <3>4 DEF Idle
    <3>6. Done(n, Lister(sbs[n]))'
      BY <1>0, <1>3, <3>3 DEF Done, Pending, Watched, ProvidedHere
    <3>. QED
      BY <3>5, <3>6 DEF Served
  <2>. QED
    BY <2>4, <2>5
<1>4. w.err \in BOOLEAN
  BY KeyTypes DEF Work
<1>5. n \in queue => n \in queue'
  BY DEF updateStatus, Return
<1>6. \/ Return(n, TRUE)
      \/ sbs' = [sbs EXCEPT ![n] = Stored(@, o)]
      \/ /\ sbs' = sbs
         /\ w.existing.status = w.resource.status /\ Return(n, w.err)
      \/ sbs' = sbs /\ ~Unmodified(server, w.existing)
  BY DEF updateStatus
<1>. QED
  BY <1>1, <1>2, <1>3, <1>5, <1>6

\* The GET before another attempt keeps the binding served.
LEMMA ServedGet ==
  ASSUME TypeOK, NEW n \in Names, Served(n), Identified(n), getExisting(n)
  PROVE  Served(n)'
<1>1. work[n].pc = "get" /\ sbs' = sbs /\ (n \in queue => n \in queue')
  BY DEF getExisting, Return
<1>2. CASE n \in queue \/ ~Settled(sbs[n])
  BY <1>1, <1>2, ServedAwake
<1>3. CASE n \notin queue /\ Settled(sbs[n])
  <2>1. Underway(n, work[n], Lister(sbs[n]))
    BY <1>1, <1>3, ServedFacts
  <2>. QED
    BY <1>1, <2>1 DEF Underway
<1>. QED
  BY <1>2, <1>3

\* So does a failed request: the key is put back.
LEMMA ServedFails ==
  ASSUME TypeOK, NEW n \in Names, Served(n), Identified(n), RequestFails(n)
  PROVE  Served(n)'
<1>1. CASE Return(n, TRUE)
  BY <1>1, ServedReturn
<1>2. CASE /\ work[n].pc = "project" /\ queue' = queue
           /\ work' = [work EXCEPT ![n] = Failed(@)]
  <2>1. sbs' = sbs
    BY DEF RequestFails
  <2>. QED
    BY <1>2, <2>1, ServedAwake, ServedFailed
<1>. QED
  BY <1>1, <1>2 DEF RequestFails

\* The informers: a delivery that matters to a key puts it into the queue.
LEMMA ServedDelivered ==
  ASSUME TypeOK, NEW m \in Names, Served(m), Identified(m), Informers
  PROVE  Served(m)'
<1>0. /\ sbs \in [Names -> Seq(ServiceBinding)]
      /\ projs \in [Names -> Seq(ServiceBindingProjection)]
      /\ svcs \in [Services -> Seq(Bindings \cup {Missing})]
  BY DEF TypeOK
<1>1. ASSUME NEW n \in Names, DeliverServiceBinding(n) PROVE Served(m)'
  <2>1. CASE m = n
    BY <1>1, <2>1, ServedAwake DEF DeliverServiceBinding
  <2>2. CASE m # n
    <3>1. sbs'[m] = sbs[m] /\ (m \in queue => m \in queue')
          /\ UNCHANGED <<projs, svcs, tracked, work>>
      BY <1>0, <1>1, <2>2 DEF DeliverServiceBinding
    <3>2. Pending(m) => Pending(m)'
      BY <3>1 DEF Pending
    <3>. QED
      BY <3>1, <3>2, ServedKept
  <2>. QED
    BY <2>1, <2>2
<1>2. ASSUME NEW n \in Names, DeliverProjection(n) PROVE Served(m)'
  <2>0. /\ ~Settled(projs[n])
        /\ projs' = [projs EXCEPT ![n] = Tail(@)]
        /\ queue' = IF projs[n][1].owner # 0 \/ projs[n][2].owner # 0
                    THEN queue \cup {n} ELSE queue
        /\ UNCHANGED <<sbs, svcs, tracked, work>>
    BY <1>2 DEF DeliverProjection
  <2>1. CASE m # n
    <3>1. projs'[m] = projs[m] /\ (m \in queue => m \in queue')
      BY <1>0, <2>0, <2>1
    <3>2. Pending(m) => Pending(m)'
      BY <3>1 DEF Pending
    <3>. QED
      BY <2>0, <3>1, <3>2, ServedKept
  <2>2. CASE m = n /\ (projs[n][1].owner # 0 \/ projs[n][2].owner # 0)
    BY <2>0, <2>2, ServedAwake
  <2>3. CASE m = n /\ projs[n][1].owner = 0 /\ projs[n][2].owner = 0
    <3>0. queue' = queue
      BY <2>0, <2>3
    <3>. SUFFICES ASSUME m \notin queue, Settled(sbs[m])
                  PROVE  Served(m)'
      BY <2>0, <3>0, ServedAwake
    <3>. DEFINE sb == Lister(sbs[m])
    <3>1. Pending(m) => Pending(m)'
      <4>1. SUFFICES ASSUME Pending(m) PROVE Pending(m)'
        OBVIOUS
      <4>2. /\ projs[m] \in Seq(ServiceBindingProjection) /\ projs[m] # << >>
            /\ projs'[m] = Tail(projs[m])
        BY <1>0, <2>0, <2>3, KeyTypes
      <4>3. /\ Len(projs[m]) \in Nat /\ Len(projs[m]) > 1
            /\ DOMAIN projs[m] = 1..Len(projs[m])
        <5>1. Len(projs[m]) # 1
          BY <2>0, <2>3, Zenon DEF Settled
        <5>2. /\ Len(projs[m]) \in Nat \ {0}
              /\ DOMAIN projs[m] = 1..Len(projs[m])
          BY <4>2, EmptySeq, LenProperties
        <5>3. \A k \in Nat \ {0} : k # 1 => k \in Nat /\ k > 1
          OBVIOUS
        <5>. QED
          BY <5>1, <5>2, <5>3, Zenon
      <4>4. /\ Tail(projs[m]) \in Seq(ServiceBindingProjection)
            /\ Len(Tail(projs[m])) = Len(projs[m]) - 1
            /\ \A i \in 1..Len(Tail(projs[m])) :
                 Tail(projs[m])[i] = projs[m][i + 1]
        BY <4>2, HeadTailProperties
      <4>5. PICK i \in DOMAIN projs[m] : projs[m][i].owner # 0
        BY <4>1 DEF Pending
      <4>6. i # 1 /\ i # 2
        BY <2>3, <4>5
      <4>7. /\ i - 1 \in 1..Len(Tail(projs[m])) /\ i - 1 + 1 = i
            /\ Len(Tail(projs[m])) # 1
        BY <4>3, <4>4, <4>6
      <4>8. i - 1 \in DOMAIN Tail(projs[m])
        BY <4>4, <4>7, LenProperties
      <4>9. Tail(projs[m])[i - 1].owner # 0
        BY <4>4, <4>5, <4>7
      <4>. QED
        BY <4>2, <4>7, <4>8, <4>9 DEF Pending, Settled
    <3>2. ASSUME NEW o, o.uid # 0, Done(m, o)
          PROVE  Pending(m)
      BY <2>3, <3>2 DEF Done, Made, Lister
    <3>3. sb.exists => sb.uid # 0
      BY ServedFacts
    <3>4. CASE work[m].pc = "idle"
      <4>1. sb.exists /\ ~sb.deleting => Done(m, sb)
        BY <3>4 DEF Served
      <4>2. sb.exists /\ ~sb.deleting => Pending(m)'
        BY <3>1, <3>2, <3>3, <4>1
      <4>. QED
        BY <2>0, <3>4, <4>2 DEF Served, Done
    <3>5. CASE work[m].pc # "idle"
      <4>1. Underway(m, work[m], sb)
        BY <3>5 DEF Served
      <4>2. work[m].pc = "status" => (work[m].err \/ Pending(m)')
        <5>1. work[m].resource.uid # 0
          BY <3>3, <4>1 DEF Underway, Same
        <5>. QED
          BY <3>1, <3>2, <4>1, <5>1 DEF Underway
      <4>. QED
        BY <2>0, <3>5, <4>1, <4>2
           DEF Served, Underway, Done, Watched, ProvidedHere
    <3>. QED
      BY <3>4, <3>5
  <2>. QED
    BY <2>1, <2>2, <2>3
<1>3. ASSUME NEW s \in Services, DeliverService(s) PROVE Served(m)'
  <2>1. /\ svcs' = [svcs EXCEPT ![s] = Tail(@)]
        /\ queue' = queue \cup tracked[s]
        /\ UNCHANGED <<sbs, projs, tracked, work>>
    BY <1>3 DEF DeliverService
  <2>2. CASE m \in queue'
    BY <2>2, ServedAwake
  <2>3. CASE m \notin queue'
    <3>1. \A r \in Services : m \in tracked[r] => svcs'[r] = svcs[r]
      BY <1>0, <2>1, <2>3
    <3>2. Pending(m) => Pending(m)'
      BY <2>1 DEF Pending
    <3>. QED
      BY <2>1, <2>3, <3>1, <3>2, ServedKept
  <2>. QED
    BY <2>2, <2>3
<1>4. ASSUME NEW n \in Names, Resync(n) PROVE Served(m)'
  <2>1. (m \in queue => m \in queue')
        /\ UNCHANGED <<sbs, projs, svcs, tracked, work>>
    BY <1>4 DEF Resync
  <2>2. Pending(m) => Pending(m)'
    BY <2>1 DEF Pending
  <2>. QED
    BY <2>1, <2>2, ServedKept
<1>. QED
  BY <1>1, <1>2, <1>3, <1>4 DEF Informers

\* What users, other controllers and the garbage collector store.
LEMMA ServedStored ==
  ASSUME TypeOK, NEW m \in Names, Served(m),
         \/ \E n \in Names : \E o : StoreBinding(n, o)
         \/ \E n \in Names : \E o : StoreProjection(n, o)
         \/ \E s \in Services : \E b : StoreService(s, b)
  PROVE  Served(m)'
<1>0. /\ sbs \in [Names -> Seq(ServiceBinding)]
      /\ projs \in [Names -> Seq(ServiceBindingProjection)]
      /\ svcs \in [Services -> Seq(Bindings \cup {Missing})]
      /\ \A s \in Services : svcs[s] # << >>
  BY DEF TypeOK
<1>1. ASSUME NEW n \in Names, NEW o, StoreBinding(n, o) PROVE Served(m)'
  <2>1. sbs' = [sbs EXCEPT ![n] = Stored(@, o)]
        /\ UNCHANGED <<projs, svcs, tracked, queue, work>>
    BY <1>1 DEF StoreBinding
  <2>2. CASE m = n
    <3>1. sbs'[m] = Stored(sbs[m], o)
      BY <1>0, <2>1, <2>2
    <3>2. ~Settled(sbs'[m])
      BY <3>1, KeyTypes, StoredAny
    <3>. QED
      BY <3>2, ServedAwake
  <2>3. CASE m # n
    <3>1. sbs'[m] = sbs[m]
      BY <1>0, <2>1, <2>3
    <3>2. Pending(m) => Pending(m)'
      BY <2>1 DEF Pending
    <3>. QED
      BY <2>1, <3>1, <3>2, ServedKept
  <2>. QED
    BY <2>2, <2>3
<1>2. ASSUME NEW n \in Names, NEW o, StoreProjection(n, o) PROVE Served(m)'
  <2>1. projs' = [projs EXCEPT ![n] = Stored(@, o)]
        /\ UNCHANGED <<sbs, svcs, tracked, queue, work>>
    BY <1>2 DEF StoreProjection
  <2>2. Lister(projs'[m]) = Lister(projs[m]) /\ (Pending(m) => Pending(m)')
    <3>1. CASE m = n
      BY <2>1, <3>1, PendingStored
    <3>2. CASE m # n
      <4>1. projs'[m] = projs[m]
        BY <1>0, <2>1, <3>2
      <4>. QED
        BY <4>1 DEF Pending
    <3>. QED
      BY <3>1, <3>2
  <2>. QED
    BY <2>1, <2>2, ServedKept
<1>3. ASSUME NEW s \in Services, NEW b, StoreService(s, b) PROVE Served(m)'
  <2>1. svcs' = [svcs EXCEPT ![s] = Stored(@, b)]
        /\ UNCHANGED <<sbs, projs, tracked, queue, work>>
    BY <1>3 DEF StoreService
  <2>2. ASSUME NEW r \in Services PROVE Lister(svcs'[r]) = Lister(svcs[r])
    <3>1. CASE r = s
      <4>1. svcs'[r] = Stored(svcs[r], b)
        BY <1>0, <2>1, <3>1
      <4>. DEFINE B == Bindings \cup {Missing}
      <4>2. svcs[r] \in Seq(B) /\ svcs[r] # << >>
        BY <1>0
      <4>. HIDE DEF B
      <4>. QED
        BY <4>1, <4>2, StoredAny
    <3>2. CASE r # s
      BY <1>0, <2>1, <3>2
    <3>. QED
      BY <3>1, <3>2
  <2>3. Pending(m) => Pending(m)'
    BY <2>1 DEF Pending
  <2>. QED
    BY <2>1, <2>2, <2>3, ServedKept
<1>. QED
  BY <1>1, <1>2, <1>3

\* A new process lists everything and queues what exists.
LEMMA ServedRestart ==
  ASSUME TypeOK, NEW m \in Names, Restart
  PROVE  Served(m)'
<1>1. /\ sbs'[m] = <<Server(sbs[m])>>
      /\ work'[m] = Idle
      /\ Server(sbs[m]).exists => m \in queue'
  BY DEF Restart
<1>2. work'[m].pc = "idle"
  BY <1>1 DEF Idle
<1>3. Lister(sbs'[m]) = Server(sbs[m])
  BY <1>1 DEF Lister
<1>4. CASE m \in queue'
  BY <1>4, ServedAwake
<1>5. CASE m \notin queue'
  BY <1>1, <1>2, <1>3, <1>5 DEF Served
<1>. QED
  BY <1>4, <1>5

\* A new version of a binding that exists has a uid.
LEMMA NextIdentified ==
  ASSUME TypeOK, NEW n \in Names, Identified(n), [Next]_vars
  PROVE  Identified(n)'
<1>. DEFINE sb == Server(sbs[n])
<1>1. /\ sbs[n] \in Seq(ServiceBinding) /\ sbs[n] # << >>
      /\ sb \in ServiceBinding /\ Len(sbs[n]) \in DOMAIN sbs[n]
  BY KeyTypes, WindowEnds
<1>2. sb.uid \in Nat /\ (sb.exists => sb.uid # 0)
  BY <1>1 DEF Identified, Server, ServiceBinding
<1>3. CASE NoNewVersion(n)
  BY <1>3 DEF NoNewVersion, Identified
<1>4. ASSUME NEW o \in ServiceBinding, NewVersion(n, o),
             sbs'[n] = Stored(sbs[n], o)
      PROVE  Identified(n)'
  <2>1. o.exists => o.uid # 0
    <3>1. CASE o = [Revised(sb) EXCEPT !.status = work[n].resource.status]
      <4>1. o.exists = sb.exists /\ o.uid = sb.uid
        BY <1>1, <3>1, RevisedType DEF ServiceBinding
      <4>. QED
        BY <1>2, <4>1
    <3>2. CASE o.uid = sb.uid + 1
      BY <1>2, <3>2
    <3>3. CASE Later(o, sb)
      BY <1>2, <3>3 DEF Later
    <3>4. CASE o = NoServiceBinding(sb.uid)
      BY <3>4 DEF NoServiceBinding
    <3>. QED
      BY <1>4, <3>1, <3>2, <3>3, <3>4 DEF NewVersion
  <2>2. \A i \in DOMAIN sbs'[n] :
          sbs'[n][i] = o \/ \E j \in DOMAIN sbs[n] : sbs'[n][i] = sbs[n][j]
    BY <1>1, <1>4, WindowStored
  <2>. QED
    BY <2>1, <2>2 DEF Identified
<1>. QED
  BY <1>3, <1>4, BindingSteps

\* Initially there is no binding to serve.
LEMMA InitRestInv == Init => RestInv
<1>. SUFFICES ASSUME Init, NEW n \in Names PROVE Served(n) /\ Identified(n)
  BY DEF RestInv
<1>1. sbs[n] = <<NoServiceBinding(0)>> /\ work[n] = Idle
  BY DEF Init
<1>2. /\ \A i \in DOMAIN sbs[n] : sbs[n][i] = NoServiceBinding(0)
      /\ Lister(sbs[n]) = NoServiceBinding(0)
  BY <1>1 DEF Lister
<1>3. NoServiceBinding(0).exists = FALSE /\ Idle.pc = "idle"
  BY DEF NoServiceBinding, Idle
<1>. QED
  BY <1>1, <1>2, <1>3 DEF Served, Identified

\* Every step keeps the invariant.
LEMMA NextRestInv == TypeOK /\ RestInv /\ [Next]_vars => RestInv'
<1>. SUFFICES ASSUME TypeOK, RestInv, [Next]_vars, NEW m \in Names
              PROVE  Served(m)' /\ Identified(m)'
  BY DEF RestInv
<1>0. Served(m) /\ Identified(m)
  BY DEF RestInv
<1>1. Identified(m)'
  BY <1>0, NextIdentified
<1>2. ASSUME NEW n \in Names, Worker(n) PROVE Served(m)'
  <2>1. CASE m # n
    BY <1>0, <1>2, <2>1, ServedOthers
  <2>2. CASE m = n
    BY <1>0, <1>2, <2>2, ServedReconcile, ServedTrack, ServedLookup,
       ServedProject, ServedUpdate, ServedGet, ServedFails DEF Worker
  <2>. QED
    BY <2>1, <2>2
<1>3. CASE Informers
  BY <1>0, <1>1, <1>3, ServedDelivered
<1>4. CASE Users \/ Cluster
  <2>1. \/ \E n \in Names : \E o : StoreBinding(n, o)
        \/ \E n \in Names : \E o : StoreProjection(n, o)
        \/ \E s \in Services : \E b : StoreService(s, b)
    BY <1>4
       DEF Users, Cluster, CreateBinding, EditBinding, DeleteBinding,
           ReportProjection, IntrudeProjection, FinalizeProjection,
           CollectProjection, CollectBinding, PublishService
  <2>. QED
    BY <1>0, <1>1, <2>1, ServedStored
<1>5. CASE Restart
  BY <1>1, <1>5, ServedRestart
<1>6. CASE Tick \/ UNCHANGED vars
  <2>1. UNCHANGED <<sbs, projs, svcs, tracked, queue, work>>
    BY <1>6 DEF Tick, vars
  <2>2. Pending(m) => Pending(m)'
    BY <2>1 DEF Pending
  <2>. QED
    BY <1>0, <1>1, <2>1, <2>2, ServedKept
<1>. QED
  BY <1>1, <1>2, <1>3, <1>4, <1>5, <1>6 DEF Next

\* No wake-up is lost, whatever is deleted, recreated, edited by others or
\* restarted in between, however far the informers lag and however many
\* requests fail: when nothing waits for a key, its binding is bound
\* (ReconcileKind, the event handlers of NewController, the tracker).
THEOREM RestsOnlyWhenBoundAlways == Spec => []RestsOnlyWhenBound
<1>1. TypeOK /\ RestInv => RestsOnlyWhenBound
  <2>. SUFFICES ASSUME TypeOK, RestInv, NEW n \in Names, Quiescent(n),
                       Server(sbs[n]).exists, ~Server(sbs[n]).deleting
                PROVE  Bound(n)
    BY DEF RestsOnlyWhenBound
  <2>. DEFINE sb == Server(sbs[n])
              p == Server(projs[n])
  <2>1. /\ n \notin queue /\ work[n].pc = "idle"
        /\ Settled(sbs[n]) /\ Settled(projs[n])
        /\ \A s \in Services : Settled(svcs[s])
    BY DEF Quiescent
  <2>2. Lister(sbs[n]) = sb /\ Lister(projs[n]) = p
    BY <2>1, SettledEnds
  <2>3. sb.service \in References
    BY KeyTypes DEF ServiceBinding
  <2>4. ProvidedHere(sb.service) = Provided(sb.service)
    BY <2>1, <2>3, SettledEnds DEF ProvidedHere, Provided, References
  <2>5. Done(n, sb)
    BY <2>1, <2>2 DEF RestInv, Served
  <2>6. Made(p, Provided(sb.service), sb)
    BY <2>1, <2>2, <2>4, <2>5 DEF Done, Pending
  <2>. QED
    BY <2>6 DEF Made, Bound
<1>2. TypeOK /\ RestInv /\ [Next]_vars => RestInv'
  BY NextRestInv
<1>3. Init => RestInv
  BY InitRestInv
<1>. QED
  BY <1>1, <1>2, <1>3, TypeCorrect, PTL DEF Spec
=============================================================================
