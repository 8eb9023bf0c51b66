------------------------- MODULE MCConditionsProofs -------------------------
(***************************************************************************)
(* What holds of the conditions however often, and in whichever order, the *)
(* setters of the ServiceBinding's status are called.                      *)
(***************************************************************************)
EXTENDS MCConditions, TLAPS

\* The time of every condition of d follows its status, coming from c.
Timed(c, d, now) ==
  \A t \in CondTypes :
    d[t].lastTransitionTime =
      IF d[t].status # c[t].status THEN now ELSE c[t].lastTransitionTime

\* Ready gives the reason of the condition that it blames, if it blames one.
Explained(c) ==
  LET ready == c["Ready"]
      culprit == ready.reason[1]
  IN  ready.reason[1] # "" =>
        /\ ready.status = c[culprit].status
        /\ ready.reason[2] = c[culprit].reason[2]
        /\ ready.status # "True"
        /\ ready.status = ReadyStatus(c)

-----------------------------------------------------------------------------
\* A status that nothing has been set in is a set of conditions.
LEMMA NoConditionsType == NoConditions \in ConditionSet
BY ReasonsAssumption
   DEF Reason, NoConditions, NoCondition, ConditionSet, Condition, CondStatuses

\* A transition yields a condition.
LEMMA TransitionType ==
  ASSUME NEW c \in Condition, NEW status \in CondStatuses,
         NEW reason \in Reason, NEW now \in Nat
  PROVE  /\ Transition(c, status, reason, now) \in Condition
         /\ Transition(c, status, reason, now).status = status
BY DEF Transition, Condition

\* The elements of a pair.
LEMMA Pair ==
  ASSUME NEW x, NEW y
  PROVE  <<x, y>>[1] = x /\ <<x, y>>[2] = y
OBVIOUS

\* The clock shows a natural number.
LEMMA ClockNat == TypeOK => clock \in Nat
<1>1. \A n \in 1..MaxTime : n \in Nat
  BY MaxTimeAssumption
<1>. QED
  BY <1>1, Zenon DEF TypeOK

\* The times of a setter's result, which first sets one of the other two
\* conditions and then aggregates, follow the statuses; Ready is explained.
LEMMA SetterCorrect ==
  ASSUME NEW c \in ConditionSet, NEW now \in Nat,
         NEW part \in {"ServiceAvailable", "ProjectionReady"},
         NEW status \in CondStatuses \ {""}, NEW reason \in Reason,
         \A t \in CondTypes : c[t].status # ""
  PROVE  LET d == aggregateReadyCondition(
                    [c EXCEPT ![part] = Transition(@, status, reason, now)],
                    now)
         IN  /\ d \in ConditionSet
             /\ \A t \in CondTypes : d[t].status # ""
             /\ Timed(c, d, now)
             /\ Explained(d)
<1>. DEFINE r == Transition(c[part], status, reason, now)
            m == [c EXCEPT ![part] = r]
            svc == m["ServiceAvailable"]
            proj == m["ProjectionReady"]
            b == Blamed(m)
            both == svc.status = "True" /\ proj.status = "True"
            st == IF both THEN "True" ELSE m[b].status
            why == IF both THEN <<"", "Ready">> ELSE <<b, m[b].reason[2]>>
            q == Transition(m["Ready"], st, why, now)
            d == [m EXCEPT !["Ready"] = q]
<1>1. \A t \in CondTypes : c[t] \in Condition
  BY DEF ConditionSet
<1>2. /\ part \in CondTypes /\ "Ready" \in CondTypes /\ part # "Ready"
      /\ "ServiceAvailable" \in CondTypes /\ "ProjectionReady" \in CondTypes
  BY DEF CondTypes
<1>3. /\ r \in Condition /\ r.status = status
      /\ r.lastTransitionTime =
           IF c[part].status # status THEN now ELSE c[part].lastTransitionTime
  BY <1>1, <1>2, TransitionType DEF Transition
<1>4. m \in ConditionSet /\ m[part] = r
      /\ \A t \in CondTypes \ {part} : m[t] = c[t]
  BY <1>2, <1>3 DEF ConditionSet
<1>5. \A t \in CondTypes : m[t].status # ""
  BY <1>3, <1>4
<1>6. aggregateReadyCondition(m, now) = d
  <2>. HIDE DEF m
  <2>. QED
    BY DEF aggregateReadyCondition
<1>7. b \in {"ServiceAvailable", "ProjectionReady"} /\ b \in CondTypes
      /\ b # "Ready" /\ b # ""
  BY DEF Blamed, CondTypes
<1>8. d \in ConditionSet /\ \A t \in CondTypes : d[t].status # ""
  <2>1. \A t \in CondTypes : m[t] \in Condition
    BY <1>4 DEF ConditionSet
  <2>. HIDE DEF m, b
  <2>2. st \in CondStatuses /\ st # ""
    BY <1>2, <1>5, <1>7, <2>1 DEF Condition, CondStatuses
  <2>3. m[b].reason[2] \in Reasons
    BY <1>7, <2>1 DEF Condition, Reason
  <2>4. <<b, m[b].reason[2]>> \in Reason
    BY <1>7, <2>3 DEF Reason
  <2>5. <<"", "Ready">> \in Reason
    BY ReasonsAssumption DEF Reason
  <2>6. why \in Reason
    BY <2>4, <2>5
  <2>7. m["Ready"] \in Condition
    BY <1>2, <2>1
  <2>. HIDE DEF st, why
  <2>8. q \in Condition /\ q.status = st
    BY <2>2, <2>6, <2>7 DEF Transition, Condition
  <2>. HIDE DEF q
  <2>. QED
    BY <1>2, <1>4, <1>5, <2>2, <2>8 DEF ConditionSet
<1>9. /\ q.status = st /\ q.reason = why
      /\ q.lastTransitionTime =
           IF m["Ready"].status # st THEN now ELSE m["Ready"].lastTransitionTime
  BY DEF Transition
<1>10. d["Ready"] = q /\ \A t \in CondTypes \ {"Ready"} : d[t] = m[t]
  BY <1>2, <1>4 DEF ConditionSet
<1>11. Timed(c, d, now)
  <2>. HIDE DEF r, m, q, d, st, why
  <2>1. d["Ready"].lastTransitionTime =
          IF d["Ready"].status # c["Ready"].status
          THEN now ELSE c["Ready"].lastTransitionTime
    BY <1>2, <1>4, <1>9, <1>10
  <2>2. d[part].lastTransitionTime =
          IF d[part].status # c[part].status
          THEN now ELSE c[part].lastTransitionTime
    BY <1>2, <1>3, <1>4, <1>10
  <2>3. \A t \in CondTypes \ {"Ready", part} : d[t] = c[t]
    BY <1>4, <1>10
  <2>. QED
    BY <2>1, <2>2, <2>3 DEF Timed
<1>12. Explained(d)
  <2>1. svc.status \in {"True", "False", "Unknown"}
        /\ proj.status \in {"True", "False", "Unknown"}
    BY <1>2, <1>4, <1>5 DEF ConditionSet, Condition, CondStatuses
  <2>2. d["ServiceAvailable"] = svc /\ d["ProjectionReady"] = proj
    BY <1>2, <1>10
  <2>3. CASE both
    <3>1. why[1] = ""
      BY <2>3, Pair
    <3>. HIDE DEF why, q, d, both
    <3>2. d["Ready"].reason[1] = ""
      BY <1>9, <1>10, <3>1
    <3>. QED
      BY <3>2 DEF Explained
  <2>4. CASE ~both
    <3>1. d["Ready"].status = m[b].status /\ d["Ready"].reason = <<b, m[b].reason[2]>>
      BY <1>9, <1>10, <2>4
    <3>2. d[b] = m[b]
      BY <1>7, <1>10
    <3>3. m[b].status # "True" /\ m[b].status = ReadyStatus(d)
      BY <2>1, <2>2, <2>4 DEF Blamed, ReadyStatus
    <3>. HIDE DEF m, d, b
    <3>. DEFINE x == m[b].reason[2]
                rd == d["Ready"].reason
    <3>4. rd = <<b, x>>
      BY <3>1
    <3>. HIDE DEF x, rd
    <3>5. rd[1] = b /\ rd[2] = x
      BY <3>4, Pair
    <3>6. d["Ready"].reason[1] = b /\ d["Ready"].reason[2] = m[b].reason[2]
      BY <3>5 DEF x, rd
    <3>. QED
      BY <3>1, <3>2, <3>3, <3>6 DEF Explained
  <2>. QED
    BY <2>3, <2>4
<1>. QED
  BY <1>6, <1>8, <1>11, <1>12

\* InitializeConditions sets the time of what it adds, and adds no blame.
LEMMA InitializeTimed ==
  ASSUME NEW c \in ConditionSet, NEW now \in Nat,
         c = NoConditions \/ \A t \in CondTypes : c[t].status # ""
  PROVE  LET d == InitializeConditions(c, now)
         IN  /\ d \in ConditionSet
             /\ \A t \in CondTypes : d[t].status # ""
             /\ Timed(c, d, now)
             /\ c # NoConditions => d = c
             /\ c = NoConditions => Explained(d)
<1>. DEFINE d == InitializeConditions(c, now)
<1>1. d \in ConditionSet
  <2>1. [status |-> "Unknown", reason |-> <<"", "Unknown">>,
         lastTransitionTime |-> now] \in Condition
    BY ReasonsAssumption DEF Condition, CondStatuses, Reason
  <2>. QED
    BY <2>1 DEF InitializeConditions, ConditionSet
<1>2. CASE c = NoConditions
  <2>1. \A t \in CondTypes : c[t] = NoCondition /\ c[t].status = ""
    BY <1>2 DEF NoConditions, NoCondition
  <2>2. \A t \in CondTypes : /\ d[t].status = "Unknown"
                             /\ d[t].reason[1] = ""
                             /\ d[t].lastTransitionTime = now
    BY <2>1 DEF InitializeConditions
  <2>. QED
    BY <1>1, <1>2, <2>1, <2>2 DEF Timed, Explained, CondTypes
<1>3. CASE c # NoConditions
  <2>1. \A t \in CondTypes : c[t].status # ""
    BY <1>3
  <2>2. \A t \in CondTypes : c[t] # NoCondition
    <3>1. NoCondition.status = ""
      BY DEF NoCondition
    <3>. QED
      BY <2>1, <3>1
  <2>3. d = c
    BY <2>2 DEF InitializeConditions, ConditionSet
  <2>. QED
    BY <1>1, <1>3, <2>1, <2>3 DEF Timed
<1>. QED
  BY <1>2, <1>3

-----------------------------------------------------------------------------
\* A call of a setter, at the time that the clock shows.
LEMMA SetterSteps ==
  ASSUME TypeOK, Initialized, Available \/ Unavailable \/ Propagate
  PROVE  /\ conditions' \in ConditionSet
         /\ \A t \in CondTypes : conditions'[t].status # ""
         /\ Timed(conditions, conditions', clock)
         /\ Explained(conditions')
         /\ clock' = clock
<1>. USE DEF TypeOK
<1>1. conditions \in ConditionSet /\ clock \in Nat
      /\ \A t \in CondTypes : conditions[t].status # ""
  BY ClockNat
<1>2. CASE Available
  <2>1. "True" \in CondStatuses \ {""} /\ <<"", "Available">> \in Reason
    BY ReasonsAssumption DEF Reason, CondStatuses
  <2>. QED
    BY <1>1, <1>2, <2>1, SetterCorrect DEF Available, MarkServiceAvailable
<1>3. CASE Unavailable
  <2>1. "False" \in CondStatuses \ {""} /\ <<"", "Missing">> \in Reason
    BY MissingAssumption DEF Reason, CondStatuses
  <2>. QED
    BY <1>1, <1>3, <2>1, SetterCorrect DEF Unavailable, MarkServiceUnavailable
<1>4. CASE Propagate
  <2>1. PICK r \in Reports :
          conditions' =
            PropagateServiceBindingProjectionStatus(conditions, r, clock)
    BY <1>4 DEF Propagate
  <2>2. ReportedStatus(r) \in CondStatuses \ {""}
        /\ <<"", ReportedReason(r)>> \in Reason
    BY ReasonsAssumption, ReportsAssumption
       DEF Report, CondStatuses, ReportedStatus, ReportedReason, Reason
  <2>3. clock' = clock
    BY <1>4 DEF Propagate
  <2>. QED
    BY <1>1, <2>1, <2>2, <2>3, SetterCorrect
       DEF PropagateServiceBindingProjectionStatus
<1>. QED
  BY <1>2, <1>3, <1>4

\* The inductive invariant: the conditions are all unset or all set, and what
\* Ready says of the others is true of them.
CondInv == TypeOK /\ ReadyExplains

\* CondInv holds while the conditions are unset.
LEMMA CondInvInit == Init => CondInv
<1>. SUFFICES ASSUME Init PROVE CondInv
  OBVIOUS
<1>1. TypeOK
  BY NoConditionsType, MaxTimeAssumption DEF Init, TypeOK, Initialized
<1>2. ReadyExplains
  BY DEF Init, ReadyExplains, Initialized
<1>. QED
  BY <1>1, <1>2 DEF CondInv

\* Every setter, and the clock, keep CondInv.
LEMMA CondInvStep == CondInv /\ [Next]_vars => CondInv'
<1>. SUFFICES ASSUME CondInv, [Next]_vars PROVE CondInv'
  OBVIOUS
<1>1. TypeOK /\ ReadyExplains
  BY DEF CondInv
<1>2. CASE Available \/ Unavailable \/ Propagate
  <2>1. Initialized
    BY <1>2 DEF Available, Unavailable, Propagate
  <2>. QED
    BY <1>1, <1>2, <2>1, SetterSteps
       DEF CondInv, TypeOK, Initialized, ReadyExplains, Explained
<1>3. CASE Initialize
  <2>1. conditions \in ConditionSet /\ clock \in Nat /\ clock' = clock
        /\ (conditions = NoConditions
              \/ \A t \in CondTypes : conditions[t].status # "")
        /\ conditions' = InitializeConditions(conditions, clock)
    BY <1>1, <1>3, ClockNat DEF TypeOK, Initialized, Initialize
  <2>2. /\ conditions' \in ConditionSet
        /\ \A t \in CondTypes : conditions'[t].status # ""
        /\ conditions # NoConditions => conditions' = conditions
        /\ conditions = NoConditions => Explained(conditions')
    BY <2>1, InitializeTimed
  <2>3. TypeOK'
    BY <1>1, <2>1, <2>2 DEF TypeOK
  <2>4. ReadyExplains'
    BY <1>1, <2>2 DEF ReadyExplains, Initialized, Explained
  <2>. QED
    BY <2>3, <2>4 DEF CondInv
<1>4. CASE Tick
  <2>1. clock' \in 1..MaxTime
    <3>1. clock \in Nat /\ clock < MaxTime /\ clock' = clock + 1
      BY <1>1, <1>4, ClockNat DEF Tick
    <3>. QED
      BY <3>1, MaxTimeAssumption
  <2>. QED
    BY <1>1, <1>4, <2>1
       DEF CondInv, TypeOK, Initialized, ReadyExplains, ReadyStatus, Tick
<1>5. CASE UNCHANGED vars
  BY <1>1, <1>5 DEF CondInv, TypeOK, Initialized, ReadyExplains, ReadyStatus, vars
<1>. QED
  BY <1>2, <1>3, <1>4, <1>5 DEF Next

\* So CondInv is an invariant.
LEMMA CondInvAlways == Spec => []CondInv
BY CondInvInit, CondInvStep, PTL DEF Spec

\* The conditions are all unset or all set, to a status that metav1 knows,
\* whatever the projections report and however long it takes
\* (InitializeConditions, PropagateServiceBindingProjectionStatus).
THEOREM TypeCorrect == Spec => []TypeOK
<1>1. CondInv => TypeOK
  BY DEF CondInv
<1>. QED
  BY <1>1, CondInvAlways, PTL

\* A Ready condition that blames another one gives that one's status and
\* reason, and never blames an Unknown condition while another is False
\* (aggregateReadyCondition).
THEOREM ReadyExplainsAlways == Spec => []ReadyExplains
<1>1. CondInv => ReadyExplains
  BY DEF CondInv
<1>. QED
  BY <1>1, CondInvAlways, PTL

\* lastTransitionTime of a condition moves exactly with its status, and then
\* to the time of the call: repeated calls with the same outcome leave the
\* status as it is, which is what makes the reconciler come to rest.
THEOREM TimeFollowsStatusAlways == Spec => TimeFollowsStatus
<1>. DEFINE Moves == \A t \in CondTypes :
                       conditions'[t].lastTransitionTime =
                         IF conditions'[t].status # conditions[t].status
                         THEN clock ELSE conditions[t].lastTransitionTime
<1>1. ASSUME TypeOK, [Next]_vars
      PROVE  [Moves]_vars
  <2>1. CASE Available \/ Unavailable \/ Propagate
    <3>1. Initialized
      BY <2>1 DEF Available, Unavailable, Propagate
    <3>. QED
      BY <1>1, <2>1, <3>1, SetterSteps DEF Timed
  <2>2. CASE Initialize
    <3>1. conditions \in ConditionSet /\ clock \in Nat
          /\ (conditions = NoConditions
                \/ \A t \in CondTypes : conditions[t].status # "")
          /\ conditions' = InitializeConditions(conditions, clock)
      BY <1>1, <2>2, ClockNat DEF TypeOK, Initialized, Initialize
    <3>. QED
      BY <3>1, InitializeTimed DEF Timed
  <2>3. CASE Tick
    BY <2>3 DEF Tick
  <2>4. CASE UNCHANGED vars
    BY <2>4
  <2>. QED
    BY <1>1, <2>1, <2>2, <2>3, <2>4 DEF Next
<1>. QED
  BY <1>1, TypeCorrect, PTL DEF Spec, TimeFollowsStatus
=============================================================================
