----------------------------- MODULE Conditions -----------------------------
(***************************************************************************)
(* The status conditions of a ServiceBinding, as pure operators:           *)
(* pkg/apis/servicebinding/v1alpha3/servicebinding_lifecycle.go.           *)
(*                                                                         *)
(* bs.Conditions is a record with one field per condition type; the Go     *)
(* slice is indexed by position 0, 1, 2 only after InitializeConditions    *)
(* has put the three types in that order.  A type that the slice does not  *)
(* hold is NoCondition.  A message always travels with its reason and is   *)
(* left out.  A reason is a pair <<prefix, reason>>, the two halves that   *)
(* the code joins with fmt.Sprintf("%s%s"); a reason that is set directly  *)
(* has the prefix "".                                                      *)
(***************************************************************************)
EXTENDS Naturals

CONSTANT Reasons   \* the reasons that this code and the projections give

ASSUME ReasonsAssumption ==
  {"", "Unknown", "Available", "Ready", "Projected"} \subseteq Reasons

CondTypes == {"Ready", "ServiceAvailable", "ProjectionReady"}

\* metav1.ConditionStatus; "" is the zero value.
CondStatuses == {"", "True", "False", "Unknown"}

Reason == (CondTypes \cup {""}) \X Reasons

Condition ==
  [status : CondStatuses, reason : Reason, lastTransitionTime : Nat]

NoCondition ==
  [status |-> "", reason |-> <<"", "">>, lastTransitionTime |-> 0]

ConditionSet == [CondTypes -> Condition]

NoConditions == [t \in CondTypes |-> NoCondition]

\* The Ready condition that a projection reports (apis.Condition): its zero
\* value stands both for a condition that is missing and for an empty one.
Report == [status : CondStatuses, reason : Reasons]
NoReport == [status |-> "", reason |-> ""]

-----------------------------------------------------------------------------
\* Mutant of Transition: every call is taken for a transition.
TransitionAlways(c, status, reason, now) ==
  [status |-> status, reason |-> reason, lastTransitionTime |-> now]

\* A condition set to status and reason: the time moves only with the status.
Transition(c, status, reason, now) ==
  [status |-> status,
   reason |-> reason,
   lastTransitionTime |-> IF c.status # status THEN now
                                               ELSE c.lastTransitionTime]

InitializeConditions(c, now) ==
  [t \in CondTypes |->
     IF c[t] # NoCondition
     THEN c[t]
     ELSE [status |-> "Unknown", reason |-> <<"", "Unknown">>,
           lastTransitionTime |-> now]]

\* Mutant of Blamed: the first condition that is not True.
BlamedFirst(c) ==
  IF c["ServiceAvailable"].status # "True"
  THEN "ServiceAvailable" ELSE "ProjectionReady"

\* The condition that Ready repeats when it is not True: one that is False
\* before one that is Unknown, ServiceAvailable before ProjectionReady.
Blamed(c) ==
  IF \/ c["ServiceAvailable"].status = "False"
     \/ /\ c["ProjectionReady"].status # "False"
        /\ c["ServiceAvailable"].status = "Unknown"
  THEN "ServiceAvailable"
  ELSE "ProjectionReady"

aggregateReadyCondition(c, now) ==
  LET ready == IF /\ c["ServiceAvailable"].status = "True"
                  /\ c["ProjectionReady"].status = "True"
               THEN [status |-> "True", reason |-> <<"", "Ready">>]
               ELSE [status |-> c[Blamed(c)].status,
                     reason |-> <<Blamed(c), c[Blamed(c)].reason[2]>>]
  IN  [c EXCEPT !["Ready"] = Transition(@, ready.status, ready.reason, now)]

MarkServiceAvailable(c, now) ==
  aggregateReadyCondition(
    [c EXCEPT !["ServiceAvailable"] =
       Transition(@, "True", <<"", "Available">>, now)], now)

MarkServiceUnavailable(c, reason, now) ==
  aggregateReadyCondition(
    [c EXCEPT !["ServiceAvailable"] =
       Transition(@, "False", <<"", reason>>, now)], now)

\* Mutant of ReportedStatus: no default for a condition without a status.
ReportedStatusRaw(r) == r.status

\* The status and the reason that a projection's report stands for.
ReportedStatus(r) == IF r.status = "" THEN "Unknown" ELSE r.status
ReportedReason(r) ==
  IF r.reason # "" THEN r.reason
  ELSE IF r.status = "True" THEN "Projected" ELSE "Unknown"

\* Mutant of PropagateServiceBindingProjectionStatus: Ready is left behind.
PropagateOnly(c, r, now) ==
  [c EXCEPT !["ProjectionReady"] =
     Transition(@, ReportedStatus(r), <<"", ReportedReason(r)>>, now)]

PropagateServiceBindingProjectionStatus(c, r, now) ==
  aggregateReadyCondition(
    [c EXCEPT !["ProjectionReady"] =
       Transition(@, ReportedStatus(r), <<"", ReportedReason(r)>>, now)], now)

-----------------------------------------------------------------------------
\* What Ready promises: True exactly when both others are, False as soon as
\* one of them is, Unknown otherwise.
ReadyStatus(c) ==
  LET parts == {c["ServiceAvailable"].status, c["ProjectionReady"].status}
  IN  IF parts = {"True"} THEN "True"
      ELSE IF "False" \in parts THEN "False" ELSE "Unknown"

\* Ready is the aggregate of the other two, or nothing has been set yet.
Aggregated(c) == c = NoConditions \/ c["Ready"].status = ReadyStatus(c)
=============================================================================
