---------------------------- MODULE MCConditions ----------------------------
(***************************************************************************)
(* The condition setters called in any order, each at the time the clock   *)
(* shows, on a status that starts empty.                                   *)
(***************************************************************************)
EXTENDS Conditions

CONSTANTS MaxTime,   \* bound on the clock
          Reports    \* what a projection may report

ASSUME MaxTimeAssumption == MaxTime \in Nat \ {0}
ASSUME ReportsAssumption == Reports \subseteq Report
ASSUME MissingAssumption == "Missing" \in Reasons

MCReasons ==
  {"", "Unknown", "Available", "Ready", "Projected", "Missing",
   "WorkloadMissing", "BindingFailed"}

MCReports ==
  {NoReport,
   [status |-> "True", reason |-> ""],
   [status |-> "False", reason |-> "WorkloadMissing"],
   [status |-> "Unknown", reason |-> "BindingFailed"]}

VARIABLES conditions, clock
vars == <<conditions, clock>>

Init == conditions = NoConditions /\ clock = 1

\* ReconcileKind calls the setters only on initialised conditions.
Initialized == conditions # NoConditions

Initialize ==
  /\ conditions' = InitializeConditions(conditions, clock)
  /\ UNCHANGED clock

Available ==
  /\ Initialized
  /\ conditions' = MarkServiceAvailable(conditions, clock)
  /\ UNCHANGED clock

Unavailable ==
  /\ Initialized
  /\ conditions' = MarkServiceUnavailable(conditions, "Missing", clock)
  /\ UNCHANGED clock

Propagate ==
  /\ Initialized
  /\ \E r \in Reports :
       conditions' =
         PropagateServiceBindingProjectionStatus(conditions, r, clock)
  /\ UNCHANGED clock

Tick == clock < MaxTime /\ clock' = clock + 1 /\ UNCHANGED conditions

Next == Initialize \/ Available \/ Unavailable \/ Propagate \/ Tick
Spec == Init /\ [][Next]_vars

-----------------------------------------------------------------------------
\* The conditions are all unset or all set, to a status that metav1 knows.
TypeOK ==
  /\ conditions \in ConditionSet
  /\ Initialized => \A t \in CondTypes : conditions[t].status # ""
  /\ clock \in 1..MaxTime

\* A Ready condition that is not True repeats the status and the reason of a
\* condition that is at fault, and one that is False is never blamed on a
\* condition that is merely Unknown (aggregateReadyCondition).
ReadyExplains ==
  LET ready == conditions["Ready"]
      culprit == ready.reason[1]
  IN  (Initialized /\ ready.reason[1] # "") =>
        /\ ready.status = conditions[culprit].status
        /\ ready.reason[2] = conditions[culprit].reason[2]
        /\ ready.status # "True"
        /\ ready.status = ReadyStatus(conditions)

\* A call moves the time of a condition exactly when it changes its status,
\* and then to the time of the call ("update time when the status changes").
TimeFollowsStatus ==
  [][\A t \in CondTypes :
       conditions'[t].lastTransitionTime =
         IF conditions'[t].status # conditions[t].status
         THEN clock ELSE conditions[t].lastTransitionTime]_vars
=============================================================================
