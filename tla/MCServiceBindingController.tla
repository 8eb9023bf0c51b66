-------------------- MODULE MCServiceBindingController ----------------------
(***************************************************************************)
(* Instances of ServiceBindingController for TLC.                          *)
(***************************************************************************)
EXTENDS ServiceBindingController, TLC

MCReasons ==
  {"", "Unknown", "Available", "Ready", "Projected", "WorkloadMissing"}

\* A projection that is ready, without a reason, and one that is not.
MCReports ==
  {[status |-> "True", reason |-> ""],
   [status |-> "False", reason |-> "WorkloadMissing"]}

\* At the start all services have published a secret.
AllDeployed == [s \in Services |-> CHOOSE x \in Secrets : TRUE]

\* Keys are interchangeable: no definition tells one from another.
Symmetry == Permutations(Names)
=============================================================================
