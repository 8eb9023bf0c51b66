------------------- MODULE MCProvisionedServiceController -------------------
(***************************************************************************)
(* Instances of ProvisionedServiceController for TLC.                      *)
(***************************************************************************)
EXTENDS ProvisionedServiceController, TLC

\* The replicas are interchangeable, and so are the secrets.
Symmetry == Permutations(Replicas) \cup Permutations(Secrets)
=============================================================================
