---------------------------- MODULE MCAdmission -----------------------------
(***************************************************************************)
(* Instances of Admission for TLC: every field right and wrong, alone and  *)
(* together, and up to MaxEnv variables whose names conflict or not.       *)
(***************************************************************************)
EXTENDS Admission

CONSTANTS
  Targets,  \* references, by the name of the form
  MaxEnv    \* bound: the longest list of variables

\* The forms of a reference to a workload or a service.
Reference(form) ==
  [typed |-> form # "untyped",
   name |-> form \in {"named", "untyped", "foreign", "both"},
   selector |-> form \in {"selected", "both"},
   namespace |-> form = "foreign"]

References == {Reference(form) : form \in Targets}

Vars ==
  {[name |-> "A", key |-> "k"], [name |-> "B", key |-> "k"],
   [name |-> "", key |-> "k"]}

\* All lists of variables up to MaxEnv, and one variable without a key.
Envs ==
  UNION {[1..n -> Vars] : n \in 0..MaxEnv} \cup {<<[name |-> "A", key |-> ""]>>}

\* The references with short lists, and the long lists with a right reference.
MCBindings ==
  {NoSpec} \cup
  [name : {"", "given"}, workload : References \cup {Nil},
   service : References \cup {Nil}, env : {e \in Envs : Len(e) < 2}] \cup
  [name : {""}, workload : {Reference("named")},
   service : {Reference("named")}, env : Envs]

MCProjections ==
  [name : {"", "given"}, binding : BOOLEAN, workload : References,
   env : {e \in Envs : Len(e) < 2}, annotations : {FALSE}]

MCServices == [binding : BOOLEAN]
=============================================================================
