------------------------ MODULE MCWorkloadProjection ------------------------
(***************************************************************************)
(* Instances of WorkloadProjection for TLC: projections of a workload with *)
(* an init container and a container.                                      *)
(***************************************************************************)
EXTENDS WorkloadProjection

Value(name, value) ==
  [name |-> name, value |-> value, secret |-> NoSecret, key |-> "",
   field |-> NoField]

\* A volume and a variable of the owner's, from a secret that nobody binds.
OwnVolume(name) == [name |-> name, secret |-> 9, fields |-> {}]
OwnSecretKey(name) ==
  [name |-> name, value |-> "", secret |-> 9, key |-> "password",
   field |-> NoField]

\* A workload whose container "app" has the root env root.
Workload(root) ==
  [annotations |-> [k \in Keys |-> NoSecret],
   template |-> [f \in Field |-> ""],
   volumes |-> <<OwnVolume(7)>>,
   containers |->
     <<[name |-> "init", env |-> << >>, mounts |-> << >>],
       [name |-> "app", env |-> <<OwnSecretKey(5)>> \o root,
        mounts |-> <<[name |-> 7, root |-> "/data", dir |-> "own"]>>]>>]

MCManifest == Workload(<<Value(RootEnv, "/etc/bindings")>>)
MCManifestEmptyRoot == Workload(<<Value(RootEnv, "")>>)

MCExtras == {[volume |-> OwnVolume(8), env |-> OwnSecretKey(2)]}

\* Eighteen variables of the owner's, and two more that he adds and removes.
MCManifestLong ==
  [MCManifest EXCEPT !.containers[1].env =
     [i \in 1..18 |-> IF i = 1 THEN Value(RootEnv, "/etc/bindings")
                               ELSE Value(100 + i, "own")]]
MCExtrasLong ==
  {[volume |-> OwnVolume(8), env |-> Value(11, "own")],
   [volume |-> OwnVolume(9), env |-> Value(12, "own")]}

\* A spec of projection k; its variables are named around the owner's.
Projecting(k, s, targets, type, provider, env) ==
  [name |-> k, secret |-> s, type |-> type, provider |-> provider,
   containers |-> targets, env |-> env]

Password(name) == [name |-> name, key |-> "password"]
Type(name) == [name |-> name, key |-> "type"]

\* Secrets move from one projection to the other, the targets and the type
\* come and go, and each projects variables on either side of the other's.
MCSpecs ==
  [k1 |-> {Projecting("k1", 2, {}, "mysql", "", <<Password(3), Password(1)>>),
           Projecting("k1", 1, {"app"}, "", "", << >>)},
   k2 |-> {Projecting("k2", 1, {}, "", "mysql", <<Password(2)>>),
           Projecting("k2", 2, {"init"}, "mysql", "", <<Password(2)>>)},
   k3 |-> {Projecting("k3", 3, {}, "", "", <<Password(4)>>)}]

\* One of them asks for the type in a variable.
MCSpecsTyped ==
  [k1 |-> {Projecting("k1", 2, {}, "mysql", "", <<Type(3)>>)},
   k2 |-> {Projecting("k2", 1, {}, "", "", <<Password(2)>>)}]

\* One has a variable that belongs behind those of the other.
MCSpecsLong ==
  [k1 |-> {Projecting("k1", 1, {}, "", "", <<Password(5)>>)},
   k2 |-> {Projecting("k2", 2, {}, "", "", <<Password(1), Password(2)>>)}]
=============================================================================
