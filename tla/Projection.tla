----------------------------- MODULE Projection -----------------------------
(***************************************************************************)
(* What a ServiceBindingProjection does to the pod template of a workload, *)
(* as pure operators: Do and Undo of                                       *)
(* pkg/apis/labsinternal/v1alpha1/servicebindingprojection_lifecycle.go.   *)
(*                                                                         *)
(* Names are natural numbers, their places in the order of the strings     *)
(* that the code sorts by.  A secret is the place of the volume name that  *)
(* the code hashes it to ("binding-" and the SHA-1 of the secret's name),  *)
(* so that the volume of secret s is named s.  A projection is known by    *)
(* the key of the annotation that its own name is hashed to.               *)
(***************************************************************************)
EXTENDS StableSort

CONSTANTS
  Keys,        \* annotationKey() of the projections
  Secrets,     \* secrets that projections bind, numbered as above
  Containers,  \* names of containers, init containers included
  Texts        \* values of spec.type and spec.provider

\* 0 stands for the empty name: of a secret that is not there.
NoSecret == 0
ASSUME SecretsAssumption == Secrets \subseteq Nat \ {NoSecret}
ASSUME TextsAssumption == "" \notin Texts

\* ServiceBindingRootEnv and the mount path that the code defaults it to.
RootEnv == 0
DefaultRoot == "/bindings"

\* STRING.  The provers do not know of a literal that it is in STRING.
String == STRING \cup {"", DefaultRoot}

\* The template annotations that hold a projection's type and provider, and
\* the references to them, metadata.annotations['<key>-type'].
Field == Keys \X {"type", "provider"}
NoField == <<"", "">>

\* A projected volume: the secret of its first source and the annotations of
\* the others.  A volume of the user's has NoSecret or a secret of his own.
Volume == [name : Nat, secret : Nat, fields : SUBSET Field]
Mount == [name : Nat, root : String, dir : String]

\* An environment variable: a value, a key of a secret or an annotation.
EnvVar ==
  [name : Nat, value : String, secret : Nat, key : String,
   field : Field \cup {NoField}]

Container == [name : Containers, env : Seq(EnvVar), mounts : Seq(Mount)]

\* duckv1.WithPod, init containers before the others.
WithPod ==
  [annotations : [Keys -> Secrets \cup {NoSecret}],
   template : [Field -> Texts \cup {""}],
   volumes : Seq(Volume),
   containers : Seq(Container)]

\* ServiceBindingProjectionSpec without the reference to the workload.
ProjectionSpec ==
  [name : String, secret : Secrets, type : Texts \cup {""},
   provider : Texts \cup {""}, containers : SUBSET Containers,
   env : Seq([name : Nat, key : String])]

-----------------------------------------------------------------------------
\* A loop that appends to a new list what is not in gone.
Without(s, gone) ==
  LET kept == {i \in DOMAIN s : s[i] \notin gone}
  IN  Arranged(s, kept, {ji \in kept \X kept : ji[1] < ji[2]})

\* Volumes, or mounts, of which those named in names are injected.
SortByName(s, names) == SortInjected(s, {x \in Range(s) : x.name \in names})

\* Mutant of isInjectedEnv: any secret's key is taken for an injected one.
isInjectedAny(e, secrets) == e.secret # NoSecret \/ e.field # NoField

\* The expression that field references are matched with knows no key: the
\* type and the provider of any projection look injected.
isInjectedEnv(e, secrets) == e.secret \in secrets \/ e.field # NoField

isTargetContainer(b, c) == b.containers = {} \/ c.name \in b.containers

\* The annotations that b's type and provider are kept in, where it has them.
TypeFields(k, b) ==
  {f \in {k} \X {"type", "provider"} : b[f[2]] # ""}

-----------------------------------------------------------------------------
\* Mutant of removeSecrets: only the secret that the spec names now.
removeCurrentSecret(k, b, ps) == {b.secret}

\* The secret that was injected last and the one to inject now.
removeSecrets(k, b, ps) == {ps.annotations[k], b.secret} \ {NoSecret}

undoContainer(c, secrets, volumes) ==
  [c EXCEPT !.mounts = Without(@, {m \in Range(@) : m.name \in volumes}),
            !.env = Without(@, {e \in Range(@) : isInjectedEnv(e, secrets)})]

\* Mutant of Undo: the template's annotations stay.
UndoKeepsTemplate(k, b, ps) ==
  LET secrets == removeSecrets(k, b, ps)
      removed == {i \in DOMAIN ps.volumes : ps.volumes[i].secret \in secrets}
      volumes == {ps.volumes[i].name : i \in removed}
  IN  [ps EXCEPT
         !.annotations[k] = NoSecret,
         !.volumes = Without(@, {v \in Range(@) : v.secret \in secrets}),
         !.containers = [i \in DOMAIN @ |->
                           undoContainer(@[i], secrets, volumes)]]

\* Mutant of Undo: containers that are no targets now keep their mounts.
UndoTargets(k, b, ps) ==
  LET secrets == removeSecrets(k, b, ps)
      removed == {i \in DOMAIN ps.volumes : ps.volumes[i].secret \in secrets}
      volumes == {ps.volumes[i].name : i \in removed}
  IN  [ps EXCEPT
         !.annotations[k] = NoSecret,
         !.template = [f \in Field |-> IF f[1] = k THEN "" ELSE @[f]],
         !.volumes = Without(@, {v \in Range(@) : v.secret \in secrets}),
         !.containers = [i \in DOMAIN @ |->
                           undoContainer(@[i], secrets,
                             IF isTargetContainer(b, @[i]) THEN volumes
                                                           ELSE {})]]

Undo(k, b, ps) ==
  LET secrets == removeSecrets(k, b, ps)
      removed == {i \in DOMAIN ps.volumes : ps.volumes[i].secret \in secrets}
      volumes == {ps.volumes[i].name : i \in removed}
  IN  [ps EXCEPT
         !.annotations[k] = NoSecret,
         !.template = [f \in Field |-> IF f[1] = k THEN "" ELSE @[f]],
         !.volumes = Without(@, {v \in Range(@) : v.secret \in secrets}),
         !.containers = [i \in DOMAIN @ |->
                           undoContainer(@[i], secrets, volumes)]]

-----------------------------------------------------------------------------
\* The secrets and the volumes that any projection has injected.
injectedSecrets(ps) == {ps.annotations[k] : k \in Keys} \ {NoSecret}
injectedVolumes(ps) ==
  LET injected == {i \in DOMAIN ps.volumes :
                     ps.volumes[i].secret \in injectedSecrets(ps)}
  IN  {ps.volumes[i].name : i \in injected}

\* The volume that b injects.
ProjectedVolume(k, b) ==
  [name |-> b.secret, secret |-> b.secret, fields |-> TypeFields(k, b)]

\* The variable that an entry of spec.env asks for.
ProjectedEnv(k, b, e) ==
  IF <<k, e.key>> \in TypeFields(k, b)
  THEN [name |-> e.name, value |-> "", secret |-> NoSecret, key |-> "",
        field |-> <<k, e.key>>]
  ELSE [name |-> e.name, value |-> "", secret |-> b.secret, key |-> e.key,
        field |-> NoField]

\* The value of the first SERVICE_BINDING_ROOT, or "".
MountPath(env) ==
  LET roots == Without(env, {e \in Range(env) : e.name # RootEnv})
  IN  IF roots = << >> THEN "" ELSE Head(roots).value

DefaultRootEnv ==
  [name |-> RootEnv, value |-> DefaultRoot, secret |-> NoSecret, key |-> "",
   field |-> NoField]

doContainer(k, b, c, volumes, secrets) ==
  LET given == MountPath(c.env)
      rooted == IF given = "" THEN Append(c.env, DefaultRootEnv) ELSE c.env
      mount == [name |-> b.secret, dir |-> b.name,
                root |-> IF given = "" THEN DefaultRoot ELSE given]
      all == rooted \o [i \in DOMAIN b.env |-> ProjectedEnv(k, b, b.env[i])]
  IN  [c EXCEPT
         !.mounts = SortByName(Append(@, mount), volumes),
         !.env = IF b.env = << >>
                 THEN rooted
                 ELSE SortInjected(all, {e \in Range(all) :
                                           isInjectedEnv(e, secrets)})]

\* Mutant of Do: it does not start clean.
DoAgain(k, b, ps) ==
  LET volumes == injectedVolumes(ps) \cup {b.secret}
      secrets == injectedSecrets(ps) \cup {b.secret}
  IN  [ps EXCEPT
         !.annotations[k] = b.secret,
         !.template = [f \in Field |->
                         IF f \in TypeFields(k, b) THEN b[f[2]] ELSE @[f]],
         !.volumes = SortByName(Append(@, ProjectedVolume(k, b)), volumes),
         !.containers = [i \in DOMAIN @ |->
                           IF isTargetContainer(b, @[i])
                           THEN doContainer(k, b, @[i], volumes, secrets)
                           ELSE @[i]]]

Do(k, b, ps) ==
  LET clean == Undo(k, b, ps)
      volumes == injectedVolumes(clean) \cup {b.secret}
      secrets == injectedSecrets(clean) \cup {b.secret}
  IN  [clean EXCEPT
         !.annotations[k] = b.secret,
         !.template = [f \in Field |->
                         IF f \in TypeFields(k, b) THEN b[f[2]] ELSE @[f]],
         !.volumes = SortByName(Append(@, ProjectedVolume(k, b)), volumes),
         !.containers = [i \in DOMAIN @ |->
                           IF isTargetContainer(b, @[i])
                           THEN doContainer(k, b, @[i], volumes, secrets)
                           ELSE @[i]]]
=============================================================================
