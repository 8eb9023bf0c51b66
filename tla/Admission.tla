----------------------------- MODULE Admission ------------------------------
(***************************************************************************)
(* What may be stored: a request for a ServiceBinding, a ServiceBinding-   *)
(* Projection or a ProvisionedService goes through the CRD's schema and,   *)
(* once the manager has programmed them (cmd/manager), through the         *)
(* defaulting and the validation webhook, which call SetDefaults and       *)
(* Validate of the type that ourTypes registers for the request's kind.    *)
(*                                                                         *)
(* A string is its value where one is compared with another and otherwise  *)
(* whether it is there.  The API server is external.                       *)
(***************************************************************************)
EXTENDS Integers, Sequences, FiniteSets

CONSTANTS
  Bindings,     \* specs of ServiceBindings that users send
  Projections,  \* specs of ServiceBindingProjections that users send
  Services,     \* specs of ProvisionedServices that users send
  Name,         \* the name of the ServiceBinding
  Nil,          \* an absent pointer
  MaxRequests   \* bound: requests by users

ASSUME NamesAssumption ==
  Name \in STRING /\ Name # "" /\ MaxRequests \in Nat

\* A reference to a workload or a service: are apiVersion and kind well-formed,
\* and are there a name, a selector, a namespace?
ObjectReference ==
  [typed : BOOLEAN, name : BOOLEAN, selector : BOOLEAN, namespace : BOOLEAN]

EnvVar == [name : STRING, key : STRING]

ServiceBindingSpec ==
  [name : STRING, workload : ObjectReference \cup {Nil},
   service : ObjectReference \cup {Nil}, env : Seq(EnvVar)]

\* With the annotations of the status, which Validate looks at as well.
ServiceBindingProjectionSpec ==
  [name : STRING, binding : BOOLEAN, workload : ObjectReference,
   env : Seq(EnvVar), annotations : BOOLEAN]

ProvisionedServiceSpec == [binding : BOOLEAN]

ASSUME SpecsAssumption ==
  /\ Bindings \subseteq ServiceBindingSpec
  /\ Projections \subseteq ServiceBindingProjectionSpec
  /\ Services \subseteq ProvisionedServiceSpec
  /\ Nil \notin ObjectReference
  /\ Nil \notin ServiceBindingSpec
  /\ Nil \notin ServiceBindingProjectionSpec
  /\ Nil \notin ProvisionedServiceSpec

VARIABLES
  programmed,  \* do the webhook configurations have their rules yet?
  stored,      \* [Kinds -> the stored spec, or Nil]
  checked,     \* kinds whose stored spec came in after they were programmed
  answer,      \* the answer to the last request
  requests     \* requests by users so far

vars == <<programmed, stored, checked, answer, requests>>

Kinds == {"ServiceBinding", "ServiceBindingProjection", "ProvisionedService"}

Specs == [ServiceBinding |-> Bindings, ServiceBindingProjection |-> Projections,
          ProvisionedService |-> Services]

-----------------------------------------------------------------------------
\* The API groups, and the kinds that the manager registers (ourTypes).

GroupOf ==
  [ServiceBinding |-> "servicebinding",
   ServiceBindingProjection |-> "labsinternal",
   ProvisionedService |-> "labs"]

ourTypes ==
  {<<"labs", "ProvisionedService">>,
   <<"servicebinding", "ServiceBinding">>,
   <<"servicebinding", "ServiceBindingProjection">>}

\* Is the webhook called for a request about this kind?
Called(kind) == programmed /\ <<GroupOf[kind], kind>> \in ourTypes

-----------------------------------------------------------------------------
\* Validate returns a set of errors, or does not return.

Panic == {<<"panic">>}
When(condition, error) == IF condition THEN {error} ELSE {}

\* tracker.Reference.Validate, with some namespace: well-formed apiVersion and
\* kind, and either a name or a selector.
ReferenceValidate(ref, path) ==
  When(~ref.typed, <<"invalid", path, "apiVersion, kind">>)
    \cup When(ref.name /\ ref.selector, <<"multiple", path, "selector, name">>)
    \cup When(~ref.name /\ ~ref.selector, <<"missing", path, "selector, name">>)

EnvVarValidate(e, i) ==
  When(e.name = "", <<"missing", "spec.env.name", i>>)
    \cup When(e.key = "", <<"missing", "spec.env.key", i>>)

\* envSet: the positions of a name in env, counted from 0.
Positions(env, name) == {i - 1 : i \in {j \in DOMAIN env : env[j].name = name}}

Conflicting(env) ==
  {name \in {env[i].name : i \in DOMAIN env} :
     Cardinality(Positions(env, name)) # 1}

\* paths has one entry per conflicting position, but is indexed by the
\* position itself: an index that is out of range panics.
OutOfRange(env) ==
  \E name \in Conflicting(env) : \E i \in Positions(env, name) :
    i >= Cardinality(Positions(env, name))

\* Mutant of ValidateEnv: conflicting names are not looked for.
ValidateEnvEach(env) == UNION {EnvVarValidate(env[i], i - 1) : i \in DOMAIN env}

\* Each variable is validated; conflicting names are reported with paths that
\* count the conflicts.
ValidateEnv(env) ==
  IF OutOfRange(env)
  THEN Panic
  ELSE (UNION {EnvVarValidate(env[i], i - 1) : i \in DOMAIN env})
         \cup {<<"multiple", "spec.env.name",
                 0..(Cardinality(Positions(env, name)) - 1)>> :
                 name \in Conflicting(env)}

\* ServiceBinding.Validate.
ValidateBinding(b) ==
  (IF b.workload = Nil
   THEN {<<"missing", "spec.workload">>}
   ELSE ReferenceValidate(b.workload, "spec.workload")
          \cup When(b.workload.namespace, <<"disallowed", "spec.workload.namespace">>))
  \cup
  (IF b.service = Nil
   THEN {<<"missing", "spec.service">>}
   ELSE ReferenceValidate(b.service, "spec.service")
          \cup When(b.service.namespace, <<"disallowed", "spec.service.namespace">>)
          \cup When(~b.service.name, <<"missing", "spec.service.name">>))
  \cup ValidateEnv(b.env)

\* ServiceBindingProjection.Validate.
ValidateProjection(p) ==
  When(p.name = "", <<"missing", "spec.name">>)
    \cup When(~p.binding, <<"missing", "spec.binding">>)
    \cup ReferenceValidate(p.workload, "spec.workload")
    \cup When(p.workload.namespace, <<"disallowed", "spec.workload.namespace">>)
    \cup ValidateEnv(p.env)
    \cup When(p.annotations, <<"disallowed", "status.annotations">>)

\* ProvisionedService.Validate.
ValidateService(s) == When(~s.binding, <<"missing", "spec.binding.name">>)

Validate(kind, spec) ==
  CASE kind = "ServiceBinding" -> ValidateBinding(spec)
    [] kind = "ServiceBindingProjection" -> ValidateProjection(spec)
    [] kind = "ProvisionedService" -> ValidateService(spec)

\* Mutant of SetDefaults: the kind is taken for the name.
SetDefaultsToKind(kind, spec, name) ==
  IF kind = "ServiceBinding" /\ spec.name = ""
  THEN [spec EXCEPT !.name = kind]
  ELSE spec

\* ServiceBinding.SetDefaults, the only one that does something, on an object
\* whose metadata.name is name.
SetDefaults(kind, spec, name) ==
  IF kind = "ServiceBinding" /\ spec.name = ""
  THEN [spec EXCEPT !.name = name]
  ELSE spec

-----------------------------------------------------------------------------
\* The CRDs: fields that the schema does not know are dropped, and what the
\* schema requires must be there.  It does not require spec itself, which
\* without its fields decodes to absent and empty ones.

Known(kind, spec) ==
  IF kind = "ServiceBinding" /\ spec.service # Nil /\ spec.workload # Nil
  THEN [spec EXCEPT !.service.namespace = FALSE, !.service.selector = FALSE,
                    !.workload.namespace = FALSE]
  ELSE IF kind = "ServiceBindingProjection"
  THEN [spec EXCEPT !.workload.namespace = FALSE, !.annotations = FALSE]
  ELSE spec

NoSpec ==
  [name |-> "", workload |-> Nil, service |-> Nil, env |-> << >>]

Required(kind, spec) ==
  kind = "ServiceBinding" /\ spec # NoSpec
    => spec.service # Nil /\ spec.workload # Nil

-----------------------------------------------------------------------------
NoAnswer == [kind |-> Nil, spec |-> Nil, called |-> FALSE, admitted |-> FALSE]

\* Every variable has its type; a stored binding goes by the name that its
\* user gave it, or by that of its object, or by none.
TypeOK ==
  /\ programmed \in BOOLEAN
  /\ DOMAIN stored = Kinds
  /\ stored["ServiceBinding"] # Nil =>
       stored["ServiceBinding"].name \in {"", Name} \cup {b.name : b \in Bindings}
  /\ checked \subseteq {kind \in Kinds : stored[kind] # Nil}
  /\ answer.admitted => stored[answer.kind] # Nil
  /\ requests \in 0..MaxRequests

Init ==
  /\ programmed = FALSE
  /\ stored = [kind \in Kinds |-> Nil]
  /\ checked = {}
  /\ answer = NoAnswer
  /\ requests = 0

\* The manager's admission controllers put the rules of ourTypes into the
\* webhook configurations.
ProgramWebhooks ==
  /\ ~programmed
  /\ programmed' = TRUE
  /\ UNCHANGED <<stored, checked, answer, requests>>

\* A request to store spec in an object that goes by name at that time: the
\* unknown fields are dropped, defaults set, the schema and the webhook
\* consulted.  A webhook that panics does not answer, which fails the request
\* as well (failurePolicy: Fail).
Request(kind, spec, name) ==
  LET known == Known(kind, spec)
      full == IF Called(kind) THEN SetDefaults(kind, known, name) ELSE known
      admitted == /\ Required(kind, full)
                  /\ Called(kind) => Validate(kind, full) = {}
  IN  /\ answer' = [kind |-> kind, spec |-> full, called |-> Called(kind),
                    admitted |-> admitted]
      /\ stored' = IF admitted THEN [stored EXCEPT ![kind] = full] ELSE stored
      /\ checked' = CASE ~admitted -> checked
                      [] admitted /\ programmed -> checked \cup {kind}
                      [] admitted /\ ~programmed -> checked \ {kind}
      /\ UNCHANGED programmed

\* A user creates an object, leaving its name to the API server or not, or
\* updates one.  A name that is left to the API server is not known yet when
\* the webhooks are called.
UserRequests ==
  \E kind \in Kinds : \E spec \in Specs[kind] :
    /\ requests < MaxRequests
    /\ requests' = requests + 1
    /\ \/ Request(kind, spec, Name)
       \/ stored[kind] = Nil /\ Request(kind, spec, "")

\* Mutant of MakeServiceBindingProjection: the secret is left out.
MakeWithoutBinding(b) ==
  [name |-> b.name, binding |-> FALSE, workload |-> b.workload, env |-> b.env,
   annotations |-> FALSE]

\* The spec of the projection that the controller makes of a binding whose
\* service has a secret.
MakeServiceBindingProjection(b) ==
  [name |-> b.name, binding |-> TRUE, workload |-> b.workload, env |-> b.env,
   annotations |-> FALSE]

\* The controller creates or updates the projection of the stored binding.
ControllerRequests ==
  /\ stored["ServiceBinding"] # Nil
  /\ stored["ServiceBinding"].service # Nil
  /\ stored["ServiceBinding"].workload # Nil
  /\ Request("ServiceBindingProjection",
             MakeServiceBindingProjection(stored["ServiceBinding"]), Name)
  /\ UNCHANGED requests

Next == ProgramWebhooks \/ UserRequests \/ ControllerRequests

Spec == Init /\ [][Next]_vars

-----------------------------------------------------------------------------
\* A reference names exactly one kind of target.
SoundReference(ref) == ref.typed /\ (ref.name # ref.selector)

\* No two variables of env share a name, and none lacks a name or a key.
SoundEnv(env) ==
  /\ \A i \in DOMAIN env : env[i].name # "" /\ env[i].key # ""
  /\ \A i, j \in DOMAIN env : env[i].name = env[j].name => i = j

\* What the types' Validate is there to establish.
Sound(kind, spec) ==
  CASE kind = "ServiceBinding" ->
         /\ spec.workload # Nil /\ spec.service # Nil
         /\ SoundReference(spec.workload)
         /\ spec.service.typed /\ spec.service.name
         /\ SoundEnv(spec.env)
    [] kind = "ServiceBindingProjection" ->
         /\ spec.name # "" /\ spec.binding
         /\ SoundReference(spec.workload)
         /\ SoundEnv(spec.env)
    [] kind = "ProvisionedService" -> spec.binding

\* The webhooks let through exactly the sound specs, also where Validate
\* panics: nothing sound is refused, and nothing unsound is stored once they
\* are programmed (ServiceBinding.Validate, ProvisionedService.Validate).
AdmitsExactlySound ==
  answer.called => (answer.admitted <=> Sound(answer.kind, answer.spec))

\* The manager's reconciler can rely on it: a binding stored since the
\* webhooks were programmed has a service and a workload, which
\* provisionedSecret and MakeServiceBindingProjection dereference, and the
\* projection made of it would pass ServiceBindingProjection.Validate, which
\* no webhook calls (ourTypes), provided that the binding has a name.
MadeProjectionsAreValid ==
  LET b == stored["ServiceBinding"]
  IN  "ServiceBinding" \in checked =>
        /\ b.service # Nil /\ b.workload # Nil
        /\ b.name # "" => ValidateProjection(MakeServiceBindingProjection(b)) = {}

\* Conflicting names are reported with the paths of the variables at fault,
\* as the test "duplicate env" expects for the first two of them.
ConflictsAreReported ==
  answer.called /\ answer.kind = "ServiceBinding" =>
    \A name \in Conflicting(answer.spec.env) :
      <<"multiple", "spec.env.name", Positions(answer.spec.env, name)>>
        \in ValidateBinding(answer.spec)
=============================================================================
