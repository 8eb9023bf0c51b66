--------------------------- MODULE AdmissionProofs --------------------------
(***************************************************************************)
(* What the webhooks let through and what the reconciler may rely on, for  *)
(* every spec that a user may send, lists of variables of any length and   *)
(* any number of requests.                                                 *)
(***************************************************************************)
EXTENDS Admission, FiniteSetTheorems, TLAPS

SpecType(kind) ==
  CASE kind = "ServiceBinding" -> ServiceBindingSpec
    [] kind = "ServiceBindingProjection" -> ServiceBindingProjectionSpec
    [] kind = "ProvisionedService" -> ProvisionedServiceSpec

\* What the schema of ServiceBindings does not know has been dropped.
Pruned(b) ==
  b.service # Nil /\ b.workload # Nil =>
    ~b.service.namespace /\ ~b.service.selector /\ ~b.workload.namespace

-----------------------------------------------------------------------------
\* The errors of Validate, one by one.

\* When reports an error exactly if its condition holds.
LEMMA WhenEmpty ==
  ASSUME NEW condition \in BOOLEAN, NEW error
  PROVE  When(condition, error) = {} <=> ~condition
BY DEF When

\* A reference passes exactly if it is well-formed and names its target in
\* one way (tracker.Reference.Validate).
LEMMA ReferenceExact ==
  ASSUME NEW ref \in ObjectReference, NEW path
  PROVE  ReferenceValidate(ref, path) = {} <=> SoundReference(ref)
<1>. DEFINE typed == ref.typed
            name == ref.name
            selector == ref.selector
<1>1. typed \in BOOLEAN /\ name \in BOOLEAN /\ selector \in BOOLEAN
  BY DEF ObjectReference
<1>2. SoundReference(ref) <=> typed /\ (name # selector)
  BY DEF SoundReference
<1>3. ReferenceValidate(ref, path) =
        When(~typed, <<"invalid", path, "apiVersion, kind">>)
          \cup When(name /\ selector, <<"multiple", path, "selector, name">>)
          \cup When(~name /\ ~selector, <<"missing", path, "selector, name">>)
  BY Zenon DEF ReferenceValidate
<1>. HIDE DEF typed, name, selector
<1>4. /\ When(~typed, <<"invalid", path, "apiVersion, kind">>) = {} <=> typed
      /\ When(name /\ selector, <<"multiple", path, "selector, name">>) = {}
           <=> ~(name /\ selector)
      /\ When(~name /\ ~selector, <<"missing", path, "selector, name">>) = {}
           <=> ~(~name /\ ~selector)
  BY <1>1, WhenEmpty
<1>5. ReferenceValidate(ref, path) = {} <=>
        typed /\ ~(name /\ selector) /\ ~(~name /\ ~selector)
  BY <1>3, <1>4
<1>6. name # selector <=> ~(name /\ selector) /\ ~(~name /\ ~selector)
  BY <1>1, Zenon
<1>. QED
  BY <1>2, <1>5, <1>6, Zenon

-----------------------------------------------------------------------------
\* The variables.

\* The variables of a name stand at finitely many positions.
LEMMA PositionsFinite ==
  ASSUME NEW env \in Seq(EnvVar), NEW name
  PROVE  IsFiniteSet(Positions(env, name))
<1>1. Len(env) \in Nat /\ DOMAIN env = 1..Len(env)
  OBVIOUS
<1>2. Positions(env, name) \in SUBSET Nat
  BY <1>1 DEF Positions
<1>3. \A i \in Positions(env, name) : i <= Len(env)
  BY <1>1 DEF Positions
<1>. QED
  BY <1>1, <1>2, <1>3, FS_BoundedSetOfNaturals

\* A name conflicts exactly if two variables have it.
LEMMA ConflictingExact ==
  ASSUME NEW env \in Seq(EnvVar)
  PROVE  Conflicting(env) = {} <=>
           \A i, j \in DOMAIN env : env[i].name = env[j].name => i = j
<1>1. DOMAIN env \subseteq Int
  OBVIOUS
<1>2. ASSUME Conflicting(env) = {},
             NEW i \in DOMAIN env, NEW j \in DOMAIN env,
             env[i].name = env[j].name
      PROVE  i = j
  <2>. DEFINE name == env[i].name
  <2>1. Cardinality(Positions(env, name)) = 1
    BY <1>2 DEF Conflicting
  <2>2. PICK x : Positions(env, name) = {x}
    BY <2>1, PositionsFinite, FS_Singleton
  <2>3. i - 1 \in Positions(env, name) /\ j - 1 \in Positions(env, name)
    BY <1>2 DEF Positions
  <2>4. i - 1 = j - 1
    BY <2>2, <2>3
  <2>. QED
    BY <1>1, <2>4
<1>3. ASSUME \A i, j \in DOMAIN env : env[i].name = env[j].name => i = j,
             NEW i \in DOMAIN env
      PROVE  Cardinality(Positions(env, env[i].name)) = 1
  <2>1. {j \in DOMAIN env : env[j].name = env[i].name} = {i}
    BY <1>3
  <2>2. Positions(env, env[i].name) = {i - 1}
    BY <2>1, Zenon DEF Positions
  <2>. QED
    BY <2>2, FS_Singleton
<1>4. ASSUME \A i, j \in DOMAIN env : env[i].name = env[j].name => i = j
      PROVE  Conflicting(env) = {}
  BY <1>3, <1>4 DEF Conflicting
<1>. QED
  BY <1>2, <1>4

\* The errors of the variables are exactly for the ones without a name or a
\* key and for names that conflict; the panic on an index out of range, which
\* takes a conflict, refuses nothing that should pass.
LEMMA EnvExact ==
  ASSUME NEW env \in Seq(EnvVar)
  PROVE  ValidateEnv(env) = {} <=> SoundEnv(env)
<1>. DEFINE each == UNION {EnvVarValidate(env[i], i - 1) : i \in DOMAIN env}
            many == {<<"multiple", "spec.env.name",
                       0..(Cardinality(Positions(env, name)) - 1)>> :
                       name \in Conflicting(env)}
            Whole == \A i \in DOMAIN env : env[i].name # "" /\ env[i].key # ""
<1>1. each = {} <=> Whole
  <2>1. \A i \in DOMAIN env :
          EnvVarValidate(env[i], i - 1) = {}
            <=> env[i].name # "" /\ env[i].key # ""
    BY DEF EnvVarValidate, When
  <2>2. each = {} <=> \A i \in DOMAIN env : EnvVarValidate(env[i], i - 1) = {}
    OBVIOUS
  <2>. QED
    BY <2>1, <2>2, Zenon
<1>2. many = {} <=> Conflicting(env) = {}
  OBVIOUS
<1>3. OutOfRange(env) => Conflicting(env) # {}
  BY DEF OutOfRange
<1>4. Panic # {}
  BY DEF Panic
<1>5. ValidateEnv(env) = IF OutOfRange(env) THEN Panic ELSE each \cup many
  BY Zenon DEF ValidateEnv
<1>6. SoundEnv(env) <=> Whole /\ Conflicting(env) = {}
  BY ConflictingExact DEF SoundEnv
<1>. HIDE DEF each, many, Whole
<1>. QED
  BY <1>1, <1>2, <1>3, <1>4, <1>5, <1>6

-----------------------------------------------------------------------------
\* The types' Validate.

\* ServiceBinding.Validate lets through exactly the sound bindings, of those
\* that have gone through the schema.
LEMMA BindingExact ==
  ASSUME NEW b \in ServiceBindingSpec, Pruned(b)
  PROVE  ValidateBinding(b) = {} <=> Sound("ServiceBinding", b)
<1>. DEFINE w == b.workload
            s == b.service
<1>1. w \in ObjectReference \cup {Nil} /\ s \in ObjectReference \cup {Nil}
      /\ b.env \in Seq(EnvVar)
  BY DEF ServiceBindingSpec
<1>2. Sound("ServiceBinding", b) <=>
        /\ w # Nil /\ s # Nil
        /\ SoundReference(w) /\ s.typed /\ s.name
        /\ SoundEnv(b.env)
  BY DEF Sound
<1>3. CASE w = Nil \/ s = Nil
  BY <1>2, <1>3 DEF ValidateBinding
<1>4. CASE w # Nil /\ s # Nil
  <2>1. w \in ObjectReference /\ s \in ObjectReference
    BY <1>1, <1>4
  <2>2. /\ s.namespace \in BOOLEAN /\ s.selector \in BOOLEAN
        /\ s.name \in BOOLEAN /\ s.typed \in BOOLEAN
        /\ w.namespace \in BOOLEAN
    BY <2>1 DEF ObjectReference
  <2>3. ~s.namespace /\ ~s.selector /\ ~w.namespace
    BY <1>4 DEF Pruned
  <2>. DEFINE wn == When(w.namespace, <<"disallowed", "spec.workload.namespace">>)
              sn == When(s.namespace, <<"disallowed", "spec.service.namespace">>)
              sm == When(~s.name, <<"missing", "spec.service.name">>)
              wr == ReferenceValidate(w, "spec.workload")
              sr == ReferenceValidate(s, "spec.service")
              es == ValidateEnv(b.env)
  <2>4. wn = {} /\ sn = {} /\ (sm = {} <=> s.name)
    BY <2>2, <2>3, WhenEmpty
  <2>5. (wr = {} <=> SoundReference(w)) /\ (sr = {} <=> SoundReference(s))
    BY <2>1, ReferenceExact
  <2>6. SoundReference(s) <=> s.typed /\ s.name
    <3>1. s.selector = FALSE
      BY <2>2, <2>3, Zenon
    <3>2. s.name # FALSE <=> s.name
      BY <2>2, Zenon
    <3>. QED
      BY <3>1, <3>2, Zenon DEF SoundReference
  <2>7. es = {} <=> SoundEnv(b.env)
    BY <1>1, EnvExact
  <2>8. ValidateBinding(b) = (wr \cup wn) \cup (sr \cup sn \cup sm) \cup es
    BY <1>4, Zenon DEF ValidateBinding
  <2>. HIDE DEF wn, sn, sm, wr, sr, es
  <2>9. ValidateBinding(b) = {} <=>
          wr = {} /\ wn = {} /\ sr = {} /\ sn = {} /\ sm = {} /\ es = {}
    BY <2>8
  <2>. QED
    BY <1>2, <1>4, <2>4, <2>5, <2>6, <2>7, <2>9, Zenon
<1>. QED
  BY <1>3, <1>4

\* ProvisionedService.Validate lets through exactly the sound services.
LEMMA ServiceExact ==
  ASSUME NEW s \in ProvisionedServiceSpec
  PROVE  ValidateService(s) = {} <=> Sound("ProvisionedService", s)
<1>1. s.binding \in BOOLEAN
  BY DEF ProvisionedServiceSpec
<1>2. Sound("ProvisionedService", s) <=> s.binding
  BY DEF Sound
<1>3. ValidateService(s) = {} <=> s.binding
  BY <1>1, WhenEmpty DEF ValidateService
<1>. QED
  BY <1>2, <1>3, Zenon

\* The projection made of a binding that passes, and has a name, passes too.
LEMMA MadeValid ==
  ASSUME NEW b \in ServiceBindingSpec, ValidateBinding(b) = {}
  PROVE  /\ b.service # Nil /\ b.workload # Nil
         /\ b.name # "" =>
              ValidateProjection(MakeServiceBindingProjection(b)) = {}
<1>. DEFINE w == b.workload
            s == b.service
            p == MakeServiceBindingProjection(b)
<1>1. w # Nil /\ s # Nil
  BY DEF ValidateBinding
<1>2. /\ ReferenceValidate(w, "spec.workload") = {}
      /\ When(w.namespace, <<"disallowed", "spec.workload.namespace">>) = {}
      /\ ValidateEnv(b.env) = {}
  BY <1>1 DEF ValidateBinding
<1>3. ASSUME b.name # ""
      PROVE  ValidateProjection(p) = {}
  <2>1. /\ p.name = b.name /\ p.workload = w /\ p.env = b.env
        /\ p.binding = TRUE /\ p.annotations = FALSE
    BY DEF MakeServiceBindingProjection
  <2>2. When(p.name = "", <<"missing", "spec.name">>) = {}
    BY <1>3, <2>1 DEF When
  <2>3. When(~p.binding, <<"missing", "spec.binding">>) = {}
    BY <2>1 DEF When
  <2>4. When(p.annotations, <<"disallowed", "status.annotations">>) = {}
    BY <2>1 DEF When
  <2>5. ReferenceValidate(p.workload, "spec.workload") = {}
    BY <1>2, <2>1
  <2>6. When(p.workload.namespace, <<"disallowed", "spec.workload.namespace">>) = {}
    BY <1>2, <2>1
  <2>7. ValidateEnv(p.env) = {}
    BY <1>2, <2>1
  <2>. HIDE DEF p
  <2>. QED
    BY <2>2, <2>3, <2>4, <2>5, <2>6, <2>7 DEF ValidateProjection
<1>. QED
  BY <1>1, <1>3

-----------------------------------------------------------------------------
\* Requests.

\* The schema keeps the type of a spec, drops what it does not know, and
\* keeps the name of a binding.
LEMMA KnownType ==
  ASSUME NEW kind \in Kinds, NEW spec \in SpecType(kind)
  PROVE  /\ Known(kind, spec) \in SpecType(kind)
         /\ kind = "ServiceBinding" =>
              /\ Pruned(Known(kind, spec))
              /\ Known(kind, spec).name = spec.name
<1>1. CASE kind = "ServiceBinding"
  <2>1. spec \in ServiceBindingSpec /\ SpecType(kind) = ServiceBindingSpec
    BY <1>1 DEF SpecType
  <2>2. CASE spec.service # Nil /\ spec.workload # Nil
    <3>. DEFINE s == spec.service
                w == spec.workload
                s2 == [[s EXCEPT !.namespace = FALSE] EXCEPT !.selector = FALSE]
                w2 == [w EXCEPT !.namespace = FALSE]
                k == [[spec EXCEPT !.service = s2] EXCEPT !.workload = w2]
    <3>1. s \in ObjectReference /\ w \in ObjectReference
      BY <2>1, <2>2 DEF ServiceBindingSpec
    <3>2. s2 \in ObjectReference /\ w2 \in ObjectReference
      BY <3>1 DEF ObjectReference
    <3>3. s2.namespace = FALSE /\ s2.selector = FALSE /\ w2.namespace = FALSE
      BY <3>1 DEF ObjectReference
    <3>4. Known(kind, spec) = k
      BY <1>1, <2>1, <2>2 DEF Known, ServiceBindingSpec
    <3>. HIDE DEF s, w, s2, w2
    <3>5. /\ k \in ServiceBindingSpec /\ k.service = s2 /\ k.workload = w2
          /\ k.name = spec.name
      BY <2>1, <3>2 DEF ServiceBindingSpec
    <3>. HIDE DEF k
    <3>6. Pruned(k)
      BY <3>3, <3>5 DEF Pruned
    <3>. QED
      BY <2>1, <3>4, <3>5, <3>6
  <2>3. CASE ~(spec.service # Nil /\ spec.workload # Nil)
    BY <1>1, <2>1, <2>3 DEF Known, Pruned
  <2>. QED
    BY <2>2, <2>3
<1>2. CASE kind = "ServiceBindingProjection"
  <2>. DEFINE w2 == [spec.workload EXCEPT !.namespace = FALSE]
              k == [[spec EXCEPT !.workload = w2] EXCEPT !.annotations = FALSE]
  <2>1. spec \in ServiceBindingProjectionSpec
        /\ SpecType(kind) = ServiceBindingProjectionSpec
    BY <1>2 DEF SpecType
  <2>2. spec.workload \in ObjectReference
    BY <2>1 DEF ServiceBindingProjectionSpec
  <2>3. w2 \in ObjectReference
    BY <2>2 DEF ObjectReference
  <2>4. Known(kind, spec) = k
    BY <1>2, <2>1 DEF Known, ServiceBindingProjectionSpec
  <2>. HIDE DEF w2
  <2>5. k \in ServiceBindingProjectionSpec
    BY <2>1, <2>3 DEF ServiceBindingProjectionSpec
  <2>. QED
    BY <1>2, <2>1, <2>4, <2>5
<1>3. CASE kind = "ProvisionedService"
  BY <1>3 DEF Known
<1>. QED
  BY <1>1, <1>2, <1>3 DEF Kinds

\* SetDefaults keeps the type of a spec and what the schema has dropped; it
\* changes nothing of a binding but its name.
LEMMA DefaultsType ==
  ASSUME NEW kind \in Kinds, NEW spec \in SpecType(kind), NEW name \in {Name, ""}
  PROVE  /\ SetDefaults(kind, spec, name) \in SpecType(kind)
         /\ kind = "ServiceBinding" =>
              /\ Pruned(spec) => Pruned(SetDefaults(kind, spec, name))
              /\ SetDefaults(kind, spec, name).name \in {spec.name, name}
<1>1. CASE kind = "ServiceBinding"
  <2>1. spec \in ServiceBindingSpec /\ SpecType(kind) = ServiceBindingSpec
    BY <1>1 DEF SpecType
  <2>2. CASE spec.name = ""
    <3>. DEFINE d == [spec EXCEPT !.name = name]
    <3>0. name \in STRING
      <4>1. spec.name \in STRING
        BY <2>1 DEF ServiceBindingSpec
      <4>2. Name \in STRING
        BY NamesAssumption, Zenon
      <4>. QED
        BY <2>2, <4>1, <4>2, Zenon
    <3>1. /\ d \in ServiceBindingSpec /\ d.name = name
          /\ d.service = spec.service /\ d.workload = spec.workload
      BY <2>1, <3>0 DEF ServiceBindingSpec
    <3>2. SetDefaults(kind, spec, name) = d
      BY <1>1, <2>2 DEF SetDefaults
    <3>. HIDE DEF d
    <3>3. Pruned(spec) => Pruned(d)
      BY <3>1 DEF Pruned
    <3>. QED
      BY <2>1, <3>1, <3>2, <3>3
  <2>3. CASE spec.name # ""
    BY <2>3 DEF SetDefaults
  <2>. QED
    BY <2>2, <2>3
<1>2. CASE kind # "ServiceBinding"
  BY <1>2 DEF SetDefaults
<1>. QED
  BY <1>1, <1>2

\* What a request stores, if it is admitted.
Full(kind, spec, name) ==
  IF Called(kind) THEN SetDefaults(kind, Known(kind, spec), name)
                  ELSE Known(kind, spec)

Admitted(kind, spec, name) ==
  /\ Required(kind, Full(kind, spec, name))
  /\ Called(kind) => Validate(kind, Full(kind, spec, name)) = {}

\* So does a request as a whole, before it is admitted.
LEMMA FullType ==
  ASSUME NEW kind \in Kinds, NEW spec \in SpecType(kind), NEW name \in {Name, ""}
  PROVE  /\ Full(kind, spec, name) \in SpecType(kind)
         /\ Full(kind, spec, name) # Nil
         /\ kind = "ServiceBinding" =>
              /\ Pruned(Full(kind, spec, name))
              /\ Full(kind, spec, name).name \in {spec.name, name}
<1>1. Nil \notin SpecType(kind)
  BY SpecsAssumption DEF SpecType, Kinds
<1>2. /\ Known(kind, spec) \in SpecType(kind)
      /\ kind = "ServiceBinding" =>
           Pruned(Known(kind, spec)) /\ Known(kind, spec).name = spec.name
  BY KnownType
<1>. DEFINE k == Known(kind, spec)
<1>. HIDE DEF k
<1>3. /\ SetDefaults(kind, k, name) \in SpecType(kind)
      /\ kind = "ServiceBinding" =>
           /\ Pruned(SetDefaults(kind, k, name))
           /\ SetDefaults(kind, k, name).name \in {spec.name, name}
  BY <1>2, DefaultsType DEF k
<1>. QED
  BY <1>1, <1>2, <1>3 DEF Full, k

\* The webhooks are called for these two kinds.
LEMMA CalledKinds ==
  ASSUME NEW kind \in Kinds
  PROVE  /\ Called(kind) => kind \in {"ServiceBinding", "ProvisionedService"}
         /\ Called("ServiceBinding") <=> programmed
BY DEF Called, GroupOf, ourTypes, Kinds

\* A request that the webhooks see is admitted exactly if it is sound.
LEMMA AdmittedExact ==
  ASSUME NEW kind \in Kinds, NEW spec \in SpecType(kind), NEW name \in {Name, ""},
         Called(kind)
  PROVE  Admitted(kind, spec, name) <=> Sound(kind, Full(kind, spec, name))
<1>. DEFINE f == Full(kind, spec, name)
<1>1. f \in SpecType(kind) /\ (kind = "ServiceBinding" => Pruned(f))
  BY FullType
<1>2. Admitted(kind, spec, name) <=> Required(kind, f) /\ Validate(kind, f) = {}
  BY DEF Admitted
<1>. HIDE DEF f
<1>3. CASE kind = "ServiceBinding"
  <2>1. f \in ServiceBindingSpec
    BY <1>1, <1>3 DEF SpecType
  <2>2. Validate(kind, f) = ValidateBinding(f)
    BY <1>3 DEF Validate
  <2>3. Validate(kind, f) = {} <=> Sound(kind, f)
    BY <1>1, <1>3, <2>1, <2>2, BindingExact
  <2>4. Sound(kind, f) => Required(kind, f)
    BY <1>3 DEF Sound, Required
  <2>. QED
    BY <1>2, <2>3, <2>4 DEF f
<1>4. CASE kind = "ProvisionedService"
  <2>1. f \in ProvisionedServiceSpec
    BY <1>1, <1>4 DEF SpecType
  <2>2. Validate(kind, f) = ValidateService(f)
    BY <1>4 DEF Validate
  <2>3. Validate(kind, f) = {} <=> Sound(kind, f)
    BY <1>4, <2>1, <2>2, ServiceExact
  <2>4. Required(kind, f)
    BY <1>4 DEF Required
  <2>. QED
    BY <1>2, <2>3, <2>4 DEF f
<1>. QED
  BY <1>3, <1>4, CalledKinds

-----------------------------------------------------------------------------
\* The inductive invariant.

\* What is stored is a spec of its kind.
Stored ==
  /\ DOMAIN stored = Kinds
  /\ \A kind \in Kinds : stored[kind] \in SpecType(kind) \cup {Nil}

\* A binding that is stored since the webhooks were programmed has passed
\* Validate.
CheckedPasses ==
  "ServiceBinding" \in checked =>
    /\ stored["ServiceBinding"] # Nil
    /\ ValidateBinding(stored["ServiceBinding"]) = {}

AdmissionInv == TypeOK /\ Stored /\ AdmitsExactlySound /\ CheckedPasses

\* The bound is a number.
LEMMA BoundNat == MaxRequests \in Nat
BY NamesAssumption, Zenon

\* AdmissionInv holds while nothing is stored.
LEMMA AdmissionInit == Init => AdmissionInv
<1>. SUFFICES ASSUME Init PROVE AdmissionInv
  OBVIOUS
<1>1. answer.called = FALSE /\ answer.admitted = FALSE
  BY DEF Init, NoAnswer
<1>2. DOMAIN stored = Kinds /\ \A kind \in Kinds : stored[kind] = Nil
  BY DEF Init
<1>3. TypeOK
  <2>1. requests \in 0..MaxRequests
    <3>1. 0 \in 0..MaxRequests
      BY BoundNat
    <3>. QED
      BY <3>1, Zenon DEF Init
  <2>. QED
    BY <1>1, <1>2, <2>1 DEF Init, TypeOK, Kinds
<1>4. Stored
  BY <1>2 DEF Stored
<1>5. AdmitsExactlySound
  BY <1>1 DEF AdmitsExactlySound
<1>6. CheckedPasses
  BY DEF Init, CheckedPasses
<1>. QED
  BY <1>3, <1>4, <1>5, <1>6 DEF AdmissionInv

\* A request keeps the invariant, whoever makes it.
LEMMA RequestKeeps ==
  ASSUME AdmissionInv,
         NEW kind \in Kinds, NEW spec \in SpecType(kind), NEW name \in {Name, ""},
         kind = "ServiceBinding" =>
           {spec.name, name} \subseteq {"", Name} \cup {b.name : b \in Bindings},
         Request(kind, spec, name), requests' \in 0..MaxRequests
  PROVE  AdmissionInv'
<1>. DEFINE f == Full(kind, spec, name)
            a == Admitted(kind, spec, name)
            c == Called(kind)
<1>1. /\ answer' = [kind |-> kind, spec |-> f, called |-> c, admitted |-> a]
      /\ stored' = IF a THEN [stored EXCEPT ![kind] = f] ELSE stored
      /\ checked' = CASE ~a -> checked
                      [] a /\ programmed -> checked \cup {kind}
                      [] a /\ ~programmed -> checked \ {kind}
      /\ programmed' = programmed
  BY DEF Request, Full, Admitted
<1>2. a \in BOOLEAN /\ c \in BOOLEAN
  BY DEF Admitted, Called
<1>3. /\ f \in SpecType(kind) /\ f # Nil
      /\ kind = "ServiceBinding" => Pruned(f) /\ f.name \in {spec.name, name}
  BY FullType
<1>4. c => (a <=> Sound(kind, f))
  BY AdmittedExact
<1>5. TypeOK /\ Stored /\ AdmitsExactlySound /\ CheckedPasses
  BY DEF AdmissionInv
<1>6. kind = "ServiceBinding" /\ a /\ programmed => ValidateBinding(f) = {}
  BY CalledKinds DEF Admitted, Validate
<1>7. programmed \in BOOLEAN
  BY <1>5 DEF TypeOK
<1>. HIDE DEF f, a, c
<1>8. /\ answer'.kind = kind /\ answer'.spec = f
      /\ answer'.called = c /\ answer'.admitted = a
  BY <1>1
<1>9. AdmitsExactlySound'
  <2>1. (answer'.called <=> c) /\ (answer'.admitted <=> a)
    BY <1>2, <1>8, Zenon
  <2>. QED
    BY <1>4, <1>8, <2>1, Zenon DEF AdmitsExactlySound
<1>10. Stored'
  BY <1>1, <1>3, <1>5 DEF Stored
<1>11. CASE ~a
  <2>1. stored' = stored /\ checked' = checked /\ ~answer'.admitted
    BY <1>1, <1>8, <1>11
  <2>2. TypeOK'
    BY <1>1, <1>5, <2>1 DEF TypeOK
  <2>3. CheckedPasses'
    BY <1>5, <2>1 DEF CheckedPasses
  <2>. QED
    BY <1>9, <1>10, <2>2, <2>3 DEF AdmissionInv
<1>12. CASE a
  <2>1. stored' = [stored EXCEPT ![kind] = f]
    BY <1>1, <1>12
  <2>2. /\ stored'[kind] = f
        /\ \A k \in Kinds \ {kind} : stored'[k] = stored[k]
    BY <1>5, <2>1 DEF Stored
  <2>3. (programmed /\ checked' = checked \cup {kind})
        \/ (~programmed /\ checked' = checked \ {kind})
    BY <1>1, <1>7, <1>12
  <2>4. TypeOK'
    <3>1. DOMAIN stored' = Kinds
      BY <1>10 DEF Stored
    <3>2. stored'["ServiceBinding"] # Nil =>
            stored'["ServiceBinding"].name
              \in {"", Name} \cup {b.name : b \in Bindings}
      <4>1. CASE kind = "ServiceBinding"
        BY <1>3, <2>2, <4>1
      <4>2. CASE kind # "ServiceBinding"
        <5>1. stored'["ServiceBinding"] = stored["ServiceBinding"]
          BY <2>2, <4>2 DEF Kinds
        <5>. QED
          BY <1>5, <5>1 DEF TypeOK
      <4>. QED
        BY <4>1, <4>2
    <3>3. checked' \subseteq {k \in Kinds : stored'[k] # Nil}
      BY <1>3, <1>5, <2>2, <2>3 DEF TypeOK
    <3>4. stored'[answer'.kind] # Nil
      BY <1>3, <1>8, <2>2
    <3>. QED
      BY <1>1, <1>5, <3>1, <3>2, <3>3, <3>4 DEF TypeOK
  <2>5. CheckedPasses'
    <3>1. CASE kind = "ServiceBinding"
      <4>1. ("ServiceBinding" \in checked') => programmed
        BY <2>3, <3>1
      <4>. QED
        BY <1>3, <1>6, <1>12, <2>2, <3>1, <4>1 DEF CheckedPasses
    <3>2. CASE kind # "ServiceBinding"
      <4>1. stored'["ServiceBinding"] = stored["ServiceBinding"]
        BY <2>2, <3>2 DEF Kinds
      <4>2. ("ServiceBinding" \in checked') => ("ServiceBinding" \in checked)
        <5>1. checked' = checked \cup {kind} \/ checked' = checked \ {kind}
          BY <2>3, Zenon
        <5>2. "ServiceBinding" \notin {kind}
          BY <3>2, Zenon
        <5>. QED
          BY <5>1, <5>2, Zenon
      <4>. QED
        BY <1>5, <4>1, <4>2 DEF CheckedPasses
    <3>. QED
      BY <3>1, <3>2
  <2>. QED
    BY <1>9, <1>10, <2>4, <2>5 DEF AdmissionInv
<1>. QED
  BY <1>2, <1>11, <1>12

\* Every request, admitted or not, and ProgramWebhooks keep AdmissionInv.
LEMMA AdmissionStep == AdmissionInv /\ [Next]_vars => AdmissionInv'
<1>. SUFFICES ASSUME AdmissionInv, [Next]_vars PROVE AdmissionInv'
  OBVIOUS
<1>1. TypeOK /\ Stored /\ AdmitsExactlySound /\ CheckedPasses
  BY DEF AdmissionInv
<1>2. CASE ProgramWebhooks
  BY <1>1, <1>2
     DEF ProgramWebhooks, AdmissionInv, TypeOK, Stored, AdmitsExactlySound,
         CheckedPasses
<1>3. CASE UserRequests
  <2>. DEFINE Asks(k, s) ==
                /\ requests < MaxRequests
                /\ requests' = requests + 1
                /\ Request(k, s, Name) \/ Request(k, s, "")
  <2>0. PICK kind \in Kinds : \E s \in Specs[kind] : Asks(kind, s)
    BY <1>3 DEF UserRequests
  <2>1. PICK spec \in Specs[kind] : Asks(kind, spec)
    BY <2>0
  <2>2. spec \in SpecType(kind)
    BY SpecsAssumption DEF Specs, SpecType, Kinds
  <2>3. kind = "ServiceBinding" => spec \in Bindings
    BY DEF Specs
  <2>4. requests' \in 0..MaxRequests
    <3>1. requests \in 0..MaxRequests /\ requests < MaxRequests
          /\ requests' = requests + 1
      BY <1>1, <2>1, Zenon DEF TypeOK
    <3>2. \A n \in 0..MaxRequests : n < MaxRequests => n + 1 \in 0..MaxRequests
      BY BoundNat
    <3>. QED
      BY <3>1, <3>2, Zenon
  <2>5. PICK name \in {Name, ""} : Request(kind, spec, name)
    BY <2>1
  <2>. QED
    <3>2. kind = "ServiceBinding" =>
            {spec.name, name} \subseteq {"", Name} \cup {b.name : b \in Bindings}
      BY <2>3, <2>5
    <3>. QED
      BY <2>2, <2>4, <2>5, <3>2, RequestKeeps
<1>4. CASE ControllerRequests
  <2>. DEFINE b == stored["ServiceBinding"]
              p == MakeServiceBindingProjection(b)
              kind == "ServiceBindingProjection"
  <2>1. b # Nil /\ b.workload # Nil /\ Request(kind, p, Name)
        /\ requests' = requests
    BY <1>4 DEF ControllerRequests
  <2>2. b \in ServiceBindingSpec
    BY <1>1, <2>1 DEF Stored, SpecType, Kinds
  <2>3. /\ b.name \in STRING /\ b.workload \in ObjectReference
        /\ b.env \in Seq(EnvVar)
    BY <2>1, <2>2 DEF ServiceBindingSpec
  <2>4. p \in ServiceBindingProjectionSpec
    BY <2>3 DEF MakeServiceBindingProjection, ServiceBindingProjectionSpec
  <2>5. p \in SpecType(kind) /\ kind \in Kinds
    BY <2>4 DEF SpecType, Kinds
  <2>6. requests' \in 0..MaxRequests
    BY <1>1, <2>1 DEF TypeOK
  <2>. HIDE DEF p
  <2>. QED
    BY <2>1, <2>5, <2>6, RequestKeeps
<1>5. CASE UNCHANGED vars
  BY <1>1, <1>5
     DEF vars, AdmissionInv, TypeOK, Stored, AdmitsExactlySound, CheckedPasses
<1>. QED
  BY <1>2, <1>3, <1>4, <1>5 DEF Next

\* So AdmissionInv is an invariant.
LEMMA AdmissionAlways == Spec => []AdmissionInv
BY AdmissionInit, AdmissionStep, PTL DEF Spec

-----------------------------------------------------------------------------
\* Every variable keeps its type; a stored binding goes by a name that its
\* user or its object gave it (ServiceBinding.SetDefaults).
THEOREM TypeCorrect == Spec => []TypeOK
<1>1. AdmissionInv => TypeOK
  BY DEF AdmissionInv
<1>. QED
  BY <1>1, AdmissionAlways, PTL

\* The webhooks let through exactly the sound specs, however many variables
\* a binding has: the path that panics for an index out of range is reached
\* only by what has to be refused (ServiceBinding.Validate,
\* ProvisionedService.Validate).
THEOREM ExactlySound == Spec => []AdmitsExactlySound
<1>1. AdmissionInv => AdmitsExactlySound
  BY DEF AdmissionInv
<1>. QED
  BY <1>1, AdmissionAlways, PTL

\* The reconciler never meets a binding, of those stored since the webhooks
\* were programmed, without a service or a workload, and a projection that it
\* makes of one with a name would pass ServiceBindingProjection.Validate.
THEOREM MadeProjectionsValid == Spec => []MadeProjectionsAreValid
<1>1. AdmissionInv => MadeProjectionsAreValid
  <2>. SUFFICES ASSUME AdmissionInv, "ServiceBinding" \in checked
                PROVE  LET b == stored["ServiceBinding"]
                       IN  /\ b.service # Nil /\ b.workload # Nil
                           /\ b.name # "" =>
                                ValidateProjection(
                                  MakeServiceBindingProjection(b)) = {}
    BY DEF MadeProjectionsAreValid
  <2>1. stored["ServiceBinding"] \in ServiceBindingSpec
        /\ ValidateBinding(stored["ServiceBinding"]) = {}
    BY DEF AdmissionInv, CheckedPasses, Stored, SpecType, Kinds
  <2>. QED
    BY <2>1, MadeValid
<1>. QED
  BY <1>1, AdmissionAlways, PTL
=============================================================================
