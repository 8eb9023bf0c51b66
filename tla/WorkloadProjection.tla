------------------------- MODULE WorkloadProjection -------------------------
(***************************************************************************)
(* The projections of one workload: each is bound, rebound after a change  *)
(* and unbound on its own, in any order, while the workload's owner edits  *)
(* what is his.  The reconciler that calls Do and Undo is knative's        *)
(* psbinding.BaseReconciler (external), and its webhook applies Do for one *)
(* projection after the other: a run of the steps below.                   *)
(***************************************************************************)
EXTENDS Projection

CONSTANTS
  Specs,     \* [Keys -> specs that the projection may have]
  Manifest,  \* the workload as its owner first creates it
  Extras,    \* what its owner adds and removes: a volume and a variable each
  MaxEdits   \* bound: changes of projections and of the workload

ASSUME SpecsAssumption == \A k \in Keys : Specs[k] \subseteq ProjectionSpec
ASSUME MaxEditsAssumption == MaxEdits \in Nat

\* A pod template that Kubernetes accepts: volumes have different names, and
\* mounts name a volume that is there.
NamesResolve(ps) ==
  LET names == {v.name : v \in Range(ps.volumes)}
  IN  /\ Cardinality(names) = Len(ps.volumes)
      /\ \A c \in Range(ps.containers) :
           \A m \in Range(c.mounts) : m.name \in names

\* No container has two mounts at one path.
PathsDiffer(ps) ==
  \A c \in Range(ps.containers) : \A i, j \in DOMAIN c.mounts :
    i # j => <<c.mounts[i].root, c.mounts[i].dir>>
               # <<c.mounts[j].root, c.mounts[j].dir>>

\* What the owner writes is his own: he neither annotates the workload in the
\* projections' place nor uses a secret that they bind, which Undo could not
\* tell from what was injected.
IsOwnVolume(v) == v.secret \notin Secrets /\ v.name \notin Secrets
IsOwnEnv(e) == e.secret \notin Secrets /\ e.field = NoField

ASSUME ManifestAssumption ==
  /\ Manifest \in WithPod
  /\ Manifest.containers # << >>
  /\ \A k \in Keys : Manifest.annotations[k] = NoSecret
  /\ \A f \in Field : Manifest.template[f] = ""
  /\ \A v \in Range(Manifest.volumes) : IsOwnVolume(v)
  /\ \A c \in Range(Manifest.containers) : \A e \in Range(c.env) : IsOwnEnv(e)
  /\ NamesResolve(Manifest) /\ PathsDiffer(Manifest)

ASSUME ExtrasAssumption ==
  /\ Extras \subseteq [volume : Volume, env : EnvVar]
  /\ \A x \in Extras :
       /\ IsOwnVolume(x.volume) /\ IsOwnEnv(x.env)
       /\ \A v \in Range(Manifest.volumes) : v.name # x.volume.name
  /\ \A x, y \in Extras : x.volume.name = y.volume.name => x.volume = y.volume

VARIABLES
  specs,     \* [Keys -> {} or {the spec of the projection}]
  deleting,  \* projections that are being deleted
  pod,       \* the workload
  own,       \* the workload without its projections: what its owner wrote
  edits      \* changes so far

vars == <<specs, deleting, pod, own, edits>>

\* The spec of a projection that exists.
Live == {k \in Keys : specs[k] # {}}
SpecOf(k) == CHOOSE b \in specs[k] : TRUE

\* Every variable has its type, and only what exists is being deleted.
TypeOK ==
  /\ specs \in [Keys -> SUBSET ProjectionSpec]
  /\ \A k \in Keys : specs[k] = {} \/ \E b \in Specs[k] : specs[k] = {b}
  /\ deleting \subseteq Live
  /\ pod \in WithPod
  /\ own \in WithPod
  /\ edits \in 0..MaxEdits

Init ==
  /\ specs = [k \in Keys |-> {}]
  /\ deleting = {}
  /\ pod = Manifest
  /\ own = Manifest
  /\ edits = 0

-----------------------------------------------------------------------------
\* A projection is bound: the workload is patched if Do makes a difference.
Pending(k) == k \in Live \ deleting /\ Do(k, SpecOf(k), pod) # pod

Bind(k) ==
  /\ Pending(k)
  /\ pod' = Do(k, SpecOf(k), pod)
  /\ UNCHANGED <<specs, deleting, own, edits>>

\* Mutant of Unbind: the deletion is never over.
UnbindKeepsMark(k) ==
  /\ k \in deleting
  /\ pod' = Undo(k, SpecOf(k), pod)
  /\ specs' = [specs EXCEPT ![k] = {}]
  /\ UNCHANGED <<deleting, own, edits>>

\* A projection that is being deleted is unbound before its finalizer goes.
Unbind(k) ==
  /\ k \in deleting
  /\ pod' = Undo(k, SpecOf(k), pod)
  /\ specs' = [specs EXCEPT ![k] = {}]
  /\ deleting' = deleting \ {k}
  /\ UNCHANGED <<own, edits>>

Edit == edits < MaxEdits /\ edits' = edits + 1

\* The ServiceBinding controller creates or updates a projection.
Project(k) ==
  /\ Edit
  /\ k \notin deleting
  /\ \E b \in Specs[k] :
       b \notin specs[k] /\ specs' = [specs EXCEPT ![k] = {b}]
  /\ UNCHANGED <<deleting, pod, own>>

Delete(k) ==
  /\ Edit
  /\ k \in Live \ deleting
  /\ deleting' = deleting \cup {k}
  /\ UNCHANGED <<specs, pod, own>>

\* The owner's change: what x has is removed from ps if it is there, or added.
Toggled(ps, x) ==
  LET Toggle(s, e) ==
        IF e \in Range(s) THEN Without(s, {e}) ELSE Append(s, e)
  IN  [ps EXCEPT !.volumes = Toggle(@, x.volume),
                 !.containers[1].env = Toggle(@, x.env)]

EditWorkload ==
  /\ Edit
  /\ \E x \in Extras : pod' = Toggled(pod, x) /\ own' = Toggled(own, x)
  /\ UNCHANGED <<specs, deleting>>

\* The workload is deleted and created anew from what its owner wrote.
RecreateWorkload ==
  /\ Edit
  /\ pod # own
  /\ pod' = own
  /\ UNCHANGED <<specs, deleting, own>>

Next ==
  \/ \E k \in Keys : \/ Bind(k)
                     \/ Unbind(k)
                     \/ Project(k)
                     \/ Delete(k)
  \/ EditWorkload
  \/ RecreateWorkload

Spec == Init /\ [][Next]_vars

\* Every change of a projection or of the workload queues the projection, and
\* a failed patch is retried.  The first disjunction is WF_vars(Bind(k)), with
\* Pending(k) for ENABLED Bind(k), which TLC takes long to evaluate.
FairSpec ==
  /\ Spec
  /\ \A k \in Keys : /\ []<>~Pending(k) \/ []<><<Bind(k)>>_vars
                     /\ WF_vars(Unbind(k))

-----------------------------------------------------------------------------
\* Properties.

\* The part of a workload that no projection injects.
Stripped(ps) ==
  LET Injected(e) == e.secret \in Secrets \/ e.field # NoField
  IN  [volumes |-> Without(ps.volumes,
                     {v \in Range(ps.volumes) : v.secret \in Secrets}),
       containers |->
         [i \in DOMAIN ps.containers |->
            [env |-> Without(ps.containers[i].env,
                       {e \in Range(ps.containers[i].env) :
                          Injected(e) \/ e = DefaultRootEnv}),
             mounts |-> Without(ps.containers[i].mounts,
                          {m \in Range(ps.containers[i].mounts) :
                             m.name \in Secrets})]]]

\* However often projections are bound, changed and unbound, the volumes, the
\* mounts and the variables of the workload's owner stay, in their order, and
\* nothing but SERVICE_BINDING_ROOT is left behind between them.
UserContentKept == Stripped(pod) = Stripped(own)

\* Whatever is injected is recorded: each secret in the annotation of the
\* projection that injected it, so that Undo finds it after the spec has
\* moved on to another ("track which secret is injected, so it can be removed
\* when no longer used"), and each type and provider under a key whose
\* projection is bound.
Recorded ==
  LET recorded == injectedSecrets(pod)
      fields == {f \in Field : pod.template[f] # ""}
  IN  /\ \A f \in fields : pod.annotations[f[1]] # NoSecret
      /\ \A v \in Range(pod.volumes) :
           v.secret \in Secrets =>
             v.secret \in recorded /\ v.fields \subseteq fields
      /\ \A c \in Range(pod.containers) : \A e \in Range(c.env) :
           /\ e.secret \in Secrets => e.secret \in recorded
           /\ e.field # NoField => e.field \in fields

\* The pod template stays one that Kubernetes accepts: volumes have different
\* names, mounts name a volume that is there and have different paths.
WellFormedPod == NamesResolve(pod) /\ PathsDiffer(pod)

\* Binding again changes nothing, or every reconciliation would patch the
\* workload and roll out its pods (test case "idempotent").
Idempotent ==
  \A k \in Live : LET bound == Do(k, SpecOf(k), pod)
                  IN  Do(k, SpecOf(k), bound) = bound

\* The same elements, each as often, in whichever order.
SameElements(s, t) ==
  LET Count(u, x) == Cardinality({i \in DOMAIN u : u[i] = x})
  IN  /\ Range(s) = Range(t)
      /\ \A x \in Range(s) : Count(s, x) = Count(t, x)

\* Undo takes back what Do has done, from any workload, one that other
\* projections or an earlier spec left marks on too.  Two things stay:
\* SERVICE_BINDING_ROOT, and the order in which Do has sorted the elements of
\* the other projections, if the owner has removed what was between them.
UndoReverts ==
  LET Unrooted(env) == Without(env, {e \in Range(env) : e.name = RootEnv})
  IN  \A k \in Live :
        LET undone == Undo(k, SpecOf(k), pod)
            reverted == Undo(k, SpecOf(k), Do(k, SpecOf(k), pod))
        IN  /\ reverted.annotations = undone.annotations
            /\ reverted.template = undone.template
            /\ SameElements(reverted.volumes, undone.volumes)
            /\ DOMAIN reverted.containers = DOMAIN undone.containers
            /\ \A i \in DOMAIN undone.containers :
                 LET c == reverted.containers[i]
                     d == undone.containers[i]
                 IN  /\ c.name = d.name
                     /\ SameElements(c.mounts, d.mounts)
                     /\ SameElements(Unrooted(c.env), Unrooted(d.env))

\* Projections that can share a workload: their secrets and the names of
\* their variables differ.
Compatible ==
  \A j, k \in Live : j # k =>
    /\ SpecOf(j).secret # SpecOf(k).secret
    /\ \A x \in Range(SpecOf(j).env), y \in Range(SpecOf(k).env) :
         x.name # y.name

\* The workload carries projection k and all that its spec asks for, and is
\* not patched for it again.
Bound(k) ==
  LET b == SpecOf(k)
  IN  /\ pod.annotations[k] = b.secret
      /\ \A f \in {k} \X {"type", "provider"} : pod.template[f] = b[f[2]]
      /\ ProjectedVolume(k, b) \in Range(pod.volumes)
      /\ Do(k, b, pod) = pod
      /\ \A c \in Range(pod.containers) :
           LET mounts == Without(c.mounts,
                           {m \in Range(c.mounts) : m.name # b.secret})
               wanted == {ProjectedEnv(k, b, e) : e \in Range(b.env)}
           IN  IF isTargetContainer(b, c)
               THEN /\ mounts = <<[name |-> b.secret, dir |-> b.name,
                                   root |-> MountPath(c.env)]>>
                    /\ wanted \subseteq Range(c.env)
               ELSE /\ mounts = << >>
                    /\ wanted \cap Range(c.env) = {}

\* Nothing is left of a projection that is gone.
Unbound(k) ==
  /\ pod.annotations[k] = NoSecret
  /\ \A f \in {k} \X {"type", "provider"} : pod.template[f] = ""

\* When no projection would patch the workload and none is being deleted, the
\* reconcilers rest, and they rest only when the workload carries what every
\* projection asks for and no mark of one that is gone.
RestsOnlyWhenBound ==
  (deleting = {} /\ \A k \in Keys : ~Pending(k)) =>
    \A k \in Keys : IF k \in Live THEN Bound(k) ELSE Unbound(k)

\* Once nobody changes a projection or the workload any more, the projections
\* stop patching it, and it carries all of them and nothing else: "multiple
\* service binding resources can each bind a distinct service to the same
\* workload" (samples/multi-binding/README.md).
Converges ==
  <>[](Compatible =>
         \A k \in Keys : IF k \in Live THEN Bound(k) ELSE Unbound(k))
=============================================================================
