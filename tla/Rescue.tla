------------------------------- MODULE Rescue -------------------------------
(***************************************************************************)
(* The auto-rescue controller at work on one pod name.  Every reconcile    *)
(* reads an object from the controller's own watch cache, which may lag    *)
(* behind the API server, asks the registry about the recorded images, and *)
(* patches the pod by name.  The owner re-creates the pod, the kubelet     *)
(* pulls and reports, images get pushed, and controllers crash, all        *)
(* between any two of those steps.  Reconciles of different pods share     *)
(* nothing but the metrics, so one pod name shows every interleaving.      *)
(*                                                                         *)
(* Controllers is the set of controller processes running at once: one in  *)
(* the documented set-up, two while a rolling update of the Deployment     *)
(* overlaps the old process with the new one (there is no leader election).*)
(***************************************************************************)
EXTENDS RescueDecision, Integers, Sequences

CONSTANTS
    Controllers,     \* controller processes
    Templates,       \* what the owner may create the pod from
    StableName,      \* a deleted pod comes back under its name (StatefulSet)
    Edits,           \* what a live pod's type and opt-in may be changed to
    FlakyReports,    \* statuses the kubelet may show although they are not due
    MaxLag,          \* bound: undelivered versions per watch
    GaugeBound       \* bound: the gauge saturates at +-GaugeBound

ASSUME TemplatesAssumption == Templates \subseteq [Containers -> AppImages]
ASSUME StableNameAssumption == StableName \in BOOLEAN
ASSUME EditsAssumption == Edits \subseteq Types \X BOOLEAN
ASSUME FlakyReportsAssumption == FlakyReports \subseteq Statuses
ASSUME BoundsAssumption == MaxLag \in Nat \ {0} /\ GaugeBound \in Nat

VARIABLES
    pod,         \* the object at the API server, or NoPod
    template,    \* the images the owner created the pod with
    published,   \* the images that have been pushed
    calm,        \* no more faults, crashes, deletions or creations
    stream,      \* stream[k]: versions on their way to k's watch, oldest first
    cache,       \* cache[k]: the object in k's reflector store
    queued,      \* queued[k]: a trigger or a requeue timer is pending
    snap,        \* snap[k]: the object the running reconcile got, NoPod if idle
    todo,        \* todo[k]: recorded images still to be checked
    available,   \* available[k]: images the registry answered for
    gauge        \* gauge[k]: stubby_rescued_pods, local to the process

cluster == <<template, published, calm>>
watch == <<stream, cache, queued>>
run == <<snap, todo, available>>
vars == <<pod, cluster, watch, run, gauge>>

Versions == Pods \cup {NoPod}

TypeOK ==
    /\ pod \in Versions
    /\ template \in [Containers -> AppImages]
    /\ published \in SUBSET Images
    /\ calm \in BOOLEAN
    /\ stream \in [Controllers -> Seq(Versions)]
    /\ cache \in [Controllers -> Versions]
    /\ queued \in [Controllers -> BOOLEAN]
    /\ snap \in [Controllers -> Versions]
    /\ todo \in [Controllers -> SUBSET Images]
    /\ available \in [Controllers -> SUBSET Images]
    /\ gauge \in [Controllers -> (-GaugeBound)..GaugeBound]

(* A pod as its owner creates it. *)
NewPod(t, ty, o) ==
    [optIn |-> o, type |-> ty, image |-> t, originals |-> NoOriginals,
     status |-> [c \in Containers |-> "creating"]]

(* The pod has been created and the controllers list it as they start.     *)
(* The dummy images are published with stubby itself.                      *)
Init ==
    /\ template \in Templates
    /\ \E ty \in Types, o \in BOOLEAN : pod = NewPod(template, ty, o)
    /\ published = Dummies
    /\ calm = FALSE
    /\ stream = [k \in Controllers |-> <<pod>>]
    /\ cache = [k \in Controllers |-> NoPod]
    /\ queued = [k \in Controllers |-> FALSE]
    /\ snap = [k \in Controllers |-> NoPod]
    /\ todo = [k \in Controllers |-> {}]
    /\ available = [k \in Controllers |-> {}]
    /\ gauge = [k \in Controllers |-> 0]

(* A write at the API server: the object changes and every watch will hear *)
(* of it.  (A stub that only renews rescued-at makes an event as well; its *)
(* only effect is a trigger, and the reconcile's requeue is one already.)  *)
Write(p) ==
    /\ \A k \in Controllers : Len(stream[k]) < MaxLag
    /\ pod' = p
    /\ stream' = [k \in Controllers |-> IF p = pod THEN stream[k]
                                        ELSE Append(stream[k], p)]

-----------------------------------------------------------------------------
(* The owner, the kubelet and the registry.                                *)

Create(t, ty, o) ==
    /\ pod = NoPod
    /\ StableName
    /\ ~calm
    /\ Write(NewPod(t, ty, o))
    /\ template' = t
    /\ UNCHANGED <<published, calm, cache, queued, run, gauge>>

Delete ==
    /\ pod # NoPod
    /\ ~calm
    /\ Write(NoPod)
    /\ UNCHANGED <<cluster, cache, queued, run, gauge>>

(* The type and the opt-in of a live pod may be edited, its record of the  *)
(* originals is nobody's business but the controller's.                    *)
Annotate(e) ==
    /\ pod # NoPod
    /\ ~calm
    /\ Write([pod EXCEPT !.type = e[1], !.optIn = e[2]])
    /\ UNCHANGED <<cluster, cache, queued, run, gauge>>

(* What the kubelet will come to report: a container whose image can be    *)
(* pulled runs, and one that runs keeps running.                           *)
DueStatus(c) ==
    IF pod.image[c] \in published THEN "running" ELSE "pullFail"

Report(c, s) ==
    /\ pod # NoPod
    /\ pod.status[c] # s
    /\ Write([pod EXCEPT !.status[c] = s])
    /\ UNCHANGED <<cluster, cache, queued, run, gauge>>

KubeletReport(c) == pod # NoPod /\ Report(c, DueStatus(c))

(* A pull that fails although the image is there, or a restarted kubelet   *)
(* that has forgotten why the container waits.                             *)
KubeletFlake(c) == ~calm /\ \E s \in FlakyReports : Report(c, s)

Publish(i) ==
    /\ i \notin published
    /\ published' = published \cup {i}
    /\ UNCHANGED <<pod, template, calm, watch, run, gauge>>

(* From here on nothing fails and nobody interferes: the premise of the    *)
(* liveness properties, never a promise.                                   *)
Calm ==
    /\ ~calm
    /\ calm' = TRUE
    /\ UNCHANGED <<pod, template, published, watch, run, gauge>>

-----------------------------------------------------------------------------
(* The controller runtime (kube): one watch, one reconcile at a time per   *)
(* object, triggers that arrive meanwhile are kept as one.                 *)

(* A watch event reaches the store; only an object that exists triggers.   *)
Deliver(k) ==
    /\ stream[k] # << >>
    /\ cache' = [cache EXCEPT ![k] = Head(stream[k])]
    /\ stream' = [stream EXCEPT ![k] = Tail(stream[k])]
    /\ queued' = [queued EXCEPT ![k] = queued[k] \/ Head(stream[k]) # NoPod]
    /\ UNCHANGED <<pod, cluster, run, gauge>>

(* The process dies, in the middle of a reconcile or not, and a new one    *)
(* lists the pods from scratch with its metrics at zero.  A PATCH the old  *)
(* one has sent is applied before that or never; one that the API server   *)
(* applies even later is the Act of another member of Controllers.         *)
Restart(k) ==
    /\ ~calm
    /\ stream' = [stream EXCEPT ![k] = IF pod = NoPod THEN << >> ELSE <<pod>>]
    /\ cache' = [cache EXCEPT ![k] = NoPod]
    /\ queued' = [queued EXCEPT ![k] = FALSE]
    /\ snap' = [snap EXCEPT ![k] = NoPod]
    /\ todo' = [todo EXCEPT ![k] = {}]
    /\ available' = [available EXCEPT ![k] = {}]
    /\ gauge' = [gauge EXCEPT ![k] = 0]
    /\ UNCHANGED <<pod, cluster>>

-----------------------------------------------------------------------------
(* reconcile.rs *)

OptedIn(p) == p # NoPod /\ p.optIn

(* A trigger for an object that is gone from the store or did not opt in:  *)
(* nothing to do until it changes (ObjectNotFound, Action::await_change).  *)
Ignore(k) ==
    /\ queued[k] /\ snap[k] = NoPod
    /\ ~OptedIn(cache[k])
    /\ queued' = [queued EXCEPT ![k] = FALSE]
    /\ UNCHANGED <<pod, cluster, stream, cache, run, gauge>>

(* reconcile starts on the cached object.  The registry is asked only when *)
(* nothing is to be stubbed.                                               *)
Reconcile(k) ==
    /\ queued[k] /\ snap[k] = NoPod
    /\ OptedIn(cache[k])
    /\ queued' = [queued EXCEPT ![k] = FALSE]
    /\ snap' = [snap EXCEPT ![k] = cache[k]]
    /\ todo' = [todo EXCEPT ![k] = IF containers_to_stub(cache[k]) = {}
                                   THEN Values(rescued_originals(cache[k]))
                                   ELSE {}]
    /\ UNCHANGED <<pod, cluster, stream, cache, available, gauge>>

(* registry::is_available: TRUE only for an image that can be fetched; any *)
(* error counts as "not available".                                        *)
CheckImage(k, i, answer) ==
    /\ i \in todo[k]
    /\ answer => i \in published
    /\ ~answer => i \notin published \/ ~calm
    /\ todo' = [todo EXCEPT ![k] = todo[k] \ {i}]
    /\ available' = [available EXCEPT ![k] = IF answer THEN available[k] \cup {i}
                                             ELSE available[k]]
    /\ UNCHANGED <<pod, cluster, watch, snap, gauge>>

Plan(k) == plan_action(containers_to_stub(snap[k]), rescued_originals(snap[k]),
                       available[k])

(* The reconcile has its inputs and is about to send what it planned.      *)
Planned(k, plan) == snap[k] # NoPod /\ todo[k] = {} /\ Plan(k) = plan

(* Faulty variant: Action::await_change after every reconcile. *)
ReturnAndWait(k) ==
    /\ snap' = [snap EXCEPT ![k] = NoPod]
    /\ available' = [available EXCEPT ![k] = {}]
    /\ UNCHANGED <<todo, cache, queued>>

(* The reconcile returns.  Action::requeue, with the check interval after  *)
(* a success and 30 s after an error, brings the object back.              *)
Return(k) ==
    /\ snap' = [snap EXCEPT ![k] = NoPod]
    /\ available' = [available EXCEPT ![k] = {}]
    /\ queued' = [queued EXCEPT ![k] = TRUE]
    /\ UNCHANGED <<todo, cache>>

(* The metrics are touched only once the patch has been acknowledged.      *)
Count(k, acked, delta) ==
    gauge' = IF acked /\ gauge[k] + delta \in (-GaugeBound)..GaugeBound
             THEN [gauge EXCEPT ![k] = gauge[k] + delta]
             ELSE gauge

(* A patch names the pod and no resourceVersion or uid: it lands on        *)
(* whatever object has that name.  Without the acknowledgement the         *)
(* controller sees an error although the patch was applied.                *)
ApplyStub(k, acked) ==
    /\ Planned(k, "stub")
    /\ acked \/ ~calm
    /\ pod # NoPod
    /\ Write(StrategicMerge(pod, build_stub_patch(snap[k], containers_to_stub(snap[k]))))
    /\ Count(k, acked, 1)
    /\ Return(k)
    /\ UNCHANGED cluster

ApplyRevert(k, acked) ==
    /\ Planned(k, "revert")
    /\ acked \/ ~calm
    /\ pod # NoPod
    /\ Write(StrategicMerge(pod, build_revert_patch(rescued_originals(snap[k]))))
    /\ Count(k, acked, -1)
    /\ Return(k)
    /\ UNCHANGED cluster

(* Faulty variant: no requeue while an original is missing. *)
NothingAndWait(k) ==
    /\ Planned(k, "nothing")
    /\ ReturnAndWait(k)
    /\ UNCHANGED <<pod, cluster, stream, gauge>>

Nothing(k) ==
    /\ Planned(k, "nothing")
    /\ Return(k)
    /\ UNCHANGED <<pod, cluster, stream, gauge>>

(* The patch is refused or lost; error_policy requeues.  A pod that is     *)
(* gone always refuses it.                                                 *)
PatchFails(k) ==
    /\ Planned(k, "stub") \/ Planned(k, "revert")
    /\ pod = NoPod \/ ~calm
    /\ Return(k)
    /\ UNCHANGED <<pod, cluster, stream, gauge>>

-----------------------------------------------------------------------------
Owner == \/ Delete
         \/ \E t \in Templates, ty \in Types, o \in BOOLEAN : Create(t, ty, o)
         \/ \E e \in Edits : Annotate(e)
Kubelet == \E c \in Containers : KubeletReport(c) \/ KubeletFlake(c)
Registry == \E i \in AppImages : Publish(i)

Check(k) == \E i \in Images, answer \in BOOLEAN : CheckImage(k, i, answer)
Act(k) == \/ \E acked \in BOOLEAN : ApplyStub(k, acked) \/ ApplyRevert(k, acked)
          \/ Nothing(k)
          \/ PatchFails(k)
Controller(k) == Deliver(k) \/ Ignore(k) \/ Reconcile(k) \/ Check(k) \/ Act(k)

Next == \/ Owner \/ Kubelet \/ Registry \/ Calm
        \/ \E k \in Controllers : Controller(k) \/ Restart(k)

Spec == Init /\ [][Next]_vars

(* The runtime polls the watch, the queue and the running reconcile, and   *)
(* the kubelet retries; nobody promises to push an image or to stop        *)
(* failing.  The kubelet's report is never really withdrawn: the bound     *)
(* MaxLag disables it now and then, which its strong fairness makes up     *)
(* for.                                                                    *)
Fairness ==
    /\ \A k \in Controllers : /\ WF_vars(Deliver(k))
                              /\ WF_vars(Ignore(k) \/ Reconcile(k))
                              /\ WF_vars(Check(k))
                              /\ WF_vars(Act(k))
    /\ \A c \in Containers : SF_vars(KubeletReport(c))

FairSpec == Spec /\ Fairness
=============================================================================
