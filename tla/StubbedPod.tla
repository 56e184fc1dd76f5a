----------------------------- MODULE StubbedPod -----------------------------
(***************************************************************************)
(* The two ways into a dummy and what becomes of it: a pod of one container*)
(* is either rewritten by the webhook as it is created, or admitted as its *)
(* owner wrote it and stubbed by the auto-rescue controller, which can     *)
(* change the image and nothing else.  Then the dummy of DummyServer runs  *)
(* with the environment, and under the probes, that this leaves it.        *)
(***************************************************************************)
EXTENDS AdmissionPatch, DummyServer

CONSTANTS
    Manifests,        \* containers as their owners write them
    AnnotationSets    \* the stubby.io annotations of the pod

VARIABLE written      \* manifest, annotations and way; never changes

podVars == <<vars, written>>

PodName == "pod"

(* The webhook's way: its patch, applied in full. *)
Cfg(a) == parse_annotations(a, PodName)

PodOf(m) == [containers |-> <<m>>, init_containers |-> << >>, volumes |-> Absent]

Injected(m, a) ==
    FoldLeft(ApplyOp, PodOf(m), FlattenSeq(build_patch(PodOf(m), Cfg(a)))).containers[1]

(* The controller's way: its strategic-merge patch on a pod that cannot    *)
(* pull its image.                                                         *)
Reactive == INSTANCE RescueDecision WITH
    Containers <- {PodName}, Sidecars <- {}, AppImages <- {"own"},
    NoImage <- Absent, NoPod <- Absent

PodView(m, a) ==
    [optIn |-> TRUE, type |-> IF a.type = "frontend" THEN "frontend" ELSE "backend",
     image |-> [c \in {PodName} |-> m.image], originals |-> Reactive!NoOriginals,
     status |-> [c \in {PodName} |-> "pullFail"]]

Rescued(m, a) ==
    LET p == PodView(m, a)
        patch == Reactive!build_stub_patch(p, Reactive!containers_to_stub(p))
    IN  [m EXCEPT !.image = Reactive!StrategicMerge(p, patch).image[PodName]]

-----------------------------------------------------------------------------
(* What the container runtime and the kubelet make of the container: of    *)
(* several variables of one name the last one counts, and a probe asks the *)
(* path its author wrote (a probe that is still the owner's has a path of  *)
(* the real application).                                                  *)
Variable(c, name) ==
    LET entries == IF c.env = Absent THEN << >>
                   ELSE SelectSeq(c.env, LAMBDA e : e.name = name)
    IN  IF entries = << >> THEN Unset ELSE Last(entries).value

Probe(port, path) == IF port = Absent THEN Unset ELSE [port |-> port, path |-> path]

View(c, way, signals) ==
    LET kind == IF c.image = FrontendImage THEN "frontend" ELSE "backend"
        path(own) == IF way = "injected" THEN own ELSE "/api"
    IN  [kind |-> kind,
         command |-> IF c.command = Absent THEN Unset ELSE c.command,
         env |-> [listen |-> Variable(c, IF kind = "backend" THEN "STUBBY_BACKEND_LISTEN"
                                                         ELSE "STUBBY_FRONTEND_LISTEN"),
                  port |-> Variable(c, "STUBBY_PORT"),
                  app_name |-> Variable(c, "STUBBY_APP_NAME")],
         startup |-> Probe(c.startupProbe, "/api"),
         liveness |-> Probe(c.livenessProbe, path("/health")),
         readiness |-> Probe(c.readinessProbe, path("/ready")),
         signals |-> signals]

Dummy(m, a, way, signals) ==
    View(IF way = "injected" THEN Injected(m, a) ELSE Rescued(m, a), way, signals)

PodInit ==
    \E m \in Manifests, a \in AnnotationSets, way \in {"injected", "rescued"},
       signals \in BOOLEAN :
        /\ way = "injected" => Cfg(a) # Skip
        /\ written = [manifest |-> m, annotations |-> a, way |-> way]
        /\ container = Dummy(m, a, way, signals)
        /\ InitProcess

(* Only what the controller stubbed is ever reverted. *)
PodNext ==
    /\ Next
    /\ written.way = "injected" => reason' # "reverted"
    /\ UNCHANGED written

PodSpec == PodInit /\ [][PodNext]_podVars /\ Fairness

-----------------------------------------------------------------------------
(* Properties *)

HandlersWork == container.signals
Stays == reason = "none"                  \* nobody terminates it
Bindable(port) == port >= UnprivilegedStart

(* A pod that the webhook has rewritten boots green: its probes find the   *)
(* dummy on the port of the annotation, whatever environment, ports and    *)
(* probes the manifest came with.  Left out are an owner's own address     *)
(* for the dummy, a startupProbe, which is not rewritten, and a port that  *)
(* the dummy may not bind.                                                 *)
InjectedBoots ==
    <>[](/\ written.way = "injected" /\ HandlersWork /\ Stays
         /\ ~Given(container.env.listen)
         /\ container.startup = Unset
         /\ Bindable(Cfg(written.annotations).port)
         => listed /\ phase = "serving")

(* A container without a command of its own whose probes, if it has any,   *)
(* ask the port the dummy will listen on (STUBBY_PORT if the owner has     *)
(* declared it, else the default of its kind) is rescued cleanly, whatever *)
(* path its probes ask for.                                                *)
DocumentedPort ==
    IF Given(container.env.port) THEN container.env.port
    ELSE IF written.annotations.type = "frontend" THEN 80 ELSE 8080

OwnProbes ==
    {written.manifest.startupProbe, written.manifest.livenessProbe,
     written.manifest.readinessProbe} \ {Absent}

RescuedBoots ==
    <>[](/\ written.way = "rescued" /\ HandlersWork /\ Stays
         /\ written.manifest.command = Absent
         /\ ~Given(container.env.listen)
         /\ DocumentedPort \in u16 /\ Bindable(DocumentedPort)
         /\ OwnProbes \subseteq {DocumentedPort}
         => listed /\ phase = "serving")
=============================================================================
