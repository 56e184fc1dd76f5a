--------------------------- MODULE AdmissionPatch ---------------------------
(***************************************************************************)
(* The admission webhook's pure part: from a pod's stubby.io/* annotations *)
(* to a configuration, and from the pod and that configuration to a JSON   *)
(* Patch (RFC 6902), with what the API server makes of each operation.     *)
(*                                                                         *)
(* A container is a record of the fields the patch deals with; Absent is a *)
(* field that the manifest leaves out.  Ports, probes, mounts and          *)
(* environment are reduced to the port numbers, volume names and variables *)
(* they mention, anything else to Absent or "own".                         *)
(***************************************************************************)
EXTENDS Naturals, Sequences, SequencesExt

CONSTANTS
    SidecarNames,    \* container names with an ALWAYS_SKIP prefix
    BackendImage,    \* ImageRefs.backend
    FrontendImage,   \* ImageRefs.frontend
    Absent           \* a key or a field that is not there

ASSUME AbsentAssumption == Absent \notin {BackendImage, FrontendImage, "default"}

Optional(S) == S \cup {Absent}

-----------------------------------------------------------------------------
(* annotation.rs *)

Skip == [dummy_type |-> Absent]    \* Decision::Skip; Decision::Inject(cfg) is cfg itself

(* s.parse::<u16>(): only a number that fits is a port, zero included. A   *)
(* text that is no number at all is represented by a number out of range.  *)
u16 == 0..65535

parse_port_wide(raw, type) ==               \* parse::<i32>()
    IF raw # Absent THEN raw ELSE IF type = "backend" THEN 8080 ELSE 80

parse_port(raw, type) ==
    IF raw \in u16 THEN raw ELSE IF type = "backend" THEN 8080 ELSE 80

(* trim().eq_ignore_ascii_case("true") *)
parse_bool(raw) == raw \in {"true", "TRUE", " true "}

parse_annotations(a, pod_name) ==
    IF a.type \notin {"backend", "frontend"} THEN Skip
    ELSE [dummy_type |-> a.type,
          app_name |-> IF a.app_name = Absent THEN pod_name ELSE a.app_name,
          port |-> parse_port(a.port, a.type),
          image_override |-> a.image_override,
          skip_containers |-> IF a.skip_containers = Absent THEN {} ELSE a.skip_containers,
          keep_env_from |-> parse_bool(a.keep_env_from),
          keep_volumes |-> parse_bool(a.keep_volumes)]

-----------------------------------------------------------------------------
(* JSON Patch *)

(* An operation on field f of container i, or on the pod's volumes (i = 0).*)
Op(kind, i, f, v) == [op |-> kind, at |-> i, field |-> f, value |-> v]
replace_op(i, f, v) == Op("replace", i, f, v)
add_op(i, f, v) == Op("add", i, f, v)
append_op(i, f, v) == Op("append", i, f, v)      \* add at ".../-"
remove_op(i, f) == Op("remove", i, f, Absent)

Target(pod, o) == IF o.at = 0 THEN pod.volumes ELSE pod.containers[o.at][o.field]

(* RFC 6902 section 4: only a plain add may name what does not exist. *)
Applicable(pod, o) == o.op = "add" \/ Target(pod, o) # Absent

Result(pod, o) == IF o.op = "append" THEN Append(Target(pod, o), o.value) ELSE o.value

ApplyOp(pod, o) ==
    IF o.at = 0 THEN [pod EXCEPT !.volumes = Result(pod, o)]
    ELSE [pod EXCEPT !.containers[o.at][o.field] = Result(pod, o)]

-----------------------------------------------------------------------------
(* patch.rs *)

should_skip_prefixes(name, cfg) == name \in SidecarNames   \* forgets the annotation

should_skip(name, cfg) == name \in SidecarNames \/ name \in cfg.skip_containers

chosen_image(cfg) ==
    IF cfg.image_override # Absent THEN cfg.image_override
    ELSE IF cfg.dummy_type = "backend" THEN BackendImage ELSE FrontendImage

InjectedEnv(cfg) == <<[name |-> "STUBBY_APP_NAME", value |-> cfg.app_name],
                      [name |-> "STUBBY_PORT", value |-> cfg.port]>>

RemoveIf(cond, i, f) == IF cond THEN <<remove_op(i, f)>> ELSE << >>

EnvOps_if_none(i, c, cfg) ==                \* an env of the owner's is left alone
    IF c.env # Absent THEN << >> ELSE <<add_op(i, "env", InjectedEnv(cfg))>>

EnvOps(i, c, cfg) ==
    IF c.env # Absent
    THEN [n \in DOMAIN InjectedEnv(cfg) |-> append_op(i, "env", InjectedEnv(cfg)[n])]
    ELSE <<add_op(i, "env", InjectedEnv(cfg))>>

ContainerOps_overlay(i, c, cfg) ==          \* removes nothing of the application
    <<replace_op(i, "image", chosen_image(cfg)),
      add_op(i, "ports", {cfg.port}),
      add_op(i, "livenessProbe", cfg.port),
      add_op(i, "readinessProbe", cfg.port)>>
    \o EnvOps(i, c, cfg)

ContainerOps(i, c, cfg) ==
    <<replace_op(i, "image", chosen_image(cfg)),
      add_op(i, "ports", {cfg.port}),
      add_op(i, "livenessProbe", cfg.port),
      add_op(i, "readinessProbe", cfg.port)>>
    \o RemoveIf(c.command # Absent, i, "command")
    \o RemoveIf(c.args # Absent, i, "args")
    \o EnvOps(i, c, cfg)
    \o RemoveIf(~cfg.keep_env_from /\ c.envFrom # Absent, i, "envFrom")
    \o RemoveIf(~cfg.keep_volumes /\ c.volumeMounts # Absent, i, "volumeMounts")
    \o IF c.resources = Absent THEN <<add_op(i, "resources", "default")>> ELSE << >>

Mounts(c) == IF c.volumeMounts = Absent THEN {} ELSE c.volumeMounts
BlocksOnMissing_plain == {"secret", "configMap"}          \* forgets projected
BlocksOnMissing == {"secret", "configMap", "projected"}

(* Volumes still referenced after the mutation: by the containers that are *)
(* skipped and by the init containers.                                     *)
Needed_by_kept(pod, cfg) ==                               \* forgets the inits
    UNION {Mounts(c) : c \in {d \in ToSet(pod.containers) : should_skip(d.name, cfg)}}

Needed(pod, cfg) ==
    (UNION {Mounts(c) : c \in {d \in ToSet(pod.containers) : should_skip(d.name, cfg)}})
    \cup (UNION {Mounts(c) : c \in ToSet(pod.init_containers)})

prune_all_orphans(pod, cfg) ==                            \* whatever their kind
    IF cfg.keep_volumes \/ pod.volumes = Absent THEN << >>
    ELSE <<replace_op(0, "volumes", [v \in DOMAIN pod.volumes \cap Needed(pod, cfg) |->
                                        pod.volumes[v]])>>

prune_orphan_volumes(pod, cfg) ==
    IF cfg.keep_volumes \/ pod.volumes = Absent THEN << >>
    ELSE LET kept == {v \in DOMAIN pod.volumes : \/ pod.volumes[v] \notin BlocksOnMissing
                                                \/ v \in Needed(pod, cfg)}
         IN  IF kept = DOMAIN pod.volumes THEN << >>
             ELSE IF kept = {} THEN <<remove_op(0, "volumes")>>
             ELSE <<replace_op(0, "volumes", [v \in kept |-> pod.volumes[v]])>>

(* The operations in the order of the patch, in groups: one for each       *)
(* container, which is empty if the container is skipped, and a last one   *)
(* for the volumes.                                                        *)
build_patch(pod, cfg) ==
    Append([i \in DOMAIN pod.containers |->
               IF should_skip(pod.containers[i].name, cfg) THEN << >>
               ELSE ContainerOps(i, pod.containers[i], cfg)],
           prune_orphan_volumes(pod, cfg))

IsEmptyPatch(groups) == \A i \in DOMAIN groups : groups[i] = << >>
=============================================================================
