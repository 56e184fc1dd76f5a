----------------------------- MODULE MCAdmission ---------------------------
(* The reviews with which Admission is checked.                            *)
EXTENDS AdmissionProperties, TLC

Container(name) ==
    [name |-> name, image |-> "own", ports |-> Absent, livenessProbe |-> Absent,
     readinessProbe |-> Absent, startupProbe |-> Absent, command |-> Absent,
     args |-> Absent, env |-> Absent, envFrom |-> Absent, volumeMounts |-> Absent,
     resources |-> Absent]

Pod(containers, inits, volumes) ==
    [containers |-> containers, init_containers |-> inits, volumes |-> volumes]

Annotated == [type |-> "backend", app_name |-> Absent, port |-> Absent,
              image_override |-> Absent, skip_containers |-> Absent,
              keep_env_from |-> Absent, keep_volumes |-> Absent]

Review(body, annotations, pod) ==
    [body |-> body, annotations |-> annotations, pod_name |-> "pod", pod |-> pod]

-----------------------------------------------------------------------------
(* Every shape of one container, under every annotation. *)
OwnPort == [name |-> "STUBBY_PORT", value |-> 1]
Shapes ==
    {[Container("app") EXCEPT !.command = cmd, !.args = args, !.env = env, !.envFrom = from,
                              !.volumeMounts = mounts, !.resources = res, !.ports = ports] :
        cmd \in Optional({"own"}), args \in Optional({"own"}),
        env \in {Absent, << >>, <<OwnPort>>}, from \in Optional({"own"}),
        mounts \in {Absent, {"v"}}, res \in Optional({"own"}), ports \in {Absent, {9090}}}

Annotations ==
    {[Annotated EXCEPT !.type = type, !.port = port, !.app_name = name,
                       !.image_override = image, !.keep_env_from = from, !.keep_volumes = vols] :
        type \in {Absent, "off", "backend", "frontend"},
        port \in {Absent, -1, 0, 1, 65535, 65536}, name \in Optional({"shop"}),
        image \in Optional({"mine"}),
        from \in {Absent, "TRUE", "yes"}, vols \in {Absent, " true "}}

Volume == [v \in {"v"} |-> "secret"]
Skipping(S) == [Annotated EXCEPT !.skip_containers = S]

(* Every shape under the defaults, the two extreme shapes under every      *)
(* annotation.                                                             *)
ShapeReviews ==
    {Review("pod", Skipping(skip), Pod(<<c>>, << >>, Volume)) :
        c \in Shapes, skip \in {Absent, {"app"}}}
    \cup {Review("pod", a, Pod(<<c>>, << >>, Volume)) :
            a \in Annotations,
            c \in {Container("app"),
                   [Container("app") EXCEPT !.command = "own", !.args = "own", !.env = <<OwnPort>>,
                       !.envFrom = "own", !.volumeMounts = {"v"}, !.resources = "own"]}}

-----------------------------------------------------------------------------
(* Pods of three containers, the last one a sidecar, with an init          *)
(* container and two volumes, mounted in every way; and the bodies that    *)
(* are no pod, a pod without an image and one without containers.          *)
SomeMounts == {Absent, {"v"}, {"w"}, {"v", "w"}}
Mounting(name, mounts) == [Container(name) EXCEPT !.volumeMounts = mounts, !.envFrom = "own"]

Volumes ==
    {Absent} \cup {[v |-> k, w |-> l] : k \in {"secret", "configMap", "projected"},
                                        l \in {"secret", "emptyDir"}}

PodReviews ==
    {Review("pod", [Skipping(skip) EXCEPT !.keep_volumes = keep],
        Pod(<<Mounting("app", m), Mounting("extra", Absent), Mounting("istio-proxy", n)>>,
            <<Mounting("init", k)>>, vols)) :
        skip \in {Absent, {"app"}, {"app", "extra"}}, keep \in {Absent, "true"},
        m \in SomeMounts, n \in SomeMounts, k \in SomeMounts, vols \in Volumes}
    \cup {Review(body, Annotated, Pod(<<Container("app")>>, << >>, Absent)) : body \in Bodies}
    \cup {Review("pod", Annotated, Pod(<<[Container("app") EXCEPT !.image = Absent]>>, << >>, Volume)),
          Review("pod", Annotated, Pod(<< >>, << >>, Volume))}

-----------------------------------------------------------------------------
(* Everything above, for the run that passes, and the pods of the one    *)
(* that ends in a violation.                                               *)
AllReviews == ShapeReviews \cup PodReviews

SlowStarts ==
    {Review("pod", [Annotated EXCEPT !.port = port],
            Pod(<<[Container("app") EXCEPT !.startupProbe = probe]>>, << >>, Absent)) :
        port \in {Absent, 8080, 9090}, probe \in {Absent, 9090}}
=============================================================================
