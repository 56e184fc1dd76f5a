----------------------------- MODULE MCStubbedPod ----------------------------
(* The manifests and annotations with which StubbedPod is checked. *)
EXTENDS StubbedPod

App == [name |-> "app", image |-> "own", ports |-> Absent, livenessProbe |-> Absent,
        readinessProbe |-> Absent, startupProbe |-> Absent, command |-> "own",
        args |-> Absent, env |-> Absent, envFrom |-> Absent, volumeMounts |-> Absent,
        resources |-> Absent]

Env(name, value) == [name |-> name, value |-> value]

(* No environment, a declared STUBBY_PORT that is a port, zero, blank or   *)
(* out of range, one that the owner declares twice, and an address of its  *)
(* own.                                                                    *)
Envs ==
    {Absent, << >>, <<Env("STUBBY_PORT", 9090)>>, <<Env("STUBBY_PORT", 0)>>,
     <<Env("STUBBY_PORT", Blank)>>, <<Env("STUBBY_PORT", 65536)>>,
     <<Env("STUBBY_PORT", 80), Env("STUBBY_APP_NAME", "mine"), Env("STUBBY_PORT", 9090)>>,
     <<Env("STUBBY_BACKEND_LISTEN", Address("127.0.0.1", 8080))>>,
     <<Env("STUBBY_FRONTEND_LISTEN", Blank), Env("STUBBY_BACKEND_LISTEN", Blank)>>}

Ports == {Absent, 8080, 9090}

SomeManifests ==
    {[App EXCEPT !.env = env, !.livenessProbe = l, !.readinessProbe = r, !.startupProbe = s,
                 !.command = cmd] :
        cmd \in {Absent, "own"}, env \in Envs, l \in Ports, r \in Ports, s \in {Absent, 9090}}

NoAnnotations == [type |-> Absent, app_name |-> Absent, port |-> Absent,
                  image_override |-> Absent, skip_containers |-> Absent,
                  keep_env_from |-> Absent, keep_volumes |-> Absent]

SomeAnnotations ==
    {[NoAnnotations EXCEPT !.type = type, !.port = port] :
        type \in {Absent, "backend", "frontend"}, port \in {Absent, 9090}}
=============================================================================
