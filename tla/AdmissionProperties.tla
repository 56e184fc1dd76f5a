------------------------ MODULE AdmissionProperties ------------------------
(***************************************************************************)
(* What the admission webhook is to guarantee of a pod that the API server *)
(* has passed through it, stated over the state machine of Admission.      *)
(***************************************************************************)
EXTENDS Admission

Cfg == Config(review)
Written == review.pod                     \* the pod as its owner wrote it

(* The webhook's patch has been applied in full. *)
Injected == phase = "admitted" /\ counted = "inject" /\ object # Written

Entries(pod) == DOMAIN pod.containers
Kept(i) == LET name == Written.containers[i].name  skip == review.annotations.skip_containers
           IN  name \in SidecarNames \/ (skip # Absent /\ name \in skip)

-----------------------------------------------------------------------------
(* The pod keeps the shape of a pod while the patch is being applied. *)
TypeOK ==
    /\ review.body \in Bodies
    /\ phase \in {"sent", "answered", "patching", "admitted", "refused"}
    /\ status \in BOOLEAN
    /\ counted \in Optional({"inject", "skip", "error"})
    /\ Entries(object) = Entries(Written)
    /\ \A i \in Entries(object) :
          /\ IsContainer(object.containers[i])
          /\ object.containers[i].name = Written.containers[i].name

(* A pod that is valid as its owner wrote it is never lost to the patch:   *)
(* each operation of build_patch finds its target in what the operations   *)
(* before it left, and no volume is pruned that something left in the pod  *)
(* (a skipped container, an init container) still mounts.  A port of "0",  *)
(* which parse::<u16>() takes and no pod may have, is left out.            *)
PatchAdmissible ==
    phase = "refused" /\ review.annotations.port # 0 => ~Valid(Written)

(* A container that is a known sidecar or named in skip-containers leaves  *)
(* admission as it was written, with every volume it mounts still defined  *)
(* as it was, whichever of the other containers were mutated.              *)
SkippedUntouched ==
    counted = "inject" => \A i \in Entries(Written) :
        Kept(i) =>
            /\ object.containers[i] = Written.containers[i]
            /\ \A v \in Mounts(Written.containers[i]) \cap VolumeNames(Written) :
                  v \in VolumeNames(object) /\ object.volumes[v] = Written.volumes[v]

(* A patch is taken as a whole or not at all, also when the call times out *)
(* after the webhook has answered it: a pod that goes in is its owner's,   *)
(* or one whose mutated containers all start the dummy, with no command,   *)
(* no arguments and no lack of resources left from the application, and    *)
(* that is counted as injected.                                            *)
WholeOrNothing ==
    phase = "admitted" /\ object # Written =>
        /\ counted = "inject"
        /\ \A i \in Entries(object) : Kept(i) \/
              LET c == object.containers[i] IN
              /\ c.image = chosen_image(Cfg)
              /\ c.command = Absent /\ c.args = Absent
              /\ c.resources # Absent

(* The references to other objects that the webhook removes are gone from  *)
(* a stubbed pod, but for those it has to keep.  A mutated container has   *)
(* an envFrom or mounts only for a keep-... annotation.  A secret,         *)
(* configMap or projected volume is there for keep-volumes, or is mounted  *)
(* by a container that the webhook does not mutate or by an init container.*)
(* Left out are single env entries with a valueFrom and volumes of other   *)
(* kinds, a claim say, which the webhook does not look at.                 *)
Held(pod) ==
    {v \in VolumeNames(pod) : pod.volumes[v] \in {"secret", "configMap", "projected"}}

LeftoversAreKept ==
    Injected =>
        /\ \A i \in Entries(object) : Kept(i) \/
              /\ object.containers[i].envFrom = Absent \/ Cfg.keep_env_from
              /\ object.containers[i].volumeMounts = Absent \/ Cfg.keep_volumes
        /\ Cfg.keep_volumes \/ \A v \in Held(object) :
              \/ \E i \in Entries(object) : Kept(i) /\ v \in Mounts(object.containers[i])
              \/ \E c \in ToSet(object.init_containers) : v \in Mounts(c)

(* The dummy listens where the pod says it does: in each mutated container *)
(* the ports, both probes and the STUBBY_PORT that takes effect (the last  *)
(* one, whatever the owner's env said before) are one port.                *)
EffectivePort(env) ==
    LET ports == {n \in DOMAIN env : env[n].name = "STUBBY_PORT"}
    IN  IF ports = {} THEN Absent
        ELSE env[CHOOSE n \in ports : \A m \in ports : m <= n].value

PortsAgree ==
    Injected => \A i \in Entries(object) : Kept(i) \/
        LET c == object.containers[i] IN
        /\ c.ports = {c.livenessProbe}
        /\ c.readinessProbe = c.livenessProbe
        /\ EffectivePort(c.env) = c.livenessProbe

(* What the owner chose survives the overlay at every point of it: the     *)
(* environment is only ever extended, resources that are set stay, init    *)
(* containers stay, and so does every volume whose absence cannot hold the *)
(* pod up.  keep-env-from keeps every envFrom, keep-volumes every mount    *)
(* and every volume, whatever its kind.                                    *)
Keeps(annotation) == Cfg # Skip /\ Cfg[annotation]

OwnersChoicesKept ==
    /\ object.init_containers = Written.init_containers
    /\ \A i \in Entries(object) :
          LET old == Written.containers[i]  new == object.containers[i] IN
          /\ old.env # Absent => IsPrefix(old.env, new.env)
          /\ old.resources # Absent => new.resources = old.resources
          /\ Keeps("keep_env_from") => new.envFrom = old.envFrom
          /\ Keeps("keep_volumes") => new.volumeMounts = old.volumeMounts
    /\ Keeps("keep_volumes") => object.volumes = Written.volumes
    /\ \A v \in VolumeNames(Written) \ Held(Written) :
          v \in VolumeNames(object) /\ object.volumes[v] = Written.volumes[v]

-----------------------------------------------------------------------------
(* What the documentation says and the code does not do.                   *)

(* README: every pod boots green.  So a startupProbe, too, asks a dummy on *)
(* the port it listens on; but patch.rs replaces the other two kinds only. *)
BootsGreen ==
    Injected => \A i \in Entries(object) :
        Kept(i) \/ object.containers[i].startupProbe \in Optional(object.containers[i].ports)
=============================================================================
