------------------------------ MODULE Admission -----------------------------
(***************************************************************************)
(* One pod on its way through admission: the API server sends a review,    *)
(* the webhook answers with a patch or without, and the API server applies *)
(* the patch one operation after the other and validates what comes out.   *)
(* The call may also time out, before or after the webhook handled it;     *)
(* failurePolicy Ignore then goes on with the pod as it came.              *)
(***************************************************************************)
EXTENDS AdmissionPatch

CONSTANT Reviews     \* the reviews that may arrive

(* What arrives as the body of POST /mutate. *)
Bodies == {"malformed",      \* not an AdmissionReview
           "noRequest",      \* an AdmissionReview without a request
           "undecodable",    \* its object is not a Pod
           "pod"}

(* The shape of what arrives.  The API server has validated the pod before *)
(* it asks a webhook, except for what only a later stage looks at.  Absent *)
(* is none of the things that it may be taken for: no list of environment  *)
(* entries and no set of volumes.                                          *)
ContainerFields ==
    {"name", "image", "ports", "livenessProbe", "readinessProbe", "startupProbe", "command",
     "args", "env", "envFrom", "volumeMounts", "resources"}

IsEnv(env) ==
    env = Absent \/ (/\ env \in Seq(ToSet(env))
                     /\ \A n \in DOMAIN env : DOMAIN env[n] = {"name", "value"})

IsContainer(c) ==
    /\ DOMAIN c = ContainerFields
    /\ c.ports = Absent \/ c.ports \subseteq u16
    /\ \A probe \in {c.livenessProbe, c.readinessProbe} : probe = Absent \/ probe \in u16
    /\ IsEnv(c.env)

(* admission::handle: the configuration that the annotations ask for. *)
Config(r) == parse_annotations(r.annotations, r.pod_name)

ASSUME ReviewsAssumption ==
    \A r \in Reviews :
        /\ r.body \in Bodies
        /\ DOMAIN r.pod = {"containers", "init_containers", "volumes"}
        /\ r.pod.containers \in Seq(ToSet(r.pod.containers))
        /\ \A c \in ToSet(r.pod.containers) :
              /\ IsContainer(c)
              /\ c.env # Absent /\ Config(r) # Skip =>
                    Absent \notin Seq(ToSet(c.env) \cup ToSet(InjectedEnv(Config(r))))
        /\ r.pod.volumes # Absent =>
              \A kept \in SUBSET DOMAIN r.pod.volumes : [v \in kept |-> r.pod.volumes[v]] # Absent

VARIABLES
    review,      \* the review, with the pod as its owner wrote it
    phase,       \* "sent", "answered", "patching", "admitted" or "refused"
    object,      \* the pod as the API server has it
    ops,         \* the operations of the patch still to be applied, in their groups
    status,      \* the answer carries a status message
    counted      \* the decision label counted for the review, Absent before

vars == <<review, phase, object, ops, status, counted>>

Init ==
    /\ review \in Reviews
    /\ phase = "sent"
    /\ object = review.pod
    /\ ops = << >>
    /\ status = FALSE
    /\ counted = Absent

(* admission::handle: the operations and the diagnostic of the reply. *)
handle(r) ==
    [ops |-> IF r.body = "pod" /\ Config(r) # Skip
             THEN build_patch(r.pod, Config(r)) ELSE << >>,
     status |-> r.body = "undecodable"]

(* A reply without operations carries no patch at all. *)
classify(reply) == IF IsEmptyPatch(reply.ops) THEN "skip" ELSE "inject"

(* server::mutate.  Every reply is allowed, whatever came in. *)
MalformedBody ==
    /\ phase = "sent" /\ review.body = "malformed"
    /\ status' = TRUE
    /\ counted' = "error"
    /\ phase' = "answered"
    /\ UNCHANGED <<review, object, ops>>

Mutate ==
    /\ phase = "sent" /\ review.body # "malformed"
    /\ ops' = handle(review).ops
    /\ status' = handle(review).status
    /\ counted' = classify(handle(review))
    /\ phase' = "answered"
    /\ UNCHANGED <<review, object>>

(* The API server: an operation that does not apply refuses the pod, and   *)
(* so does a result that is no valid pod.                                  *)
Foremost(i) == ops[i] # << >> /\ \A j \in 1..(i - 1) : ops[j] = << >>

ApplyNext ==
    /\ phase \in {"answered", "patching"}
    /\ \E i \in DOMAIN ops :
          /\ Foremost(i)
          /\ Applicable(object, Head(ops[i]))
          /\ object' = ApplyOp(object, Head(ops[i]))
          /\ ops' = [ops EXCEPT ![i] = Tail(@)]
    /\ phase' = "patching"
    /\ UNCHANGED <<review, status, counted>>

RefusePatch ==
    /\ phase \in {"answered", "patching"}
    /\ \E i \in DOMAIN ops : Foremost(i) /\ ~Applicable(object, Head(ops[i]))
    /\ phase' = "refused"
    /\ UNCHANGED <<review, object, ops, status, counted>>

VolumeNames(pod) == IF pod.volumes = Absent THEN {} ELSE DOMAIN pod.volumes

Valid(pod) ==
    /\ \A c \in ToSet(pod.containers) :
          /\ c.image # Absent
          /\ (c.ports = Absent) \/ (c.ports \subseteq u16 \ {0})
    /\ \A c \in ToSet(pod.containers) \cup ToSet(pod.init_containers) :
          Mounts(c) \subseteq VolumeNames(pod)

Validate ==
    /\ phase \in {"answered", "patching"} /\ IsEmptyPatch(ops)
    /\ phase' = IF Valid(object) THEN "admitted" ELSE "refused"
    /\ UNCHANGED <<review, object, ops, status, counted>>

(* failurePolicy: Ignore.  An answer that comes too late is dropped. *)
CallFails ==
    /\ phase \in {"sent", "answered"}
    /\ phase' = IF Valid(object) THEN "admitted" ELSE "refused"
    /\ ops' = << >>
    /\ UNCHANGED <<review, object, status, counted>>

Next == MalformedBody \/ Mutate \/ ApplyNext \/ RefusePatch \/ Validate \/ CallFails

Spec == Init /\ [][Next]_vars
=============================================================================
