--------------------------- MODULE RescueDecision ---------------------------
(***************************************************************************)
(* The data of the auto-rescue controller and its pure decisions: which    *)
(* containers of a pod are to be stubbed, which plan a reconcile follows,  *)
(* and the two patches it may send.  Nothing here has state; the module    *)
(* Rescue runs these decisions against a cluster.                          *)
(*                                                                         *)
(* A pod is the part of the API object the controller reads or writes.  An *)
(* annotation map {container: image} is a total function whose value       *)
(* NoImage stands for a missing key, so an absent or malformed annotation  *)
(* is the function that is NoImage everywhere.                             *)
(***************************************************************************)
EXTENDS FiniteSets

CONSTANTS
    Containers,      \* the containers of the pod, by name
    Sidecars,        \* those whose name has an ALWAYS_SKIP prefix
    AppImages,       \* the images developers ask for
    BackendImage,    \* RescueConfig.backend_image
    FrontendImage,   \* RescueConfig.frontend_image
    NoImage,         \* a key missing from an image map
    NoPod            \* the pod does not exist

Dummies == {BackendImage, FrontendImage}
Images == AppImages \cup Dummies

ASSUME SidecarsAssumption == Sidecars \subseteq Containers
ASSUME ImagesAssumption == Dummies \cap AppImages = {} /\ NoImage \notin Images

(* The `stubby.io/type` annotation: anything but "frontend" is a backend. *)
Types == {"frontend", "backend"}

(* What containerStatuses says of a container: nothing yet (or any waiting *)
(* reason but the two below), one of PULL_FAILURE_REASONS, or running.     *)
Statuses == {"creating", "pullFail", "running"}
PULL_FAILURE_REASONS == {"pullFail"}

ImageMaps == [Containers -> Images \cup {NoImage}]
NoOriginals == [c \in Containers |-> NoImage]

Pods == [optIn : BOOLEAN,                      \* auto-rescue = "true"
         type : Types,                         \* stubby.io/type
         image : [Containers -> Images],       \* spec.containers[].image
         originals : ImageMaps,                \* stubby.io/original-image
         status : [Containers -> Statuses]]    \* status.containerStatuses[]

ASSUME NoPodAssumption == NoPod \notin Pods

-----------------------------------------------------------------------------
(* decision.rs *)

(* Faulty variant: the prefixes are not compared. *)
no_sidecar(c) == FALSE

is_sidecar(c) == c \in Sidecars

Keys(map) == {c \in Containers : map[c] # NoImage}

(* Faulty variant: a missing key is taken for an image to check.           *)
ValuesOfAll(map) == {map[c] : c \in Containers}

Values(map) == {map[c] : c \in Keys(map)}

rescued_originals(p) == p.originals

dummy_image(p) == IF p.type = "frontend" THEN FrontendImage ELSE BackendImage

(* Faulty variant: a recorded container is not skipped. *)
containers_to_stub_again(p) ==
    {c \in Containers : ~is_sidecar(c) /\ p.status[c] \in PULL_FAILURE_REASONS}

(* The containers to stub.  Their original_image is the spec image of the  *)
(* same object, their dummy_image is dummy_image(p).                       *)
containers_to_stub(p) ==
    {c \in Containers : /\ ~is_sidecar(c)
                        /\ c \notin Keys(rescued_originals(p))
                        /\ p.status[c] \in PULL_FAILURE_REASONS}

-----------------------------------------------------------------------------
(* reconcile.rs *)

(* Faulty variants: one available original is enough; none is needed.      *)
plan_action_any(candidates, rescued, available) ==
    IF candidates # {} THEN "stub"
    ELSE IF Values(rescued) \cap available # {} THEN "revert" ELSE "nothing"
plan_action_blind(candidates, rescued, available) ==
    IF candidates # {} THEN "stub"
    ELSE IF Keys(rescued) # {} THEN "revert" ELSE "nothing"

(* Stub wins over revert; a revert needs every recorded original to be     *)
(* available.                                                              *)
plan_action(candidates, rescued, available) ==
    IF candidates # {} THEN "stub"
    ELSE IF Keys(rescued) # {} /\ Values(rescued) \subseteq available
         THEN "revert"
         ELSE "nothing"

(* A strategic-merge patch as the controller builds it: the images it sets *)
(* (NoImage: container not listed) and the new value of the annotation.    *)
Patches == [image : ImageMaps, originals : ImageMaps]

(* Faulty variants: earlier records are dropped; every item is recorded    *)
(* with the image of one of them.                                          *)
build_stub_patch_fresh(p, items) ==
    [image |-> [c \in Containers |-> IF c \in items THEN dummy_image(p) ELSE NoImage],
     originals |-> [c \in Containers |-> IF c \in items THEN p.image[c] ELSE NoImage]]
build_stub_patch_mixed(p, items) ==
    [image |-> [c \in Containers |-> IF c \in items THEN dummy_image(p) ELSE NoImage],
     originals |-> [c \in Containers |-> IF c \in items
                                         THEN p.image[CHOOSE d \in items : TRUE]
                                         ELSE rescued_originals(p)[c]]]

build_stub_patch(p, items) ==
    [image |-> [c \in Containers |-> IF c \in items THEN dummy_image(p) ELSE NoImage],
     originals |-> [c \in Containers |-> IF c \in items THEN p.image[c]
                                         ELSE rescued_originals(p)[c]]]

(* Faulty variant: the annotation stays. *)
build_revert_patch_kept(rescued) == [image |-> rescued, originals |-> rescued]

build_revert_patch(rescued) == [image |-> rescued, originals |-> NoOriginals]

(* The API server's strategic merge: containers are merged by name, the    *)
(* annotation is replaced as one string, everything else stays.            *)
StrategicMerge(p, patch) ==
    [p EXCEPT !.image = [c \in Containers |-> IF patch.image[c] = NoImage
                                              THEN p.image[c]
                                              ELSE patch.image[c]],
              !.originals = patch.originals]
=============================================================================
