-------------------------- MODULE RescueProperties --------------------------
(***************************************************************************)
(* What the auto-rescue controller is to guarantee, stated over the state  *)
(* machine of module Rescue.                                               *)
(***************************************************************************)
EXTENDS Rescue

Exists == pod # NoPod
Stubbed(c) == Exists /\ pod.image[c] \in Dummies
Recorded(c) == Exists /\ c \in Keys(pod.originals)

-----------------------------------------------------------------------------
(* State invariants *)

(* A container shows a dummy exactly while the original-image annotation   *)
(* holds an entry for it, and the entry is the image the owner asked for:  *)
(* whatever the watch cache misses, however often stub and revert patches  *)
(* built from stale objects land, the way back is never lost.              *)
DummyIsRecorded ==
    Exists => \A c \in Containers :
        \/ pod.image[c] = template[c] /\ pod.originals[c] = NoImage
        \/ pod.image[c] \in Dummies /\ pod.originals[c] = template[c]

(* With several containers a record can be overwritten by a patch built    *)
(* from an object older than that record.  For a controller that runs      *)
(* alone, with no patch of an earlier process on its way, on a pod that    *)
(* lives on, under a kubelet that forgets no failed pull (FlakyReports =   *)
(* {pullFail}), the container it belonged to is one whose image has        *)
(* already been pushed.                                                    *)
UnpublishedNeverLost ==
    \A c \in Containers : Stubbed(c) /\ ~Recorded(c) => template[c] \in published

(* A sidecar keeps the image its owner gave it and is never recorded, so   *)
(* neither a stub nor a revert built for any older object can touch it.    *)
SidecarsUntouched ==
    Exists => \A c \in Sidecars : /\ pod.image[c] = template[c]
                                  /\ pod.originals[c] = NoImage

-----------------------------------------------------------------------------
(* Action properties *)

Same == Exists /\ pod' # NoPod   \* a step from one version of the pod to the next

(* A container goes back from a dummy to a real image only when that image *)
(* has been pushed, even if the revert was planned long before it lands or *)
(* lands on another life of the pod.                                       *)
NoPrematureRevert ==
    [][Same => \A c \in Containers :
          pod.image[c] \in Dummies /\ pod'.image[c] \notin Dummies
              => pod'.image[c] \in published]_pod

(* Between creation and deletion a container's image is only ever the one  *)
(* its owner asked for or a dummy.                                         *)
NoForeignImage ==
    [][Same => \A c \in Containers :
          pod'.image[c] \in {template'[c]} \cup Dummies]_pod

(* The whole state machine keeps the contract with the owner: every step   *)
(* of the cluster and the controllers is one of the contract's, or changes *)
(* nothing the owner sees.                                                 *)
Contract == INSTANCE RescueContract WITH
    exists <- Exists,
    shown <- IF Exists THEN pod.image ELSE << >>,
    owed <- IF Exists THEN pod.originals ELSE NoOriginals,
    pushed <- published \cap AppImages

ContractSpec == Contract!Spec

-----------------------------------------------------------------------------
(* Liveness, once the environment is calm *)

(* Every container of an opted-in pod that is not a sidecar ends up        *)
(* running for good, on its own image or on a dummy: running is to have    *)
(* pulled the image, StubbedPod says what becomes of it then.              *)
EveryPodBoots ==
    <>[](calm /\ OptedIn(pod) =>
            \A c \in Containers \ Sidecars : pod.status[c] = "running")

(* When everything the owner asked for has been pushed, stubbing and       *)
(* reverting come to an end with the pod exactly as the owner asked.       *)
EventuallyRestored ==
    <>[](calm /\ OptedIn(pod) /\ (\A c \in Containers : template[c] \in published)
            => pod.image = template /\ pod.originals = NoOriginals)

-----------------------------------------------------------------------------
(* What a document claims and the code does not do *)

(* "stubby_rescued_pods - currently-stubbed pods": the gauge only rises   *)
(* when a pod that was not stubbed becomes one that is.                    *)
GaugeCountsRescuedPods ==
    [][\A k \in Controllers : gauge'[k] > gauge[k] =>
          ~(\E c \in Containers : Recorded(c))]_vars
=============================================================================
