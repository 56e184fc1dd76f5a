-------------------------- MODULE RescueLossProofs --------------------------
(***************************************************************************)
(* What becomes of the records of a pod with many containers.  A patch can *)
(* drop a record (the run RescueLostRecord shows one that does); the       *)
(* theorem of this module says when it never drops one that is still       *)
(* needed: a controller that runs alone, on a pod that lives on, with a    *)
(* kubelet that never forgets a failed pull.                               *)
(***************************************************************************)
EXTENDS RescueProofs

(* Nor is a patch of an earlier process still on its way.                  *)
OneController == \A j, k \in Controllers : j = k
LivesOn == StableName = FALSE
NothingForgotten == FlakyReports \subseteq PULL_FAILURE_REASONS

-----------------------------------------------------------------------------
(* The containers for which a record is still needed once they are stubbed.*)
Unpushed == {c \in Containers \ Sidecars : template[c] \notin published}

(* Container c of version v has been recorded or is about to be: a stub    *)
(* planned from v leaves c on record.                                      *)
Flagged(v, c) == v.originals[c] # NoImage \/ v.status[c] \in PULL_FAILURE_REASONS

(* Version w comes after v: what v flags, w flags. *)
Before(U, v, w) ==
    v # NoPod /\ w # NoPod => \A c \in U : Flagged(v, c) => Flagged(w, c)

(* A container of version v shows its own image or has it on record. *)
Honest(U, t, v) ==
    v # NoPod => \A c \in U : /\ v.originals[c] \in {NoImage, t[c]}
                              /\ v.image[c] = t[c] \/ v.originals[c] = t[c]

(* A patch built from version v drops none of the records of p. *)
Keeps(U, p, v) ==
    v # NoPod => \A c \in U : p.originals[c] # NoImage => Flagged(v, c)

(* What a controller works on (v) is older than what its watch delivered   *)
(* (w), and that is older than what is still under way to it (q).          *)
Ordered(U, v, w, q) ==
    /\ Before(U, v, w)
    /\ \A i \in 1..Len(q) : Before(U, v, q[i]) /\ Before(U, w, q[i])
    /\ \A i, j \in 1..Len(q) : i < j => Before(U, q[i], q[j])

(* The inductive invariant. *)
History ==
    pod # NoPod =>
        /\ \A v \in Known : /\ Honest(Unpushed, template, v)
                            /\ Before(Unpushed, v, pod)
                            /\ Keeps(Unpushed, pod, v)
        /\ \A k \in Controllers : Ordered(Unpushed, snap[k], cache[k], stream[k])

-----------------------------------------------------------------------------
(* The order of versions *)

(* Pushing an image makes fewer records needed. *)
LEMMA UnpushedShrinks ==
    ASSUME TypeOK, [Next]_vars, UNCHANGED template
    PROVE  Unpushed' \subseteq Unpushed
BY PublishStep DEF Unpushed

(* What holds of many containers holds of fewer. *)
LEMMA FewerContainers ==
    ASSUME NEW U, NEW V \in SUBSET U, NEW v, NEW w, NEW t
    PROVE  /\ Before(U, v, w) => Before(V, v, w)
           /\ Honest(U, t, v) => Honest(V, t, v)
           /\ Keeps(U, w, v) => Keeps(V, w, v)
BY DEF Before, Honest, Keeps

LEMMA BeforeTransitive ==
    ASSUME NEW U, NEW u, NEW v, NEW w, v # NoPod, Before(U, u, v), Before(U, v, w)
    PROVE  Before(U, u, w)
BY DEF Before

(* The pod that is being reconciled is the oldest version there is. *)
LEMMA SnapFirst ==
    ASSUME OneController, TypeOK, History, pod # NoPod, NEW k \in Controllers,
           NEW v \in Known
    PROVE  Before(Unpushed, snap[k], v)
<1>1. Ordered(Unpushed, snap[k], cache[k], stream[k]) /\ Before(Unpushed, snap[k], pod)
  BY DEF History, Known
<1>2. \/ v = pod \/ v = cache[k] \/ v = snap[k]
      \/ \E i \in 1..Len(stream[k]) : v = stream[k][i]
  BY DEF Known, OneController
<1> QED
  BY <1>1, <1>2 DEF Ordered, Before

(* How the versions move: what is written joins the end of the stream,     *)
(* what is delivered leaves its front, a reconcile takes what the cache    *)
(* has, and a restart starts from the pod as it is.                        *)
LEMMA WatchStep ==
    ASSUME TypeOK, [Next]_vars, NEW k \in Controllers
    PROVE  \/ /\ stream'[k] \in {stream[k], Append(stream[k], pod')}
              /\ cache'[k] = cache[k]
              /\ snap'[k] \in {snap[k], NoPod}
           \/ /\ stream'[k] = stream[k]
              /\ cache'[k] = cache[k]
              /\ snap'[k] = cache[k]
           \/ /\ stream[k] # << >>
              /\ stream'[k] = Tail(stream[k])
              /\ cache'[k] = Head(stream[k])
              /\ snap'[k] = snap[k]
           \/ /\ stream'[k] \in {<< >>, <<pod'>>}
              /\ cache'[k] = NoPod
              /\ snap'[k] = NoPod
<1> USE DEF cluster, watch, run
<1> DEFINE Stays == /\ stream'[k] \in {stream[k], Append(stream[k], pod')}
                    /\ cache'[k] = cache[k]
                    /\ snap'[k] \in {snap[k], NoPod}
<1>1. CASE UNCHANGED vars
  BY <1>1 DEF vars
<1>2. CASE Owner \/ Kubelet
  BY <1>2 DEF Owner, Create, Delete, Annotate, Kubelet, KubeletReport, KubeletFlake,
              Report, Write, TypeOK
<1>3. CASE Registry \/ Calm
  BY <1>3 DEF Registry, Publish, Calm
<1>4. ASSUME NEW j \in Controllers, Act(j)
      PROVE  Stays
  BY <1>4 DEF Act, ApplyStub, ApplyRevert, Nothing, PatchFails, Return, Write, TypeOK
<1>5. ASSUME NEW j \in Controllers, Ignore(j) \/ Check(j)
      PROVE  Stays
  BY <1>5 DEF Ignore, Check, CheckImage, TypeOK
<1>6. ASSUME NEW j \in Controllers, Reconcile(j)
      PROVE  Stays \/ (snap'[k] = cache[k] /\ UNCHANGED <<stream, cache>>)
  BY <1>6 DEF Reconcile, TypeOK
<1>7. ASSUME NEW j \in Controllers, Deliver(j)
      PROVE  \/ Stays
             \/ /\ stream[k] # << >>
                /\ stream'[k] = Tail(stream[k])
                /\ cache'[k] = Head(stream[k])
                /\ snap'[k] = snap[k]
  BY <1>7 DEF Deliver, TypeOK
<1>8. ASSUME NEW j \in Controllers, Restart(j)
      PROVE  \/ Stays
             \/ /\ stream'[k] \in {<< >>, <<pod'>>}
                /\ cache'[k] = NoPod
                /\ snap'[k] = NoPod
  BY <1>8 DEF Restart, TypeOK
<1> QED
  BY <1>1, <1>2, <1>3, <1>4, <1>5, <1>6, <1>7, <1>8 DEF Next, Controller

-----------------------------------------------------------------------------
(* What a step does to the pod *)

(* Under a name that is not used again, a pod that is gone stays gone, and *)
(* nobody asks for other images.                                           *)
LEMMA LifeStep ==
    ASSUME LivesOn, TypeOK, [Next]_vars
    PROVE  UNCHANGED template /\ (pod' # NoPod => pod # NoPod)
<1> USE DEF cluster
<1> QED
  BY NoPodAssumption DEF LivesOn, vars, Next, Owner, Create, Delete, Annotate, Kubelet,
     KubeletReport, KubeletFlake, Report, Registry, Publish, Calm, Controller, Deliver,
     Restart, Ignore, Reconcile, Check, CheckImage, Act, ApplyStub, ApplyRevert, Nothing,
     PatchFails

(* What the pod has become is the successor of what it was, is honest, and *)
(* keeps nothing on record that a version somebody holds does not flag.    *)
Succeeds(U, t, p, q) ==
    /\ Before(U, p, q)
    /\ Honest(U, t, q)
    /\ \A v \in Known : Keeps(U, q, v)

LEMMA SuccessorRefreshed ==
    ASSUME NothingForgotten, TypeOK, History, pod # NoPod, Refreshed
    PROVE  Succeeds(Unpushed, template, pod, pod')
<1>1. Honest(Unpushed, template, pod) /\ \A v \in Known : Keeps(Unpushed, pod, v)
  BY DEF History, Known
<1>2. ASSUME NEW c \in Unpushed, Flagged(pod, c)
      PROVE  Flagged(pod', c)
  <2>1. c \in Containers /\ template[c] \notin published
    BY DEF Unpushed
  <2>2. CASE pod.originals[c] # NoImage
    BY <2>2 DEF Refreshed, Flagged
  <2>3. CASE pod.originals[c] = NoImage
    <3>1. template[c] # NoImage
      BY <2>1, ImagesAssumption DEF TypeOK, Images
    <3>2. pod.image[c] \notin published
      BY <1>1, <2>1, <2>3, <3>1 DEF Honest
    <3>3. pod'.status[c] \in PULL_FAILURE_REASONS
      BY <1>2, <2>1, <2>3, <3>2
         DEF Flagged, DueStatus, Refreshed, NothingForgotten, PULL_FAILURE_REASONS
    <3> QED
      BY <3>3 DEF Flagged
  <2> QED
    BY <2>2, <2>3
<1>3. Before(Unpushed, pod, pod')
  BY <1>2 DEF Before
<1> QED
  BY <1>1, <1>3, NoPodAssumption DEF Refreshed, Succeeds, Honest, Keeps

LEMMA SuccessorStubbed ==
    ASSUME OneController, TypeOK, History, pod # NoPod, NEW k \in Controllers, StubbedBy(k)
    PROVE  Succeeds(Unpushed, template, pod, pod')
<1>1. snap[k] \in Pods /\ snap[k] # NoPod /\ snap[k] \in Known
  BY NoPodAssumption DEF StubbedBy, Known
<1>2. /\ Honest(Unpushed, template, pod) /\ Honest(Unpushed, template, snap[k])
      /\ Keeps(Unpushed, pod, snap[k])
  BY <1>1 DEF History, Known
<1>3. \A c \in Containers : template[c] # NoImage /\ snap[k].image[c] # NoImage
  BY <1>1, ImagesAssumption DEF TypeOK, Images, Pods
<1>4. \A c \in Unpushed : c \in Containers /\ c \notin Sidecars
  BY DEF Unpushed
<1>5. ASSUME NEW c \in Unpushed
      PROVE  /\ pod'.originals[c] # NoImage <=> Flagged(snap[k], c)
             /\ pod'.originals[c] \in {NoImage, template[c]}
             /\ pod'.image[c] = template[c] \/ pod'.originals[c] = template[c]
  <2>1. CASE c \in containers_to_stub(snap[k])
    <3>1. snap[k].originals[c] = NoImage /\ Flagged(snap[k], c)
      BY <2>1 DEF containers_to_stub, Keys, rescued_originals, Flagged
    <3>2. snap[k].image[c] = template[c]
      BY <1>1, <1>2, <1>3, <1>4, <3>1 DEF Honest
    <3> QED
      BY <1>3, <1>4, <2>1, <3>1, <3>2, StubFields
  <2>2. CASE c \notin containers_to_stub(snap[k])
    <3>1. Flagged(snap[k], c) <=> snap[k].originals[c] # NoImage
      BY <1>4, <2>2 DEF containers_to_stub, is_sidecar, Keys, rescued_originals, Flagged
    <3>2. pod'.image[c] = pod.image[c] /\ pod'.originals[c] = snap[k].originals[c]
      BY <1>4, <2>2, StubFields
    <3>3. pod.originals[c] = template[c] => snap[k].originals[c] = template[c]
      BY <1>1, <1>2, <1>3, <1>4, <3>1 DEF Keeps, Honest
    <3> QED
      BY <1>1, <1>2, <3>1, <3>2, <3>3 DEF Honest
  <2> QED
    BY <2>1, <2>2
<1>6. pod'.status = pod.status
  BY DEF StubbedBy, StrategicMerge, Pods
<1>7. Before(Unpushed, pod, pod')
  BY <1>1, <1>2, <1>5, <1>6 DEF Before, Keeps, Flagged
<1>8. \A v \in Known : Keeps(Unpushed, pod', v)
  BY <1>1, <1>5, SnapFirst DEF Keeps, Before
<1> QED
  BY <1>5, <1>7, <1>8 DEF Succeeds, Honest

LEMMA SuccessorReverted ==
    ASSUME OneController, TypeOK, History, AvailableIsPublished, pod # NoPod,
           NEW k \in Controllers, RevertedBy(k)
    PROVE  Succeeds(Unpushed, template, pod, pod')
<1>1. snap[k] \in Pods /\ snap[k] # NoPod /\ snap[k] \in Known
  BY NoPodAssumption DEF RevertedBy, Known
<1>2. /\ Honest(Unpushed, template, pod) /\ Honest(Unpushed, template, snap[k])
      /\ Keeps(Unpushed, pod, snap[k])
  BY <1>1 DEF History, Known
<1>3. ASSUME NEW c \in Unpushed
      PROVE  /\ snap[k].originals[c] = NoImage
             /\ pod.originals[c] = NoImage
             /\ pod.image[c] = template[c]
             /\ c \in Containers
  <2>1. c \in Containers /\ c \notin Sidecars /\ template[c] \notin published
    BY DEF Unpushed
  <2>2. snap[k].originals[c] = NoImage
    <3>1. SUFFICES ASSUME snap[k].originals[c] # NoImage PROVE FALSE
      OBVIOUS
    <3>2. snap[k].originals[c] = template[c]
      BY <1>1, <1>2, <3>1 DEF Honest
    <3>3. template[c] \in Values(rescued_originals(snap[k]))
      BY <2>1, <3>1, <3>2 DEF Values, Keys, rescued_originals
    <3> QED
      BY <2>1, <3>3 DEF RevertedBy, AvailableIsPublished
  <2>3. ~Flagged(snap[k], c)
    BY <2>1, <2>2
       DEF RevertedBy, containers_to_stub, is_sidecar, Keys, rescued_originals, Flagged
  <2>4. pod.originals[c] = NoImage
    BY <1>1, <1>2, <2>3 DEF Keeps
  <2>5. template[c] # NoImage
    BY <2>1, ImagesAssumption DEF TypeOK, Images
  <2> QED
    BY <1>2, <2>1, <2>2, <2>4, <2>5 DEF Honest
<1>4. \A c \in Unpushed : pod'.originals[c] = NoImage /\ pod'.image[c] = template[c]
  BY <1>3, RevertFields
<1>5. pod'.status = pod.status
  BY DEF RevertedBy, StrategicMerge, Pods
<1> QED
  BY <1>3, <1>4, <1>5 DEF Succeeds, Before, Honest, Keeps, Flagged

LEMMA Successor ==
    ASSUME OneController, LivesOn, NothingForgotten, TypeOK, History,
           AvailableIsPublished, [Next]_vars, pod' # NoPod
    PROVE  Succeeds(Unpushed', template, pod, pod')
<1>1. UNCHANGED template /\ pod # NoPod
  BY LifeStep
<1>2. Succeeds(Unpushed, template, pod, pod')
  <2>1. CASE UNCHANGED <<pod, template>>
    BY <1>1, <2>1 DEF Succeeds, History, Known, Before
  <2>2. CASE Refreshed
    BY <1>1, <2>2, SuccessorRefreshed
  <2>3. ASSUME NEW k \in Controllers, StubbedBy(k) \/ RevertedBy(k)
        PROVE  Succeeds(Unpushed, template, pod, pod')
    BY <1>1, <2>3, SuccessorStubbed, SuccessorReverted
  <2> QED
    BY <1>1, <2>1, <2>2, <2>3, PodStep DEF Created
<1> QED
  BY <1>1, <1>2, UnpushedShrinks, FewerContainers DEF Succeeds

-----------------------------------------------------------------------------
(* No record that is still needed is lost *)

LEMMA OrderNext ==
    ASSUME OneController, LivesOn, NothingForgotten, TypeOK, History,
           AvailableIsPublished, [Next]_vars, pod' # NoPod, NEW k \in Controllers
    PROVE  Ordered(Unpushed', snap'[k], cache'[k], stream'[k])
<1> DEFINE U == Unpushed'
<1>1. U \subseteq Unpushed /\ pod # NoPod
  BY LifeStep, UnpushedShrinks
<1>2. Before(U, pod, pod') /\ TypeOK'
  BY Successor, TypeNext DEF Succeeds
<1>3. /\ Before(U, snap[k], cache[k])
      /\ \A i \in 1..Len(stream[k]) : /\ Before(U, snap[k], stream[k][i])
                                      /\ Before(U, cache[k], stream[k][i])
      /\ \A i, j \in 1..Len(stream[k]) : i < j => Before(U, stream[k][i], stream[k][j])
  BY <1>1, FewerContainers DEF History, Ordered
<1>4. \A v \in Known : Before(U, v, pod')
  BY <1>1, <1>2, FewerContainers, BeforeTransitive DEF History
<1>5. /\ snap[k] \in Known /\ cache[k] \in Known
      /\ \A i \in 1..Len(stream[k]) : stream[k][i] \in Known
      /\ stream[k] \in Seq(Versions)
  BY DEF Known, TypeOK
<1>6. /\ \A v : Before(U, NoPod, v) /\ Before(U, v, NoPod)
      /\ \A v : Before(U, v, v)
  BY DEF Before
<1> HIDE DEF U
<1>7. CASE /\ stream'[k] = stream[k]
           /\ cache'[k] = cache[k]
           /\ snap'[k] \in {snap[k], NoPod, cache[k]}
  BY <1>3, <1>6, <1>7 DEF Ordered, U
<1>8. CASE /\ stream'[k] = Append(stream[k], pod')
           /\ cache'[k] = cache[k]
           /\ snap'[k] \in {snap[k], NoPod}
  <2>1. /\ Len(stream'[k]) = Len(stream[k]) + 1 /\ Len(stream[k]) \in Nat
        /\ stream'[k][Len(stream[k]) + 1] = pod'
        /\ \A i \in 1..Len(stream[k]) : stream'[k][i] = stream[k][i]
    BY <1>2, <1>5, <1>8 DEF TypeOK
  <2>2. \A i \in 1..Len(stream'[k]) : i \in 1..Len(stream[k]) \/ i = Len(stream[k]) + 1
    BY <2>1
  <2>3. \A i \in 1..Len(stream'[k]) : /\ Before(U, snap'[k], stream'[k][i])
                                      /\ Before(U, cache'[k], stream'[k][i])
    BY <1>3, <1>4, <1>5, <1>6, <1>8, <2>1, <2>2
  <2>4. ASSUME NEW i \in 1..Len(stream'[k]), NEW j \in 1..Len(stream'[k]), i < j
        PROVE  Before(U, stream'[k][i], stream'[k][j])
    <3>1. i \in 1..Len(stream[k])
      BY <2>1, <2>4
    <3> QED
      BY <1>3, <1>4, <1>5, <2>1, <2>2, <2>4, <3>1
  <2>5. Before(U, snap'[k], cache'[k])
    BY <1>3, <1>6, <1>8
  <2> QED
    BY <2>3, <2>4, <2>5 DEF Ordered, U
<1>9. CASE /\ stream[k] # << >>
           /\ stream'[k] = Tail(stream[k])
           /\ cache'[k] = Head(stream[k])
           /\ snap'[k] = snap[k]
  <2>1. /\ Len(stream[k]) \in Nat \ {0} /\ Len(stream'[k]) = Len(stream[k]) - 1
        /\ cache'[k] = stream[k][1]
        /\ \A i \in 1..Len(stream'[k]) : stream'[k][i] = stream[k][i + 1]
    BY <1>5, <1>9
  <2>2. /\ 1 \in 1..Len(stream[k])
        /\ \A i \in 1..Len(stream'[k]) : i + 1 \in 1..Len(stream[k]) /\ 1 < i + 1
        /\ \A i, j \in 1..Len(stream'[k]) : i < j => i + 1 < j + 1
    BY <2>1
  <2> QED
    BY <1>3, <1>9, <2>1, <2>2 DEF Ordered, U
<1>10. CASE /\ stream'[k] \in {<< >>, <<pod'>>}
            /\ cache'[k] = NoPod
            /\ snap'[k] = NoPod
  <2>1. Len(stream'[k]) = 0 \/ Len(stream'[k]) = 1
    BY <1>10
  <2>2. \A i, j \in 1..Len(stream'[k]) : i = j
    <3>1. CASE Len(stream'[k]) = 0
      BY <3>1
    <3>2. CASE Len(stream'[k]) = 1
      BY <3>2
    <3> QED
      BY <2>1, <3>1, <3>2
  <2> QED
    BY <1>6, <1>10, <2>2 DEF Ordered, U
<1> QED
  BY <1>7, <1>8, <1>9, <1>10, WatchStep

LEMMA HistoryNext ==
    ASSUME OneController, LivesOn, NothingForgotten
    PROVE  TypeOK /\ History /\ AvailableIsPublished /\ [Next]_vars => History'
<1> SUFFICES ASSUME TypeOK, History, AvailableIsPublished, [Next]_vars, pod' # NoPod
             PROVE  /\ \A v \in Known' : /\ Honest(Unpushed', template', v)
                                         /\ Before(Unpushed', v, pod')
                                         /\ Keeps(Unpushed', pod', v)
                    /\ \A k \in Controllers : Ordered(Unpushed', snap'[k], cache'[k], stream'[k])
  BY DEF History
<1>1. UNCHANGED template /\ pod # NoPod /\ Unpushed' \subseteq Unpushed
  BY LifeStep, UnpushedShrinks
<1>2. Succeeds(Unpushed', template, pod, pod')
  BY Successor
<1>3. ASSUME NEW v \in Known'
      PROVE  /\ Honest(Unpushed', template, v)
             /\ Before(Unpushed', v, pod')
             /\ Keeps(Unpushed', pod', v)
  <2>1. CASE v \in Known
    <3>1. /\ Honest(Unpushed', template, v) /\ Before(Unpushed', v, pod)
      BY <1>1, <2>1, FewerContainers DEF History
    <3> QED
      BY <1>1, <1>2, <2>1, <3>1, BeforeTransitive DEF Succeeds
  <2>2. CASE v \in {NoPod, pod'}
    BY <1>2, <2>2 DEF Succeeds, Honest, Before, Keeps, Flagged
  <2> QED
    BY <1>3, <2>1, <2>2, KnownStep
<1> QED
  BY <1>1, <1>3, OrderNext

LEMMA HistoryInit == Init => History
<1> SUFFICES ASSUME Init PROVE History
  OBVIOUS
<1>1. pod.image = template /\ pod.originals = NoOriginals
  BY DEF Init, NewPod
<1>2. \A v \in Known : v \in {NoPod, pod}
  BY DEF Init, Known
<1>3. \A k \in Controllers : Ordered(Unpushed, snap[k], cache[k], stream[k])
  BY DEF Init, Ordered, Before
<1>4. Honest(Unpushed, template, pod) /\ Keeps(Unpushed, pod, pod)
  BY <1>1 DEF Honest, Keeps, NoOriginals, Unpushed
<1> QED
  BY <1>2, <1>3, <1>4 DEF History, Honest, Before, Keeps

(* For a controller that runs alone on a pod that lives on, and a kubelet  *)
(* that never forgets a failed pull, a stubbed container without a record  *)
(* is one whose image has been pushed, however many containers there are   *)
(* and however far the watch lags.                                         *)
THEOREM NeededRecordsKept ==
    ASSUME OneController, LivesOn, NothingForgotten
    PROVE  Spec => []UnpublishedNeverLost
<1>1. TypeOK /\ History /\ SidecarsUntouched => UnpublishedNeverLost
  <2> SUFFICES ASSUME TypeOK, History, SidecarsUntouched, NEW c \in Containers,
                      Stubbed(c), ~Recorded(c), template[c] \notin published
               PROVE  FALSE
    BY DEF UnpublishedNeverLost
  <2>1. pod # NoPod /\ pod.image[c] \in Dummies /\ pod.originals[c] = NoImage
    BY DEF Stubbed, Recorded, Exists, Keys
  <2>2. template[c] \notin Dummies /\ template[c] # NoImage
    BY ImagesAssumption DEF TypeOK, Images
  <2>3. c \in Unpushed
    BY <2>1, <2>2 DEF SidecarsUntouched, Exists, Unpushed
  <2>4. Honest(Unpushed, template, pod)
    BY <2>1 DEF History, Known
  <2> QED
    BY <2>1, <2>2, <2>3, <2>4 DEF Honest
<1> QED
  BY <1>1, HistoryInit, HistoryNext, AvailableInvariant, SidecarsSafe, TypeCorrect, PTL
     DEF Spec
=============================================================================
