---------------------------- MODULE RescueProofs ----------------------------
(***************************************************************************)
(* Theorems about module Rescue that hold for every set of containers,     *)
(* images, templates and controllers, every set of flaky reports and every *)
(* bound.                                                                  *)
(***************************************************************************)
EXTENDS RescueProperties, TLAPS

-----------------------------------------------------------------------------
(* The patches and what the API server makes of them *)

(* What a pod's image and annotation maps range over. *)
LEMMA PodFields ==
    ASSUME NEW p \in Pods
    PROVE  /\ p.image \in [Containers -> Images]
           /\ p.originals \in ImageMaps
           /\ p.status \in [Containers -> Statuses]
BY DEF Pods

(* build_stub_patch yields a patch over the known containers and images.   *)
LEMMA StubPatchType ==
    ASSUME NEW p \in Pods, NEW S \in SUBSET Containers
    PROVE  build_stub_patch(p, S) \in Patches
BY DEF build_stub_patch, Patches, Pods, ImageMaps, dummy_image, Images, Dummies,
       rescued_originals

(* So does build_revert_patch. *)
LEMMA RevertPatchType ==
    ASSUME NEW m \in ImageMaps
    PROVE  build_revert_patch(m) \in Patches
BY DEF build_revert_patch, Patches, ImageMaps, NoOriginals

(* Merging a patch into a pod leaves a pod. *)
LEMMA MergeType ==
    ASSUME NEW p \in Pods, NEW q \in Patches
    PROVE  StrategicMerge(p, q) \in Pods
<1>1. p.image \in [Containers -> Images] /\ q.image \in ImageMaps /\ q.originals \in ImageMaps
  BY DEF Pods, Patches
<1>2. [c \in Containers |-> IF q.image[c] = NoImage THEN p.image[c] ELSE q.image[c]]
         \in [Containers -> Images]
  BY <1>1 DEF ImageMaps
<1> QED
  BY <1>1, <1>2 DEF StrategicMerge, Pods

(* A pod as its owner creates it is a pod. *)
LEMMA NewPodType ==
    ASSUME NEW t \in Templates, NEW ty \in Types, NEW o \in BOOLEAN
    PROVE  /\ t \in [Containers -> AppImages]
           /\ NewPod(t, ty, o) \in Pods
BY TemplatesAssumption
   DEF NewPod, Pods, NoOriginals, ImageMaps, Images, Statuses

(* The images recorded in an annotation are images. *)
LEMMA ValuesType ==
    ASSUME NEW m \in ImageMaps
    PROVE  Values(m) \in SUBSET Images
BY DEF Values, Keys, ImageMaps

-----------------------------------------------------------------------------
(* Type correctness *)

(* A write of a version keeps the pod and the watches well typed. *)
LEMMA WriteType ==
    ASSUME TypeOK, NEW p \in Versions, Write(p)
    PROVE  /\ pod' \in Versions
           /\ stream' \in [Controllers -> Seq(Versions)]
<1>1. \A k \in Controllers : Append(stream[k], p) \in Seq(Versions)
  BY DEF TypeOK
<1> QED
  BY <1>1 DEF TypeOK, Write

(* Returning from a reconcile keeps the run and the queue well typed. *)
LEMMA ReturnType ==
    ASSUME TypeOK, NEW k \in Controllers, Return(k)
    PROVE  /\ cache' \in [Controllers -> Versions]
           /\ queued' \in [Controllers -> BOOLEAN]
           /\ snap' \in [Controllers -> Versions]
           /\ todo' \in [Controllers -> SUBSET Images]
           /\ available' \in [Controllers -> SUBSET Images]
BY DEF TypeOK, Return, Versions

(* Counting keeps the gauges within their bound. *)
LEMMA CountType ==
    ASSUME TypeOK, NEW k \in Controllers, NEW acked \in BOOLEAN, NEW d \in Int,
           Count(k, acked, d)
    PROVE  gauge' \in [Controllers -> (-GaugeBound)..GaugeBound]
BY DEF TypeOK, Count

LEMMA TypeInit == Init => TypeOK
<1> SUFFICES ASSUME Init PROVE TypeOK
  OBVIOUS
<1>1. template \in [Containers -> AppImages] /\ pod \in Versions
  BY NewPodType DEF Init, Versions
<1>2. 0 \in (-GaugeBound)..GaugeBound
  BY BoundsAssumption
<1>3. <<pod>> \in Seq(Versions)
  BY <1>1
<1> QED
  BY <1>1, <1>2, <1>3 DEF Init, TypeOK, Versions, Images

LEMMA TypeNext == TypeOK /\ [Next]_vars => TypeOK'
<1> SUFFICES ASSUME TypeOK, [Next]_vars PROVE TypeOK'
  OBVIOUS
<1> USE DEF cluster, watch, run
<1>1. CASE UNCHANGED vars
  BY <1>1 DEF vars, TypeOK
<1>2. ASSUME NEW t \in Templates, NEW ty \in Types, NEW o \in BOOLEAN, Create(t, ty, o)
      PROVE  TypeOK'
  BY <1>2, NewPodType, WriteType DEF Create, TypeOK, Versions
<1>3. CASE Delete
  BY <1>3, WriteType DEF Delete, TypeOK, Versions
<1>4. ASSUME NEW c \in Containers, NEW s \in Statuses, Report(c, s)
      PROVE  TypeOK'
  <2>1. pod \in Pods
    BY <1>4 DEF Report, TypeOK, Versions
  <2>2. [pod EXCEPT !.status[c] = s] \in Versions
    BY <2>1 DEF Pods, Versions
  <2> QED
    BY <1>4, <2>2, WriteType DEF Report, TypeOK
<1>5. ASSUME NEW c \in Containers, KubeletReport(c) \/ KubeletFlake(c)
      PROVE  TypeOK'
  BY <1>4, <1>5, FlakyReportsAssumption
     DEF KubeletReport, KubeletFlake, DueStatus, Statuses
<1>6. ASSUME NEW i \in AppImages, Publish(i)
      PROVE  TypeOK'
  BY <1>6 DEF Publish, TypeOK, Images
<1>7. CASE Calm
  BY <1>7 DEF Calm, TypeOK
<1>8. ASSUME NEW k \in Controllers, Deliver(k)
      PROVE  TypeOK'
  <2>1. Head(stream[k]) \in Versions /\ Tail(stream[k]) \in Seq(Versions)
    BY <1>8 DEF Deliver, TypeOK
  <2> QED
    BY <1>8, <2>1 DEF Deliver, TypeOK
<1>9. ASSUME NEW k \in Controllers, Restart(k)
      PROVE  TypeOK'
  <2>1. << >> \in Seq(Versions) /\ <<pod>> \in Seq(Versions)
    BY DEF TypeOK
  <2>2. 0 \in (-GaugeBound)..GaugeBound
    BY BoundsAssumption
  <2> QED
    BY <1>9, <2>1, <2>2 DEF Restart, TypeOK, Versions
<1>10. ASSUME NEW k \in Controllers, Ignore(k)
       PROVE  TypeOK'
  BY <1>10 DEF Ignore, TypeOK
<1>11. ASSUME NEW k \in Controllers, Reconcile(k)
       PROVE  TypeOK'
  <2>1. cache[k] \in Pods
    BY <1>11 DEF Reconcile, OptedIn, TypeOK, Versions
  <2>2. Values(rescued_originals(cache[k])) \in SUBSET Images
    BY <2>1, PodFields, ValuesType DEF rescued_originals
  <2> QED
    BY <1>11, <2>1, <2>2 DEF Reconcile, TypeOK
<1>12. ASSUME NEW k \in Controllers, NEW i \in Images, NEW answer \in BOOLEAN,
              CheckImage(k, i, answer)
       PROVE  TypeOK'
  BY <1>12 DEF CheckImage, TypeOK
<1>13. ASSUME NEW k \in Controllers, NEW acked \in BOOLEAN, ApplyStub(k, acked)
       PROVE  TypeOK'
  <2>1. pod \in Pods /\ snap[k] \in Pods
    BY <1>13 DEF ApplyStub, Planned, TypeOK, Versions
  <2>2. StrategicMerge(pod, build_stub_patch(snap[k], containers_to_stub(snap[k])))
           \in Versions
    BY <2>1, StubPatchType, MergeType DEF containers_to_stub, Versions
  <2> QED
    BY <1>13, <2>2, WriteType, ReturnType, CountType DEF ApplyStub, TypeOK
<1>14. ASSUME NEW k \in Controllers, NEW acked \in BOOLEAN, ApplyRevert(k, acked)
       PROVE  TypeOK'
  <2>1. pod \in Pods /\ snap[k] \in Pods
    BY <1>14 DEF ApplyRevert, Planned, TypeOK, Versions
  <2>2. StrategicMerge(pod, build_revert_patch(rescued_originals(snap[k]))) \in Versions
    BY <2>1, PodFields, RevertPatchType, MergeType DEF rescued_originals, Versions
  <2> QED
    BY <1>14, <2>2, WriteType, ReturnType, CountType DEF ApplyRevert, TypeOK
<1>15. ASSUME NEW k \in Controllers, Nothing(k) \/ PatchFails(k)
       PROVE  TypeOK'
  BY <1>15, ReturnType DEF Nothing, PatchFails, TypeOK
<1>16. ASSUME NEW e \in Edits, Annotate(e)
       PROVE  TypeOK'
  <2>1. pod \in Pods /\ e[1] \in Types /\ e[2] \in BOOLEAN
    BY <1>16, EditsAssumption DEF Annotate, TypeOK, Versions
  <2>2. [pod EXCEPT !.type = e[1], !.optIn = e[2]] \in Versions
    BY <2>1 DEF Pods, Versions
  <2> QED
    BY <1>16, <2>2, WriteType DEF Annotate, TypeOK
<1> QED
  BY <1>1, <1>2, <1>3, <1>5, <1>6, <1>7, <1>8, <1>9, <1>10, <1>11, <1>12, <1>13,
     <1>14, <1>15, <1>16
     DEF Next, Owner, Kubelet, Registry, Check, Act, Controller

(* Every variable keeps its type, for any number of controllers and any    *)
(* bounds.                                                                 *)
THEOREM TypeCorrect == Spec => []TypeOK
BY TypeInit, TypeNext, PTL DEF Spec

-----------------------------------------------------------------------------
(* What a step can do to the pod and to the versions the controllers know *)

(* Every version of the pod that exists anywhere in the system. *)
Known == {pod} \cup {cache[k] : k \in Controllers} \cup {snap[k] : k \in Controllers}
               \cup UNION {{stream[k][i] : i \in 1..Len(stream[k])} : k \in Controllers}

(* A controller never makes up a version: after a step it knows what was   *)
(* known before, what has just been written, or nothing.                   *)
LEMMA KnownStep ==
    ASSUME TypeOK, [Next]_vars
    PROVE  \A v \in Known' : v \in Known \cup {NoPod, pod'}
<1> USE DEF cluster, watch, run
<1> DEFINE Heard(k) == /\ cache'[k] \in Known \cup {NoPod}
                       /\ snap'[k] \in Known \cup {NoPod}
                       /\ \A i \in 1..Len(stream'[k]) :
                             stream'[k][i] \in Known \cup {pod'}
<1>0. TypeOK'
  BY TypeNext
<1>1. ASSUME NEW k \in Controllers
      PROVE  /\ pod \in Known /\ cache[k] \in Known /\ snap[k] \in Known
             /\ \A i \in 1..Len(stream[k]) : stream[k][i] \in Known
             /\ stream[k] \in Seq(Versions)
  BY <1>1 DEF Known, TypeOK
<1>2. ASSUME NEW p, Write(p), UNCHANGED cache, NEW k \in Controllers,
             snap'[k] \in {snap[k], NoPod}
      PROVE  Heard(k)
  <2>1. CASE p = pod
    BY <1>1, <1>2, <2>1 DEF Write, TypeOK
  <2>2. CASE p # pod
    <3>1. stream'[k] = Append(stream[k], pod') /\ pod' \in Versions
      BY <1>0, <1>2, <2>2 DEF Write, TypeOK
    <3>2. \A i \in 1..Len(stream'[k]) : stream'[k][i] \in Known \cup {pod'}
      BY <1>1, <1>2, <3>1
    <3> QED
      BY <1>1, <1>2, <3>2
  <2> QED
    BY <2>1, <2>2
<1>3. ASSUME UNCHANGED <<stream, cache>>, NEW k \in Controllers,
             snap'[k] \in {snap[k], cache[k], NoPod}
      PROVE  Heard(k)
  BY <1>1, <1>3
<1>4. ASSUME NEW j \in Controllers, Deliver(j), NEW k \in Controllers
      PROVE  Heard(k)
  <2>1. CASE k = j
    <3>1. cache'[k] = stream[k][1] /\ stream'[k] = Tail(stream[k]) /\ Len(stream[k]) > 0
      BY <1>1, <1>4, <2>1 DEF Deliver, TypeOK
    <3>2. /\ Len(stream'[k]) = Len(stream[k]) - 1
          /\ \A i \in 1..Len(stream'[k]) : stream'[k][i] = stream[k][i + 1]
      BY <1>1, <1>4, <3>1
    <3>3. /\ 1 \in 1..Len(stream[k])
          /\ \A i \in 1..Len(stream'[k]) : i + 1 \in 1..Len(stream[k])
      BY <1>1, <1>4, <3>1, <3>2
    <3> QED
      BY <1>1, <1>4, <3>1, <3>2, <3>3 DEF Deliver
  <2>2. CASE k # j
    BY <1>1, <1>4, <2>2 DEF Deliver, TypeOK
  <2> QED
    BY <2>1, <2>2
<1>5. ASSUME NEW j \in Controllers, Restart(j), NEW k \in Controllers
      PROVE  Heard(k)
  <2>1. CASE k = j
    <3>1. stream'[k] \in {<< >>, <<pod>>} /\ cache'[k] = NoPod /\ snap'[k] = NoPod
      BY <1>5, <2>1 DEF Restart, TypeOK
    <3> QED
      BY <1>1, <1>5, <3>1
  <2>2. CASE k # j
    BY <1>1, <1>5, <2>2 DEF Restart, TypeOK
  <2> QED
    BY <2>1, <2>2
<1>6. ASSUME NEW k \in Controllers
      PROVE  Heard(k)
  <2> USE <1>6
  <2>1. CASE UNCHANGED vars
    BY <1>3, <2>1 DEF vars
  <2>2. CASE Owner
    BY <1>2, <2>2 DEF Owner, Create, Delete, Annotate
  <2>3. CASE Kubelet
    BY <1>2, <2>3 DEF Kubelet, KubeletReport, KubeletFlake, Report
  <2>4. CASE Registry \/ Calm
    BY <1>3, <2>4 DEF Registry, Publish, Calm
  <2>5. ASSUME NEW j \in Controllers, Ignore(j) \/ Reconcile(j) \/ Check(j)
        PROVE  Heard(k)
    BY <1>3, <2>5 DEF Ignore, Reconcile, Check, CheckImage, TypeOK
  <2>6. ASSUME NEW j \in Controllers, Act(j)
        PROVE  Heard(k)
    <3>1. cache' = cache /\ snap'[k] \in {snap[k], NoPod}
      BY <2>6 DEF Act, ApplyStub, ApplyRevert, Nothing, PatchFails, Return, TypeOK
    <3> QED
      BY <1>2, <1>3, <2>6, <3>1 DEF Act, ApplyStub, ApplyRevert, Nothing, PatchFails
  <2> QED
    BY <1>4, <1>5, <2>1, <2>2, <2>3, <2>4, <2>5, <2>6 DEF Next, Controller
<1>7. ASSUME NEW v \in Known'
      PROVE  v \in Known \cup {NoPod, pod'}
  <2>1. \/ v = pod'
        \/ \E k \in Controllers : v = cache'[k] \/ v = snap'[k]
        \/ \E k \in Controllers : \E i \in 1..Len(stream'[k]) : v = stream'[k][i]
    BY <1>7 DEF Known
  <2> QED
    BY <1>6, <2>1
<1> QED
  BY <1>7

(* The five ways in which a step can touch the pod. *)
Created == \E t \in Templates, ty \in Types, o \in BOOLEAN :
              /\ pod = NoPod
              /\ pod' = NewPod(t, ty, o)
              /\ template' = t

Refreshed ==              \* by the kubelet, or by its owner's edits
    /\ pod \in Pods /\ pod' \in Pods
    /\ template' = template
    /\ pod'.image = pod.image
    /\ pod'.originals = pod.originals
    /\ \A c \in Containers : pod'.status[c] \in FlakyReports \cup {pod.status[c], DueStatus(c)}

StubbedBy(k) ==
    /\ pod \in Pods /\ snap[k] \in Pods
    /\ template' = template
    /\ containers_to_stub(snap[k]) # {}
    /\ pod' = StrategicMerge(pod, build_stub_patch(snap[k], containers_to_stub(snap[k])))

RevertedBy(k) ==
    /\ pod \in Pods /\ snap[k] \in Pods
    /\ template' = template
    /\ containers_to_stub(snap[k]) = {}
    /\ Keys(rescued_originals(snap[k])) # {}
    /\ Values(rescued_originals(snap[k])) \subseteq available[k]
    /\ pod' = StrategicMerge(pod, build_revert_patch(rescued_originals(snap[k])))

LEMMA PodStep ==
    ASSUME TypeOK, [Next]_vars
    PROVE  \/ UNCHANGED <<pod, template>>
           \/ pod' = NoPod /\ UNCHANGED template
           \/ Created
           \/ Refreshed
           \/ \E k \in Controllers : StubbedBy(k) \/ RevertedBy(k)
<1> USE DEF cluster
<1> DEFINE P == \/ UNCHANGED <<pod, template>>
                \/ pod' = NoPod /\ UNCHANGED template
                \/ Created
                \/ Refreshed
                \/ \E k \in Controllers : StubbedBy(k) \/ RevertedBy(k)
<1>1. CASE UNCHANGED vars
  BY <1>1 DEF vars
<1>2. CASE Owner
  <2>1. ASSUME NEW e \in Edits, Annotate(e)
        PROVE  Refreshed
    <3>1. pod \in Pods /\ e[1] \in Types /\ e[2] \in BOOLEAN
      BY <2>1, EditsAssumption DEF Annotate, TypeOK, Versions
    <3>2. pod' = [pod EXCEPT !.type = e[1], !.optIn = e[2]] /\ template' = template
      BY <2>1 DEF Annotate, Write
    <3> QED
      BY <3>1, <3>2 DEF Refreshed, Pods
  <2> QED
    BY <1>2, <2>1 DEF Owner, Create, Delete, Created, Write
<1>3. CASE Kubelet
  <2>1. PICK c \in Containers, s \in Statuses :
           s \in FlakyReports \cup {DueStatus(c)} /\ Report(c, s)
    BY <1>3, FlakyReportsAssumption
       DEF Kubelet, KubeletReport, KubeletFlake, DueStatus, Statuses
  <2>2. Refreshed
    <3>1. pod \in Pods /\ pod' = [pod EXCEPT !.status[c] = s] /\ template' = template
      BY <2>1 DEF Report, Write, TypeOK, Versions
    <3>2. /\ pod'.image = pod.image /\ pod'.originals = pod.originals /\ pod' \in Pods
          /\ \A d \in Containers : pod'.status[d] = IF d = c THEN s ELSE pod.status[d]
      BY <3>1 DEF Pods
    <3> QED
      BY <2>1, <3>1, <3>2 DEF Refreshed
  <2> QED
    BY <2>2
<1>4. CASE Registry \/ Calm
  BY <1>4 DEF Registry, Publish, Calm
<1>5. ASSUME NEW k \in Controllers,
             Deliver(k) \/ Restart(k) \/ Ignore(k) \/ Reconcile(k) \/ Check(k)
                \/ Nothing(k) \/ PatchFails(k)
      PROVE  P
  BY <1>5 DEF Deliver, Restart, Ignore, Reconcile, Check, CheckImage, Nothing, PatchFails
<1>6. ASSUME NEW k \in Controllers, NEW acked \in BOOLEAN, ApplyStub(k, acked)
      PROVE  StubbedBy(k)
  <2>1. pod \in Pods /\ snap[k] \in Pods
    BY <1>6 DEF ApplyStub, Planned, TypeOK, Versions
  <2>2. containers_to_stub(snap[k]) # {}
    BY <1>6 DEF ApplyStub, Planned, Plan, plan_action
  <2> QED
    BY <1>6, <2>1, <2>2 DEF ApplyStub, StubbedBy, Write
<1>7. ASSUME NEW k \in Controllers, NEW acked \in BOOLEAN, ApplyRevert(k, acked)
      PROVE  RevertedBy(k)
  <2>1. pod \in Pods /\ snap[k] \in Pods
    BY <1>7 DEF ApplyRevert, Planned, TypeOK, Versions
  <2>2. /\ containers_to_stub(snap[k]) = {}
        /\ Keys(rescued_originals(snap[k])) # {}
        /\ Values(rescued_originals(snap[k])) \subseteq available[k]
    BY <1>7 DEF ApplyRevert, Planned, Plan, plan_action
  <2> QED
    BY <1>7, <2>1, <2>2 DEF ApplyRevert, RevertedBy, Write
<1> QED
  BY <1>1, <1>2, <1>3, <1>4, <1>5, <1>6, <1>7 DEF Next, Act, Controller

(* What a merged patch leaves in a container and in the annotation. *)
LEMMA MergeFields ==
    ASSUME NEW p \in Pods, NEW q \in Patches
    PROVE  /\ StrategicMerge(p, q).originals = q.originals
           /\ \A c \in Containers : StrategicMerge(p, q).image[c] =
                 IF q.image[c] = NoImage THEN p.image[c] ELSE q.image[c]
<1> DEFINE im == [c \in Containers |-> IF q.image[c] = NoImage THEN p.image[c] ELSE q.image[c]]
<1>1. StrategicMerge(p, q) = [[p EXCEPT !.image = im] EXCEPT !.originals = q.originals]
  BY DEF StrategicMerge, Pods
<1>2. /\ StrategicMerge(p, q).originals = q.originals
      /\ StrategicMerge(p, q).image = im
  <2> HIDE DEF im
  <2> QED
    BY <1>1 DEF Pods
<1> QED
  BY <1>2

(* What stubbing makes of a container: the dummy and the image of the      *)
(* object the reconcile read, if that object shows the container failing;  *)
(* else the image stays and the record is the one of that object.          *)
LEMMA StubFields ==
    ASSUME NEW k \in Controllers, StubbedBy(k), NEW c \in Containers
    PROVE  IF c \in containers_to_stub(snap[k])
           THEN /\ pod'.image[c] = dummy_image(snap[k]) /\ pod'.image[c] \in Dummies
                /\ pod'.originals[c] = snap[k].image[c]
           ELSE pod'.image[c] = pod.image[c] /\ pod'.originals[c] = snap[k].originals[c]
<1> DEFINE S == containers_to_stub(snap[k])
           q == build_stub_patch(snap[k], S)
<1>1. q \in Patches
  BY StubPatchType DEF StubbedBy, containers_to_stub
<1>2. /\ pod'.originals = q.originals
      /\ pod'.image[c] = IF q.image[c] = NoImage THEN pod.image[c] ELSE q.image[c]
  BY <1>1, MergeFields DEF StubbedBy
<1>3. /\ q.image[c] = IF c \in S THEN dummy_image(snap[k]) ELSE NoImage
      /\ q.originals[c] = IF c \in S THEN snap[k].image[c] ELSE snap[k].originals[c]
  <2> HIDE DEF S
  <2> QED
    BY DEF build_stub_patch, rescued_originals
<1>4. dummy_image(snap[k]) \in Dummies /\ dummy_image(snap[k]) # NoImage
  BY ImagesAssumption DEF dummy_image, Dummies, Images
<1> QED
  BY <1>2, <1>3, <1>4

(* What reverting makes of a container. *)
LEMMA RevertFields ==
    ASSUME NEW k \in Controllers, RevertedBy(k), NEW c \in Containers
    PROVE  /\ pod'.originals[c] = NoImage
           /\ pod'.image[c] = IF snap[k].originals[c] = NoImage THEN pod.image[c]
                              ELSE snap[k].originals[c]
<1>1. build_revert_patch(snap[k].originals) \in Patches
  BY PodFields, RevertPatchType DEF RevertedBy
<1> QED
  BY <1>1, MergeFields
     DEF RevertedBy, rescued_originals, build_revert_patch, NoOriginals

-----------------------------------------------------------------------------
(* No image is restored before it has been pushed *)

AvailableIsPublished == \A k \in Controllers : available[k] \subseteq published

LEMMA AvailableNext ==
    TypeOK /\ AvailableIsPublished /\ [Next]_vars => AvailableIsPublished'
<1> SUFFICES ASSUME TypeOK, AvailableIsPublished, [Next]_vars,
                    NEW k \in Controllers
             PROVE  available'[k] \subseteq published'
  BY DEF AvailableIsPublished
<1> USE DEF cluster, watch, run, AvailableIsPublished
<1>1. CASE UNCHANGED vars
  BY <1>1 DEF vars
<1>2. CASE Owner \/ Kubelet
  BY <1>2 DEF Owner, Create, Delete, Annotate, Kubelet, KubeletReport, KubeletFlake, Report
<1>3. CASE Registry \/ Calm
  BY <1>3 DEF Registry, Publish, Calm
<1>4. ASSUME NEW j \in Controllers, Deliver(j) \/ Ignore(j) \/ Reconcile(j) \/ Restart(j)
      PROVE  available'[k] \subseteq published'
  BY <1>4 DEF Deliver, Ignore, Reconcile, Restart, TypeOK
<1>5. ASSUME NEW j \in Controllers, Check(j)
      PROVE  available'[k] \subseteq published'
  BY <1>5 DEF Check, CheckImage, TypeOK
<1>6. ASSUME NEW j \in Controllers, Act(j)
      PROVE  available'[k] \subseteq published'
  BY <1>6 DEF Act, ApplyStub, ApplyRevert, Nothing, PatchFails, Return, TypeOK
<1> QED
  BY <1>1, <1>2, <1>3, <1>4, <1>5, <1>6 DEF Next, Controller

LEMMA AvailableInvariant == Spec => []AvailableIsPublished
<1>1. Init => AvailableIsPublished
  BY DEF Init, AvailableIsPublished
<1> QED
  BY <1>1, TypeCorrect, AvailableNext, PTL DEF Spec

(* A container goes back from a dummy to a real image only when that image *)
(* has been pushed: every image a revert restores is among those the       *)
(* registry answered for, and those have been pushed.                      *)
THEOREM NoRevertBeforePush == Spec => NoPrematureRevert
<1> DEFINE A == Same => \A c \in Containers :
                   pod.image[c] \in Dummies /\ pod'.image[c] \notin Dummies
                       => pod'.image[c] \in published
<1>1. TypeOK /\ AvailableIsPublished /\ [Next]_vars => [A]_pod
  <2> SUFFICES ASSUME TypeOK, AvailableIsPublished, [Next]_vars, Same,
                      NEW c \in Containers,
                      pod.image[c] \in Dummies, pod'.image[c] \notin Dummies
               PROVE  pod'.image[c] \in published
    OBVIOUS
  <2>1. CASE Refreshed
    BY <2>1 DEF Refreshed
  <2>2. ASSUME NEW k \in Controllers, StubbedBy(k) PROVE FALSE
    BY <2>2, StubFields
  <2>3. ASSUME NEW k \in Controllers, RevertedBy(k)
        PROVE  pod'.image[c] \in published
    <3>1. /\ snap[k].originals[c] # NoImage
          /\ pod'.image[c] = snap[k].originals[c]
      BY <2>3, RevertFields
    <3>2. snap[k].originals[c] \in Values(rescued_originals(snap[k]))
      BY <3>1 DEF Values, Keys, rescued_originals
    <3> QED
      BY <2>3, <3>1, <3>2 DEF RevertedBy, AvailableIsPublished
  <2> QED
    BY <2>1, <2>2, <2>3, PodStep DEF Same, Exists, Created
<1> QED
  BY <1>1, AvailableInvariant, TypeCorrect, PTL DEF Spec, NoPrematureRevert

-----------------------------------------------------------------------------
(* Sidecars *)

(* No version of the pod records a sidecar, so no revert can mention one.  *)
SidecarsNeverRecorded ==
    \A v \in Known : v # NoPod => \A c \in Sidecars : v.originals[c] = NoImage

LEMMA SidecarsNext ==
    TypeOK /\ SidecarsUntouched /\ SidecarsNeverRecorded /\ [Next]_vars
        => SidecarsUntouched' /\ SidecarsNeverRecorded'
<1> SUFFICES ASSUME TypeOK, SidecarsUntouched, SidecarsNeverRecorded, [Next]_vars
             PROVE  SidecarsUntouched' /\ SidecarsNeverRecorded'
  OBVIOUS
<1>1. \A c \in Sidecars : c \in Containers
  BY SidecarsAssumption
<1>2. ASSUME NEW k \in Controllers, snap[k] \in Pods, NEW c \in Sidecars
      PROVE  snap[k].originals[c] = NoImage /\ c \notin containers_to_stub(snap[k])
  BY <1>2, NoPodAssumption DEF SidecarsNeverRecorded, Known, containers_to_stub, is_sidecar
<1>3. SidecarsUntouched'
  <2> SUFFICES ASSUME pod' # NoPod, NEW c \in Sidecars
               PROVE  pod'.image[c] = template'[c] /\ pod'.originals[c] = NoImage
    BY DEF SidecarsUntouched, Exists
  <2>1. CASE UNCHANGED <<pod, template>>
    BY <2>1 DEF SidecarsUntouched, Exists
  <2>2. CASE Created
    BY <1>1, <2>2 DEF Created, NewPod, NoOriginals
  <2>3. CASE Refreshed
    BY <2>3, NoPodAssumption DEF Refreshed, SidecarsUntouched, Exists
  <2>4. ASSUME NEW k \in Controllers, StubbedBy(k)
        PROVE  pod'.image[c] = template'[c] /\ pod'.originals[c] = NoImage
    BY <1>1, <1>2, <2>4, StubFields, NoPodAssumption
       DEF StubbedBy, SidecarsUntouched, Exists
  <2>5. ASSUME NEW k \in Controllers, RevertedBy(k)
        PROVE  pod'.image[c] = template'[c] /\ pod'.originals[c] = NoImage
    BY <1>1, <1>2, <2>5, RevertFields, NoPodAssumption
       DEF RevertedBy, SidecarsUntouched, Exists
  <2> QED
    BY <2>1, <2>2, <2>3, <2>4, <2>5, PodStep
<1> QED
  BY <1>3, KnownStep DEF SidecarsNeverRecorded, SidecarsUntouched, Exists

(* Whatever fails and however stale the objects a patch is built from, a   *)
(* sidecar keeps its owner's image and is never recorded.                  *)
THEOREM SidecarsSafe == Spec => []SidecarsUntouched
<1>1. Init => SidecarsUntouched /\ SidecarsNeverRecorded
  <2> SUFFICES ASSUME Init PROVE SidecarsUntouched /\ SidecarsNeverRecorded
    OBVIOUS
  <2>1. \E ty \in Types, o \in BOOLEAN : pod = NewPod(template, ty, o)
    BY DEF Init
  <2>2. \A v \in Known : v \in {NoPod, pod}
    BY DEF Init, Known
  <2> QED
    BY <2>1, <2>2, SidecarsAssumption
       DEF NewPod, NoOriginals, SidecarsUntouched, SidecarsNeverRecorded, Exists
<1> QED
  BY <1>1, TypeCorrect, SidecarsNext, PTL DEF Spec

-----------------------------------------------------------------------------
(* Any number of containers: no foreign image *)

OneTemplateOnly == \A t, u \in Templates : t = u

(* A version of the pod shows, and records, nothing but what the owner     *)
(* asked for in that very container, or a dummy.                           *)
OwnImages(v) == \A c \in Containers :
    /\ v.image[c] \in {template[c]} \cup Dummies
    /\ v.originals[c] \in {template[c], NoImage} \cup Dummies

AllOwnImages == /\ template \in Templates
                /\ \A v \in Known : v # NoPod => OwnImages(v)

LEMMA OwnImagesNext ==
    ASSUME OneTemplateOnly
    PROVE  TypeOK /\ AllOwnImages /\ [Next]_vars => AllOwnImages'
<1> SUFFICES ASSUME TypeOK, AllOwnImages, [Next]_vars
             PROVE  AllOwnImages'
  OBVIOUS
<1>1. template' = template
  BY PodStep DEF Created, Refreshed, StubbedBy, RevertedBy, OneTemplateOnly, AllOwnImages
<1>2. pod # NoPod => OwnImages(pod)
  BY DEF AllOwnImages, Known
<1>3. ASSUME NEW k \in Controllers, snap[k] \in Pods PROVE OwnImages(snap[k])
  BY <1>3, NoPodAssumption DEF AllOwnImages, Known
<1>4. ASSUME pod' # NoPod PROVE OwnImages(pod')
  <2>1. CASE UNCHANGED <<pod, template>>
    BY <1>2, <1>4, <2>1 DEF OwnImages
  <2>2. CASE Created
    BY <1>1, <2>2 DEF Created, NewPod, NoOriginals, OwnImages
  <2>3. CASE Refreshed
    <3>1. pod'.image = pod.image /\ pod'.originals = pod.originals /\ pod # NoPod
      BY <2>3, NoPodAssumption DEF Refreshed
    <3> QED
      BY <1>2, <3>1 DEF OwnImages
  <2>4. ASSUME NEW k \in Controllers, StubbedBy(k) PROVE OwnImages(pod')
    BY <1>2, <1>3, <2>4, StubFields, NoPodAssumption DEF StubbedBy, OwnImages
  <2>5. ASSUME NEW k \in Controllers, RevertedBy(k) PROVE OwnImages(pod')
    <3>1. OwnImages(pod) /\ OwnImages(snap[k])
      BY <1>2, <1>3, <2>5, NoPodAssumption DEF RevertedBy
    <3>2. ASSUME NEW c \in Containers
          PROVE  /\ pod'.image[c] \in {template[c]} \cup Dummies
                 /\ pod'.originals[c] = NoImage
      BY <2>5, <3>1, RevertFields DEF OwnImages
    <3> QED
      BY <3>2 DEF OwnImages
  <2> QED
    BY <1>4, <2>1, <2>2, <2>3, <2>4, <2>5, PodStep
<1> QED
  BY <1>1, <1>4, KnownStep DEF AllOwnImages, OwnImages

(* As long as the owner keeps to one template, a container's image is only *)
(* ever the one it was created with or a dummy, for any number of          *)
(* containers and controllers, even when records get lost.                 *)
THEOREM NoForeignImages ==
    ASSUME OneTemplateOnly
    PROVE  Spec => NoForeignImage
<1>1. Init => AllOwnImages
  <2> SUFFICES ASSUME Init PROVE AllOwnImages
    OBVIOUS
  <2>1. \E ty \in Types, o \in BOOLEAN : pod = NewPod(template, ty, o)
    BY DEF Init
  <2>2. \A v \in Known : v \in {NoPod, pod}
    BY DEF Init, Known
  <2> QED
    BY <2>1, <2>2 DEF Init, NewPod, NoOriginals, AllOwnImages, OwnImages
<1>2. Spec => []AllOwnImages
  BY <1>1, OwnImagesNext, TypeCorrect, PTL DEF Spec
<1>3. AllOwnImages' =>
        (Same => \A c \in Containers : pod'.image[c] \in {template'[c]} \cup Dummies)
  BY DEF AllOwnImages, OwnImages, Known, Same
<1> QED
  BY <1>2, <1>3, PTL DEF NoForeignImage

-----------------------------------------------------------------------------
(* One rescued container: the record is exact *)

(* The pod has at most one container that can be rescued. *)
OneContainer == \A c, d \in Containers \ Sidecars : c = d

(* A container of version v is as its owner asked, or stubbed with exactly *)
(* that image on record.                                                   *)
Exact(v) == \A c \in Containers :
    \/ v.image[c] = template[c] /\ v.originals[c] = NoImage
    \/ v.image[c] \in Dummies /\ v.originals[c] = template[c] /\ c \notin Sidecars

(* It is not enough that the pod is exact now: the next patch may be built *)
(* from any version still under way, cached or being reconciled.           *)
AllExact == /\ template \in Templates
            /\ \A v \in Known : v # NoPod => Exact(v)

LEMMA ExactNext ==
    ASSUME OneContainer, OneTemplateOnly
    PROVE  TypeOK /\ AllExact /\ [Next]_vars => AllExact'
<1> SUFFICES ASSUME TypeOK, AllExact, [Next]_vars
             PROVE  AllExact'
  OBVIOUS
<1>1. /\ template \in [Containers -> AppImages]
      /\ \A c \in Containers : template[c] # NoImage /\ template[c] \notin Dummies
  BY ImagesAssumption DEF TypeOK, Images
<1>2. template' = template
  BY PodStep DEF Created, Refreshed, StubbedBy, RevertedBy, OneTemplateOnly, AllExact
<1>3. pod # NoPod => Exact(pod)
  BY DEF AllExact, Known
<1>4. ASSUME NEW k \in Controllers, snap[k] \in Pods PROVE Exact(snap[k])
  BY <1>4, NoPodAssumption DEF AllExact, Known
<1>5. ASSUME pod' # NoPod PROVE Exact(pod')
  <2> SUFFICES ASSUME NEW c \in Containers
               PROVE  \/ pod'.image[c] = template[c] /\ pod'.originals[c] = NoImage
                      \/ /\ pod'.image[c] \in Dummies /\ pod'.originals[c] = template[c]
                         /\ c \notin Sidecars
    BY DEF Exact
  <2>1. CASE UNCHANGED <<pod, template>>
    BY <1>3, <1>5, <2>1 DEF Exact
  <2>2. CASE Created
    BY <1>2, <2>2 DEF Created, NewPod, NoOriginals
  <2>3. CASE Refreshed
    <3>1. pod'.image = pod.image /\ pod'.originals = pod.originals /\ pod # NoPod
      BY <2>3, NoPodAssumption DEF Refreshed
    <3> QED
      BY <1>3, <3>1 DEF Exact
  <2>4. ASSUME NEW k \in Controllers, StubbedBy(k)
        PROVE  \/ pod'.image[c] = template[c] /\ pod'.originals[c] = NoImage
               \/ /\ pod'.image[c] \in Dummies /\ pod'.originals[c] = template[c]
                  /\ c \notin Sidecars
    <3>1. Exact(snap[k]) /\ Exact(pod)
      BY <1>3, <1>4, <2>4, NoPodAssumption DEF StubbedBy
    <3>2. CASE c \in containers_to_stub(snap[k])
      <4>1. c \notin Sidecars /\ snap[k].originals[c] = NoImage
        BY <3>2 DEF containers_to_stub, is_sidecar, Keys, rescued_originals
      <4>2. snap[k].image[c] = template[c]
        BY <1>1, <3>1, <4>1 DEF Exact
      <4> QED
        BY <2>4, <3>2, <4>1, <4>2, StubFields
    <3>3. CASE c \notin containers_to_stub(snap[k])
      <4>1. PICK d \in containers_to_stub(snap[k]) : TRUE
        BY <2>4 DEF StubbedBy
      <4>2. d \in Containers \ Sidecars /\ c # d
        BY <3>3, <4>1 DEF containers_to_stub, is_sidecar
      <4>3. c \in Sidecars
        BY <4>2 DEF OneContainer
      <4>4. snap[k].originals[c] = NoImage /\ pod.image[c] = template[c]
        BY <3>1, <4>3 DEF Exact
      <4> QED
        BY <2>4, <3>3, <4>4, StubFields
    <3> QED
      BY <3>2, <3>3
  <2>5. ASSUME NEW k \in Controllers, RevertedBy(k)
        PROVE  pod'.image[c] = template[c] /\ pod'.originals[c] = NoImage
    <3>1. Exact(snap[k]) /\ Exact(pod)
      BY <1>3, <1>4, <2>5, NoPodAssumption DEF RevertedBy
    <3>2. CASE snap[k].originals[c] # NoImage
      BY <2>5, <3>1, <3>2, RevertFields DEF Exact
    <3>3. CASE snap[k].originals[c] = NoImage
      <4>1. PICK d \in Containers : snap[k].originals[d] # NoImage
        BY <2>5 DEF RevertedBy, Keys, rescued_originals
      <4>2. d \notin Sidecars /\ c # d
        BY <3>1, <3>3, <4>1 DEF Exact
      <4>3. c \in Sidecars
        BY <4>2 DEF OneContainer
      <4> QED
        BY <2>5, <3>1, <3>3, <4>3, RevertFields DEF Exact
    <3> QED
      BY <3>2, <3>3
  <2> QED
    BY <1>5, <2>1, <2>2, <2>3, <2>4, <2>5, PodStep
<1> QED
  BY <1>2, <1>5, KnownStep DEF AllExact, Exact

LEMMA ExactInit == Init => AllExact
<1> SUFFICES ASSUME Init PROVE AllExact
  OBVIOUS
<1>1. \E ty \in Types, o \in BOOLEAN : pod = NewPod(template, ty, o)
  BY DEF Init
<1>2. \A v \in Known : v \in {NoPod, pod}
  BY DEF Init, Known
<1> QED
  BY <1>1, <1>2 DEF Init, NewPod, NoOriginals, AllExact, Exact

LEMMA ExactInvariant ==
    ASSUME OneContainer, OneTemplateOnly
    PROVE  Spec => []AllExact
BY ExactInit, ExactNext, TypeCorrect, PTL DEF Spec

(* For a pod with a single rescuable container the original image is never *)
(* lost and never wrong, for any number of controllers, any watch lag and  *)
(* any pattern of crashes, lost patches and re-creations.                  *)
THEOREM RecordIsExact ==
    ASSUME OneContainer, OneTemplateOnly
    PROVE  Spec => []DummyIsRecorded
<1>1. AllExact => DummyIsRecorded
  BY DEF AllExact, Exact, Known, DummyIsRecorded, Exists
<1> QED
  BY <1>1, ExactInvariant, PTL

-----------------------------------------------------------------------------
(* One rescued container: the contract with the owner *)

(* Only a push changes what has been published, and it changes nothing the *)
(* controllers know of the pod.                                            *)
LEMMA PublishStep ==
    ASSUME TypeOK, [Next]_vars
    PROVE  \/ UNCHANGED published
           \/ UNCHANGED pod /\ \E i \in AppImages : published' = published \cup {i}
BY DEF vars, cluster, Next, Owner, Create, Delete, Annotate, Kubelet, KubeletReport,
       KubeletFlake, Report, Registry, Publish, Calm, Controller, Deliver, Restart, Ignore, Reconcile,
       Check, CheckImage, Act, ApplyStub, ApplyRevert, Nothing, PatchFails

(* With one rescuable container, a patch planned by stubbing or reverting  *)
(* is about that container: every other one is a sidecar.                  *)
LEMMA PlannedContainer ==
    ASSUME OneContainer, AllExact, NEW k \in Controllers, snap[k] \in Pods,
           NEW c \in Containers \ Sidecars
    PROVE  /\ containers_to_stub(snap[k]) # {} => c \in containers_to_stub(snap[k])
           /\ Keys(rescued_originals(snap[k])) # {} =>
                 c \in Keys(rescued_originals(snap[k]))
<1>1. Exact(snap[k])
  BY NoPodAssumption DEF AllExact, Known
<1>2. containers_to_stub(snap[k]) \subseteq Containers \ Sidecars
  BY DEF containers_to_stub, is_sidecar
<1>3. Keys(rescued_originals(snap[k])) \subseteq Containers \ Sidecars
  BY <1>1 DEF Keys, rescued_originals, Exact
<1> QED
  BY <1>2, <1>3 DEF OneContainer

LEMMA ContractStub ==
    ASSUME OneContainer, TypeOK, TypeOK', AllExact, UNCHANGED published,
           NEW k \in Controllers, StubbedBy(k)
    PROVE  Contract!Next
<1> DEFINE S == containers_to_stub(snap[k])
           d == dummy_image(snap[k])
<1>1. pod \in Pods /\ pod # NoPod /\ snap[k] \in Pods
  BY NoPodAssumption DEF StubbedBy
<1>2. pod' \in Pods /\ pod' # NoPod
  BY <1>1, StubPatchType, MergeType, NoPodAssumption DEF StubbedBy, containers_to_stub
<1>3. Exact(pod) /\ Exact(snap[k])
  BY <1>1, NoPodAssumption DEF AllExact, Known
<1>4. S \in SUBSET (Containers \ Sidecars) /\ d \in Dummies
  BY DEF containers_to_stub, is_sidecar, dummy_image, Dummies
<1>5. \A c \in Containers : template[c] # NoImage /\ template[c] \notin Dummies
  BY ImagesAssumption DEF TypeOK, Images
<1>6. ASSUME NEW c \in Containers
      PROVE  /\ pod'.image[c] = IF c \in S THEN d ELSE pod.image[c]
             /\ pod'.originals[c] = IF c \in S /\ pod.originals[c] = NoImage
                                    THEN pod.image[c] ELSE pod.originals[c]
  <2>1. CASE c \in S
    <3>1. c \notin Sidecars /\ snap[k].originals[c] = NoImage
      BY <2>1 DEF containers_to_stub, is_sidecar, Keys, rescued_originals
    <3>2. snap[k].image[c] = template[c]
      BY <1>3, <1>5, <3>1 DEF Exact
    <3> QED
      BY <1>3, <1>5, <2>1, <3>2, StubFields DEF Exact
  <2>2. CASE c \notin S
    <3>1. c \in Sidecars
      BY <1>1, <2>2, PlannedContainer DEF StubbedBy
    <3>2. snap[k].originals[c] = NoImage /\ pod.originals[c] = NoImage
      BY <1>3, <3>1 DEF Exact
    <3> QED
      BY <2>2, <3>2, StubFields
  <2> QED
    BY <2>1, <2>2
<1>7. /\ pod'.image = [c \in Containers |-> IF c \in S THEN d ELSE pod.image[c]]
      /\ pod'.originals = [c \in Containers |-> IF c \in S /\ pod.originals[c] = NoImage
                                                THEN pod.image[c] ELSE pod.originals[c]]
  <2>1. /\ pod'.image = [c \in Containers |-> pod'.image[c]]
        /\ pod'.originals = [c \in Containers |-> pod'.originals[c]]
    BY <1>2 DEF Pods, ImageMaps
  <2> HIDE DEF S, d
  <2> QED
    BY <1>6, <2>1
<1>8. Contract!TakeOver(S, d)
  <2> HIDE DEF S, d
  <2> QED
    BY <1>1, <1>2, <1>7 DEF Contract!TakeOver, Exists
<1> QED
  BY <1>4, <1>8 DEF Contract!Next

LEMMA ContractRevert ==
    ASSUME OneContainer, TypeOK, TypeOK', AllExact, AvailableIsPublished,
           UNCHANGED published, NEW k \in Controllers, RevertedBy(k)
    PROVE  Contract!Next
<1>1. pod \in Pods /\ pod # NoPod /\ snap[k] \in Pods
  BY NoPodAssumption DEF RevertedBy
<1>2. pod' \in Pods /\ pod' # NoPod
  BY <1>1, PodFields, RevertPatchType, MergeType, NoPodAssumption
     DEF RevertedBy, rescued_originals
<1>3. Exact(pod) /\ Exact(snap[k])
  BY <1>1, NoPodAssumption DEF AllExact, Known
<1>4. \A c \in Containers :
         template[c] \in AppImages /\ template[c] # NoImage /\ template[c] \notin Dummies
  BY ImagesAssumption DEF TypeOK, Images
<1>5. ASSUME NEW c \in Containers, c \in Sidecars
      PROVE  pod.originals[c] = NoImage /\ snap[k].originals[c] = NoImage
  BY <1>3, <1>5 DEF Exact
<1>6. ASSUME NEW c \in Containers, c \notin Sidecars
      PROVE  /\ snap[k].originals[c] = template[c]
             /\ template[c] \in published
  <2>1. snap[k].originals[c] # NoImage
    BY <1>1, <1>6, PlannedContainer DEF RevertedBy, Keys, rescued_originals
  <2>2. snap[k].originals[c] = template[c]
    BY <1>3, <2>1 DEF Exact
  <2>3. template[c] \in Values(rescued_originals(snap[k]))
    BY <2>1, <2>2 DEF Values, Keys, rescued_originals
  <2> QED
    BY <2>2, <2>3 DEF RevertedBy, AvailableIsPublished
<1>7. \A c \in Containers :
         /\ pod'.originals[c] = NoImage
         /\ pod'.image[c] = IF pod.originals[c] = NoImage THEN pod.image[c]
                            ELSE pod.originals[c]
  BY <1>3, <1>4, <1>5, <1>6, RevertFields DEF Exact
<1>8. /\ pod'.image = [c \in Containers |-> IF pod.originals[c] = NoImage
                                            THEN pod.image[c] ELSE pod.originals[c]]
      /\ pod'.originals = [c \in Containers |-> NoImage]
  <2>1. /\ pod'.image = [c \in Containers |-> pod'.image[c]]
        /\ pod'.originals = [c \in Containers |-> pod'.originals[c]]
    BY <1>2 DEF Pods, ImageMaps
  <2> QED
    BY <1>7, <2>1
<1>9. \A c \in Containers : pod.originals[c] # NoImage =>
         pod.originals[c] \in published \cap AppImages
  BY <1>3, <1>4, <1>5, <1>6 DEF Exact
<1>10. Contract!GiveBack
  BY <1>1, <1>2, <1>8, <1>9 DEF Contract!GiveBack, Contract!NoDebt, Exists
<1> QED
  BY <1>10 DEF Contract!Next

LEMMA ContractStep ==
    ASSUME OneContainer
    PROVE  TypeOK /\ TypeOK' /\ AllExact /\ AvailableIsPublished /\ [Next]_vars
              => [Contract!Next]_(Contract!vars)
<1> SUFFICES ASSUME TypeOK, TypeOK', AllExact, AvailableIsPublished, [Next]_vars
             PROVE  Contract!Next \/ UNCHANGED Contract!vars
  OBVIOUS
<1>1. ASSUME UNCHANGED pod, NEW i \in AppImages, published' = published \cup {i}
      PROVE  Contract!Next
  <2>1. (published \cap AppImages)' = (published \cap AppImages) \cup {i}
    BY <1>1
  <2>2. Contract!Push(i)
    BY <1>1, <2>1 DEF Contract!Push, Exists
  <2> QED
    BY <2>2 DEF Contract!Next
<1>2. CASE UNCHANGED published
  <2>1. CASE UNCHANGED <<pod, template>>
    BY <1>2, <2>1 DEF Contract!vars, Exists
  <2>2. CASE pod' = NoPod
    <3>1. CASE pod = NoPod
      BY <1>2, <2>2, <3>1 DEF Contract!vars, Exists
    <3>2. CASE pod # NoPod
      BY <1>2, <2>2, <3>2 DEF Contract!Next, Contract!Vanish, Contract!NoDebt, Exists,
                              NoOriginals
    <3> QED
      BY <3>1, <3>2
  <2>3. CASE Created
    <3>1. PICK t \in Templates, ty \in Types, o \in BOOLEAN :
             pod = NoPod /\ pod' = NewPod(t, ty, o)
      BY <2>3 DEF Created
    <3>2. pod' # NoPod /\ pod'.image = t /\ pod'.originals = NoOriginals
      BY <3>1, NewPodType, NoPodAssumption DEF NewPod
    <3>3. Contract!Appear(t)
      BY <1>2, <3>1, <3>2 DEF Contract!Appear, Contract!NoDebt, Exists, NoOriginals
    <3> QED
      BY <3>1, <3>3, NewPodType DEF Contract!Next
  <2>4. CASE Refreshed
    <3>1. pod # NoPod /\ pod' \in Pods
      BY <2>4, NoPodAssumption DEF Refreshed
    <3>2. pod' # NoPod /\ pod'.image = pod.image /\ pod'.originals = pod.originals
      BY <2>4, <3>1, NoPodAssumption DEF Refreshed
    <3> QED
      BY <1>2, <3>1, <3>2 DEF Contract!vars, Exists
  <2>5. ASSUME NEW k \in Controllers, StubbedBy(k) \/ RevertedBy(k)
        PROVE  Contract!Next
    BY <1>2, <2>5, ContractStub, ContractRevert
  <2> QED
    BY <2>1, <2>2, <2>3, <2>4, <2>5, PodStep
<1> QED
  BY <1>1, <1>2, PublishStep

LEMMA ContractInit == Init => Contract!Init
<1> SUFFICES ASSUME Init PROVE Contract!Init
  OBVIOUS
<1>1. PICK ty \in Types, o \in BOOLEAN : pod = NewPod(template, ty, o)
  BY DEF Init
<1>2. template \in [Containers -> AppImages] /\ pod # NoPod
  BY <1>1, NewPodType, NoPodAssumption DEF Init
<1>3. pod.image = template /\ pod.originals = NoOriginals
  BY <1>1 DEF NewPod
<1>4. published \cap AppImages = {}
  BY ImagesAssumption DEF Init
<1> QED
  BY <1>2, <1>3, <1>4 DEF Contract!Init, Contract!NoDebt, NoOriginals, Exists

(* For a pod with a single rescuable container every step of the cluster   *)
(* and of any number of controllers is a step of the contract or changes   *)
(* nothing the owner sees: debts are recorded once, kept, and paid only    *)
(* when the image has been pushed.                                         *)
THEOREM ContractKept ==
    ASSUME OneContainer, OneTemplateOnly
    PROVE  Spec => ContractSpec
BY AvailableInvariant, ContractInit, ContractStep, ExactInvariant, TypeCorrect, PTL
   DEF Spec, ContractSpec, Contract!Spec
=============================================================================
