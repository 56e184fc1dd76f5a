# stubby: formal models

stubby puts dummy images into Kubernetes pods whose application images do not
exist yet. It has two ways of doing so, and this directory models both:

- the **admission webhook** (`crates/webhook`) rewrites an annotated pod as it is
  created;
- the **auto-rescue controller** (`crates/controller`) watches running pods that
  opted in, swaps a container whose image cannot be pulled for a dummy, and swaps
  it back once the image has been pushed.

The dummies themselves (`crates/dummy-backend`, `crates/dummy-frontend`) are small
HTTP servers; what they have to get right is where they listen, what they answer to
a probe, and how they start and stop. The webhook is a long-running TLS server with
the same concerns.

## 1. Inventory

| Component | State | Operations | Talks to |
|---|---|---|---|
| controller: `decision.rs`, `annotations.rs` | none (pure) | `containers_to_stub`, `rescued_originals`, codec of the `original-image` annotation | called by reconcile |
| controller: `reconcile.rs` | what lives between two awaits of a running reconcile | `reconcile`, `plan_action`, `apply_stub`, `apply_revert`, `error_policy` | API server (patch), registry |
| controller: `main.rs` + kube runtime | reflector store, trigger queue | deliver a watch event, start a reconcile, requeue, restart | API server (watch) |
| controller: `registry.rs`, `auth.rs`, `imageref.rs` | none | `is_available`, `credentials_for`, `ImageRef::parse` | registry, pull secrets |
| controller: `observability.rs` | a gauge and two counters, local to the process | `record_stub`, `record_revert` | scraped |
| webhook: `annotation.rs`, `patch.rs` | none (pure) | `parse_annotations`, `build_patch`, `prune_orphan_volumes` | called by `handle` |
| webhook: `admission.rs`, `server.rs` | none between requests | `handle`, `mutate`, `classify`, health and metrics routes | API server (AdmissionReview) |
| webhook: `main.rs`, `config.rs` | TLS material, the interval of the reloader, shutdown handle | start from the environment, reload every 60 s, drain on SIGTERM | files, signals, API server |
| dummies: `main.rs` | listener, signal handlers, requests in flight | `listen_addr`, start, `shutdown_signal` with its sleep, drain | kubelet (probes, signals), clients |
| dummies: `routes.rs`, `lib.rs` | none (pure) | `/health`, `/ready`, pages, catch-all | |
| chart, e2e | configuration | | |

The two halves never call each other. They meet in the pod: the controller reads
`stubby.io/type` only to choose the dummy, and the webhook sees pod CREATE only,
so no patch of the controller passes through it.

What is hard:

- **Stale state.** Every reconcile works on an object from the watch cache, which
  may be older than the controller's own last patch.
- **Unconditional patches.** Patches name the pod only (no `resourceVersion`, no
  uid) and land on whatever has that name by then, also on a successor.
- **The annotation is the only memory.** Everything else dies with the process. A
  record that is lost or wrong cannot be recovered by anyone.
- **No leader election.** A rolling update overlaps two controllers.
- **Awaits** between reading the pod, asking the registry and patching.
- **A JSON patch fails as a whole**, and takes the pod's admission with it. Each
  operation depends on what the manifest contains and on the operations before it.
- **Pruning volumes** relates containers, init containers and pod-level volumes.
- **Two ways into a dummy.** The webhook rewrites command, probes, ports and
  environment; the controller can change the image and nothing else. The same binary
  has to boot under both.
- **Shutdown.** SIGTERM reaches a process before the last client learns of it; the
  sleep, the drain and the kubelet's patience have to fit, and a signal that arrives
  before its handler is lost on process 1 of a container.
- **Rotation.** Certificate and key are two files read one after the other; pull
  secrets are read one call after the other.
- **Two parsers.** The controller picks a credential by its own reading of an image
  reference, `oci-client` asks whoever its own reading names.

`PROJECT.json` lists each hazard at its line with the properties that cover it.

## 2. Modules

```
RescueDecision      pure part of the controller: decision, plan, patches
  Rescue            the state machine: cluster, watch, reconcile
    RescueProperties    what it guarantees        INSTANCEs RescueContract
      MCRescue          values for model checking
      RescueProofs      theorems
        RescueLossProofs    the theorem about many containers
RescueContract      abstract: debts taken on and paid back

RegistryAuth        pure: image references, credentials from dockerconfigs
  RegistryCheck     pull secrets and is_available, again and again
    MCRegistryCheck
    RegistryProofs      theorems

AdmissionPatch      pure part of the webhook: annotations, JSON Patch
  Admission         one pod through admission
    AdmissionProperties
      MCAdmission       the reviews for model checking
      AdmissionProofs   theorems

WebhookServing      one replica of the webhook: configuration, TLS, SIGTERM
  MCWebhookServing
  WebhookProofs         theorems

DummyHttp           pure part of the dummies: address and answers
  DummyServer       one container that runs a dummy, kubelet and clients
    StubbedPod      DummyServer under AdmissionPatch and RescueDecision
      MCStubbedPod
      DummyProofs       theorems
```

Some definitions are preceded by a faulty variant of themselves (`plan_action_any`,
`should_skip_prefixes`, `ReturnAndWait`, ...). No specification uses these; putting
one in the place of the original shows that a property notices.

### Rescue

One pod *name* with everything that happens to it. Reconciles of different pods
share nothing but metrics, so one name shows every interleaving.

| Variable | Code |
|---|---|
| `pod` | the object at the API server: opt-in, type, container images, the `original-image` map, container statuses |
| `template`, `published` | what the owner asked for, what the registry holds |
| `stream[k]`, `cache[k]`, `queued[k]` | process `k`'s watch, reflector store, trigger queue and requeue timer |
| `snap[k]`, `todo[k]`, `available[k]` | locals of the running `reconcile`: the `Arc<Pod>`, the images still to be asked for, the `availability` map |
| `gauge[k]` | `stubby_rescued_pods` |
| `calm` | premise of the liveness properties: from here on no fault happens |

`reconcile` is cut at its awaits: `Reconcile` (read the object, decide whether the
registry is needed), one `CheckImage` per recorded image, then `ApplyStub`,
`ApplyRevert`, `Nothing` or `PatchFails`, each ending in `Return` with the requeue.
`Ignore` is the early return of a pod that did not opt in, `acked = FALSE` a patch
that is applied while its answer is lost. `Restart` may strike between any two
steps; a patch that is still on its way when its process dies, and lands after the next
one has listed the pods, is a step of the second controller of `RescueOne`. The
environment creates and deletes the pod (`StableName`: it comes back under its name, as
in a StatefulSet), edits its type and opt-in while it runs (`Annotate`, from the set
`Edits`), pulls and reports (`KubeletReport`, `KubeletFlake`) and pushes images
(`Publish`).

`RescueContract` knows no watch, cache or patch: a container that is taken over
owes its image, the debt never changes while the dummy runs, and it is paid in one
step once everything owed is pushed. The refinement maps `shown` to the images in
the pod and `owed` to the annotation.

### Admission

One pod: the review is sent, `Mutate` answers (or `MalformedBody`), the API server
applies the operations one after the other (`ApplyNext`, `RefusePatch`) and
validates the result. `CallFails` is a call that times out before or after the
webhook handled it; `failurePolicy: Ignore` then goes on with the pod as written.
`Valid` is the part of pod validation that the patch can break: images are there,
ports lie in 1..65535, every mount names a volume. The webhook keeps no state
between requests, so one review at a time loses nothing.

Containers are records of the fields that `build_patch` looks at; ports, probes,
mounts and variables are reduced to the numbers and names they mention. The patch is
kept as its operations in their order, in groups: one for each container (empty for
one that is skipped) and one for the volumes. `Foremost` is the group the next
operation is in. `ReviewsAssumption` is what a pod looks like that reaches a webhook:
the API server has checked it against the schema.

### RegistryAuth and RegistryCheck

`RegistryCheck` is what `Rescue` takes as one answer per image. `Begin` takes the
names of the pull secrets as a set (the code sorts and deduplicates them) and
`ReadSecret` is the `secrets.get` of the smallest one left (`IsNext`),
`ReadFails` one that fails, `Ask` parses the image and picks the credential, `Refuse`
is an image that `oci-client` does not parse, `Answered` the result of the manifest
request. `Return` forgets the locals; the requeue makes the next round start. At any
moment until `calm` the image is pushed, secrets and the registry's accepted
credentials change, calls fail and the controller restarts.

Texts are sequences of tokens in which `/`, `:`, `@` and `.` stand alone, so that
`split_once`, `rfind` and `contains` mean what they mean on strings. A dockerconfig is
the sequence of its entries in key order (`serde_json` keeps keys sorted); the nested
loops of `credentials_for` end at the `Earliest` of the `Usable` entries. An image is
given by its parts, and `Text` writes it down; `ImagesAssumption` is the grammar of the
references `oci-client` accepts. A
credential carries the registry that issued it, which only the properties look at.

### WebhookServing

| Variable | Code |
|---|---|
| `env` | `STUBBY_IMAGE_*`, `STUBBY_LISTEN` |
| `disk` | version of the Secret in the volume; a rotation replaces both files at once |
| `certRead` | a load that has read the certificate and not yet the key |
| `served` | the `RustlsConfig` new connections get |
| `phase`, `handler` | of `main` and of `spawn_shutdown_listener` |
| `listed`, `clock`, `age` | the endpoint, time since SIGTERM, time of each review in flight |

`ReadCert`/`LoadFirst` are `from_pem_file`, `ReadCert`/`Reload` are
`reload_from_pem_file`; a pair that does not match is refused. The first failure ends
the process, later ones keep the old pair. `LoadFirst` goes on to the bind, and an
address that cannot be bound ends the process as well.

### DummyHttp, DummyServer and StubbedPod

Both dummies have the same `main` and differ in the variable for the address, the
default port and the routes. `DummyServer` is one container: `Start` parses and binds
the address (and needs the image's own entrypoint), `InstallHandlers` or
`HandlersFail` begin `shutdown_signal`, `Terminate` is SIGTERM, `StopAccepting` the
end of its sleep, `Exit` the end of the drain. The kubelet probes, lists, terminates
(because the pod is deleted, because a probe fails, or because the controller reverts
the image), kills and restarts; clients connect while the pod is listed.

A port of zero has no privileges to ask for: the dummy then serves on a port that the OS
picks, where no probe finds it (`Binds`, `Answers`).

`StubbedPod` computes the container that `DummyServer` runs: `Injected` applies the
operations of `build_patch` one after the other, `Rescued` merges the patch of
`build_stub_patch`, and `View` reads from the result what the kubelet and the process
see. Nothing is assumed about the container in between.

## 3. Runs

`controllers`, `containers` and `lag` (`MaxLag`, undelivered versions per watch)
are the bounds. `GaugeBound` is 0 except in `RescueGauge`: the gauge influences
nothing.

| Run | Instance | Shows |
|---|---|---|
| `RescueOne` | 1 container, 2 controllers, lag 1, re-creation from one template, edits to another type and out of the opt-in and back, a kubelet that goes back to a failed pull, all faults | `TypeOK`, `DummyIsRecorded`, `ContractSpec` |
| `RescueMany` | 2 containers, 1 controller, lag 2, the pod lives on and is not edited | `UnpublishedNeverLost`, `NoPrematureRevert`, `NoForeignImage` |
| `RescueSidecar` | a container and a sidecar, re-creation from changing templates, every edit | `SidecarsUntouched`, `NoPrematureRevert` |
| `RescueLive` | 1 container, 1 controller, all faults and edits until `calm`, fairness | `EveryPodBoots`, `EventuallyRestored` |
| `Admission` | one container in every shape under the defaults and two extreme shapes under every annotation, ports -1, 0, 1, 65535 and 65536 included; 3 containers (one a sidecar), an init container, 2 volumes of all kinds mounted in every way; bodies that are no pod, a pod without an image, one without containers | `TypeOK`, `PatchAdmissible`, `SkippedUntouched`, `WholeOrNothing`, `LeftoversAreKept`, `PortsAgree`, `OwnersChoicesKept` |
| `RegistryCheck` | 10 images (no host, Docker Hub under two names, a dotted host, `localhost`, a port; tag, digest, both, neither; one that does not parse), pull secrets none, one, or two listed out of order and twice, each missing, garbage or one of three dockerconfigs with broken entries | `TypeOK`, `ParsedAsWritten`, `SentToItsHost`, `AnonymousOnlyIfNothingUsable`, `EventuallySeen` |
| `WebhookServing` | 36 environments (an address that is unset, good, malformed or cannot be bound), 3 versions of the Secret, 2 reviews, SIGTERM at any moment | `TypeOK`, `ServesOnlyUsable`, `ListedAnswers`, `NoReviewDropped`, `EventuallyCurrent` |
| `StubbedPod` | 324 manifests (environment, three probes, command; own ports that are blank, zero, privileged or out of range) under 6 sets of annotations, both ways into a dummy, signal handlers that work or fail, 2 clients | `TypeOK`, `NoneRefused`, `NoneCut`, `InjectedBoots`, `RescuedBoots` |

Why the bounds are enough. Two controllers show every conflict between processes:
each patch depends on one snapshot only. A stale snapshot differs from the pod in
what was written since; lag 1, with the snapshot a running reconcile holds on top of
the cache, already lets a patch land several versions late, and `RescueMany` adds a
second undelivered version. (Edits would take `RescueMany` beyond 15 million states;
the theorems cover them for the properties of that run; `RescueOne` leaves out a change
of type in one step with the opt-out, after which the type is not read, and a status
that goes back to creating, which every stub begins with anyway.) Two containers show
one record lost while another is written. The proofs below cover every bound for the properties they name.
In the webhook a container's operations depend on nothing outside that container
but the annotations, and pruning a volume only on who mounts it.

In the two process models a tick is five seconds and nothing else is bounded: a dummy
sleeps 3 ticks, the kubelet kills after 6, a request takes at most 2, an endpoint is
gone after at most 2; the webhook drains for up to 6 (as long as the kubelet waits),
a review takes at most 2 (the API server's default of ten seconds). `Later` stops at
the limits that `Due` enforces, so no clock runs away. Two clients or reviews show one
that is finished beside one that is not. Two rotations let one fall into a load and
another into the next. Secrets and accepted credentials change without limit until
`calm`; two secrets show one that is read before a change and one after it.

Deadlock is not checked (`CHECK_DEADLOCK FALSE`): with `MaxLag` as a bound and a
deleted pod that never comes back, a review that has been answered, or a process
that has been terminated for good, the system really may stop. `RegistryCheck` never
stops and checks it.

**Fairness** (`FairSpec`, used by `RescueLive` and `RescueLostRecord`). The kube
runtime polls the watch, the queue and the running reconcile: weak fairness on
`Deliver`, on starting a reconcile, on the registry checks and on the final step.
The requeue after success (`check_interval`) or error (30 s) is part of `Return`.
The kubelet retries and reports: its report stays due, and only the bound `MaxLag`
disables it for moments, so it gets strong fairness. Nobody is assumed to push an
image, and faults need not stop: both properties are conditional on `calm`.

`RegistryCheck` only needs the reconcile to go on, which the requeue after every
outcome guarantees. `WebhookServing` has weak fairness on each step of `main`, of the
reloader and of the signal listener (tokio runs every task that is ready, and the
interval never ends), on the kubelet's steps, on time and on answers; rotations and
SIGTERM need not happen. `StubbedPod` likewise, with the kubelet's probes that act on
what they find; nobody has to connect, delete or revert.

### Disagreements between code and documents

Each is a run that ends in a violation.

| Run | Property | What happens |
|---|---|---|
| `RescueLostRecord` | `EventuallyRestored` | Two containers fail; the first image is pushed and its container recovers while the controller, on an older object, stubs it. Before its own patch comes back through the watch the controller reads the object from between the two, in which only the second container fails. The stub patch rebuilds the whole annotation from that object, and the first record is gone: the dummy stays for ever. No fault is needed. |
| `RescueForeignImage` | `NoForeignImage` | A stub planned for a deleted pod records its image on the successor; the revert installs it there. |
| `RescueGauge` | `GaugeCountsRescuedPods` | The gauge rises for a pod that is stubbed already. |
| `AdmissionBootsGreen` | `BootsGreen` | A `startupProbe` of the real application stays on the dummy, on a port where it does not listen: the kubelet restarts it for ever. |

Noticed on the way, without a run of their own:

- The design promises patches with the observed `resourceVersion`; `apply_stub` and
  `apply_revert` send none. `RescueForeignImage` is what can come of it.
- A review whose object is no Pod is counted as `skip`, because `classify` looks at the
  patch alone; `docs/troubleshooting.md` says `error`.
- A frontend defaults to port 80, which its non-root image may not bind; the README
  says that the dummies default to 8080. `InjectedBoots` leaves such ports out by its
  premise.
- The controller leaves `command` in place, and the distroless dummy image has no other
  program than its own: a rescued container with a command never starts. `RescuedBoots`
  leaves it out by its premise; the webhook removes the command, and `InjectedBoots`
  covers that.
- `credentials_for` returns the first credential that decodes. A stale secret with a
  smaller name hides a valid one, and the pod stays on its dummy, although the kubelet
  tries them all. `EventuallySeen` therefore speaks of the first one.
- A credential that is wrong is refused even for a public image.
- When a dummy cannot install a signal handler, `shutdown_signal` returns and the
  server stops at once; the log only says that the shutdown will not be graceful.
- Every container of a pod that becomes a dummy gets the same `STUBBY_PORT`, and they
  share a network namespace: the second one cannot bind it.
- The webhook closes its listener at SIGTERM, without the dummies' sleep: until its
  endpoint is gone, reviews are refused and their pods admitted as they are
  (`ListedAnswers` allows this for the propagation time only).
- A revert replaces the image in place, so the dummy gets SIGTERM while its pod is still
  listed; `NoneRefused` speaks of pods that stay or are deleted.
- An image with a tag and a digest keeps `:tag` in `repository`; nobody reads that field.
- A container that shows the dummy already is stubbed once more from a stale object
  (the design says a container is never double-stubbed). `DummyIsRecorded` shows that
  this is harmless with one container, `RescueLostRecord` that it is not with two.
- A stub planned for a deleted pod can land on a successor that did not opt in, and one
  planned before the owner opts out on the pod after it. The controller then leaves that
  pod alone: its dummy stays until it opts in again, which is why `EventuallyRestored`
  speaks of pods that opted in.
- `build_patch` prunes an unmounted volume from a pod whose containers are all
  skipped, although its comment says it returns nothing then.
- `stubby.io/port: "0"` passes `parse::<u16>()`, although the design gives 1-65535;
  the API server then refuses the pod. `PatchAdmissible` leaves this port out.

## 4. Proofs

`RescueProofs` holds for every set of containers, images, templates, controllers
and flaky reports and for every bound.

- `TypeCorrect`: `Spec => []TypeOK`.
- `NoRevertBeforePush`: `Spec => NoPrematureRevert`. Invariant: what a reconcile
  counts as available has been published; images are never withdrawn.
- `SidecarsSafe`: `Spec => []SidecarsUntouched`.
- `NoForeignImages`: `Spec => NoForeignImage`, assuming that the pod is always
  re-created from one template (`OneTemplateOnly`). `RescueForeignImage` shows
  why the assumption is needed.
- `RecordIsExact`: `Spec => []DummyIsRecorded`, assuming one template and one
  container (`OneContainer`). `RescueLostRecord` shows why one container.
- `ContractKept`: `Spec => ContractSpec` under the same assumptions.

The argument is one idea. A property of `pod` alone is not inductive, because
patches are computed from old versions. So the invariants range over *every version
anybody knows of*: `Known` is the pod, each version in a stream, each cached object
and each snapshot. `KnownStep` says that a step adds at most the new pod to `Known`;
`PodStep` says how a new pod comes about (created, refreshed by the kubelet or its
owner, or merged with a stub or revert patch computed from a known version); `StubFields` and `RevertFields`
say what those merges give. The proof of each invariant is then a check of these few
cases. For instance `AllExact` (in every known version a container shows the
template's image with no record, or a dummy with the template's image recorded)
survives a stale stub because the record it rewrites is the one any known version
would have written.

The contract needs `AllExact` and more: a revert computed from a stale snapshot maps
to `GiveBack` or to a stutter, and all it restores was published when it was asked
for.

`RescueLossProofs` is about pods with many containers, where a patch can drop records.

- `NeededRecordsKept`: `Spec => []UnpublishedNeverLost`, assuming that one controller
  runs at a time and no patch of an earlier one is under way (`OneController`), that the
  name is not used again (`LivesOn`) and that a failed pull is never reported as anything else before the image is there
  (`NothingForgotten`). Two containers are enough to lose a record that is not needed
  any more: `RescueLostRecord`.

Here the argument needs the *order* of versions. A version flags a container that it
records or shows failing to pull; a stub computed from it leaves exactly its flagged
containers on record. `History` says that what a version flags every later one flags
(snapshot, cache, stream, pod, in this order), and that each record the pod has is
flagged by every version anybody still works on, all for containers whose image has not
been pushed. The second part survives a stub because the snapshot it was computed from
is the oldest version there is (`SnapFirst`), which is where one controller is needed; it
survives a revert because that needs every flagged image to be pushed.

`WebhookProofs` holds for any set of reviews and environments, any number of
rotations and any times with `Timeout < Grace <= KillAfter` and
`Propagation + Timeout < KillAfter` (`ReplicaAssumption`).

- `ReplicaTypes`, `ReplicaServesOnlyUsable`, `ReplicaListedAnswers`,
  `ReplicaDropsNoReview`: each `Spec => []...` of the property of that name.

`DummyProofs` holds for any clients, any container and any times with
`Propagation < Grace` and `Grace + RequestTime < KillAfter` (`TimesAssumption`).

- `DummyTypes`, `DummyRefusesNobody`, `DummyCutsNobodyOff`: `TypeOK`, `NoneRefused`,
  `NoneCut`.
- `StubbedPodServes`: both hold of every pod that the webhook or the controller has
  turned into a dummy, because `PodSpec => Spec` (`StubbedPodRunsDummy`).

The argument in both is about time. That nobody is cut off is not inductive: it needs
to be known how old a request in flight must be. It was accepted while the process
accepted, so after SIGTERM its age is at least the clock minus the time for which
requests still arrived (`Ages`, `Draining`); as no request gets older than its limit,
none is left when the process ends. That nobody is refused needs that a listed process
has its handlers and that an endpoint is gone in time (`Routing`). For the certificate
the invariant says what each phase of the process has already checked.

Assumptions on constants are the named `ASSUME`s of the modules (sets that are disjoint
and of the shapes stated, the inequalities between times); TLC evaluates them on every
run.

`AdmissionProofs` holds for any set of reviews, each with a pod of any number of
containers, init containers and volumes under any annotations, as long as the pods
have the shape that the API server's schema gives them (`ReviewsAssumption`) and the two
images are not absent (`AbsentAssumption`).

- `AdmissionTypes`, `PatchAlwaysAdmissible`, `SkippedNeverTouched`,
  `PatchedWholeOrNot`, `OnlyKeptIsLeft`, `PortsAlwaysAgree`, `OwnersChoicesAlwaysKept`:
  each `Spec => []...` of an invariant that the run `Admission` checks. All seven follow
  from one invariant (`AlwaysSafe`: `Spec => []Safe`).

A patch is applied one operation at a time, so nothing the properties say of the result
holds in between, and whether an operation applies depends on those before it. The
invariant says how far each container has come. `OpsOf` gives the operations of a
container as a *set*, `ContainerOpsLists` shows that the group in the patch lists
exactly this set, without repetition and with `STUBBY_APP_NAME` before `STUBBY_PORT`.
Except for these two, no two operations are about one field, so `Progress` can say of
the container, field by field: an operation that is still in the group has not changed
its field, one that is not has left its value there, and a field without an operation
is the owner's. `ProgressApplies` reads from this that the next operation finds its
target, `ProgressStep` that the invariant survives it, `ProgressKeeps` and
`ProgressDone` what follows halfway and at the end. `Overlaid` says so of all containers
and of the volumes, where `PruneShape` gives the three outcomes of
`prune_orphan_volumes`; that every mount keeps its volume follows from what `Needed`
collects, which is the part a wrong pruning would break.

`RegistryProofs` holds for any images that `oci-client` accepts (`ImagesAssumption`),
any lists of pull secrets, and dockerconfigs of any length in which what is written
under a host and can be read is that host's credential (`SecretsAssumption`).

- `ParserIsExact`: `Spec => []ParsedAsWritten`. `ParseIs` and `ReferenceIs` show for
  every text put together from its parts that the parser takes it apart again, also with
  a tag and a digest. The case that needs an argument is an image without a host: the first `/` may be anywhere in
  the path, and what is in front of it must not look like a host.
- `SentOnlyToItsHost`, `AnonymousOnlyIfNone`: `SentToItsHost` and
  `AnonymousOnlyIfNothingUsable`. `CredentialFits` says what the search finds, whatever
  is garbage in between; `SameRegistry` that the two readings of an image agree up to
  the names of Docker Hub. The invariant (`Picked`, in `AlwaysPicked`) says that the
  request on its way carries what the search found in the secrets read for it, which no
  change to the secrets afterwards can undo.
- `RegistryTypes`: `TypeOK`, which bounds what is read by the names in the pod.

**Only model-checked:** liveness (`EveryPodBoots`, `EventuallyRestored`,
`EventuallySeen`, `EventuallyCurrent`, `InjectedBoots`, `RescuedBoots`), which the
prover does not handle. Every invariant and action property of the passing runs is
also a theorem.

## 5. Not modelled

- Init containers in a rescue: the controller looks at `container_statuses` only.
- Another image given by hand to a live pod. A record made before would bring the old
  one back, as on the successor in `RescueForeignImage`.
- The controller's configuration: two names and an interval. Time has no part in
  `Rescue`, so the interval (and that `0` is accepted for it) makes no difference there.
- Metrics beyond the gauge and the label of an admission, the pages of the dummies and
  the escaping of a name in them, the chart and the end-to-end scripts: formatting,
  configuration data and I/O.
- Inline `env` entries that refer to a missing Secret (documented as kept) and volumes
  of other kinds, a claim say, can still hold a stubbed pod up, and so can whatever the
  containers that are not mutated ask for. `LeftoversAreKept` speaks of the references
  that the webhook removes.
- Several dummies in one pod: `StubbedPod` has one container.

## 6. Plan

1. (done) `RescueDecision`, `Rescue`, `RescueContract`, their properties and proofs;
   `AdmissionPatch`, `Admission`, their properties.
2. (done) `RegistryAuth` and `RegistryCheck`; `WebhookServing`; `DummyHttp`,
   `DummyServer` and `StubbedPod`; the proofs about both processes.
3. (done) Edits of a live pod's annotations in `Rescue`; the proof that records
   which are still needed are kept.
4. `kubectl set image` on a live pod, with the contract extended by it.
5. Two replicas of the webhook through a rolling update, from `WebhookServing`.
6. (done) Proofs about the admission of any pod and about the registry check.
7. Proofs: that a dummy recorded with all its images available is given back by the next
   reconcile that sees it, as a safety property of one step for any number of containers.
