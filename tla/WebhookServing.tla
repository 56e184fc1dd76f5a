---------------------------- MODULE WebhookServing ----------------------------
(***************************************************************************)
(* One replica of the webhook as a process: its configuration, the TLS     *)
(* material it loads at the start and reloads while it serves, and its end *)
(* on SIGTERM with admission reviews in flight.                            *)
(*                                                                         *)
(* The certificate and its key are two files of one Secret volume.  A      *)
(* rotation replaces both at once, but they are read one after the other,  *)
(* so a rotation may come in between.  Time is counted in ticks.           *)
(***************************************************************************)
EXTENDS Integers

CONSTANTS
    Reviews,         \* reviews that may be in flight at this replica
    Environments,    \* the environments it may be started with
    Unset, Blank,    \* a variable that is not set, or nothing but white space
    Malformed,       \* a STUBBY_LISTEN that is no <host>:<port>
    Unbindable,      \* a STUBBY_LISTEN that the process cannot bind
    Rotations,       \* bound: rotations of the Secret
    Grace,           \* SHUTDOWN_GRACE, 30 s
    KillAfter,       \* terminationGracePeriodSeconds, 30 s
    Propagation,     \* until a terminating pod gets no new reviews
    Timeout          \* timeoutSeconds of the webhook: the API server gives up

ASSUME ReplicaAssumption ==
    /\ Rotations \in Nat
    /\ Grace \in Nat /\ KillAfter \in Nat /\ Propagation \in Nat /\ Timeout \in Nat
    /\ Timeout < Grace /\ Grace <= KillAfter
    /\ Propagation + Timeout < KillAfter

VARIABLES
    env,         \* the environment; never changes
    phase,       \* of the process
    disk,        \* the version of the Secret in the volume
    certRead,    \* the version of the certificate a load has read, None if none is under way
    served,      \* the pair new connections get, NoPair before the first load
    handler,     \* of spawn_shutdown_listener
    listed,      \* the Service sends new reviews here
    clock,       \* ticks since SIGTERM, NoTime before
    age          \* age[r]: ticks since review r was accepted, NoTime if it is not in flight

tls == <<disk, certRead, served>>
vars == <<env, phase, tls, handler, listed, clock, age>>

NoTime == -1
None == -1
Versions == 0..Rotations
Pair(c, k) == [cert |-> c, key |-> k]
NoPair == Pair(None, None)

Phases == {"starting", "loading", "serving", "draining", "exited"}
Handlers == {"pending", "installed", "failed", "deaf"}

TypeOK ==
    /\ env \in Environments
    /\ phase \in Phases
    /\ disk \in Versions
    /\ certRead \in Versions \cup {None}
    /\ served \in [cert : Versions \cup {None}, key : Versions \cup {None}]
    /\ handler \in Handlers
    /\ handler \in {"installed", "failed"} => phase \in {"serving", "draining", "exited"}
    /\ listed \in BOOLEAN
    /\ clock \in NoTime..KillAfter
    /\ age \in [Reviews -> NoTime..Timeout]

Idle == [r \in Reviews |-> NoTime]

Init ==
    /\ env \in Environments
    /\ phase = "starting"
    /\ disk = 0
    /\ certRead = None
    /\ served = NoPair
    /\ handler = "pending"
    /\ listed = FALSE
    /\ clock = NoTime
    /\ age = Idle

-----------------------------------------------------------------------------
(* config.rs and the first half of main *)

required_env_set(v) == v # Unset            \* faulty: white space will do

required_env(v) == v \notin {Unset, Blank}

from_env(e) == required_env(e.backend) /\ required_env(e.frontend)

(* Anything missing ends the process before it listens. *)
Configure ==
    /\ phase = "starting"
    /\ phase' = IF env.listen # Malformed /\ from_env(env) THEN "loading" ELSE "exited"
    /\ UNCHANGED <<env, tls, handler, listed, clock, age>>

(* RustlsConfig::from_pem_file, and every 60 s reload_from_pem_file: first *)
(* the certificate, then the key.                                          *)
ReadCert ==
    /\ phase \in {"loading", "serving", "draining"} /\ certRead = None
    /\ certRead' = disk
    /\ UNCHANGED <<env, phase, disk, served, handler, listed, clock, age>>

(* rustls takes no key that does not belong to the certificate. *)
Loads(pair) == pair.cert = pair.key

Loaded == Pair(certRead, disk)

(* from_pem_file at the start, then bind_rustls: the process ends if there *)
(* is no TLS material, or no listener to be had.                           *)
LoadFirst ==
    /\ phase = "loading" /\ certRead # None
    /\ IF Loads(Loaded) /\ env.listen # Unbindable
       THEN phase' = "serving" /\ served' = Loaded
       ELSE phase' = "exited" /\ UNCHANGED served
    /\ certRead' = None
    /\ UNCHANGED <<env, disk, handler, listed, clock, age>>

Reload_unchecked ==                         \* faulty: each file for itself
    /\ phase \in {"serving", "draining"} /\ certRead # None
    /\ served' = Loaded
    /\ certRead' = None
    /\ UNCHANGED <<env, phase, disk, handler, listed, clock, age>>

Reload_or_die ==                            \* faulty: a failed reload is fatal
    /\ phase \in {"serving", "draining"} /\ certRead # None
    /\ IF Loads(Loaded) THEN served' = Loaded /\ UNCHANGED phase
                        ELSE phase' = "exited" /\ UNCHANGED served
    /\ certRead' = None
    /\ UNCHANGED <<env, disk, handler, listed, clock, age>>

Reload_once ==                              \* faulty: only the first reload counts
    /\ phase \in {"serving", "draining"} /\ certRead # None
    /\ served' = IF Loads(Loaded) THEN Loaded ELSE served
    /\ UNCHANGED <<env, phase, disk, certRead, handler, listed, clock, age>>

(* spawn_cert_reloader: a reload that fails keeps the previous material.   *)
Reload ==
    /\ phase \in {"serving", "draining"} /\ certRead # None
    /\ served' = IF Loads(Loaded) THEN Loaded ELSE served
    /\ certRead' = None
    /\ UNCHANGED <<env, phase, disk, handler, listed, clock, age>>

(* cert-manager renews the Secret and the kubelet swaps the volume. *)
Rotate ==
    /\ disk < Rotations
    /\ disk' = disk + 1
    /\ UNCHANGED <<env, phase, certRead, served, handler, listed, clock, age>>

-----------------------------------------------------------------------------
(* Reviews *)

(* A review that meets a closed port is not answered here: failurePolicy   *)
(* Ignore admits its pod as it is.                                         *)
Send(r) ==
    /\ listed /\ phase = "serving" /\ age[r] = NoTime
    /\ age' = [age EXCEPT ![r] = 0]
    /\ UNCHANGED <<env, phase, tls, handler, listed, clock>>

(* The answer; or the API server has given up. *)
Answer(r) ==
    /\ phase # "exited" /\ age[r] # NoTime
    /\ age' = [age EXCEPT ![r] = NoTime]
    /\ UNCHANGED <<env, phase, tls, handler, listed, clock>>

-----------------------------------------------------------------------------
(* spawn_shutdown_listener *)

InstallHandlers_first ==                    \* faulty: before there is a server to stop
    /\ phase # "exited" /\ handler = "pending"
    /\ handler' \in {"installed", "failed"}
    /\ UNCHANGED <<env, phase, tls, listed, clock, age>>

InstallHandlers ==
    /\ phase = "serving" /\ handler = "pending"
    /\ handler' \in {"installed", "failed"}
    /\ UNCHANGED <<env, phase, tls, listed, clock, age>>

(* SIGTERM: handle.graceful_shutdown.  The listener is closed at once.     *)
(* The webhook is process 1 of its container: a signal that it has no      *)
(* handler for is ignored.                                                 *)
Terminate ==
    /\ clock = NoTime /\ phase # "exited"
    /\ clock' = 0
    /\ IF handler = "installed"
       THEN phase' = "draining" /\ UNCHANGED handler
       ELSE handler' = "deaf" /\ UNCHANGED phase
    /\ UNCHANGED <<env, tls, listed, age>>

Exit_at_once ==                             \* faulty: shutdown() instead
    /\ phase = "draining"
    /\ phase' = "exited"
    /\ UNCHANGED <<env, tls, handler, listed, clock, age>>

(* serve() returns when nothing is in flight any more, or after Grace.     *)
Exit ==
    /\ phase = "draining"
    /\ age = Idle \/ clock = Grace
    /\ phase' = "exited"
    /\ UNCHANGED <<env, tls, handler, listed, clock, age>>

-----------------------------------------------------------------------------
(* The kubelet.  readinessProbe: GET /readyz, first after two seconds, when*)
(* the listener task has long run.                                         *)
BecomeReady ==
    /\ ~listed /\ phase = "serving" /\ handler # "pending" /\ clock = NoTime
    /\ listed' = TRUE
    /\ UNCHANGED <<env, phase, tls, handler, clock, age>>

Unlist ==
    /\ listed /\ clock # NoTime
    /\ listed' = FALSE
    /\ UNCHANGED <<env, phase, tls, handler, clock, age>>

Kill ==
    /\ clock = KillAfter /\ phase # "exited"
    /\ phase' = "exited"
    /\ UNCHANGED <<env, tls, handler, listed, clock, age>>

(* A container that exits of itself is started again. *)
Restart ==
    /\ phase = "exited" /\ clock = NoTime
    /\ phase' = "starting"
    /\ certRead' = None
    /\ served' = NoPair
    /\ handler' = "pending"
    /\ listed' = FALSE
    /\ age' = Idle
    /\ UNCHANGED <<env, disk, clock>>

(* Time passes, but not beyond the moment at which something is due. *)
Later(t) == IF t = NoTime THEN t ELSE t + 1

Due ==
    \/ listed /\ clock = Propagation
    \/ phase = "draining" /\ clock = Grace
    \/ clock = KillAfter
    \/ \E r \in Reviews : age[r] = Timeout

Tick ==
    /\ phase # "exited" /\ ~Due
    /\ clock' = Later(clock)
    /\ age' = [r \in Reviews |-> Later(age[r])]
    /\ UNCHANGED <<env, phase, tls, handler, listed>>

-----------------------------------------------------------------------------
Main == Configure \/ ReadCert \/ LoadFirst \/ Reload \/ InstallHandlers \/ Exit

Next ==
    \/ Main \/ Rotate \/ Terminate \/ BecomeReady \/ Unlist \/ Kill \/ Restart \/ Tick
    \/ \E r \in Reviews : Send(r) \/ Answer(r)

Spec == Init /\ [][Next]_vars

(* The process and the kubelet go on, the interval of the reloader keeps   *)
(* ticking; nobody has to rotate or to terminate.                          *)
Fairness ==
    /\ WF_vars(Configure) /\ WF_vars(ReadCert) /\ WF_vars(LoadFirst) /\ WF_vars(Reload)
    /\ WF_vars(InstallHandlers) /\ WF_vars(Exit)
    /\ WF_vars(BecomeReady) /\ WF_vars(Unlist) /\ WF_vars(Kill) /\ WF_vars(Restart)
    /\ WF_vars(Tick) /\ \A r \in Reviews : WF_vars(Answer(r))

FairSpec == Spec /\ Fairness

-----------------------------------------------------------------------------
(* Properties *)

(* Whatever a rotation does between the two reads of a load, a replica     *)
(* that listens has a certificate with its own key, and both dummy images  *)
(* to inject.                                                              *)
ServesOnlyUsable ==
    phase \in {"serving", "draining"} \/ age # Idle =>
        /\ served.cert # None /\ served.key = served.cert
        /\ {env.backend, env.frontend} \cap {Unset, Blank} = {}

(* A replica that reviews are sent to accepts them: no rotation and no     *)
(* failed reload ever takes it out of service.  Only after SIGTERM is it   *)
(* closed and still in the Service, for as long as the news takes.         *)
ListedAnswers ==
    listed => phase = "serving" \/ clock \in 0..Propagation

(* No review in flight is dropped by the end of the process.               *)
NoReviewDropped == phase = "exited" => age = Idle

(* Once the Secret rests, a replica that is configured, can bind its       *)
(* address and is not terminated serves, with the certificate of the       *)
(* Secret, without a restart of anyone but the kubelet's own.              *)
EventuallyCurrent ==
    <>[](/\ {env.backend, env.frontend} \cap {Unset, Blank} = {}
         /\ env.listen \notin {Malformed, Unbindable}
         /\ clock = NoTime
         => listed /\ phase = "serving" /\ served = Pair(disk, disk))
=============================================================================
