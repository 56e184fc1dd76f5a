----------------------------- MODULE DummyServer -----------------------------
(***************************************************************************)
(* One container that runs a dummy, from its start to its end, with the    *)
(* kubelet that probes, terminates and restarts it and the clients that    *)
(* reach it through the Service.  Both dummies have the same main().       *)
(*                                                                         *)
(* Time is counted in ticks.  A SIGTERM does not stop the server: the      *)
(* shutdown future sleeps for Grace first, so that connections that are    *)
(* still being routed to the pod find it open; then the server drains.     *)
(***************************************************************************)
EXTENDS DummyHttp, Integers

CONSTANTS
    Clients,             \* who may have a request in flight
    Grace,               \* SHUTDOWN_GRACE, 15 s
    KillAfter,           \* terminationGracePeriodSeconds, 30 s
    Propagation,         \* until a terminating pod gets no new connections
    RequestTime,         \* until a request has been answered
    UnprivilegedStart    \* the first port a non-root process may bind

ASSUME TimesAssumption ==
    /\ Grace \in Nat /\ KillAfter \in Nat /\ Propagation \in Nat /\ RequestTime \in Nat
    /\ Propagation < Grace
    /\ Grace + RequestTime < KillAfter

VARIABLES
    container,   \* what the pod says of the container; never changes
    phase,       \* of the process
    handler,     \* of shutdown_signal
    reason,      \* why the kubelet terminates the container, "none" if it does not
    clock,       \* ticks since SIGTERM, NoTime before
    listed,      \* the Service routes new connections to the pod
    age          \* age[c]: ticks since c's request was accepted, NoTime if none

vars == <<container, phase, handler, reason, clock, listed, age>>

NoTime == -1

Phases == {"starting", "serving", "sleeping", "draining", "exited"}
Handlers == {"pending", "installed", "failed", "deaf"}
Reasons == {"none", "deleted", "failing", "reverted"}

(* The types, and that the kubelet's clock runs exactly while it has a     *)
(* reason to terminate the container.                                      *)
TypeOK ==
    /\ phase \in Phases
    /\ handler \in Handlers
    /\ reason \in Reasons
    /\ clock \in NoTime..KillAfter
    /\ listed \in BOOLEAN
    /\ age \in [Clients -> NoTime..RequestTime]
    /\ reason = "none" <=> clock = NoTime

Idle == [c \in Clients |-> NoTime]
Accepting == phase \in {"serving", "sleeping"}

InitProcess ==
    /\ phase = "starting"
    /\ handler = "pending"
    /\ reason = "none"
    /\ clock = NoTime
    /\ listed = FALSE
    /\ age = Idle

-----------------------------------------------------------------------------
(* main *)

addr == listen_addr(container.kind, container.env)

(* For the port 0 the kernel picks one of its own, which nobody knows of.  *)
Binds == Parses(addr) /\ (addr.port = 0 \/ addr.port >= UnprivilegedStart)

(* The image holds one program and no shell: a command that the owner     *)
(* left for the real application is not found in it.                       *)
Entrypoint == container.command = Unset

(* An address that does not parse or cannot be bound ends the process. *)
Start ==
    /\ phase = "starting"
    /\ phase' = IF Entrypoint /\ Binds THEN "serving" ELSE "exited"
    /\ UNCHANGED <<container, handler, reason, clock, listed, age>>

(* shutdown_signal: the future installs both handlers, or returns at once; *)
(* and when it returns the server stops accepting.                         *)
InstallHandlers ==
    /\ phase = "serving" /\ handler = "pending" /\ container.signals
    /\ handler' = "installed"
    /\ UNCHANGED <<container, phase, reason, clock, listed, age>>

HandlersFail ==
    /\ phase = "serving" /\ handler \in {"pending", "deaf"} /\ ~container.signals
    /\ handler' = "failed"
    /\ phase' = "draining"
    /\ UNCHANGED <<container, reason, clock, listed, age>>

(* The sleep is over and axum stops accepting. *)
StopAccepting ==
    /\ phase = "sleeping" /\ clock = Grace
    /\ phase' = "draining"
    /\ UNCHANGED <<container, handler, reason, clock, listed, age>>

Exit_now ==                                \* faulty: nothing is waited for
    /\ phase = "draining"
    /\ phase' = "exited"
    /\ UNCHANGED <<container, handler, reason, clock, listed, age>>

Exit ==
    /\ phase = "draining" /\ age = Idle
    /\ phase' = "exited"
    /\ UNCHANGED <<container, handler, reason, clock, listed, age>>

-----------------------------------------------------------------------------
(* The clients *)

Connect(c) ==
    /\ listed /\ Accepting /\ age[c] = NoTime
    /\ age' = [age EXCEPT ![c] = 0]
    /\ UNCHANGED <<container, phase, handler, reason, clock, listed>>

Finish(c) ==
    /\ phase # "exited" /\ age[c] # NoTime
    /\ age' = [age EXCEPT ![c] = NoTime]
    /\ UNCHANGED <<container, phase, handler, reason, clock, listed>>

-----------------------------------------------------------------------------
(* The kubelet *)

(* A probe is a GET on a port and a path. *)
Answers(probe) ==
    /\ Accepting
    /\ addr = Address("0.0.0.0", probe.port) /\ addr.port # 0
    /\ router(container.kind, probe.path, container.env).status = 200

Passes(probe) == probe # Unset => Answers(probe)

(* The pod gets into the Service when its startup and readiness probes     *)
(* pass; without them as soon as the container has been started.  The      *)
(* first probe comes when the process has long reached shutdown_signal.    *)
BecomeReady ==
    /\ ~listed /\ reason = "none" /\ phase \in {"starting", "serving"}
    /\ Passes(container.startup) /\ Passes(container.readiness)
    /\ handler = "pending" => container.startup = Unset /\ container.readiness = Unset
    /\ listed' = TRUE
    /\ UNCHANGED <<container, phase, handler, reason, clock, age>>

(* A container that has exited is not ready, a deleted pod no endpoint. *)
Unlist ==
    /\ listed
    /\ reason = "deleted" \/ phase = "exited"
    /\ listed' = FALSE
    /\ UNCHANGED <<container, phase, handler, reason, clock, age>>

(* A probe that has failed often enough has the container restarted.       *)
Failing ==
    /\ phase = "serving" /\ handler = "installed"
    /\ ~Passes(container.startup) \/ ~Passes(container.liveness)

Terminate_now(why) ==                      \* faulty: no sleep before the drain
    /\ reason = "none" /\ phase # "exited"
    /\ why = "failing" => Failing
    /\ reason' = why
    /\ clock' = 0
    /\ phase' = "draining"
    /\ UNCHANGED <<container, handler, listed, age>>

(* SIGTERM.  The dummy is process 1 of its container: a signal that it has *)
(* no handler for yet is ignored.                                          *)
Terminate(why) ==
    /\ reason = "none" /\ phase # "exited"
    /\ why = "failing" => Failing
    /\ reason' = why
    /\ clock' = 0
    /\ IF phase = "serving" /\ handler = "installed"
       THEN phase' = "sleeping" /\ UNCHANGED handler
       ELSE UNCHANGED phase /\ handler' = IF handler = "pending" THEN "deaf" ELSE handler
    /\ UNCHANGED <<container, listed, age>>

(* SIGKILL: what is in flight is lost. *)
Kill ==
    /\ clock = KillAfter /\ phase # "exited"
    /\ phase' = "exited"
    /\ UNCHANGED <<container, handler, reason, clock, listed, age>>

Restart_stale ==                           \* faulty: the clock runs on
    /\ phase = "exited" /\ reason \in {"none", "failing"}
    /\ phase' = "starting"
    /\ handler' = "pending"
    /\ reason' = "none"
    /\ listed' = FALSE
    /\ age' = Idle
    /\ UNCHANGED <<container, clock>>

(* restartPolicy Always *)
Restart ==
    /\ phase = "exited" /\ reason \in {"none", "failing"}
    /\ phase' = "starting"
    /\ handler' = "pending"
    /\ reason' = "none"
    /\ clock' = NoTime
    /\ listed' = FALSE
    /\ age' = Idle
    /\ UNCHANGED container

-----------------------------------------------------------------------------
(* Time passes, but not beyond the moment at which something is due. *)
Later(t, limit) == IF t = NoTime \/ t = limit THEN t ELSE t + 1

Due ==
    \/ listed /\ reason = "deleted" /\ clock = Propagation
    \/ phase = "sleeping" /\ clock = Grace
    \/ clock = KillAfter
    \/ \E c \in Clients : age[c] = RequestTime

Tick ==
    /\ phase # "exited" /\ ~Due
    /\ clock' = Later(clock, KillAfter)
    /\ age' = [c \in Clients |-> Later(age[c], RequestTime)]
    /\ UNCHANGED <<container, phase, handler, reason, listed>>

Process == Start \/ InstallHandlers \/ HandlersFail \/ StopAccepting \/ Exit
Kubelet == BecomeReady \/ Unlist \/ Kill \/ Restart

Next ==
    \/ Process \/ Kubelet \/ Tick
    \/ \E why \in Reasons \ {"none"} : Terminate(why)
    \/ \E c \in Clients : Connect(c) \/ Finish(c)

Spec == InitProcess /\ [][Next]_vars

(* The process runs, requests end, the kubelet goes on probing and acts on *)
(* what it finds; nobody has to delete the pod or to connect.              *)
Fairness ==
    /\ WF_vars(Process) /\ WF_vars(Tick)
    /\ WF_vars(BecomeReady) /\ WF_vars(Unlist) /\ WF_vars(Kill) /\ WF_vars(Restart)
    /\ WF_vars(Terminate("failing"))
    /\ \A c \in Clients : WF_vars(Finish(c))

FairSpec == Spec /\ Fairness

-----------------------------------------------------------------------------
(* Properties *)

Probed == container.readiness # Unset

(* No client of the Service meets a closed port, neither while the dummy   *)
(* comes up nor while its pod is deleted: the server goes on accepting     *)
(* after SIGTERM until nobody is sent there any more.                      *)
NoneRefused ==
    listed /\ Probed /\ reason \in {"none", "deleted"} => Accepting

(* No request that was accepted is lost to the end of the process: the     *)
(* sleep and the drain fit into the kubelet's grace period, whyever the    *)
(* container is terminated.  A dummy without a readiness probe may have    *)
(* clients before it has its handlers, and is then killed with them.       *)
NoneCut ==
    phase = "exited" /\ (handler = "installed" \/ Probed) => age = Idle
=============================================================================
