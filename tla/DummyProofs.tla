----------------------------- MODULE DummyProofs -----------------------------
(***************************************************************************)
(* A dummy refuses no client of its Service and loses no request, for any  *)
(* clients, any container and any times that satisfy TimesAssumption.      *)
(***************************************************************************)
EXTENDS StubbedPod, TLAPS

(* Time of SIGTERM and state of the process fit together. *)
Shutdown ==
    /\ phase = "starting" => handler \in {"pending", "deaf"}
    /\ handler = "deaf" => clock # NoTime
    /\ handler = "pending" => clock = NoTime
    /\ phase = "sleeping" => handler = "installed" /\ clock # NoTime /\ clock <= Grace
    /\ handler = "installed" /\ clock # NoTime => phase # "serving"
    /\ handler = "installed" /\ phase = "draining" => clock # NoTime
    /\ handler = "failed" => phase \in {"draining", "exited"}

(* A probed dummy has its handlers before it has a client, and a deleted   *)
(* pod is unlisted in time.                                                *)
Routing ==
    /\ Probed /\ handler # "installed" => ~listed /\ \A c \in Clients : age[c] = NoTime
    /\ listed /\ reason = "deleted" => clock <= Propagation
    /\ NoneRefused

(* A request still in flight after SIGTERM was accepted before the sleep   *)
(* ended, so it is older than the time since then.                         *)
Draining ==
    /\ handler = "installed" /\ clock # NoTime =>
          \A c \in Clients : age[c] # NoTime => clock - Grace <= age[c]
    /\ NoneCut

IInv == TypeOK /\ Shutdown /\ Routing /\ Draining

LEMMA IdleTypes ==
    Idle \in [Clients -> NoTime..RequestTime] /\ NoTime \in NoTime..KillAfter
  BY TimesAssumption DEF TimesAssumption, Idle, NoTime

LEMMA InitInv == InitProcess => IInv
<1> SUFFICES ASSUME InitProcess PROVE IInv
  OBVIOUS
<1>1. TypeOK
  BY IdleTypes DEF InitProcess, TypeOK, Phases, Handlers, Reasons
<1>2. Shutdown /\ Routing /\ Draining
  BY DEF InitProcess, Shutdown, Routing, Draining, NoneRefused, NoneCut, Idle
<1> QED
  BY <1>1, <1>2 DEF IInv

LEMMA StepInv == IInv /\ [Next]_vars => IInv'
<1> SUFFICES ASSUME IInv, [Next]_vars PROVE IInv'
  OBVIOUS
<1> USE TimesAssumption
    DEF TimesAssumption, IInv, TypeOK, Shutdown, Routing, Draining, NoneRefused, NoneCut,
        Phases, Handlers, Reasons, NoTime, Probed, Accepting
<1>1. CASE Start
  BY <1>1 DEF Start, Idle
<1>2. CASE InstallHandlers
  BY <1>2 DEF InstallHandlers, Idle
<1>3. CASE HandlersFail
  BY <1>3 DEF HandlersFail, Idle
<1>4. CASE StopAccepting
  BY <1>4 DEF StopAccepting, Idle
<1>5. CASE Exit
  BY <1>5 DEF Exit, Idle
<1>6. CASE BecomeReady
  BY <1>6 DEF BecomeReady, Passes, Answers, Idle
<1>7. CASE Unlist
  BY <1>7 DEF Unlist, Idle
<1>8. CASE Kill
  BY <1>8 DEF Kill, Idle
<1>9. CASE Restart
  <2>1. TypeOK'
    BY <1>9, IdleTypes DEF Restart
  <2>2. (Shutdown /\ Routing /\ Draining)'
    BY <1>9 DEF Restart, Idle
  <2> QED
    BY <2>1, <2>2
<1>10. CASE Tick
  BY <1>10 DEF Tick, Due, Later, Idle
<1>11. ASSUME NEW why \in Reasons \ {"none"}, Terminate(why) PROVE IInv'
  BY <1>11 DEF Terminate, Idle
<1>12. ASSUME NEW c \in Clients, Connect(c) PROVE IInv'
  BY <1>12 DEF Connect, Idle
<1>13. ASSUME NEW c \in Clients, Finish(c) PROVE IInv'
  BY <1>13 DEF Finish, Idle
<1>14. CASE UNCHANGED vars
  BY <1>14 DEF vars, Idle
<1> QED
  BY <1>1, <1>2, <1>3, <1>4, <1>5, <1>6, <1>7, <1>8, <1>9, <1>10, <1>11, <1>12, <1>13,
     <1>14 DEF Next, Process, Kubelet

(* The dummy by itself. *)
THEOREM DummyInv == Spec => []IInv
<1>1. InitProcess => IInv
  BY InitInv
<1>2. IInv /\ [Next]_vars => IInv'
  BY StepInv
<1> QED
  BY <1>1, <1>2, PTL DEF Spec

(* Type correctness. *)
THEOREM DummyTypes == Spec => []TypeOK
<1>1. IInv => TypeOK
  BY DEF IInv
<1> QED
  BY <1>1, DummyInv, PTL

(* No client that the Service sends to a probed dummy meets a closed port. *)
THEOREM DummyRefusesNobody == Spec => []NoneRefused
<1>1. IInv => NoneRefused
  BY DEF IInv, Routing
<1> QED
  BY <1>1, DummyInv, PTL

(* No accepted request is lost to the end of the process. *)
THEOREM DummyCutsNobodyOff == Spec => []NoneCut
<1>1. IInv => NoneCut
  BY DEF IInv, Draining
<1> QED
  BY <1>1, DummyInv, PTL

-----------------------------------------------------------------------------
(* However a pod has come to its dummy, by the webhook or the controller,  *)
(* the dummy in it is the one of DummyServer, so all of this holds there.  *)
THEOREM StubbedPodRunsDummy == PodSpec => Spec
<1>1. PodInit => InitProcess
  BY DEF PodInit
<1>2. [PodNext]_podVars => [Next]_vars
  BY DEF PodNext, podVars
<1> QED
  BY <1>1, <1>2, PTL DEF PodSpec, Spec

THEOREM StubbedPodServes == PodSpec => [](NoneRefused /\ NoneCut)
<1> QED
  BY StubbedPodRunsDummy, DummyRefusesNobody, DummyCutsNobodyOff, PTL
=============================================================================
