---------------------------- MODULE WebhookProofs ----------------------------
(***************************************************************************)
(* A replica of the webhook serves only usable TLS material and drops no   *)
(* review, for any reviews, any environments, any number of rotations and  *)
(* any times that satisfy ReplicaAssumption.                               *)
(***************************************************************************)
EXTENDS WebhookServing, TLAPS

(* Only a process that serves has reviews, is listed or has a handler.     *)
Life ==
    /\ phase \in {"starting", "loading"} => handler \in {"pending", "deaf"}
    /\ phase \in {"starting", "loading"} => ~listed /\ age = Idle
    /\ phase \in {"starting", "loading", "exited"} /\ clock = NoTime => age = Idle
    /\ phase = "draining" => handler = "installed" /\ clock # NoTime /\ clock <= Grace

Signal ==
    /\ handler = "deaf" => clock # NoTime
    /\ handler = "pending" => clock = NoTime
    /\ handler = "failed" => clock = NoTime
    /\ handler = "installed" /\ clock # NoTime => phase \in {"draining", "exited"}

Routing ==
    /\ listed /\ clock # NoTime => clock <= Propagation
    /\ listed /\ clock = NoTime => phase = "serving"
    /\ phase \in {"loading", "serving", "draining"} => from_env(env)
    /\ phase \in {"serving", "draining"} => Loads(served) /\ served.cert # None

(* How old a review in flight must be, by whether the listener was closed  *)
(* at SIGTERM or open as long as the pod was listed.                       *)
Ages ==
    /\ handler = "installed" /\ clock # NoTime =>
          \A r \in Reviews : age[r] # NoTime => clock <= age[r]
    /\ clock # NoTime =>
          \A r \in Reviews : age[r] # NoTime => clock - Propagation <= age[r]
    /\ NoReviewDropped

IInv == TypeOK /\ Life /\ Signal /\ Routing /\ Ages

LEMMA IdleTypes ==
    /\ Idle \in [Reviews -> NoTime..Timeout] /\ NoTime \in NoTime..KillAfter
    /\ 0 \in Versions /\ NoPair \in [cert : Versions \cup {None}, key : Versions \cup {None}]
  BY ReplicaAssumption DEF ReplicaAssumption, Idle, NoTime, Versions, NoPair, Pair

LEMMA LoadedTypes ==
    ASSUME TypeOK, certRead # None
    PROVE  /\ Loaded \in [cert : Versions \cup {None}, key : Versions \cup {None}]
           /\ Loaded.cert # None
  BY DEF TypeOK, Loaded, Pair

LEMMA InitInv == Init => IInv
<1> SUFFICES ASSUME Init PROVE IInv
  OBVIOUS
<1>1. TypeOK
  BY IdleTypes DEF Init, TypeOK, Phases, Handlers
<1>2. Life /\ Signal /\ Routing /\ Ages
  BY DEF Init, Life, Signal, Routing, Ages, NoReviewDropped
<1> QED
  BY <1>1, <1>2 DEF IInv

LEMMA StepInv == IInv /\ [Next]_vars => IInv'
<1> SUFFICES ASSUME IInv, [Next]_vars PROVE IInv'
  OBVIOUS
<1> USE DEF IInv, Life, Signal, Routing, Ages, NoReviewDropped, Phases, Handlers, tls
<1>1. CASE Configure
  BY <1>1 DEF Configure, TypeOK, Idle
<1>2. CASE ReadCert
  BY <1>2 DEF ReadCert, TypeOK, Idle
<1>3. CASE LoadFirst
  BY <1>3, LoadedTypes DEF LoadFirst, TypeOK, Idle
<1>4. CASE Reload
  BY <1>4, LoadedTypes DEF Reload, TypeOK, Idle
<1>5. CASE InstallHandlers
  BY <1>5 DEF InstallHandlers, TypeOK, Idle
<1>6. CASE Exit
  BY <1>6, ReplicaAssumption DEF Exit, TypeOK, Idle, ReplicaAssumption, NoTime
<1>7. CASE Rotate
  BY <1>7, ReplicaAssumption DEF Rotate, TypeOK, Idle, Versions, None, ReplicaAssumption
<1>8. CASE Terminate
  BY <1>8, ReplicaAssumption DEF Terminate, TypeOK, Idle, NoTime, ReplicaAssumption
<1>9. CASE BecomeReady
  BY <1>9 DEF BecomeReady, TypeOK, Idle
<1>10. CASE Unlist
  BY <1>10 DEF Unlist, TypeOK, Idle
<1>11. CASE Kill
  BY <1>11, ReplicaAssumption DEF Kill, TypeOK, Idle, ReplicaAssumption, NoTime
<1>12. CASE Restart
  BY <1>12, IdleTypes DEF Restart, TypeOK
<1>13. CASE Tick
  BY <1>13, ReplicaAssumption DEF Tick, Due, Later, TypeOK, Idle, NoTime, ReplicaAssumption
<1>14. ASSUME NEW r \in Reviews, Send(r) PROVE IInv'
  BY <1>14, ReplicaAssumption DEF Send, TypeOK, Idle, NoTime, ReplicaAssumption
<1>15. ASSUME NEW r \in Reviews, Answer(r) PROVE IInv'
  BY <1>15, ReplicaAssumption DEF Answer, TypeOK, Idle, NoTime, ReplicaAssumption
<1>16. CASE UNCHANGED vars
  BY <1>16 DEF vars, TypeOK, Idle
<1> QED
  BY <1>1, <1>2, <1>3, <1>4, <1>5, <1>6, <1>7, <1>8, <1>9, <1>10, <1>11, <1>12, <1>13,
     <1>14, <1>15, <1>16 DEF Next, Main

(* The strengthening: what a process may hold in each phase of its life,   *)
(* and how old a review in flight is after SIGTERM.                        *)
THEOREM ReplicaInv == Spec => []IInv
<1>1. Init => IInv
  BY InitInv
<1>2. IInv /\ [Next]_vars => IInv'
  BY StepInv
<1> QED
  BY <1>1, <1>2, PTL DEF Spec

(* Type correctness. *)
THEOREM ReplicaTypes == Spec => []TypeOK
<1>1. IInv => TypeOK
  BY DEF IInv
<1> QED
  BY <1>1, ReplicaInv, PTL

(* No rotation, however it falls into a load, makes a replica serve a      *)
(* certificate with a key that is not its own, or inject a blank image.    *)
THEOREM ReplicaServesOnlyUsable == Spec => []ServesOnlyUsable
<1>1. IInv => ServesOnlyUsable
  <2> SUFFICES ASSUME IInv, phase \in {"serving", "draining"} \/ age # Idle
               PROVE  /\ served.cert # None /\ served.key = served.cert
                      /\ {env.backend, env.frontend} \cap {Unset, Blank} = {}
    BY DEF ServesOnlyUsable
  <2>1. phase \in {"serving", "draining"}
    BY DEF IInv, TypeOK, Phases, Life, Ages, NoReviewDropped
  <2> QED
    BY <2>1 DEF IInv, Routing, Loads, from_env, required_env
<1> QED
  BY <1>1, ReplicaInv, PTL

(* A replica that reviews are sent to accepts them, except for a moment    *)
(* after SIGTERM.                                                          *)
THEOREM ReplicaListedAnswers == Spec => []ListedAnswers
<1>1. IInv => ListedAnswers
  BY ReplicaAssumption
     DEF IInv, TypeOK, Routing, ListedAnswers, NoTime, ReplicaAssumption
<1> QED
  BY <1>1, ReplicaInv, PTL

(* No review in flight is dropped by the end of a replica, whether it saw  *)
(* the SIGTERM or is killed.                                               *)
THEOREM ReplicaDropsNoReview == Spec => []NoReviewDropped
<1>1. IInv => NoReviewDropped
  BY DEF IInv, Ages
<1> QED
  BY <1>1, ReplicaInv, PTL
=============================================================================
