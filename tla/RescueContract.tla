--------------------------- MODULE RescueContract ---------------------------
(***************************************************************************)
(* What auto-rescue promises the owner of a pod, with no watch, no cache,  *)
(* no reconcile and no patch: a container that is taken over owes its      *)
(* image, the debt is kept as long as the dummy runs, and it is paid, in   *)
(* full, once everything owed has been pushed.                             *)
(***************************************************************************)
CONSTANTS Containers, Sidecars, AppImages, Dummies, NoImage

VARIABLES
    exists,    \* there is a pod
    shown,     \* the image each container has, << >> while there is no pod
    owed,      \* the image each container owes, NoImage if none
    pushed     \* the application images that have been pushed

vars == <<exists, shown, owed, pushed>>

NoDebt == [c \in Containers |-> NoImage]

Init ==
    /\ exists = TRUE
    /\ shown \in [Containers -> AppImages]
    /\ owed = NoDebt
    /\ pushed = {}

(* The owner and the registry. *)
Appear(t) ==
    /\ ~exists
    /\ exists' = TRUE
    /\ shown' = t
    /\ owed' = NoDebt
    /\ UNCHANGED pushed

Vanish ==
    /\ exists
    /\ exists' = FALSE
    /\ shown' = << >>
    /\ owed' = NoDebt
    /\ UNCHANGED pushed

Push(i) ==
    /\ pushed' = pushed \cup {i}
    /\ UNCHANGED <<exists, shown, owed>>

(* Some containers that are not sidecars get the dummy d.  A debt is taken *)
(* on once and never changed by taking over the container again.           *)
TakeOver(S, d) ==
    /\ exists
    /\ shown' = [c \in Containers |-> IF c \in S THEN d ELSE shown[c]]
    /\ owed' = [c \in Containers |-> IF c \in S /\ owed[c] = NoImage
                                     THEN shown[c] ELSE owed[c]]
    /\ UNCHANGED <<exists, pushed>>

(* Everything owed is pushed and given back in one step. *)
GiveBack ==
    /\ exists
    /\ \A c \in Containers : owed[c] # NoImage => owed[c] \in pushed
    /\ shown' = [c \in Containers |-> IF owed[c] = NoImage THEN shown[c] ELSE owed[c]]
    /\ owed' = NoDebt
    /\ UNCHANGED <<exists, pushed>>

Next == \/ \E t \in [Containers -> AppImages] : Appear(t)
        \/ Vanish
        \/ \E i \in AppImages : Push(i)
        \/ \E S \in SUBSET (Containers \ Sidecars), d \in Dummies : TakeOver(S, d)
        \/ GiveBack

Spec == Init /\ [][Next]_vars
=============================================================================
