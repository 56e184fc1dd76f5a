------------------------------ MODULE MCRescue ------------------------------
(* Values for the constants of Rescue that a configuration cannot write.   *)
EXTENDS RescueProperties, TLC

(* One template: a different image for every container. *)
OneTemplate ==
    {CHOOSE t \in [Containers -> AppImages] :
        \A c, d \in Containers : t[c] = t[d] => c = d}

(* Every template that asks for the same image everywhere. *)
UniformTemplates == {[c \in Containers |-> i] : i \in AppImages}

(* Every edit of the type and the opt-in of a live pod. *)
AnyEdit == Types \X BOOLEAN

(* Another type, or opting out; the type of a pod that has opted out is not *)
(* read.                                                                   *)
OneOptOut == {<<"backend", TRUE>>, <<"frontend", TRUE>>, <<"backend", FALSE>>}

(* The controllers run the same code. *)
Interchangeable == Permutations(Controllers)
=============================================================================
