--------------------------- MODULE AdmissionProofs --------------------------
(***************************************************************************)
(* Proofs about the admission webhook: that what AdmissionProperties asks  *)
(* holds for all reviews, of pods of any number of containers.             *)
(*                                                                         *)
(* The operations of build_patch on one container are as a set OpsOf: one  *)
(* for each field at most, except that the two variables are appended to   *)
(* an env one after the other.  Progress says how far a container has come *)
(* when some of them are still to be applied; the invariant of the state   *)
(* machine, Safe, says it of every container that is not skipped.          *)
(***************************************************************************)
EXTENDS AdmissionProperties, FiniteSets, SequenceTheorems, TLAPS

-----------------------------------------------------------------------------
(* Lists of distinct operations *)

Distinct(s) == \A m, n \in DOMAIN s : s[m] = s[n] => m = n
Before(s, a, b) == \A m, n \in DOMAIN s : s[m] = a /\ s[n] = b => m < n

(* s lists the operations R, on fields of F, and a before b. *)
Lists(s, R, F, a, b) ==
    /\ s \in Seq(R) /\ ToSet(s) = R
    /\ Distinct(s) /\ Before(s, a, b)
    /\ \A o \in R : o.field \in F

(* Lists for different fields are concatenated to a list. *)
LEMMA ListsConcat ==
    ASSUME NEW s, NEW R, NEW F, NEW t, NEW Q, NEW G, NEW a, NEW b,
           Lists(s, R, F, a, b), Lists(t, Q, G, a, b), F \cap G = {}, a.field = b.field
    PROVE  Lists(s \o t, R \cup Q, F \cup G, a, b)
  <1> DEFINE S == R \cup Q
             u == s \o t
  <1>1. s \in Seq(S) /\ t \in Seq(S)
    BY DEF Lists
  <1>2. u \in Seq(S) /\ Len(u) = Len(s) + Len(t)
    BY <1>1, ConcatProperties
  <1>3. \A i \in 1..Len(u) : u[i] = IF i <= Len(s) THEN s[i] ELSE t[i - Len(s)]
    BY <1>1, ConcatProperties
  <1>4. /\ Len(s) \in Nat /\ Len(t) \in Nat
        /\ DOMAIN s = 1..Len(s) /\ DOMAIN t = 1..Len(t) /\ DOMAIN u = 1..Len(u)
    BY <1>1, <1>2, LenProperties
  <1>5. R \cap Q = {}
    BY DEF Lists
  <1>6. \A i \in DOMAIN s : s[i] \in R
    BY <1>4 DEF Lists, ToSet
  <1>7. \A i \in DOMAIN t : t[i] \in Q
    BY <1>4 DEF Lists, ToSet
  <1>8. \A i \in DOMAIN u : \/ i \in DOMAIN s /\ u[i] = s[i]
                            \/ i - Len(s) \in DOMAIN t /\ u[i] = t[i - Len(s)] /\ i > Len(s)
    BY <1>2, <1>3, <1>4
  <1>9. \A i \in DOMAIN s : i \in DOMAIN u /\ u[i] = s[i]
    BY <1>2, <1>3, <1>4
  <1>10. \A i \in DOMAIN t : i + Len(s) \in DOMAIN u /\ u[i + Len(s)] = t[i]
    BY <1>2, <1>3, <1>4
  <1> HIDE DEF u
  <1>11. ToSet(u) = S
    <2>1. ToSet(u) \subseteq S
      BY <1>6, <1>7, <1>8 DEF ToSet
    <2>2. R \subseteq ToSet(u)
      BY <1>9 DEF Lists, ToSet
    <2>3. Q \subseteq ToSet(u)
      BY <1>10 DEF Lists, ToSet
    <2> QED BY <2>1, <2>2, <2>3
  <1>12. Distinct(u)
    <2> SUFFICES ASSUME NEW m \in DOMAIN u, NEW n \in DOMAIN u, u[m] = u[n] PROVE m = n
      BY DEF Distinct
    <2>1. CASE m \in DOMAIN s /\ u[m] = s[m] /\ n \in DOMAIN s /\ u[n] = s[n]
      BY <2>1 DEF Lists, Distinct
    <2>2. CASE /\ m - Len(s) \in DOMAIN t /\ u[m] = t[m - Len(s)]
               /\ n - Len(s) \in DOMAIN t /\ u[n] = t[n - Len(s)]
      <3>1. m - Len(s) = n - Len(s)
        BY <2>2 DEF Lists, Distinct
      <3> QED BY <3>1, <1>2, <1>4
    <2> QED BY <1>5, <1>6, <1>7, <1>8, <2>1, <2>2
  <1>13. Before(u, a, b)
    <2> SUFFICES ASSUME NEW m \in DOMAIN u, NEW n \in DOMAIN u, u[m] = a, u[n] = b PROVE m < n
      BY DEF Before
    <2>1. CASE m \in DOMAIN s /\ u[m] = s[m] /\ n \in DOMAIN s /\ u[n] = s[n]
      BY <2>1 DEF Lists, Before
    <2>2. CASE /\ m - Len(s) \in DOMAIN t /\ u[m] = t[m - Len(s)]
               /\ n - Len(s) \in DOMAIN t /\ u[n] = t[n - Len(s)]
      <3>1. m - Len(s) < n - Len(s)
        BY <2>2 DEF Lists, Before
      <3> QED BY <3>1, <1>2, <1>4
    <2>3. ~(a \in R /\ b \in Q) /\ ~(a \in Q /\ b \in R)
      BY DEF Lists
    <2> QED BY <2>3, <1>6, <1>7, <1>8, <2>1, <2>2
  <1>14. \A o \in S : o.field \in F \cup G
    BY DEF Lists
  <1> QED BY <1>2, <1>11, <1>12, <1>13, <1>14 DEF Lists, u

(* What is left of a list when its head has been taken. *)
LEMMA ListTail ==
    ASSUME NEW R, NEW s \in Seq(R), s # << >>, Distinct(s), NEW a, NEW b, a # b, Before(s, a, b)
    PROVE  /\ Head(s) \in R /\ Head(s) \in ToSet(s) /\ Tail(s) \in Seq(R)
           /\ ToSet(Tail(s)) = ToSet(s) \ {Head(s)}
           /\ Distinct(Tail(s)) /\ Before(Tail(s), a, b)
           /\ Head(s) = b => a \notin ToSet(s)
  <1> DEFINE t == Tail(s)
  <1>1. /\ Len(s) \in Nat \ {0} /\ DOMAIN s = 1..Len(s)
        /\ t \in Seq(R) /\ Len(t) = Len(s) - 1 /\ DOMAIN t = 1..(Len(s) - 1)
        /\ Head(s) = s[1] /\ s[1] \in R
    BY HeadTailProperties, LenProperties
  <1>2. \A i \in DOMAIN t : i + 1 \in DOMAIN s /\ t[i] = s[i + 1]
    BY <1>1, HeadTailProperties
  <1>3. \A i \in DOMAIN s : i = 1 \/ (i - 1 \in DOMAIN t /\ t[i - 1] = s[i])
    BY <1>1, <1>2
  <1> HIDE DEF t
  <1>4. 1 \in DOMAIN s
    BY <1>1
  <1>5. \A i \in DOMAIN t : t[i] # s[1]
    BY <1>1, <1>2, <1>4 DEF Distinct
  <1>6. ToSet(t) = ToSet(s) \ {s[1]}
    <2>1. ToSet(t) \subseteq ToSet(s) \ {s[1]}
      BY <1>2, <1>5 DEF ToSet
    <2>2. ToSet(s) \ {s[1]} \subseteq ToSet(t)
      BY <1>3 DEF ToSet
    <2> QED BY <2>1, <2>2
  <1>7. Distinct(t)
    <2> SUFFICES ASSUME NEW m \in DOMAIN t, NEW n \in DOMAIN t, t[m] = t[n] PROVE m = n
      BY DEF Distinct
    <2>1. m + 1 = n + 1
      BY <1>2 DEF Distinct
    <2> QED BY <2>1, <1>1
  <1>8. Before(t, a, b)
    <2> SUFFICES ASSUME NEW m \in DOMAIN t, NEW n \in DOMAIN t, t[m] = a, t[n] = b PROVE m < n
      BY DEF Before
    <2>1. m + 1 < n + 1
      BY <1>2 DEF Before
    <2> QED BY <2>1, <1>1
  <1>9. Head(s) = b => a \notin ToSet(s)
    <2> SUFFICES ASSUME s[1] = b, NEW m \in DOMAIN s, s[m] = a PROVE FALSE
      BY <1>1 DEF ToSet
    <2>1. m < 1
      BY <1>4 DEF Before
    <2> QED BY <2>1, <1>1
  <1>10. Head(s) \in ToSet(s)
    BY <1>1, <1>4 DEF ToSet
  <1> QED BY <1>1, <1>6, <1>7, <1>8, <1>9, <1>10 DEF t

-----------------------------------------------------------------------------
(* The operations on one container *)

First(i, cfg) == append_op(i, "env", InjectedEnv(cfg)[1])
Second(i, cfg) == append_op(i, "env", InjectedEnv(cfg)[2])

Overwrites(i, cfg) ==
    {replace_op(i, "image", chosen_image(cfg)), add_op(i, "ports", {cfg.port}),
     add_op(i, "livenessProbe", cfg.port), add_op(i, "readinessProbe", cfg.port)}
Removes(cond, i, f) == IF cond THEN {remove_op(i, f)} ELSE {}
EnvSet(i, c, cfg) ==
    IF c.env # Absent THEN {First(i, cfg), Second(i, cfg)}
    ELSE {add_op(i, "env", InjectedEnv(cfg))}
Defaults(i, c) == IF c.resources = Absent THEN {add_op(i, "resources", "default")} ELSE {}

OpsOf(i, c, cfg) ==
    Overwrites(i, cfg)
    \cup Removes(c.command # Absent, i, "command")
    \cup Removes(c.args # Absent, i, "args")
    \cup EnvSet(i, c, cfg)
    \cup Removes(~cfg.keep_env_from /\ c.envFrom # Absent, i, "envFrom")
    \cup Removes(~cfg.keep_volumes /\ c.volumeMounts # Absent, i, "volumeMounts")
    \cup Defaults(i, c)

LEMMA EmptyLists ==
    ASSUME NEW F, NEW a, NEW b PROVE Lists(<< >>, {}, F, a, b)
  BY EmptySeq DEF Lists, ToSet, Distinct, Before

LEMMA RemoveLists ==
    ASSUME NEW cond \in BOOLEAN, NEW i, NEW f, NEW a, NEW b, a # b
    PROVE  Lists(RemoveIf(cond, i, f), Removes(cond, i, f), {f}, a, b)
  <1>1. CASE ~cond
    BY <1>1, EmptyLists DEF RemoveIf, Removes
  <1>2. CASE cond
    BY <1>2 DEF RemoveIf, Removes, Lists, ToSet, Distinct, Before, remove_op, Op
  <1> QED BY <1>1, <1>2

LEMMA DefaultLists ==
    ASSUME NEW i, NEW c, NEW a, NEW b, a # b
    PROVE  Lists(IF c.resources = Absent THEN <<add_op(i, "resources", "default")>> ELSE << >>,
                 Defaults(i, c), {"resources"}, a, b)
  <1>1. CASE c.resources # Absent
    BY <1>1, EmptyLists DEF Defaults
  <1>2. CASE c.resources = Absent
    BY <1>2 DEF Defaults, Lists, ToSet, Distinct, Before, add_op, Op
  <1> QED BY <1>1, <1>2

LEMMA EnvLists ==
    ASSUME NEW i, NEW c, NEW cfg
    PROVE  Lists(EnvOps(i, c, cfg), EnvSet(i, c, cfg), {"env"}, First(i, cfg), Second(i, cfg))
  <1>1. First(i, cfg) # Second(i, cfg)
    BY DEF First, Second, append_op, Op, InjectedEnv
  <1>2. First(i, cfg).field = "env" /\ Second(i, cfg).field = "env"
    BY DEF First, Second, append_op, Op
  <1>3. CASE c.env # Absent
    <2>1. EnvOps(i, c, cfg) = <<First(i, cfg), Second(i, cfg)>>
      BY <1>3 DEF EnvOps, First, Second, InjectedEnv
    <2> QED BY <1>1, <1>2, <1>3, <2>1 DEF EnvSet, Lists, ToSet, Distinct, Before
  <1>4. CASE c.env = Absent
    BY <1>1, <1>4 DEF EnvOps, EnvSet, Lists, ToSet, Distinct, Before, add_op, Op
  <1> QED BY <1>3, <1>4

LEMMA OverwriteLists ==
    ASSUME NEW i, NEW cfg, NEW a, NEW b, a \notin Overwrites(i, cfg)
    PROVE  Lists(<<replace_op(i, "image", chosen_image(cfg)), add_op(i, "ports", {cfg.port}),
                   add_op(i, "livenessProbe", cfg.port), add_op(i, "readinessProbe", cfg.port)>>,
                 Overwrites(i, cfg), {"image", "ports", "livenessProbe", "readinessProbe"}, a, b)
  <1> DEFINE w == replace_op(i, "image", chosen_image(cfg))
             x == add_op(i, "ports", {cfg.port})
             y == add_op(i, "livenessProbe", cfg.port)
             z == add_op(i, "readinessProbe", cfg.port)
             s == <<w, x, y, z>>
  <1>1. /\ w.field = "image" /\ x.field = "ports"
        /\ y.field = "livenessProbe" /\ z.field = "readinessProbe"
    BY DEF replace_op, add_op, Op
  <1>2. Overwrites(i, cfg) = {w, x, y, z}
    BY DEF Overwrites
  <1> HIDE DEF w, x, y, z
  <1>3. s \in Seq({w, x, y, z}) /\ DOMAIN s = 1..4 /\ s[1] = w /\ s[2] = x /\ s[3] = y /\ s[4] = z
    OBVIOUS
  <1> HIDE DEF s
  <1>4. ToSet(s) = {w, x, y, z}
    BY <1>3 DEF ToSet
  <1>5. Distinct(s)
    BY <1>1, <1>3 DEF Distinct
  <1>6. Before(s, a, b)
    BY <1>2, <1>3 DEF Before
  <1>7. Lists(s, {w, x, y, z}, {"image", "ports", "livenessProbe", "readinessProbe"}, a, b)
    BY <1>1, <1>3, <1>4, <1>5, <1>6 DEF Lists
  <1> QED BY <1>2, <1>7 DEF s, w, x, y, z

(* ContainerOps lists OpsOf, the application's name before its port. *)
LEMMA ContainerOpsLists ==
    ASSUME NEW i, NEW c, NEW cfg
    PROVE  Lists(ContainerOps(i, c, cfg), OpsOf(i, c, cfg), ContainerFields,
                 First(i, cfg), Second(i, cfg))
  <1> DEFINE a == First(i, cfg)
             b == Second(i, cfg)
             noFrom == ~cfg.keep_env_from /\ c.envFrom # Absent
             noMounts == ~cfg.keep_volumes /\ c.volumeMounts # Absent
             s1 == <<replace_op(i, "image", chosen_image(cfg)), add_op(i, "ports", {cfg.port}),
                     add_op(i, "livenessProbe", cfg.port), add_op(i, "readinessProbe", cfg.port)>>
             s2 == s1 \o RemoveIf(c.command # Absent, i, "command")
             s3 == s2 \o RemoveIf(c.args # Absent, i, "args")
             s4 == s3 \o EnvOps(i, c, cfg)
             s5 == s4 \o RemoveIf(noFrom, i, "envFrom")
             s6 == s5 \o RemoveIf(noMounts, i, "volumeMounts")
             s7 == s6 \o IF c.resources = Absent THEN <<add_op(i, "resources", "default")>> ELSE << >>
             R1 == Overwrites(i, cfg)
             R2 == R1 \cup Removes(c.command # Absent, i, "command")
             R3 == R2 \cup Removes(c.args # Absent, i, "args")
             R4 == R3 \cup EnvSet(i, c, cfg)
             R5 == R4 \cup Removes(noFrom, i, "envFrom")
             R6 == R5 \cup Removes(noMounts, i, "volumeMounts")
             R7 == R6 \cup Defaults(i, c)
             F1 == {"image", "ports", "livenessProbe", "readinessProbe"}
             F2 == F1 \cup {"command"}
             F3 == F2 \cup {"args"}
             F4 == F3 \cup {"env"}
             F5 == F4 \cup {"envFrom"}
             F6 == F5 \cup {"volumeMounts"}
             F7 == F6 \cup {"resources"}
  <1>1. ContainerOps(i, c, cfg) = s7 /\ OpsOf(i, c, cfg) = R7
    BY DEF ContainerOps, OpsOf
  <1>2. a # b /\ a.field = "env" /\ b.field = "env" /\ a \notin R1
    BY DEF First, Second, append_op, replace_op, add_op, Op, InjectedEnv, Overwrites
  <1>3. noFrom \in BOOLEAN /\ noMounts \in BOOLEAN
    OBVIOUS
  <1>4. /\ F1 \cap {"command"} = {} /\ F2 \cap {"args"} = {} /\ F3 \cap {"env"} = {}
        /\ F4 \cap {"envFrom"} = {} /\ F5 \cap {"volumeMounts"} = {} /\ F6 \cap {"resources"} = {}
    OBVIOUS
  <1>5. Lists(s1, R1, F1, a, b)
    BY <1>2, OverwriteLists
  <1>6. Lists(EnvOps(i, c, cfg), EnvSet(i, c, cfg), {"env"}, a, b)
    BY EnvLists
  <1>7. Lists(RemoveIf(noFrom, i, "envFrom"), Removes(noFrom, i, "envFrom"), {"envFrom"}, a, b)
    BY <1>2, <1>3, RemoveLists
  <1>8. Lists(RemoveIf(noMounts, i, "volumeMounts"), Removes(noMounts, i, "volumeMounts"),
              {"volumeMounts"}, a, b)
    BY <1>2, <1>3, RemoveLists
  <1> HIDE DEF a, b, s1, R1, F1, noFrom, noMounts
  <1>9. Lists(s2, R2, F2, a, b)
    BY <1>2, <1>4, <1>5, RemoveLists, ListsConcat
  <1> HIDE DEF s2, R2, F2
  <1>10. Lists(s3, R3, F3, a, b)
    BY <1>2, <1>4, <1>9, RemoveLists, ListsConcat
  <1> HIDE DEF s3, R3, F3
  <1>11. Lists(s4, R4, F4, a, b)
    BY <1>2, <1>4, <1>6, <1>10, ListsConcat
  <1> HIDE DEF s4, R4, F4
  <1>12. Lists(s5, R5, F5, a, b)
    BY <1>2, <1>4, <1>7, <1>11, ListsConcat
  <1> HIDE DEF s5, R5, F5
  <1>13. Lists(s6, R6, F6, a, b)
    BY <1>2, <1>4, <1>8, <1>12, ListsConcat
  <1> HIDE DEF s6, R6, F6
  <1>14. Lists(s7, R7, F7, a, b)
    BY <1>2, <1>4, <1>13, DefaultLists, ListsConcat
  <1>15. F7 \subseteq ContainerFields
    BY DEF F1, F2, F3, F4, F5, F6, ContainerFields
  <1>16. Lists(s7, R7, ContainerFields, a, b)
    BY <1>14, <1>15 DEF Lists
  <1> QED BY <1>1, <1>16 DEF a, b

(* Every operation on container i is there, but for the two appends it is  *)
(* the only one on its field, and no operation but a replace of the image, *)
(* a removal of what is there and an append to what is there needs a       *)
(* target.                                                                 *)
LEMMA OpsOfShape ==
    ASSUME NEW i, NEW c, NEW cfg, NEW o \in OpsOf(i, c, cfg)
    PROVE  /\ o.at = i /\ o.field \in ContainerFields
           /\ o.op = "append" => o \in {First(i, cfg), Second(i, cfg)}
           /\ o.op \in {"add", "append"} \/ o.field = "image" \/ c[o.field] # Absent
           /\ o.op = "append" => c.env # Absent
  BY DEF OpsOf, Overwrites, Removes, EnvSet, Defaults, First, Second, replace_op, add_op,
         append_op, remove_op, Op, ContainerFields

LEMMA OneOpPerField ==
    ASSUME NEW i, NEW c, NEW cfg, NEW o \in OpsOf(i, c, cfg), NEW p \in OpsOf(i, c, cfg),
           o.field = p.field, o.op # "append" \/ p.op # "append"
    PROVE  o = p
  BY DEF OpsOf, Overwrites, Removes, EnvSet, Defaults, First, Second, replace_op, add_op,
         append_op, remove_op, Op

LEMMA Appends ==
    ASSUME NEW i, NEW cfg
    PROVE  /\ First(i, cfg) # Second(i, cfg)
           /\ First(i, cfg).op = "append" /\ Second(i, cfg).op = "append"
           /\ First(i, cfg).field = "env" /\ Second(i, cfg).field = "env"
           /\ First(i, cfg).value = InjectedEnv(cfg)[1]
           /\ Second(i, cfg).value = InjectedEnv(cfg)[2]
  BY DEF First, Second, append_op, Op, InjectedEnv

(* How far container i, written as c, has come as x when the operations s  *)
(* are still to be applied to it.                                          *)
EnvProgress(i, c, cfg, s, env) ==
    LET name == InjectedEnv(cfg)[1]  port == InjectedEnv(cfg)[2] IN
    \/ First(i, cfg) \in ToSet(s) /\ Second(i, cfg) \in ToSet(s) /\ env = c.env
    \/ /\ First(i, cfg) \notin ToSet(s) /\ Second(i, cfg) \in ToSet(s)
       /\ env = Append(c.env, name)
    \/ /\ First(i, cfg) \notin ToSet(s) /\ Second(i, cfg) \notin ToSet(s)
       /\ env = Append(Append(c.env, name), port)

Progress(i, c, cfg, s, x) ==
    /\ s \in Seq(OpsOf(i, c, cfg)) /\ Distinct(s) /\ Before(s, First(i, cfg), Second(i, cfg))
    /\ DOMAIN x = ContainerFields
    /\ \A o \in OpsOf(i, c, cfg) :
          o.op # "append" => x[o.field] = IF o \in ToSet(s) THEN c[o.field] ELSE o.value
    /\ \A f \in ContainerFields : (\A o \in OpsOf(i, c, cfg) : o.field # f) => x[f] = c[f]
    /\ c.env # Absent => EnvProgress(i, c, cfg, s, x.env)

LEMMA ProgressStart ==
    ASSUME NEW i, NEW c, NEW cfg, DOMAIN c = ContainerFields
    PROVE  Progress(i, c, cfg, ContainerOps(i, c, cfg), c)
  <1> DEFINE s == ContainerOps(i, c, cfg)
  <1>1. /\ s \in Seq(OpsOf(i, c, cfg)) /\ ToSet(s) = OpsOf(i, c, cfg)
        /\ Distinct(s) /\ Before(s, First(i, cfg), Second(i, cfg))
    BY ContainerOpsLists DEF Lists
  <1>2. c.env # Absent => First(i, cfg) \in ToSet(s) /\ Second(i, cfg) \in ToSet(s)
    BY <1>1 DEF OpsOf, EnvSet
  <1> QED BY <1>1, <1>2 DEF Progress, EnvProgress

(* Applying the next operation is progress. *)
NextValue(x, o) == IF o.op = "append" THEN Append(x[o.field], o.value) ELSE o.value

LEMMA ProgressStep ==
    ASSUME NEW i, NEW c, NEW cfg, NEW s, NEW x, Progress(i, c, cfg, s, x), s # << >>
    PROVE  Progress(i, c, cfg, Tail(s), [x EXCEPT ![Head(s).field] = NextValue(x, Head(s))])
  <1> DEFINE o == Head(s)
             t == Tail(s)
             y == [x EXCEPT ![o.field] = NextValue(x, o)]
             R == OpsOf(i, c, cfg)
             A == First(i, cfg)
             B == Second(i, cfg)
  <1>1. /\ A # B /\ A.op = "append" /\ B.op = "append" /\ A.field = "env" /\ B.field = "env"
        /\ A.value = InjectedEnv(cfg)[1] /\ B.value = InjectedEnv(cfg)[2]
    BY Appends
  <1>2. /\ o \in R /\ o \in ToSet(s) /\ t \in Seq(R) /\ ToSet(t) = ToSet(s) \ {o}
        /\ Distinct(t) /\ Before(t, A, B)
        /\ o = B => A \notin ToSet(s)
    <2>1. s \in Seq(R) /\ Distinct(s) /\ Before(s, A, B)
      BY DEF Progress
    <2> HIDE DEF R, A, B
    <2> QED BY <1>1, <2>1, ListTail
  <1>3. o.field \in ContainerFields /\ (o.op = "append" => o \in {A, B})
    BY <1>2, OpsOfShape
  <1>4. DOMAIN x = ContainerFields
    BY DEF Progress
  <1> HIDE DEF o, t
  <1>5. DOMAIN y = ContainerFields /\ y[o.field] = NextValue(x, o)
        /\ \A f \in ContainerFields : f # o.field => y[f] = x[f]
    BY <1>3, <1>4
  <1> HIDE DEF y
  <1>6. ASSUME NEW p \in R, p.op # "append"
        PROVE  y[p.field] = IF p \in ToSet(t) THEN c[p.field] ELSE p.value
    <2>1. x[p.field] = IF p \in ToSet(s) THEN c[p.field] ELSE p.value
      BY <1>6 DEF Progress
    <2>2. CASE p = o
      BY <1>2, <1>5, <1>6, <2>2 DEF NextValue
    <2>3. CASE p # o
      <3>1. p.field # o.field
        BY <1>2, <1>6, <2>3, OneOpPerField
      <3>2. p.field \in ContainerFields
        BY OpsOfShape
      <3> QED BY <1>2, <1>5, <2>1, <2>3, <3>1, <3>2
    <2> QED BY <2>2, <2>3
  <1>7. ASSUME NEW f \in ContainerFields, \A p \in R : p.field # f
        PROVE  y[f] = c[f]
    BY <1>2, <1>5, <1>7 DEF Progress
  <1>8. ASSUME c.env # Absent
        PROVE  EnvProgress(i, c, cfg, t, y.env)
    <2>1. EnvProgress(i, c, cfg, s, x.env)
      BY <1>8 DEF Progress
    <2>2. A \in R /\ B \in R
      BY <1>8 DEF OpsOf, EnvSet
    <2>3. CASE o.op # "append"
      <3>1. o.field # "env"
        BY <1>1, <1>2, <2>2, <2>3, OneOpPerField
      <3>2. y.env = x.env
        BY <1>5, <3>1 DEF ContainerFields
      <3>3. o # A /\ o # B
        BY <1>1, <2>3
      <3> QED BY <1>2, <2>1, <3>2, <3>3 DEF EnvProgress
    <2>4. CASE o = A
      <3>1. y.env = Append(x.env, A.value)
        BY <1>1, <1>5, <2>4 DEF NextValue
      <3> QED BY <1>1, <1>2, <2>1, <2>4, <3>1 DEF EnvProgress
    <2>5. CASE o = B
      <3>1. y.env = Append(x.env, B.value)
        BY <1>1, <1>5, <2>5 DEF NextValue
      <3> QED BY <1>1, <1>2, <2>1, <2>5, <3>1 DEF EnvProgress
    <2> QED BY <1>3, <2>3, <2>4, <2>5
  <1>9. Progress(i, c, cfg, t, y)
    BY <1>2, <1>5, <1>6, <1>7, <1>8 DEF Progress
  <1> QED BY <1>9 DEF o, t, y

-----------------------------------------------------------------------------
(* What Progress says of a container *)

LEMMA SeqOfItsOwn ==
    ASSUME NEW S, NEW s \in Seq(S)
    PROVE  s \in Seq(ToSet(s))
  <1>1. Len(s) \in Nat /\ s \in [1..Len(s) -> S] /\ DOMAIN s = 1..Len(s)
    BY LenProperties
  <1>2. s \in [1..Len(s) -> ToSet(s)]
    BY <1>1 DEF ToSet
  <1> QED BY <1>1, <1>2

(* The owner's env is a list, and Absent is none; see ReviewsAssumption. *)
EnvEntries(c, cfg) == ToSet(c.env) \cup ToSet(InjectedEnv(cfg))

EnvIsList(c, cfg) ==
    c.env # Absent =>
        c.env \in Seq(EnvEntries(c, cfg)) /\ Absent \notin Seq(EnvEntries(c, cfg))

LEMMA InjectedEntries ==
    ASSUME NEW cfg
    PROVE  /\ InjectedEnv(cfg) \in Seq(ToSet(InjectedEnv(cfg))) /\ DOMAIN InjectedEnv(cfg) = 1..2
           /\ InjectedEnv(cfg)[1] \in ToSet(InjectedEnv(cfg))
           /\ InjectedEnv(cfg)[2] \in ToSet(InjectedEnv(cfg))
           /\ InjectedEnv(cfg)[1].name = "STUBBY_APP_NAME"
           /\ InjectedEnv(cfg)[2].name = "STUBBY_PORT" /\ InjectedEnv(cfg)[2].value = cfg.port
           /\ \A n \in 1..2 : DOMAIN InjectedEnv(cfg)[n] = {"name", "value"}
  BY DEF InjectedEnv, ToSet

(* The env of the owner's is extended: it stays a list, its entries stay   *)
(* where they are and what is appended are injected entries.               *)
LEMMA EnvExtended ==
    ASSUME NEW i, NEW c, NEW cfg, NEW s, NEW env, c.env # Absent, EnvIsList(c, cfg),
           EnvProgress(i, c, cfg, s, env)
    PROVE  /\ env # Absent
           /\ env \in Seq(EnvEntries(c, cfg))
           /\ Len(c.env) <= Len(env)
           /\ \A n \in 1..Len(c.env) : env[n] = c.env[n]
           /\ \A n \in DOMAIN env : n \in DOMAIN c.env \/ env[n] \in ToSet(InjectedEnv(cfg))
  <1> DEFINE E == EnvEntries(c, cfg)
             a == InjectedEnv(cfg)[1]
             b == InjectedEnv(cfg)[2]
  <1>1. c.env \in Seq(E) /\ Absent \notin Seq(E)
    BY DEF EnvIsList
  <1>2. a \in E /\ b \in E /\ a \in ToSet(InjectedEnv(cfg)) /\ b \in ToSet(InjectedEnv(cfg))
    BY InjectedEntries DEF EnvEntries
  <1>3. env = c.env \/ env = Append(c.env, a) \/ env = Append(Append(c.env, a), b)
    BY DEF EnvProgress
  <1> HIDE DEF E, a, b
  <1>4. Append(c.env, a) \in Seq(E) /\ Append(Append(c.env, a), b) \in Seq(E)
    BY <1>1, <1>2, AppendProperties
  <1>5. env \in Seq(E)
    BY <1>1, <1>3, <1>4
  <1>6. Len(c.env) \in Nat /\ DOMAIN c.env = 1..Len(c.env)
    BY <1>1, LenProperties
  <1>7. CASE env = c.env
    BY <1>1, <1>5, <1>6, <1>7 DEF E
  <1>8. CASE env = Append(c.env, a)
    <2>1. /\ Len(env) = Len(c.env) + 1 /\ DOMAIN env = 1..Len(env) /\ env[Len(env)] = a
          /\ \A n \in 1..Len(c.env) : env[n] = c.env[n]
      BY <1>1, <1>2, <1>5, <1>6, <1>8, AppendProperties
    <2>2. \A n \in DOMAIN env : n \in DOMAIN c.env \/ n = Len(env)
      BY <1>6, <2>1
    <2> QED BY <1>1, <1>2, <1>5, <1>6, <2>1, <2>2 DEF E
  <1>9. CASE env = Append(Append(c.env, a), b)
    <2> DEFINE mid == Append(c.env, a)
    <2>1. /\ Len(mid) = Len(c.env) + 1 /\ DOMAIN mid = 1..Len(mid) /\ mid[Len(mid)] = a
          /\ \A n \in 1..Len(c.env) : mid[n] = c.env[n]
      BY <1>1, <1>2, <1>4, <1>6, AppendProperties
    <2>2. /\ Len(env) = Len(mid) + 1 /\ DOMAIN env = 1..Len(env) /\ env[Len(env)] = b
          /\ \A n \in 1..Len(mid) : env[n] = mid[n]
      BY <1>2, <1>4, <1>5, <1>9, AppendProperties
    <2> HIDE DEF mid
    <2>3. \A n \in DOMAIN env : n \in DOMAIN c.env \/ n = Len(mid) \/ n = Len(env)
      BY <1>6, <2>1, <2>2
    <2>4. env[Len(mid)] = a /\ \A n \in 1..Len(c.env) : env[n] = c.env[n]
      BY <1>6, <2>1, <2>2
    <2> QED BY <1>1, <1>2, <1>5, <1>6, <2>1, <2>2, <2>3, <2>4 DEF E
  <1> QED BY <1>3, <1>7, <1>8, <1>9

(* The next operation on a container that has an image finds its target. *)
LEMMA ProgressApplies ==
    ASSUME NEW i, NEW c, NEW cfg, NEW s, NEW x, Progress(i, c, cfg, s, x), s # << >>,
           c.image # Absent, EnvIsList(c, cfg)
    PROVE  Head(s).op = "add" \/ x[Head(s).field] # Absent
  <1> DEFINE o == Head(s)
             R == OpsOf(i, c, cfg)
  <1>1. o \in R /\ o \in ToSet(s)
    <2>1. s \in Seq(R) /\ Distinct(s) /\ Before(s, First(i, cfg), Second(i, cfg))
      BY DEF Progress
    <2> HIDE DEF R
    <2> QED BY <2>1, Appends, ListTail
  <1> HIDE DEF o
  <1>2. CASE o.op = "append"
    <2>1. c.env # Absent /\ o.field = "env"
      BY <1>1, <1>2, OpsOfShape, Appends
    <2>2. EnvProgress(i, c, cfg, s, x.env)
      BY <2>1 DEF Progress
    <2>3. x.env # Absent
      BY <2>1, <2>2, EnvExtended
    <2> QED BY <2>1, <2>3 DEF o
  <1>3. CASE o.op # "append" /\ o.op # "add"
    <2>1. o.field = "image" \/ c[o.field] # Absent
      BY <1>1, <1>3, OpsOfShape
    <2>2. x[o.field] = c[o.field]
      BY <1>1, <1>3 DEF Progress
    <2> QED BY <2>1, <2>2 DEF o
  <1> QED BY <1>2, <1>3 DEF o

(* The fields that no operation is on. *)
LEMMA NeverWritten ==
    ASSUME NEW i, NEW c, NEW cfg, NEW s, NEW x, Progress(i, c, cfg, s, x)
    PROVE  /\ x.name = c.name /\ x.startupProbe = c.startupProbe
           /\ c.resources # Absent => x.resources = c.resources
           /\ cfg.keep_env_from \/ c.envFrom = Absent => x.envFrom = c.envFrom
           /\ cfg.keep_volumes \/ c.volumeMounts = Absent => x.volumeMounts = c.volumeMounts
  <1>1. /\ \A o \in OpsOf(i, c, cfg) : o.field # "name" /\ o.field # "startupProbe"
        /\ c.resources # Absent => \A o \in OpsOf(i, c, cfg) : o.field # "resources"
        /\ cfg.keep_env_from \/ c.envFrom = Absent =>
              \A o \in OpsOf(i, c, cfg) : o.field # "envFrom"
        /\ cfg.keep_volumes \/ c.volumeMounts = Absent =>
              \A o \in OpsOf(i, c, cfg) : o.field # "volumeMounts"
    BY DEF OpsOf, Overwrites, Removes, EnvSet, Defaults, First, Second, replace_op, add_op,
           append_op, remove_op, Op
  <1>2. {"name", "startupProbe", "resources", "envFrom", "volumeMounts"} \subseteq ContainerFields
    BY DEF ContainerFields
  <1> QED BY <1>1, <1>2 DEF Progress

(* A command or arguments that are not there are not written either. *)
LEMMA NothingToRemove ==
    ASSUME NEW i, NEW c, NEW cfg, NEW s, NEW x, Progress(i, c, cfg, s, x),
           NEW f \in {"command", "args"}, c[f] = Absent
    PROVE  x[f] = Absent
  <1>1. \A o \in OpsOf(i, c, cfg) : o.field # f
    BY DEF OpsOf, Overwrites, Removes, EnvSet, Defaults, First, Second, replace_op, add_op,
           append_op, remove_op, Op
  <1>2. f \in ContainerFields
    BY DEF ContainerFields
  <1> QED BY <1>1, <1>2 DEF Progress

(* The fields that are overwritten in every container. *)
LEMMA Overwritten ==
    ASSUME NEW i, NEW c, NEW cfg, NEW s, NEW x, Progress(i, c, cfg, s, x)
    PROVE  /\ x.image = c.image \/ x.image = chosen_image(cfg)
           /\ x.ports = c.ports \/ x.ports = {cfg.port}
           /\ x.livenessProbe = c.livenessProbe \/ x.livenessProbe = cfg.port
           /\ x.readinessProbe = c.readinessProbe \/ x.readinessProbe = cfg.port
           /\ s = << >> => /\ x.image = chosen_image(cfg) /\ x.ports = {cfg.port}
                           /\ x.livenessProbe = cfg.port /\ x.readinessProbe = cfg.port
  <1> DEFINE image == replace_op(i, "image", chosen_image(cfg))
             ports == add_op(i, "ports", {cfg.port})
             liveness == add_op(i, "livenessProbe", cfg.port)
             readiness == add_op(i, "readinessProbe", cfg.port)
  <1>1. {image, ports, liveness, readiness} \subseteq OpsOf(i, c, cfg)
    BY DEF OpsOf, Overwrites
  <1>2. /\ image.op # "append" /\ ports.op # "append"
        /\ liveness.op # "append" /\ readiness.op # "append"
        /\ image.field = "image" /\ ports.field = "ports"
        /\ liveness.field = "livenessProbe" /\ readiness.field = "readinessProbe"
        /\ image.value = chosen_image(cfg) /\ ports.value = {cfg.port}
        /\ liveness.value = cfg.port /\ readiness.value = cfg.port
    BY DEF replace_op, add_op, Op
  <1> HIDE DEF image, ports, liveness, readiness
  <1>3. \A o \in {image, ports, liveness, readiness} :
           x[o.field] = IF o \in ToSet(s) THEN c[o.field] ELSE o.value
    BY <1>1, <1>2 DEF Progress
  <1>4. s = << >> => ToSet(s) = {}
    BY EmptySeq DEF ToSet
  <1> QED BY <1>2, <1>3, <1>4

LEMMA ProgressShape ==
    ASSUME NEW i, NEW c, NEW cfg, NEW s, NEW x, Progress(i, c, cfg, s, x),
           IsContainer(c), EnvIsList(c, cfg), cfg.port \in u16
    PROVE  IsContainer(x) /\ x.name = c.name
  <1>1. DOMAIN x = ContainerFields /\ x.name = c.name
    BY NeverWritten DEF Progress
  <1>2. x.ports = Absent \/ x.ports \subseteq u16
    BY Overwritten DEF IsContainer
  <1>3. \A probe \in {x.livenessProbe, x.readinessProbe} : probe = Absent \/ probe \in u16
    BY Overwritten DEF IsContainer
  <1>4. IsEnv(x.env)
    <2>1. CASE c.env # Absent
      <3>1. EnvProgress(i, c, cfg, s, x.env)
        BY <2>1 DEF Progress
      <3>2. /\ x.env \in Seq(EnvEntries(c, cfg))
            /\ \A n \in 1..Len(c.env) : x.env[n] = c.env[n]
            /\ \A n \in DOMAIN x.env : n \in DOMAIN c.env \/ x.env[n] \in ToSet(InjectedEnv(cfg))
        BY <2>1, <3>1, EnvExtended
      <3>3. c.env \in Seq(EnvEntries(c, cfg))
        BY <2>1 DEF EnvIsList
      <3>4. DOMAIN c.env = 1..Len(c.env)
        BY <3>3, LenProperties
      <3>5. \A e \in ToSet(InjectedEnv(cfg)) : DOMAIN e = {"name", "value"}
        <4> DEFINE e == InjectedEnv(cfg)
        <4>1. DOMAIN e = 1..2 /\ \A n \in 1..2 : DOMAIN e[n] = {"name", "value"}
          BY InjectedEntries
        <4> HIDE DEF e
        <4>2. \A d \in ToSet(e) : DOMAIN d = {"name", "value"}
          BY <4>1 DEF ToSet
        <4> QED BY <4>2 DEF e
      <3>6. \A n \in DOMAIN c.env : DOMAIN c.env[n] = {"name", "value"}
        BY <2>1 DEF IsContainer, IsEnv
      <3>7. x.env \in Seq(ToSet(x.env))
        BY <3>2, SeqOfItsOwn
      <3> QED BY <3>2, <3>4, <3>5, <3>6, <3>7 DEF IsEnv
    <2>2. CASE c.env = Absent
      <3> DEFINE o == add_op(i, "env", InjectedEnv(cfg))
      <3>1. o \in OpsOf(i, c, cfg)
        BY <2>2 DEF OpsOf, EnvSet
      <3>2. o.op # "append" /\ o.field = "env" /\ o.value = InjectedEnv(cfg)
        BY DEF add_op, Op
      <3>3. x.env = Absent \/ x.env = InjectedEnv(cfg)
        BY <2>2, <3>1, <3>2 DEF Progress
      <3> QED BY <3>3, InjectedEntries DEF IsEnv
    <2> QED BY <2>1, <2>2
  <1> QED BY <1>1, <1>2, <1>3, <1>4 DEF IsContainer

LEMMA ProgressKeeps ==
    ASSUME NEW i, NEW c, NEW cfg, NEW s, NEW x, Progress(i, c, cfg, s, x), EnvIsList(c, cfg)
    PROVE  /\ c.env # Absent => IsPrefix(c.env, x.env)
           /\ c.resources # Absent => x.resources = c.resources
           /\ cfg.keep_env_from => x.envFrom = c.envFrom
           /\ cfg.keep_volumes => x.volumeMounts = c.volumeMounts
  <1>1. ASSUME c.env # Absent
        PROVE  IsPrefix(c.env, x.env)
    <2> DEFINE E == EnvEntries(c, cfg)
               n == Len(c.env)
    <2>1. EnvProgress(i, c, cfg, s, x.env)
      BY <1>1 DEF Progress
    <2>2. c.env \in Seq(E)
      BY <1>1 DEF EnvIsList
    <2> HIDE DEF n
    <2>3. /\ x.env \in Seq(E) /\ n <= Len(x.env)
          /\ \A k \in 1..n : x.env[k] = c.env[k]
      BY <1>1, <2>1, EnvExtended DEF n
    <2> HIDE DEF E
    <2>4. n \in Nat
      BY <2>2, LenProperties DEF n
    <2>5. SubSeq(c.env, 1, n) = [k \in 1..n |-> c.env[k]]
      BY <2>2, <2>4 DEF n
    <2>6. SubSeq(x.env, 1, n) = [k \in 1..n |-> x.env[k]]
      BY <2>3, <2>4
    <2>7. [k \in 1..n |-> c.env[k]] = [k \in 1..n |-> x.env[k]]
      BY <2>3
    <2> QED BY <2>3, <2>5, <2>6, <2>7 DEF IsPrefix, n
  <1> QED BY <1>1, NeverWritten

(* A container to which everything has been applied. *)
LEMMA LastIsEffective ==
    ASSUME NEW E, NEW env \in Seq(E), env # << >>, env[Len(env)].name = "STUBBY_PORT"
    PROVE  EffectivePort(env) = env[Len(env)].value
  <1> DEFINE ports == {n \in DOMAIN env : env[n].name = "STUBBY_PORT"}
             last == CHOOSE n \in ports : \A m \in ports : m <= n
  <1>1. Len(env) \in Nat \ {0} /\ DOMAIN env = 1..Len(env)
    BY LenProperties, EmptySeq
  <1>2. Len(env) \in ports /\ \A m \in ports : m <= Len(env)
    BY <1>1
  <1>3. last \in ports /\ \A m \in ports : m <= last
    BY <1>2
  <1>4. last = Len(env)
    BY <1>1, <1>2, <1>3
  <1> QED BY <1>2, <1>4 DEF EffectivePort

LEMMA ProgressDone ==
    ASSUME NEW i, NEW c, NEW cfg, NEW x, Progress(i, c, cfg, << >>, x), EnvIsList(c, cfg)
    PROVE  /\ x.image = chosen_image(cfg) /\ x.ports = {cfg.port}
           /\ x.livenessProbe = cfg.port /\ x.readinessProbe = cfg.port
           /\ EffectivePort(x.env) = cfg.port
           /\ x.envFrom = IF cfg.keep_env_from THEN c.envFrom ELSE Absent
           /\ x.volumeMounts = IF cfg.keep_volumes THEN c.volumeMounts ELSE Absent
           /\ x.command = Absent /\ x.args = Absent /\ x.resources # Absent
  <1>1. ToSet(<< >>) = {}
    BY EmptySeq DEF ToSet
  <1>2. /\ x.image = chosen_image(cfg) /\ x.ports = {cfg.port}
        /\ x.livenessProbe = cfg.port /\ x.readinessProbe = cfg.port
    BY <1>1, Overwritten
  <1>3. \A o \in OpsOf(i, c, cfg) : o.op # "append" => x[o.field] = o.value
    BY <1>1 DEF Progress
  <1>4. x.envFrom = IF cfg.keep_env_from THEN c.envFrom ELSE Absent
    <2> DEFINE o == remove_op(i, "envFrom")
    <2>1. o.op # "append" /\ o.field = "envFrom" /\ o.value = Absent
      BY DEF remove_op, Op
    <2>2. CASE ~cfg.keep_env_from /\ c.envFrom # Absent
      <3>1. o \in OpsOf(i, c, cfg)
        BY <2>2 DEF OpsOf, Removes
      <3> QED BY <1>3, <2>1, <2>2, <3>1
    <2> QED BY <2>2, NeverWritten
  <1>5. x.volumeMounts = IF cfg.keep_volumes THEN c.volumeMounts ELSE Absent
    <2> DEFINE o == remove_op(i, "volumeMounts")
    <2>1. o.op # "append" /\ o.field = "volumeMounts" /\ o.value = Absent
      BY DEF remove_op, Op
    <2>2. CASE ~cfg.keep_volumes /\ c.volumeMounts # Absent
      <3>1. o \in OpsOf(i, c, cfg)
        BY <2>2 DEF OpsOf, Removes
      <3> QED BY <1>3, <2>1, <2>2, <3>1
    <2> QED BY <2>2, NeverWritten
  <1>6. EffectivePort(x.env) = cfg.port
    <2>1. CASE c.env # Absent
      <3> DEFINE E == EnvEntries(c, cfg)
                 a == InjectedEnv(cfg)[1]
                 b == InjectedEnv(cfg)[2]
      <3>1. EnvProgress(i, c, cfg, << >>, x.env)
        BY <2>1 DEF Progress
      <3>2. x.env = Append(Append(c.env, a), b)
        BY <1>1, <3>1 DEF EnvProgress
      <3>3. c.env \in Seq(E) /\ a \in E /\ b \in E
        BY <2>1, InjectedEntries DEF EnvIsList, EnvEntries
      <3>4. b.name = "STUBBY_PORT" /\ b.value = cfg.port
        BY InjectedEntries
      <3> HIDE DEF E, a, b
      <3>5. Append(c.env, a) \in Seq(E)
        BY <3>3, AppendProperties
      <3>6. x.env \in Seq(E) /\ x.env # << >> /\ x.env[Len(x.env)] = b
        BY <3>2, <3>3, <3>5, AppendProperties
      <3> QED BY <3>4, <3>6, LastIsEffective
    <2>2. CASE c.env = Absent
      <3> DEFINE o == add_op(i, "env", InjectedEnv(cfg))
      <3>1. o \in OpsOf(i, c, cfg)
        BY <2>2 DEF OpsOf, EnvSet
      <3>2. o.op # "append" /\ o.field = "env" /\ o.value = InjectedEnv(cfg)
        BY DEF add_op, Op
      <3>3. x.env = InjectedEnv(cfg)
        BY <1>3, <3>1, <3>2
      <3> DEFINE e == InjectedEnv(cfg)
      <3>4. e # << >> /\ Len(e) = 2
        BY DEF InjectedEnv
      <3>5. e \in Seq(ToSet(e)) /\ e[2].name = "STUBBY_PORT" /\ e[2].value = cfg.port
        BY InjectedEntries
      <3>6. x.env = e
        BY <3>3
      <3> HIDE DEF e
      <3> QED BY <3>4, <3>5, <3>6, LastIsEffective
    <2> QED BY <2>1, <2>2
  <1>7. x.command = Absent /\ x.args = Absent
    <2>1. ASSUME NEW f \in {"command", "args"} PROVE x[f] = Absent
      <3> DEFINE o == remove_op(i, f)
      <3>1. o.op # "append" /\ o.field = f /\ o.value = Absent
        BY DEF remove_op, Op
      <3>2. CASE c[f] # Absent
        <4>1. o \in OpsOf(i, c, cfg)
          BY <2>1, <3>2 DEF OpsOf, Removes
        <4> QED BY <1>3, <3>1, <4>1
      <3>3. CASE c[f] = Absent
        BY <2>1, <3>3, NothingToRemove
      <3> QED BY <3>2, <3>3
    <2> QED BY <2>1
  <1>8. x.resources # Absent
    <2> DEFINE o == add_op(i, "resources", "default")
    <2>1. o.op # "append" /\ o.field = "resources" /\ o.value = "default"
      BY DEF add_op, Op
    <2>2. CASE c.resources = Absent
      <3>1. o \in OpsOf(i, c, cfg)
        BY <2>2 DEF OpsOf, Defaults
      <3> QED BY <1>3, <2>1, <3>1, AbsentAssumption
    <2> QED BY <2>2, NeverWritten
  <1> QED BY <1>2, <1>4, <1>5, <1>6, <1>7, <1>8

-----------------------------------------------------------------------------
(* The volumes *)

NamesOf(volumes) == IF volumes = Absent THEN {} ELSE DOMAIN volumes

(* What may go is gone and the rest is as it was. *)
Remaining(pod, cfg) ==
    {v \in DOMAIN pod.volumes : pod.volumes[v] \notin BlocksOnMissing \/ v \in Needed(pod, cfg)}

Pruned(pod, cfg, volumes) ==
    /\ NamesOf(volumes) = Remaining(pod, cfg)
    /\ \A v \in Remaining(pod, cfg) : volumes[v] = pod.volumes[v]

VolumesProgress(pod, cfg, s, volumes) ==
    \/ s = prune_orphan_volumes(pod, cfg) /\ volumes = pod.volumes
    \/ /\ s = << >> /\ ~cfg.keep_volumes /\ pod.volumes # Absent
       /\ Pruned(pod, cfg, volumes)

(* Absent is no set of volumes; see ReviewsAssumption. *)
VolumesAreSets(pod) ==
    pod.volumes # Absent =>
        \A kept \in SUBSET DOMAIN pod.volumes : [v \in kept |-> pod.volumes[v]] # Absent

LEMMA PruneCases ==
    ASSUME NEW pod, NEW cfg, ~cfg.keep_volumes, pod.volumes # Absent
    PROVE  prune_orphan_volumes(pod, cfg) =
              IF Remaining(pod, cfg) = DOMAIN pod.volumes THEN << >>
              ELSE IF Remaining(pod, cfg) = {} THEN <<remove_op(0, "volumes")>>
              ELSE <<replace_op(0, "volumes", [v \in Remaining(pod, cfg) |-> pod.volumes[v]])>>
  BY Zenon DEF prune_orphan_volumes, Remaining

LEMMA PruneShape ==
    ASSUME NEW pod, NEW cfg, VolumesAreSets(pod), prune_orphan_volumes(pod, cfg) # << >>
    PROVE  LET s == prune_orphan_volumes(pod, cfg) IN
           /\ ~cfg.keep_volumes /\ pod.volumes # Absent
           /\ Tail(s) = << >> /\ Head(s).at = 0 /\ Head(s).op \in {"remove", "replace"}
           /\ Pruned(pod, cfg, Head(s).value)
  <1> DEFINE s == prune_orphan_volumes(pod, cfg)
             D == DOMAIN pod.volumes
             kept == Remaining(pod, cfg)
             shrunk == [v \in kept |-> pod.volumes[v]]
             gone == remove_op(0, "volumes")
             less == replace_op(0, "volumes", shrunk)
  <1>1. ~cfg.keep_volumes /\ pod.volumes # Absent
    BY DEF prune_orphan_volumes
  <1>2. s = IF kept = D THEN << >> ELSE IF kept = {} THEN <<gone>> ELSE <<less>>
    BY <1>1, PruneCases
  <1>3. CASE s = <<gone>> /\ kept = {}
    BY <1>1, <1>3 DEF Pruned, NamesOf, remove_op, Op
  <1>4. CASE s = <<less>>
    <2>1. shrunk # Absent
      BY <1>1 DEF VolumesAreSets, Remaining
    <2>2. NamesOf(shrunk) = kept /\ \A v \in kept : shrunk[v] = pod.volumes[v]
      BY <2>1 DEF NamesOf
    <2>3. less.value = shrunk /\ less.at = 0 /\ less.op = "replace"
      BY DEF replace_op, Op
    <2>4. Head(s) = less /\ Tail(s) = << >>
      BY <1>4
    <2> HIDE DEF s, less, shrunk
    <2> QED BY <1>1, <2>2, <2>3, <2>4 DEF Pruned, s
  <1> QED BY <1>2, <1>3, <1>4

LEMMA NothingToPrune ==
    ASSUME NEW pod, NEW cfg, prune_orphan_volumes(pod, cfg) = << >>,
           ~cfg.keep_volumes, pod.volumes # Absent
    PROVE  Pruned(pod, cfg, pod.volumes)
  <1> DEFINE less == replace_op(0, "volumes", [v \in Remaining(pod, cfg) |-> pod.volumes[v]])
             gone == remove_op(0, "volumes")
  <1>0. << >> = IF Remaining(pod, cfg) = DOMAIN pod.volumes THEN << >>
                ELSE IF Remaining(pod, cfg) = {} THEN <<gone>> ELSE <<less>>
    BY PruneCases, Zenon
  <1> HIDE DEF less, gone
  <1>1. Remaining(pod, cfg) = DOMAIN pod.volumes
    BY <1>0
  <1> QED BY <1>1 DEF Pruned, NamesOf

(* A volume that does not hold the pod up or is still needed stays. *)
LEMMA VolumesKept ==
    ASSUME NEW pod, NEW cfg, NEW s, NEW volumes, VolumesProgress(pod, cfg, s, volumes),
           NEW v \in NamesOf(pod.volumes),
           pod.volumes[v] \notin BlocksOnMissing \/ v \in Needed(pod, cfg)
    PROVE  v \in NamesOf(volumes) /\ volumes[v] = pod.volumes[v]
  <1>1. pod.volumes # Absent => v \in Remaining(pod, cfg)
    BY DEF Remaining, NamesOf
  <1> QED BY <1>1 DEF VolumesProgress, Pruned, NamesOf

(* With keep-volumes nothing goes; else what is left in the end is to stay.*)
LEMMA VolumesLeft ==
    ASSUME NEW pod, NEW cfg, NEW volumes, VolumesProgress(pod, cfg, << >>, volumes)
    PROVE  /\ cfg.keep_volumes => volumes = pod.volumes
           /\ ~cfg.keep_volumes =>
                \A v \in NamesOf(volumes) : \/ volumes[v] \notin BlocksOnMissing
                                            \/ v \in Needed(pod, cfg)
  <1>1. CASE cfg.keep_volumes
    BY <1>1 DEF VolumesProgress
  <1>2. CASE pod.volumes = Absent
    BY <1>2 DEF VolumesProgress, NamesOf
  <1>3. CASE ~cfg.keep_volumes /\ pod.volumes # Absent
    <2>1. Pruned(pod, cfg, volumes)
      BY <1>3, NothingToPrune DEF VolumesProgress
    <2> QED BY <1>3, <2>1 DEF Pruned, Remaining
  <1> QED BY <1>1, <1>2, <1>3

-----------------------------------------------------------------------------
(* The pod *)

(* Review r has been answered with a patch; o is the pod when the groups g *)
(* of it are still to be applied.                                          *)
Overlaid(r, o, g) ==
    LET cfg == Config(r)  written == r.pod.containers  n == Len(r.pod.containers) IN
    /\ r.body = "pod" /\ cfg # Skip
    /\ DOMAIN g = 1..(n + 1)
    /\ DOMAIN o = {"containers", "init_containers", "volumes"}
    /\ o.init_containers = r.pod.init_containers
    /\ DOMAIN o.containers = 1..n
    /\ \A i \in 1..n :
          IF should_skip(written[i].name, cfg)
          THEN g[i] = << >> /\ o.containers[i] = written[i]
          ELSE Progress(i, written[i], cfg, g[i], o.containers[i])
    /\ VolumesProgress(r.pod, cfg, g[n + 1], o.volumes)

(* What the reviews are assumed to be. *)
LEMMA ReviewShape ==
    ASSUME NEW r \in Reviews
    PROVE  /\ r.body \in Bodies
           /\ DOMAIN r.pod = {"containers", "init_containers", "volumes"}
           /\ Len(r.pod.containers) \in Nat
           /\ DOMAIN r.pod.containers = 1..Len(r.pod.containers)
           /\ \A i \in 1..Len(r.pod.containers) :
                 /\ r.pod.containers[i] \in ToSet(r.pod.containers)
                 /\ IsContainer(r.pod.containers[i])
                 /\ Config(r) # Skip => EnvIsList(r.pod.containers[i], Config(r))
           /\ VolumesAreSets(r.pod)
  <1> DEFINE P == ToSet(r.pod.containers)
  <1>1. r.pod.containers \in Seq(P)
    BY ReviewsAssumption
  <1>2. /\ Len(r.pod.containers) \in Nat
        /\ DOMAIN r.pod.containers = 1..Len(r.pod.containers)
    BY <1>1, LenProperties
  <1>3. \A i \in 1..Len(r.pod.containers) : r.pod.containers[i] \in P
    BY <1>2 DEF ToSet
  <1>4. ASSUME NEW c \in P
        PROVE  IsContainer(c) /\ (Config(r) # Skip => EnvIsList(c, Config(r)))
    <2>1. /\ IsContainer(c)
          /\ c.env # Absent /\ Config(r) # Skip => Absent \notin Seq(EnvEntries(c, Config(r)))
      BY ReviewsAssumption DEF EnvEntries
    <2>2. c.env # Absent => c.env \in Seq(ToSet(c.env))
      BY <2>1 DEF IsContainer, IsEnv
    <2>3. ToSet(c.env) \subseteq EnvEntries(c, Config(r))
      BY DEF EnvEntries
    <2>4. c.env # Absent => c.env \in Seq(EnvEntries(c, Config(r)))
      BY <2>2, <2>3
    <2> QED BY <2>1, <2>4 DEF EnvIsList
  <1>5. r.body \in Bodies /\ DOMAIN r.pod = {"containers", "init_containers", "volumes"}
    BY ReviewsAssumption
  <1>6. VolumesAreSets(r.pod)
    BY ReviewsAssumption DEF VolumesAreSets
  <1> QED BY <1>2, <1>3, <1>4, <1>5, <1>6

(* The configuration of a review that is to be stubbed. *)
LEMMA ConfigShape ==
    ASSUME NEW r, Config(r) # Skip
    PROVE  /\ Config(r).port \in u16
           /\ r.annotations.port # 0 => Config(r).port # 0
           /\ Config(r).skip_containers =
                 IF r.annotations.skip_containers = Absent THEN {} ELSE r.annotations.skip_containers
           /\ chosen_image(Config(r)) # Absent
  <1> DEFINE raw == r.annotations.port
             type == r.annotations.type
             port == parse_port(raw, type)
  <1>1. /\ Config(r).port = port
        /\ Config(r).skip_containers =
              IF r.annotations.skip_containers = Absent THEN {} ELSE r.annotations.skip_containers
    BY DEF Config, parse_annotations
  <1>2. chosen_image(Config(r)) # Absent
    BY AbsentAssumption DEF chosen_image
  <1> HIDE DEF raw, type
  <1>3. port \in u16 /\ (raw # 0 => port # 0)
    <2>1. CASE raw \in u16
      BY <2>1 DEF parse_port
    <2>2. CASE raw \notin u16
      <3>1. port = 8080 \/ port = 80
        BY <2>2 DEF parse_port
      <3> HIDE DEF port
      <3> QED BY <3>1 DEF u16
    <2> QED BY <2>1, <2>2
  <1> HIDE DEF port
  <1> QED BY <1>1, <1>2, <1>3 DEF raw

LEMMA OverlayStart ==
    ASSUME NEW r \in Reviews, r.body = "pod", Config(r) # Skip
    PROVE  Overlaid(r, r.pod, build_patch(r.pod, Config(r)))
  <1> DEFINE cfg == Config(r)
             written == r.pod.containers
             n == Len(written)
             groups == [i \in DOMAIN written |->
                          IF should_skip(written[i].name, cfg) THEN << >>
                          ELSE ContainerOps(i, written[i], cfg)]
             volumes == prune_orphan_volumes(r.pod, cfg)
             g == build_patch(r.pod, cfg)
  <1>1. /\ DOMAIN r.pod = {"containers", "init_containers", "volumes"}
        /\ n \in Nat /\ DOMAIN written = 1..n
        /\ \A i \in 1..n : DOMAIN written[i] = ContainerFields
    BY ReviewShape DEF IsContainer
  <1>2. g = Append(groups, volumes)
    BY DEF build_patch
  <1>3. /\ DOMAIN g = 1..(n + 1) /\ g[n + 1] = volumes
        /\ \A i \in 1..n : g[i] = groups[i]
    <2> DEFINE T == {groups[i] : i \in 1..n} \cup {volumes}
    <2>1. groups \in [1..n -> T]
      BY <1>1
    <2>2. groups \in Seq(T) /\ Len(groups) = n
      BY <1>1, <2>1
    <2>3. volumes \in T
      OBVIOUS
    <2> HIDE DEF T, groups, volumes, g
    <2> QED BY <1>1, <1>2, <2>2, <2>3, AppendProperties
  <1>4. ASSUME NEW i \in 1..n
        PROVE  IF should_skip(written[i].name, cfg)
               THEN g[i] = << >> /\ written[i] = written[i]
               ELSE Progress(i, written[i], cfg, g[i], written[i])
    <2>1. g[i] = IF should_skip(written[i].name, cfg) THEN << >>
                 ELSE ContainerOps(i, written[i], cfg)
      BY <1>1, <1>3
    <2> HIDE DEF g
    <2> QED BY <1>1, <2>1, ProgressStart
  <1>5. VolumesProgress(r.pod, cfg, g[n + 1], r.pod.volumes)
    BY <1>3 DEF VolumesProgress
  <1> HIDE DEF g
  <1>6. Overlaid(r, r.pod, g)
    BY <1>1, <1>3, <1>4, <1>5 DEF Overlaid
  <1> QED BY <1>6 DEF g

(* A group that is not empty belongs to a container that is not skipped or *)
(* to the volumes.                                                         *)
LEMMA GroupsLeft ==
    ASSUME NEW r \in Reviews, NEW o, NEW g, Overlaid(r, o, g), NEW k \in DOMAIN g, g[k] # << >>
    PROVE  LET n == Len(r.pod.containers)  c == r.pod.containers[k]  cfg == Config(r) IN
           \/ /\ k \in 1..n /\ ~should_skip(c.name, cfg)
              /\ Progress(k, c, cfg, g[k], o.containers[k])
              /\ Head(g[k]).at = k /\ k # 0 /\ Head(g[k]).field \in ContainerFields
           \/ /\ k = n + 1 /\ g[k] = prune_orphan_volumes(r.pod, cfg)
              /\ o.volumes = r.pod.volumes
              /\ ~cfg.keep_volumes /\ r.pod.volumes # Absent
              /\ Tail(g[k]) = << >> /\ Head(g[k]).at = 0
              /\ Head(g[k]).op \in {"remove", "replace"}
              /\ Pruned(r.pod, cfg, Head(g[k]).value)
  <1> DEFINE n == Len(r.pod.containers)
             c == r.pod.containers[k]
             cfg == Config(r)
  <1>1. n \in Nat /\ VolumesAreSets(r.pod)
    BY ReviewShape
  <1>2. k \in 1..n \/ k = n + 1
    BY <1>1 DEF Overlaid
  <1>3. CASE k \in 1..n
    <2>1. ~should_skip(c.name, cfg) /\ Progress(k, c, cfg, g[k], o.containers[k])
      BY <1>3 DEF Overlaid
    <2>2. g[k] \in Seq(OpsOf(k, c, cfg))
      BY <2>1 DEF Progress
    <2> DEFINE R == OpsOf(k, c, cfg)
    <2>3. Head(g[k]) \in R
      <3> HIDE DEF R
      <3> QED BY <2>2, HeadTailProperties DEF R
    <2>4. Head(g[k]).at = k /\ Head(g[k]).field \in ContainerFields
      BY <2>3, OpsOfShape
    <2> QED BY <1>1, <1>3, <2>1, <2>4
  <1>4. CASE k = n + 1
    <2>1. g[k] = prune_orphan_volumes(r.pod, cfg) /\ o.volumes = r.pod.volumes
      BY <1>4 DEF Overlaid, VolumesProgress
    <2>2. LET s == prune_orphan_volumes(r.pod, cfg) IN
          /\ ~cfg.keep_volumes /\ r.pod.volumes # Absent
          /\ Tail(s) = << >> /\ Head(s).at = 0 /\ Head(s).op \in {"remove", "replace"}
          /\ Pruned(r.pod, cfg, Head(s).value)
      BY <1>1, <2>1, PruneShape
    <2> QED BY <1>4, <2>1, <2>2
  <1> QED BY <1>2, <1>3, <1>4

LEMMA OverlayStep ==
    ASSUME NEW r \in Reviews, NEW o, NEW g, Overlaid(r, o, g), NEW k \in DOMAIN g, g[k] # << >>
    PROVE  Overlaid(r, ApplyOp(o, Head(g[k])), [g EXCEPT ![k] = Tail(@)])
  <1> DEFINE n == Len(r.pod.containers)
             written == r.pod.containers
             cfg == Config(r)
             p == Head(g[k])
             o2 == ApplyOp(o, p)
             g2 == [g EXCEPT ![k] = Tail(@)]
  <1>1. /\ n \in Nat /\ r.body = "pod" /\ cfg # Skip
        /\ DOMAIN g = 1..(n + 1)
        /\ DOMAIN o = {"containers", "init_containers", "volumes"}
        /\ o.init_containers = r.pod.init_containers
        /\ DOMAIN o.containers = 1..n
        /\ VolumesProgress(r.pod, cfg, g[n + 1], o.volumes)
    BY ReviewShape DEF Overlaid
  <1>2. \A i \in 1..n : IF should_skip(written[i].name, cfg)
                        THEN g[i] = << >> /\ o.containers[i] = written[i]
                        ELSE Progress(i, written[i], cfg, g[i], o.containers[i])
    BY DEF Overlaid
  <1>3. DOMAIN g2 = 1..(n + 1) /\ g2[k] = Tail(g[k]) /\ \A i \in 1..(n + 1) : i # k => g2[i] = g[i]
    BY <1>1
  <1>4. CASE /\ k \in 1..n /\ ~should_skip(written[k].name, cfg)
             /\ Progress(k, written[k], cfg, g[k], o.containers[k])
             /\ p.at = k /\ k # 0 /\ p.field \in ContainerFields
    <2> DEFINE x == o.containers[k]
               y == [x EXCEPT ![p.field] = NextValue(x, p)]
    <2>1. Progress(k, written[k], cfg, Tail(g[k]), y)
      BY <1>4, ProgressStep
    <2>2. Result(o, p) = NextValue(x, p)
      BY <1>4 DEF Result, Target, NextValue
    <2>3. o2 = [o EXCEPT !.containers[k][p.field] = Result(o, p)]
      BY <1>4 DEF ApplyOp
    <2> HIDE DEF p, g2, o2, n
    <2>4. /\ DOMAIN o2 = {"containers", "init_containers", "volumes"}
          /\ o2.init_containers = o.init_containers /\ o2.volumes = o.volumes
          /\ DOMAIN o2.containers = 1..n
          /\ \A i \in 1..n : i # k => o2.containers[i] = o.containers[i]
      BY <1>1, <2>3
    <2>5. o2.containers[k] = y
      BY <1>1, <1>4, <2>2, <2>3
    <2> HIDE DEF x, y
    <2>6. \A i \in 1..n : IF should_skip(written[i].name, cfg)
                          THEN g2[i] = << >> /\ o2.containers[i] = written[i]
                          ELSE Progress(i, written[i], cfg, g2[i], o2.containers[i])
      <3> SUFFICES ASSUME NEW i \in 1..n
                   PROVE  IF should_skip(written[i].name, cfg)
                          THEN g2[i] = << >> /\ o2.containers[i] = written[i]
                          ELSE Progress(i, written[i], cfg, g2[i], o2.containers[i])
        OBVIOUS
      <3>1. CASE i = k
        BY <1>3, <1>4, <2>1, <2>5, <3>1
      <3>2. CASE i # k
        <4>1. g2[i] = g[i] /\ o2.containers[i] = o.containers[i]
          BY <1>1, <1>3, <2>4, <3>2
        <4> QED BY <1>2, <4>1
      <3> QED BY <3>1, <3>2
    <2>7. g2[n + 1] = g[n + 1]
      BY <1>1, <1>3, <1>4
    <2>8. VolumesProgress(r.pod, cfg, g2[n + 1], o2.volumes)
      BY <1>1, <2>4, <2>7
    <2>9. Overlaid(r, o2, g2)
      BY <1>1, <1>3, <2>4, <2>6, <2>8 DEF Overlaid, n
    <2> QED BY <2>9 DEF o2, g2, p
  <1>5. CASE /\ k = n + 1 /\ Tail(g[k]) = << >> /\ p.at = 0 /\ p.op \in {"remove", "replace"}
             /\ ~cfg.keep_volumes /\ r.pod.volumes # Absent /\ Pruned(r.pod, cfg, p.value)
    <2>1. o2 = [o EXCEPT !.volumes = p.value]
      BY <1>5 DEF ApplyOp, Result
    <2> HIDE DEF p, g2, o2, n
    <2>2. /\ DOMAIN o2 = {"containers", "init_containers", "volumes"}
          /\ o2.init_containers = o.init_containers /\ o2.volumes = p.value
          /\ o2.containers = o.containers
      BY <1>1, <2>1
    <2>3. \A i \in 1..n : g2[i] = g[i]
      BY <1>1, <1>3, <1>5
    <2>4. VolumesProgress(r.pod, cfg, g2[n + 1], o2.volumes)
      BY <1>3, <1>5, <2>2 DEF VolumesProgress
    <2>5. \A i \in 1..n : IF should_skip(written[i].name, cfg)
                          THEN g2[i] = << >> /\ o2.containers[i] = written[i]
                          ELSE Progress(i, written[i], cfg, g2[i], o2.containers[i])
      BY <1>2, <2>2, <2>3
    <2>6. Overlaid(r, o2, g2)
      BY <1>1, <1>3, <2>2, <2>4, <2>5 DEF Overlaid, n
    <2> QED BY <2>6 DEF o2, g2, p
  <1> QED BY <1>4, <1>5, GroupsLeft

(* If every container has an image, the next operation finds its target. *)
LEMMA OverlayApplies ==
    ASSUME NEW r \in Reviews, NEW o, NEW g, Overlaid(r, o, g), NEW k \in DOMAIN g, g[k] # << >>,
           Valid(r.pod)
    PROVE  Applicable(o, Head(g[k]))
  <1> DEFINE n == Len(r.pod.containers)
             written == r.pod.containers
             cfg == Config(r)
             p == Head(g[k])
  <1>1. CASE /\ k \in 1..n /\ Progress(k, written[k], cfg, g[k], o.containers[k])
             /\ p.at = k /\ k # 0
    <2>1. written[k].image # Absent /\ EnvIsList(written[k], cfg)
      BY <1>1, ReviewShape DEF Valid, Overlaid
    <2>2. p.op = "add" \/ o.containers[k][p.field] # Absent
      BY <1>1, <2>1, ProgressApplies
    <2> QED BY <1>1, <2>2 DEF Applicable, Target
  <1>2. CASE p.at = 0 /\ o.volumes = r.pod.volumes /\ r.pod.volumes # Absent
    BY <1>2 DEF Applicable, Target
  <1> QED BY <1>1, <1>2, GroupsLeft

(* What a volume is needed for. *)
LEMMA NeededBy ==
    ASSUME NEW pod, NEW cfg
    PROVE  /\ \A i \in DOMAIN pod.containers : should_skip(pod.containers[i].name, cfg) =>
                 Mounts(pod.containers[i]) \subseteq Needed(pod, cfg)
           /\ \A c \in ToSet(pod.init_containers) : Mounts(c) \subseteq Needed(pod, cfg)
           /\ \A v \in Needed(pod, cfg) :
                 \/ \E i \in DOMAIN pod.containers :
                       should_skip(pod.containers[i].name, cfg) /\ v \in Mounts(pod.containers[i])
                 \/ \E c \in ToSet(pod.init_containers) : v \in Mounts(c)
  <1> DEFINE skipped == {d \in ToSet(pod.containers) : should_skip(d.name, cfg)}
  <1>1. Needed(pod, cfg) = (UNION {Mounts(c) : c \in skipped})
                           \cup (UNION {Mounts(c) : c \in ToSet(pod.init_containers)})
    BY DEF Needed
  <1>2. \A d : d \in skipped <=> \E i \in DOMAIN pod.containers :
                   d = pod.containers[i] /\ should_skip(d.name, cfg)
    BY DEF ToSet
  <1> HIDE DEF skipped
  <1>3. ASSUME NEW S, NEW v
        PROVE  v \in UNION {Mounts(c) : c \in S} <=> \E c \in S : v \in Mounts(c)
    OBVIOUS
  <1>4. ASSUME NEW v
        PROVE  v \in Needed(pod, cfg) <=> \/ \E c \in skipped : v \in Mounts(c)
                                       \/ \E c \in ToSet(pod.init_containers) : v \in Mounts(c)
    <2> DEFINE A == UNION {Mounts(c) : c \in skipped}
               B == UNION {Mounts(c) : c \in ToSet(pod.init_containers)}
    <2>1. v \in A <=> \E c \in skipped : v \in Mounts(c)
      BY <1>3
    <2>2. v \in B <=> \E c \in ToSet(pod.init_containers) : v \in Mounts(c)
      BY <1>3
    <2>3. Needed(pod, cfg) = A \cup B
      BY <1>1
    <2> HIDE DEF A, B
    <2> QED BY <2>1, <2>2, <2>3
  <1> QED BY <1>2, <1>4

(* A container of a pod to which the whole patch has been applied. *)
LEMMA ContainerDone ==
    ASSUME NEW r \in Reviews, NEW o, NEW g, Overlaid(r, o, g), IsEmptyPatch(g),
           NEW i \in 1..Len(r.pod.containers),
           ~should_skip(r.pod.containers[i].name, Config(r))
    PROVE  LET c == r.pod.containers[i]  x == o.containers[i]  cfg == Config(r) IN
           /\ x.image = chosen_image(cfg) /\ x.ports = {cfg.port}
           /\ x.livenessProbe = cfg.port /\ x.readinessProbe = cfg.port
           /\ EffectivePort(x.env) = cfg.port
           /\ x.envFrom = IF cfg.keep_env_from THEN c.envFrom ELSE Absent
           /\ x.volumeMounts = IF cfg.keep_volumes THEN c.volumeMounts ELSE Absent
           /\ x.command = Absent /\ x.args = Absent /\ x.resources # Absent
  <1> DEFINE n == Len(r.pod.containers)
             c == r.pod.containers[i]
             cfg == Config(r)
  <1>1. n \in Nat /\ cfg # Skip /\ EnvIsList(c, cfg)
    BY ReviewShape DEF Overlaid
  <1>2. i \in DOMAIN g
    BY <1>1 DEF Overlaid
  <1>3. g[i] = << >>
    BY <1>2 DEF IsEmptyPatch
  <1>4. Progress(i, c, cfg, << >>, o.containers[i])
    BY <1>3 DEF Overlaid
  <1> HIDE DEF c, cfg
  <1>5. LET x == o.containers[i] IN
        /\ x.image = chosen_image(cfg) /\ x.ports = {cfg.port}
        /\ x.livenessProbe = cfg.port /\ x.readinessProbe = cfg.port
        /\ EffectivePort(x.env) = cfg.port
        /\ x.envFrom = IF cfg.keep_env_from THEN c.envFrom ELSE Absent
        /\ x.volumeMounts = IF cfg.keep_volumes THEN c.volumeMounts ELSE Absent
        /\ x.command = Absent /\ x.args = Absent /\ x.resources # Absent
    BY <1>1, <1>4, ProgressDone
  <1> QED BY <1>5 DEF c, cfg

LEMMA VolumesDone ==
    ASSUME NEW r \in Reviews, NEW o, NEW g, Overlaid(r, o, g), IsEmptyPatch(g)
    PROVE  VolumesProgress(r.pod, Config(r), << >>, o.volumes)
  <1>1. Len(r.pod.containers) + 1 \in DOMAIN g
    BY ReviewShape DEF Overlaid
  <1> QED BY <1>1 DEF Overlaid, IsEmptyPatch

(* A valid pod is valid with the whole patch applied, unless for port 0. *)
LEMMA OverlayValid ==
    ASSUME NEW r \in Reviews, NEW o, NEW g, Overlaid(r, o, g), IsEmptyPatch(g),
           Valid(r.pod), r.annotations.port # 0
    PROVE  Valid(o)
  <1> DEFINE n == Len(r.pod.containers)
             written == r.pod.containers
             cfg == Config(r)
  <1>1. /\ n \in Nat /\ DOMAIN written = 1..n /\ DOMAIN o.containers = 1..n
        /\ cfg # Skip /\ o.init_containers = r.pod.init_containers
    BY ReviewShape DEF Overlaid
  <1>2. \A i \in 1..n : should_skip(written[i].name, cfg) => o.containers[i] = written[i]
    BY DEF Overlaid
  <1>3. \A i \in 1..n : written[i] \in ToSet(written)
    BY ReviewShape
  <1>4. /\ chosen_image(cfg) # Absent /\ cfg.port \in u16 \ {0}
        /\ VolumesProgress(r.pod, cfg, << >>, o.volumes)
    BY <1>1, ConfigShape, VolumesDone
  <1>5. ASSUME NEW i \in 1..n
        PROVE  LET x == o.containers[i] IN
               /\ x.image # Absent
               /\ (x.ports = Absent) \/ (x.ports \subseteq u16 \ {0})
    <2>1. CASE should_skip(written[i].name, cfg)
      BY <1>2, <1>3, <2>1 DEF Valid
    <2>2. CASE ~should_skip(written[i].name, cfg)
      <3>1. o.containers[i].image = chosen_image(cfg) /\ o.containers[i].ports = {cfg.port}
        BY <2>2, ContainerDone
      <3> QED BY <1>4, <3>1
    <2> QED BY <2>1, <2>2
  <1>6. VolumeNames(o) = NamesOf(o.volumes) /\ VolumeNames(r.pod) = NamesOf(r.pod.volumes)
    BY DEF VolumeNames, NamesOf
  <1>7. \A v \in NamesOf(r.pod.volumes) \cap Needed(r.pod, cfg) : v \in NamesOf(o.volumes)
    BY <1>4, VolumesKept
  <1>8. ASSUME NEW i \in 1..n
        PROVE  Mounts(o.containers[i]) \subseteq NamesOf(o.volumes)
    <2>1. Mounts(written[i]) \subseteq NamesOf(r.pod.volumes)
      BY <1>3, <1>6 DEF Valid
    <2>2. CASE should_skip(written[i].name, cfg)
      <3>1. Mounts(written[i]) \subseteq Needed(r.pod, cfg)
        BY <1>1, <2>2, NeededBy
      <3> QED BY <1>2, <1>7, <2>1, <2>2, <3>1
    <2>3. CASE ~should_skip(written[i].name, cfg)
      <3>1. o.containers[i].volumeMounts =
               IF cfg.keep_volumes THEN written[i].volumeMounts ELSE Absent
        BY <2>3, ContainerDone
      <3>2. CASE cfg.keep_volumes
        <4>1. o.volumes = r.pod.volumes
          BY <1>4, <3>2, VolumesLeft
        <4>2. Mounts(o.containers[i]) = Mounts(written[i])
          BY <3>1, <3>2 DEF Mounts
        <4> QED BY <2>1, <4>1, <4>2
      <3>3. CASE ~cfg.keep_volumes
        BY <3>1, <3>3 DEF Mounts
      <3> QED BY <3>2, <3>3
    <2> QED BY <2>2, <2>3
  <1>9. ASSUME NEW c \in ToSet(r.pod.init_containers)
        PROVE  Mounts(c) \subseteq NamesOf(o.volumes)
    <2>1. Mounts(c) \subseteq NamesOf(r.pod.volumes)
      BY <1>6 DEF Valid
    <2>2. Mounts(c) \subseteq Needed(r.pod, cfg)
      BY NeededBy
    <2> QED BY <1>7, <2>1, <2>2
  <1>10. \A c \in ToSet(o.containers) : \E i \in 1..n : c = o.containers[i]
    BY <1>1 DEF ToSet
  <1> QED BY <1>1, <1>5, <1>6, <1>8, <1>9, <1>10 DEF Valid

-----------------------------------------------------------------------------
(* The state machine *)

(* The inductive invariant: what is known in each phase of the pod and of  *)
(* the operations that are left.                                           *)
Safe ==
    /\ review \in Reviews
    /\ phase \in {"sent", "answered", "patching", "admitted", "refused"}
    /\ status \in BOOLEAN
    /\ counted \in Optional({"inject", "skip", "error"})
    /\ phase = "sent" => ops = << >>
    /\ phase \in {"sent", "answered"} => object = Written
    /\ phase \in {"answered", "patching"} =>
          \/ Overlaid(review, object, ops) /\ counted = "inject"
          \/ IsEmptyPatch(ops) /\ object = Written
    /\ phase = "admitted" =>
          object = Written \/ (/\ Overlaid(review, object, ops) /\ IsEmptyPatch(ops)
                               /\ counted = "inject")
    /\ phase = "refused" => object = Written \/ Overlaid(review, object, ops)
    /\ PatchAdmissible

LEMMA SafeInit == Init => Safe
  BY DEF Init, Safe, Written, Optional, PatchAdmissible

LEMMA MutateSafe ==
    ASSUME Safe, Mutate PROVE Safe'
  <1>1. /\ review' = review /\ object' = object /\ object = Written /\ review \in Reviews
        /\ phase = "sent" /\ phase' = "answered" /\ PatchAdmissible'
    BY DEF Safe, Mutate, PatchAdmissible
  <1>2. status' \in BOOLEAN /\ counted' \in Optional({"inject", "skip", "error"})
    BY DEF Mutate, handle, classify, Optional
  <1>3. CASE review.body = "pod" /\ Config(review) # Skip
    <2>1. ops' = build_patch(review.pod, Config(review))
      BY <1>3 DEF Mutate, handle
    <2>2. Overlaid(review, review.pod, build_patch(review.pod, Config(review)))
      BY <1>1, <1>3, OverlayStart
    <2>3. counted' = "inject" \/ IsEmptyPatch(ops')
      BY <2>1 DEF Mutate, classify
    <2> QED BY <1>1, <1>2, <1>3, <2>1, <2>2, <2>3 DEF Safe, Written, Cfg
  <1>4. CASE ~(review.body = "pod" /\ Config(review) # Skip)
    <2>1. ops' = << >> /\ handle(review).ops = << >>
      BY <1>4 DEF Mutate, handle
    <2>2. IsEmptyPatch(<< >>)
      BY EmptySeq DEF IsEmptyPatch
    <2>3. counted' = "skip"
      BY <2>1, <2>2 DEF Mutate, classify
    <2> QED BY <1>1, <1>2, <2>1, <2>2, <2>3 DEF Safe, Written
  <1> QED BY <1>3, <1>4

LEMMA ApplyNextSafe ==
    ASSUME Safe, ApplyNext PROVE Safe'
  <1>1. PICK k \in DOMAIN ops :
           /\ ops[k] # << >>
           /\ object' = ApplyOp(object, Head(ops[k]))
           /\ ops' = [ops EXCEPT ![k] = Tail(@)]
    BY DEF ApplyNext, Foremost
  <1>2. /\ review' = review /\ status' = status /\ counted' = counted /\ phase' = "patching"
        /\ phase \in {"answered", "patching"}
    BY DEF ApplyNext
  <1>3. ~IsEmptyPatch(ops)
    BY <1>1 DEF IsEmptyPatch
  <1>4. review \in Reviews /\ Overlaid(review, object, ops) /\ counted = "inject"
    BY <1>2, <1>3 DEF Safe
  <1>5. Overlaid(review, ApplyOp(object, Head(ops[k])), [ops EXCEPT ![k] = Tail(@)])
    BY <1>1, <1>4, OverlayStep
  <1>6. Overlaid(review', object', ops')
    BY <1>1, <1>2, <1>5
  <1>7. PatchAdmissible'
    BY <1>2 DEF PatchAdmissible
  <1> QED BY <1>2, <1>4, <1>6, <1>7 DEF Safe, Cfg

LEMMA RefusePatchSafe ==
    ASSUME Safe, RefusePatch PROVE Safe'
  <1>1. PICK k \in DOMAIN ops : ops[k] # << >> /\ ~Applicable(object, Head(ops[k]))
    BY DEF RefusePatch, Foremost
  <1>2. ~IsEmptyPatch(ops)
    BY <1>1 DEF IsEmptyPatch
  <1>3. review \in Reviews /\ Overlaid(review, object, ops)
    BY <1>2 DEF Safe, RefusePatch
  <1>4. ~Valid(Written)
    BY <1>1, <1>3, OverlayApplies DEF Written
  <1>5. phase' = "refused" /\ UNCHANGED <<review, object, ops, status, counted>>
    BY DEF RefusePatch
  <1>6. PatchAdmissible'
    BY <1>4, <1>5 DEF PatchAdmissible, Written
  <1> QED BY <1>3, <1>5, <1>6 DEF Safe, Cfg, Written

LEMMA ValidateSafe ==
    ASSUME Safe, Validate PROVE Safe'
  <1>1. /\ phase \in {"answered", "patching"} /\ IsEmptyPatch(ops)
        /\ phase' = IF Valid(object) THEN "admitted" ELSE "refused"
        /\ UNCHANGED <<review, object, ops, status, counted>>
    BY DEF Validate
  <1>2. /\ review \in Reviews
        /\ (Overlaid(review, object, ops) /\ counted = "inject") \/ object = Written
    BY <1>1 DEF Safe
  <1>3. review.annotations.port # 0 /\ Valid(Written) => Valid(object)
    BY <1>1, <1>2, OverlayValid DEF Written
  <1>4. PatchAdmissible'
    BY <1>1, <1>3 DEF PatchAdmissible, Written
  <1> QED BY <1>1, <1>2, <1>4 DEF Safe, Cfg, Written

LEMMA SafeStep == Safe /\ [Next]_vars => Safe'
  <1> SUFFICES ASSUME Safe, [Next]_vars PROVE Safe'
    OBVIOUS
  <1>1. CASE MalformedBody
    <2>1. /\ counted' = "error" /\ ops' = ops /\ review' = review /\ object' = object
          /\ phase = "sent" /\ phase' = "answered" /\ status' = TRUE
      BY <1>1 DEF MalformedBody
    <2>2. ops = << >>
      BY <2>1 DEF Safe
    <2>3. IsEmptyPatch(ops)
      BY <2>2, EmptySeq DEF IsEmptyPatch
    <2> QED BY <2>1, <2>3 DEF Safe, Written, Optional, PatchAdmissible
  <1>2. CASE Mutate
    BY <1>2, MutateSafe
  <1>3. CASE ApplyNext
    BY <1>3, ApplyNextSafe
  <1>4. CASE RefusePatch
    BY <1>4, RefusePatchSafe
  <1>5. CASE Validate
    BY <1>5, ValidateSafe
  <1>6. CASE CallFails
    <2>1. object = Written
      BY <1>6 DEF CallFails, Safe
    <2>2. PatchAdmissible'
      BY <1>6, <2>1 DEF CallFails, PatchAdmissible, Written
    <2> QED BY <1>6, <2>1, <2>2 DEF CallFails, Safe, Written, Cfg
  <1>7. CASE UNCHANGED vars
    BY <1>7 DEF vars, Safe, Written, Cfg, PatchAdmissible
  <1> QED BY <1>1, <1>2, <1>3, <1>4, <1>5, <1>6, <1>7 DEF Next

(* In every reachable state the container that is being stubbed is as its  *)
(* owner wrote it but for the operations that have been applied, and what  *)
(* is left of the patch is what lacks.                                     *)
THEOREM AlwaysSafe == Spec => []Safe
  <1> QED BY SafeInit, SafeStep, PTL DEF Spec

(* Two forms of one state: the owner's pod, or the patch under way. *)
LEMMA WrittenOrOverlaid ==
    ASSUME Safe
    PROVE  /\ review \in Reviews
           /\ object = Written \/ Overlaid(review, object, ops)
           /\ phase = "admitted" /\ object # Written =>
                 Overlaid(review, object, ops) /\ IsEmptyPatch(ops) /\ counted = "inject"
  BY DEF Safe

LEMMA KeptIsSkipped ==
    ASSUME NEW i, Config(review) # Skip
    PROVE  Kept(i) <=> should_skip(review.pod.containers[i].name, Config(review))
  BY ConfigShape DEF Kept, should_skip, Written

LEMMA SafeTypeOK == Safe => TypeOK
  <1> SUFFICES ASSUME Safe PROVE TypeOK
    OBVIOUS
  <1> DEFINE n == Len(review.pod.containers)
             written == review.pod.containers
             cfg == Config(review)
  <1>1. /\ review \in Reviews /\ review.body \in Bodies /\ n \in Nat
        /\ DOMAIN written = 1..n /\ \A i \in 1..n : IsContainer(written[i])
    BY ReviewShape, WrittenOrOverlaid
  <1>2. CASE object = Written
    BY <1>1, <1>2 DEF Safe, TypeOK, Entries, Written
  <1>3. CASE Overlaid(review, object, ops)
    <2>1. cfg # Skip /\ DOMAIN object.containers = 1..n
      BY <1>3 DEF Overlaid
    <2>2. ASSUME NEW i \in 1..n
          PROVE  IsContainer(object.containers[i]) /\ object.containers[i].name = written[i].name
      <3>1. CASE should_skip(written[i].name, cfg)
        BY <1>1, <1>3, <3>1 DEF Overlaid
      <3>2. CASE ~should_skip(written[i].name, cfg)
        <4>1. Progress(i, written[i], cfg, ops[i], object.containers[i])
          BY <1>3, <3>2 DEF Overlaid
        <4>2. EnvIsList(written[i], cfg) /\ cfg.port \in u16
          BY <1>1, <2>1, ReviewShape, ConfigShape
        <4> QED BY <1>1, <4>1, <4>2, ProgressShape
      <3> QED BY <3>1, <3>2
    <2> QED BY <1>1, <2>1, <2>2 DEF Safe, TypeOK, Entries, Written
  <1> QED BY <1>2, <1>3, WrittenOrOverlaid

(* The pod has the shape of a pod whenever the API server looks at it. *)
THEOREM AdmissionTypes == Spec => []TypeOK
  <1> QED BY AlwaysSafe, SafeTypeOK, PTL

(* No pod that is valid as its owner wrote it is refused for the patch:    *)
(* every operation finds its target, and the result is valid.              *)
THEOREM PatchAlwaysAdmissible == Spec => []PatchAdmissible
  <1>1. Safe => PatchAdmissible
    BY DEF Safe
  <1> QED BY <1>1, AlwaysSafe, PTL

(* Sidecars and the containers of skip-containers are never touched, nor   *)
(* the volumes they mount.                                                 *)
THEOREM SkippedNeverTouched == Spec => []SkippedUntouched
  <1>1. ASSUME Safe, counted = "inject", NEW i \in Entries(Written), Kept(i)
        PROVE  /\ object.containers[i] = Written.containers[i]
               /\ \A v \in Mounts(Written.containers[i]) \cap VolumeNames(Written) :
                     v \in VolumeNames(object) /\ object.volumes[v] = Written.volumes[v]
    <2>1. CASE object = Written
      BY <2>1
    <2>2. CASE Overlaid(review, object, ops)
      <3> DEFINE cfg == Config(review)
                 n == Len(review.pod.containers)
      <3>1. review \in Reviews /\ cfg # Skip
        BY <1>1, <2>2 DEF Safe, Overlaid
      <3>2. i \in 1..n /\ n \in Nat /\ DOMAIN review.pod.containers = 1..n
        BY <1>1, <3>1, ReviewShape DEF Entries, Written
      <3>3. should_skip(review.pod.containers[i].name, cfg)
        BY <1>1, <3>1, KeptIsSkipped
      <3>4. object.containers[i] = Written.containers[i]
        BY <2>2, <3>2, <3>3 DEF Overlaid, Written
      <3>5. VolumesProgress(review.pod, cfg, ops[n + 1], object.volumes)
        BY <2>2 DEF Overlaid
      <3>6. Mounts(review.pod.containers[i]) \subseteq Needed(review.pod, cfg)
        BY <3>2, <3>3, NeededBy
      <3>7. /\ VolumeNames(object) = NamesOf(object.volumes)
            /\ VolumeNames(review.pod) = NamesOf(review.pod.volumes)
        BY DEF VolumeNames, NamesOf
      <3> HIDE DEF cfg, n
      <3> QED BY <3>4, <3>5, <3>6, <3>7, VolumesKept DEF Written
    <2> QED BY <1>1, <2>1, <2>2, WrittenOrOverlaid
  <1>2. Safe => SkippedUntouched
    BY <1>1 DEF SkippedUntouched
  <1> QED BY <1>2, AlwaysSafe, PTL

(* A pod that went in is its owner's or patched in every container that is *)
(* not skipped, and then counted as injected.                              *)
THEOREM PatchedWholeOrNot == Spec => []WholeOrNothing
  <1>1. ASSUME Safe, phase = "admitted", object # Written
        PROVE  /\ counted = "inject"
               /\ \A i \in Entries(object) : Kept(i) \/
                     LET c == object.containers[i] IN
                     /\ c.image = chosen_image(Cfg)
                     /\ c.command = Absent /\ c.args = Absent
                     /\ c.resources # Absent
    <2>1. review \in Reviews /\ Overlaid(review, object, ops) /\ IsEmptyPatch(ops)
      BY <1>1, WrittenOrOverlaid
    <2>2. Config(review) # Skip /\ Entries(object) = 1..Len(review.pod.containers)
      BY <2>1 DEF Overlaid, Entries
    <2>3. ASSUME NEW i \in Entries(object), ~Kept(i)
          PROVE  LET c == object.containers[i] IN
                 /\ c.image = chosen_image(Cfg)
                 /\ c.command = Absent /\ c.args = Absent
                 /\ c.resources # Absent
      <3>1. ~should_skip(review.pod.containers[i].name, Config(review))
        BY <2>2, <2>3, KeptIsSkipped
      <3> QED BY <2>1, <2>2, <2>3, <3>1, ContainerDone DEF Cfg
    <2>4. counted = "inject"
      BY <1>1 DEF Safe
    <2> QED BY <2>3, <2>4
  <1>2. Safe => WholeOrNothing
    BY <1>1 DEF WholeOrNothing
  <1> QED BY <1>2, AlwaysSafe, PTL

(* In a stubbed pod an envFrom, a mount or a secret, configMap or          *)
(* projected volume is left only for a keep-... annotation, a skipped      *)
(* container or an init container.                                         *)
THEOREM OnlyKeptIsLeft == Spec => []LeftoversAreKept
  <1>1. ASSUME Safe, Injected
        PROVE  /\ \A i \in Entries(object) : Kept(i) \/
                     /\ object.containers[i].envFrom = Absent \/ Cfg.keep_env_from
                     /\ object.containers[i].volumeMounts = Absent \/ Cfg.keep_volumes
               /\ Cfg.keep_volumes \/ \A v \in Held(object) :
                     \/ \E i \in Entries(object) : Kept(i) /\ v \in Mounts(object.containers[i])
                     \/ \E c \in ToSet(object.init_containers) : v \in Mounts(c)
    <2> DEFINE cfg == Config(review)
               n == Len(review.pod.containers)
               written == review.pod.containers
    <2>1. review \in Reviews /\ Overlaid(review, object, ops) /\ IsEmptyPatch(ops) /\ Cfg = cfg
      BY <1>1, WrittenOrOverlaid DEF Injected, Cfg
    <2>2. /\ cfg # Skip /\ n \in Nat /\ DOMAIN written = 1..n /\ Entries(object) = 1..n
          /\ object.init_containers = review.pod.init_containers
          /\ \A i \in 1..n : should_skip(written[i].name, cfg) => object.containers[i] = written[i]
      BY <2>1, ReviewShape DEF Overlaid, Entries
    <2>3. \A i \in 1..n : Kept(i) <=> should_skip(written[i].name, cfg)
      BY <2>2, KeptIsSkipped
    <2>4. ASSUME NEW i \in Entries(object)
          PROVE  Kept(i) \/
                 /\ object.containers[i].envFrom = Absent \/ Cfg.keep_env_from
                 /\ object.containers[i].volumeMounts = Absent \/ Cfg.keep_volumes
      <3>1. CASE should_skip(written[i].name, cfg)
        BY <2>2, <2>3, <3>1
      <3>2. CASE ~should_skip(written[i].name, cfg)
        BY <2>1, <2>2, <3>2, ContainerDone
      <3> QED BY <3>1, <3>2
    <2>5. VolumesProgress(review.pod, cfg, << >>, object.volumes)
      BY <2>1, VolumesDone
    <2>6. ASSUME ~cfg.keep_volumes, NEW v \in Held(object)
          PROVE  \/ \E i \in Entries(object) : Kept(i) /\ v \in Mounts(object.containers[i])
                 \/ \E c \in ToSet(object.init_containers) : v \in Mounts(c)
      <3>1. v \in NamesOf(object.volumes) /\ object.volumes[v] \in BlocksOnMissing
        BY DEF Held, VolumeNames, NamesOf, BlocksOnMissing
      <3>2. v \in Needed(review.pod, cfg)
        BY <2>5, <2>6, <3>1, VolumesLeft
      <3>3. \/ \E i \in DOMAIN written : should_skip(written[i].name, cfg) /\ v \in Mounts(written[i])
            \/ \E c \in ToSet(review.pod.init_containers) : v \in Mounts(c)
        BY <3>2, NeededBy
      <3> QED BY <2>2, <2>3, <3>3
    <2> QED BY <2>1, <2>4, <2>6
  <1>2. Safe => LeftoversAreKept
    BY <1>1 DEF LeftoversAreKept
  <1> QED BY <1>2, AlwaysSafe, PTL

(* In every container that is stubbed the ports, the probes and the        *)
(* STUBBY_PORT that takes effect are one port.                             *)
THEOREM PortsAlwaysAgree == Spec => []PortsAgree
  <1>1. ASSUME Safe, Injected, NEW i \in Entries(object), ~Kept(i)
        PROVE  LET c == object.containers[i] IN
               /\ c.ports = {c.livenessProbe}
               /\ c.readinessProbe = c.livenessProbe
               /\ EffectivePort(c.env) = c.livenessProbe
    <2>1. review \in Reviews /\ Overlaid(review, object, ops) /\ IsEmptyPatch(ops)
      BY <1>1, WrittenOrOverlaid DEF Injected
    <2>2. Config(review) # Skip /\ i \in 1..Len(review.pod.containers)
      BY <2>1 DEF Overlaid, Entries
    <2>3. ~should_skip(review.pod.containers[i].name, Config(review))
      BY <1>1, <2>2, KeptIsSkipped
    <2> QED BY <2>1, <2>2, <2>3, ContainerDone
  <1>2. Safe => PortsAgree
    BY <1>1 DEF PortsAgree
  <1> QED BY <1>2, AlwaysSafe, PTL

(* At no point of the patch is anything lost that the owner chose and that *)
(* the webhook is to leave alone: the env it declared, resources, init     *)
(* containers, the volumes that cannot hold the pod up, and what the two   *)
(* keep-... annotations name.                                              *)
THEOREM OwnersChoicesAlwaysKept == Spec => []OwnersChoicesKept
  <1>1. ASSUME Safe, NEW i \in Entries(object)
        PROVE  LET old == Written.containers[i]  new == object.containers[i] IN
               /\ old.env # Absent => IsPrefix(old.env, new.env)
               /\ old.resources # Absent => new.resources = old.resources
               /\ Keeps("keep_env_from") => new.envFrom = old.envFrom
               /\ Keeps("keep_volumes") => new.volumeMounts = old.volumeMounts
    <2> DEFINE n == Len(review.pod.containers)
               old == review.pod.containers[i]
               new == object.containers[i]
               cfg == Config(review)
    <2>1. review \in Reviews
      BY <1>1 DEF Safe
    <2>2. i \in 1..n
      BY <1>1, <2>1, ReviewShape, WrittenOrOverlaid DEF Entries, Overlaid, Written
    <2>3. IsContainer(old)
      BY <2>1, <2>2, ReviewShape
    <2>4. CASE new = old
      <3>1. ASSUME old.env # Absent
            PROVE  IsPrefix(old.env, old.env)
        <4>1. old.env \in Seq(ToSet(old.env))
          BY <2>3, <3>1 DEF IsContainer, IsEnv
        <4>2. Len(old.env) \in Nat
          BY <4>1, LenProperties
        <4> QED BY <4>2 DEF IsPrefix
      <3> QED BY <2>4, <3>1 DEF Written
    <2>5. CASE cfg # Skip /\ Progress(i, old, cfg, ops[i], new)
      <3>1. EnvIsList(old, cfg)
        BY <2>1, <2>2, <2>5, ReviewShape
      <3>2. /\ Keeps("keep_env_from") => cfg.keep_env_from
            /\ Keeps("keep_volumes") => cfg.keep_volumes
        BY DEF Keeps, Cfg
      <3> QED BY <2>5, <3>1, <3>2, ProgressKeeps DEF Written
    <2>6. object = Written => new = old
      BY DEF Written
    <2>7. Overlaid(review, object, ops) =>
             new = old \/ (cfg # Skip /\ Progress(i, old, cfg, ops[i], new))
      BY <2>2 DEF Overlaid
    <2> QED BY <1>1, <2>4, <2>5, <2>6, <2>7, WrittenOrOverlaid
  <1>2. ASSUME Safe
        PROVE  object.init_containers = Written.init_containers
    BY <1>2, WrittenOrOverlaid DEF Overlaid, Written
  <1>3. ASSUME Safe, NEW v \in VolumeNames(Written) \ Held(Written)
        PROVE  v \in VolumeNames(object) /\ object.volumes[v] = Written.volumes[v]
    <2>1. CASE object = Written
      BY <1>3, <2>1
    <2>2. CASE Overlaid(review, object, ops)
      <3>1. v \in NamesOf(Written.volumes) /\ Written.volumes[v] \notin BlocksOnMissing
        BY <1>3 DEF Held, VolumeNames, NamesOf, BlocksOnMissing
      <3>2. VolumesProgress(Written, Config(review), ops[Len(review.pod.containers) + 1],
                            object.volumes)
        BY <2>2 DEF Overlaid, Written
      <3>3. v \in NamesOf(object.volumes) /\ object.volumes[v] = Written.volumes[v]
        BY <3>1, <3>2, VolumesKept
      <3> QED BY <3>3 DEF VolumeNames, NamesOf
    <2> QED BY <1>3, <2>1, <2>2, WrittenOrOverlaid
  <1>4. ASSUME Safe, Keeps("keep_volumes")
        PROVE  object.volumes = Written.volumes
    <2>1. Config(review).keep_volumes
      BY <1>4 DEF Keeps, Cfg
    <2>2. Overlaid(review, object, ops) => object.volumes = Written.volumes
      BY <2>1 DEF Overlaid, VolumesProgress, Written
    <2> QED BY <1>4, <2>2, WrittenOrOverlaid
  <1>5. Safe => OwnersChoicesKept
    BY <1>1, <1>2, <1>3, <1>4 DEF OwnersChoicesKept
  <1> QED BY <1>5, AlwaysSafe, PTL
=============================================================================
