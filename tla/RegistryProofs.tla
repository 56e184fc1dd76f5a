---------------------------- MODULE RegistryProofs ---------------------------
(***************************************************************************)
(* Proofs about the registry check: the parser of references, the search   *)
(* for a credential, and with them the properties of RegistryCheck, for    *)
(* all images, lists of pull secrets and dockerconfigs.                    *)
(*                                                                         *)
(* ParseIs and ReferenceIs say what the parser makes of an image that its  *)
(* writer put together from its parts, CredentialFits what the search      *)
(* finds, and Picked ties both to what the request on its way carries.     *)
(***************************************************************************)
EXTENDS RegistryCheck, FiniteSetTheorems, SequenceTheorems, TLAPS

-----------------------------------------------------------------------------
(* Cutting a text at a separator *)

(* Every non-empty set of natural numbers has a least element. *)
LEMMA LeastElement ==
    ASSUME NEW T, T \subseteq Nat, T # {}
    PROVE  \E x \in T : \A y \in T : x <= y
  <1>1. PICK x \in T : \A y \in T : ~ (<<y, x>> \in OpToRel(<, Nat))
    BY NatLessThanWellFounded, WFMin
  <1>2. \A y \in T : ~ (y < x)
    BY <1>1 DEF OpToRel
  <1> QED
    BY <1>2

(* What Min and Max choose *)
LEMMA MinIs ==
    ASSUME NEW T, T \subseteq Nat, NEW x \in T, \A y \in T : x <= y
    PROVE  Min(T) = x
  <1>1. Min(T) \in T /\ \A y \in T : Min(T) <= y
    BY Zenon DEF Min
  <1>2. Min(T) <= x /\ x <= Min(T) /\ Min(T) \in Nat /\ x \in Nat
    BY <1>1
  <1> QED
    BY <1>2

LEMMA MaxIs ==
    ASSUME NEW T, T \subseteq Nat, NEW x \in T, \A y \in T : x >= y
    PROVE  Max(T) = x
  <1>1. Max(T) \in T /\ \A y \in T : Max(T) >= y
    BY Zenon DEF Max
  <1>2. Max(T) >= x /\ x >= Max(T) /\ Max(T) \in Nat /\ x \in Nat
    BY <1>1
  <1> QED
    BY <1>2

(* A text in front of its first separator, and what follows it. *)
LEMMA CutAt ==
    ASSUME NEW S, NEW s \in Seq(S), NEW t \in Seq(S), NEW sep \in S
    PROVE  /\ s \o <<sep>> \o t \in Seq(S)
           /\ Len(s \o <<sep>> \o t) = Len(s) + 1 + Len(t)
           /\ \A i \in 1..Len(s) : (s \o <<sep>> \o t)[i] = s[i]
           /\ (s \o <<sep>> \o t)[Len(s) + 1] = sep
           /\ \A i \in 1..Len(t) : (s \o <<sep>> \o t)[Len(s) + 1 + i] = t[i]
           /\ Cut(s \o <<sep>> \o t, Len(s) + 1) = <<s, t>>
  <1> DEFINE u == s \o <<sep>>
             v == u \o t
  <1>1. <<sep>> \in Seq(S) /\ Len(<<sep>>) = 1 /\ <<sep>>[1] = sep
    OBVIOUS
  <1>2. /\ u \in Seq(S) /\ Len(u) = Len(s) + 1
        /\ \A i \in 1..(Len(s) + 1) : u[i] = IF i <= Len(s) THEN s[i] ELSE <<sep>>[i - Len(s)]
    BY <1>1, ConcatProperties
  <1>3. Len(s) \in Nat /\ Len(t) \in Nat
    BY LenProperties
  <1> HIDE DEF u
  <1>4. /\ v \in Seq(S) /\ Len(v) = Len(u) + Len(t)
        /\ \A i \in 1..(Len(u) + Len(t)) : v[i] = IF i <= Len(u) THEN u[i] ELSE t[i - Len(u)]
    <2>1. u \in Seq(S)
      BY <1>2
    <2> QED
      BY <2>1, ConcatProperties
  <1> HIDE DEF v
  <1>5. \A i \in 1..Len(s) : v[i] = s[i]
    BY <1>2, <1>3, <1>4
  <1>6. v[Len(s) + 1] = sep
    BY <1>1, <1>2, <1>3, <1>4
  <1>7. ASSUME NEW i \in 1..Len(t) PROVE v[Len(s) + 1 + i] = t[i]
    <2>1. Len(s) + 1 + i \in 1..(Len(u) + Len(t)) /\ ~ (Len(s) + 1 + i <= Len(u))
      BY <1>2, <1>3
    <2>2. (Len(s) + 1 + i) - Len(u) = i
      BY <1>2, <1>3
    <2> QED
      BY <1>4, <2>1, <2>2
  <1>8. SubSeq(v, 1, Len(s)) = s
    <2>1. /\ SubSeq(v, 1, Len(s)) \in Seq(S)
          /\ Len(SubSeq(v, 1, Len(s))) = Len(s)
          /\ \A i \in 1..Len(s) : SubSeq(v, 1, Len(s))[i] = v[i]
      <3>1. \A i \in 1..Len(s) : v[i] \in S
        BY <1>5, ElementOfSeq
      <3> QED
        BY <1>3, <3>1, SubSeqProperties
    <2> QED
      BY <1>5, <2>1, SeqEqual
  <1>9. SubSeq(v, Len(s) + 2, Len(v)) = t
    <2>1. /\ SubSeq(v, Len(s) + 2, Len(v)) \in Seq(S)
          /\ Len(SubSeq(v, Len(s) + 2, Len(v))) = Len(t)
          /\ \A i \in 1..Len(t) : SubSeq(v, Len(s) + 2, Len(v))[i] = v[Len(s) + 1 + i]
      <3>1. \A i \in (Len(s) + 2)..Len(v) : v[i] \in S
        BY <1>2, <1>3, <1>4, ElementOfSeq
      <3>2. Len(v) = Len(s) + 1 + Len(t)
        BY <1>2, <1>4
      <3> QED
        BY <1>3, <3>1, <3>2, SubSeqProperties
    <2> QED
      BY <1>7, <2>1, SeqEqual
  <1>10. Cut(v, Len(s) + 1) = <<s, t>>
    BY <1>3, <1>8, <1>9 DEF Cut
  <1> QED
    BY <1>2, <1>4, <1>5, <1>6, <1>7, <1>10 DEF u, v

(* The same texts in another grouping *)
LEMMA Regroup ==
    ASSUME NEW S, NEW s \in Seq(S), NEW t \in Seq(S), NEW sep \in S
    PROVE  s \o (<<sep>> \o t) = s \o <<sep>> \o t
  <1>1. ASSUME NEW u \in Seq(S) PROVE (s \o u) \o t = s \o (u \o t)
    BY ConcatAssociative
  <1>2. <<sep>> \in Seq(S)
    OBVIOUS
  <1> QED
    BY <1>1, <1>2

(* s.split_once(sep), where sep does not occur before it. *)
LEMMA SplitAtFirst ==
    ASSUME NEW S, NEW s \in Seq(S), NEW t \in Seq(S), NEW sep \in S,
           \A i \in 1..Len(s) : s[i] # sep
    PROVE  split_once(s \o <<sep>> \o t, sep) = <<s, t>>
  <1> DEFINE v == s \o <<sep>> \o t
             I == {i \in 1..Len(v) : v[i] = sep}
  <1>1. Len(s) \in Nat /\ Len(t) \in Nat
    BY LenProperties
  <1>2. /\ Len(v) = Len(s) + 1 + Len(t)
        /\ \A i \in 1..Len(s) : v[i] = s[i]
        /\ v[Len(s) + 1] = sep
        /\ Cut(v, Len(s) + 1) = <<s, t>>
    BY CutAt
  <1> HIDE DEF v
  <1>3. Len(s) + 1 \in I /\ \A i \in I : Len(s) + 1 <= i
    BY <1>1, <1>2
  <1>4. I \subseteq Nat
    OBVIOUS
  <1> HIDE DEF I
  <1>5. Min(I) = Len(s) + 1
    BY <1>1, <1>3, <1>4, MinIs
  <1>6. SelectInSeq(v, LAMBDA x : x = sep) = Min(I)
    BY <1>3 DEF SelectInSeq, I
  <1> QED
    BY <1>2, <1>5, <1>6 DEF split_once, v

(* The last separator, if none comes after it. *)
LEMMA SplitAtLast ==
    ASSUME NEW S, NEW s \in Seq(S), NEW t \in Seq(S), NEW sep \in S,
           \A i \in 1..Len(t) : t[i] # sep
    PROVE  Cut(s \o <<sep>> \o t, rfind(s \o <<sep>> \o t, sep)) = <<s, t>>
  <1> DEFINE v == s \o <<sep>> \o t
             I == {i \in 1..Len(v) : v[i] = sep}
  <1>1. Len(s) \in Nat /\ Len(t) \in Nat
    BY LenProperties
  <1>2. /\ Len(v) = Len(s) + 1 + Len(t)
        /\ \A i \in 1..Len(t) : v[Len(s) + 1 + i] = t[i]
        /\ v[Len(s) + 1] = sep
        /\ Cut(v, Len(s) + 1) = <<s, t>>
    BY CutAt
  <1> HIDE DEF v
  <1>3. Len(s) + 1 \in I /\ \A i \in I : Len(s) + 1 >= i
    <2>1. Len(s) + 1 \in I
      BY <1>1, <1>2
    <2>2. ASSUME NEW i \in I, i > Len(s) + 1 PROVE FALSE
      <3>1. i - (Len(s) + 1) \in 1..Len(t) /\ i = Len(s) + 1 + (i - (Len(s) + 1))
        BY <1>1, <1>2, <2>2
      <3> QED
        BY <1>2, <3>1, <2>2
    <2> QED
      BY <1>1, <2>1, <2>2
  <1>4. I \subseteq Nat
    OBVIOUS
  <1> HIDE DEF I
  <1>5. Max(I) = Len(s) + 1
    BY <1>1, <1>3, <1>4, MaxIs
  <1>6. rfind(v, sep) = Max(I)
    BY <1>3 DEF rfind, SelectLastInSeq, I
  <1> QED
    BY <1>2, <1>5, <1>6 DEF v
-----------------------------------------------------------------------------
(* The parts of an image as its writer put them together *)

TagPart(im) == IF im.tag = Absent THEN <<>> ELSE <<":">> \o im.tag
DigestPart(im) == IF im.digest = Absent THEN <<>> ELSE <<"@">> \o im.digest
Rest(im) == im.path \o TagPart(im) \o DigestPart(im)

Tokens(im) ==
    {"/", ":", "@"} \cup ToSet(im.host) \cup ToSet(im.path) \cup ToSet(im.tag)
    \cup ToSet(im.digest)

LEMMA WithoutMeans ==
    ASSUME NEW s, NEW X, Without(s, X)
    PROVE  s \in Seq(ToSet(s)) /\ \A i \in 1..Len(s) : s[i] \notin X
  <1>1. s \in Seq(ToSet(s) \ X)
    BY DEF Without
  <1> QED
    BY <1>1, SeqMonotonic, ElementOfSeq

LEMMA WithoutIs ==
    ASSUME NEW s, s \in Seq(ToSet(s)), NEW e
    PROVE  Without(s, {e}) <=> ~Contains(s, e)
  <1>1. Without(s, {e}) => ~Contains(s, e)
    BY WithoutMeans DEF Contains
  <1>2. ~Contains(s, e) => Without(s, {e})
    <2> SUFFICES ASSUME ~Contains(s, e) PROVE s \in Seq(ToSet(s) \ {e})
      BY DEF Without
    <2>1. \A i \in 1..Len(s) : s[i] \in ToSet(s) \ {e}
      BY ElementOfSeq DEF Contains
    <2> QED
      BY <2>1, IsASeq, LenProperties
  <1> QED
    BY <1>1, <1>2

(* A wellformed image, part by part. *)
LEMMA Parts ==
    ASSUME NEW im \in Images, im.wellformed
    PROVE  /\ im.path \in Seq(Tokens(im))
           /\ \A i \in 1..Len(im.path) : im.path[i] \notin {":", "@"}
           /\ im.host # Absent => /\ im.host \in Seq(Tokens(im)) /\ HostLike(im.host)
                                  /\ \A i \in 1..Len(im.host) : im.host[i] # "/"
           /\ im.tag # Absent => /\ im.tag \in Seq(Tokens(im))
                                 /\ \A i \in 1..Len(im.tag) : im.tag[i] \notin {"/", ":", "@"}
           /\ im.digest # Absent => /\ im.digest \in Seq(Tokens(im))
                                    /\ \A i \in 1..Len(im.digest) : im.digest[i] \notin {"/", "@"}
  <1>1. /\ ToSet(im.host) \subseteq Tokens(im) /\ ToSet(im.path) \subseteq Tokens(im)
        /\ ToSet(im.tag) \subseteq Tokens(im) /\ ToSet(im.digest) \subseteq Tokens(im)
    BY DEF Tokens
  <1>2. \A s, T : s \in Seq(ToSet(s)) /\ ToSet(s) \subseteq T => s \in Seq(T)
    BY SeqMonotonic
  <1>3. /\ Without(im.path, {":", "@"})
        /\ im.host # Absent => Without(im.host, {"/", "@"}) /\ HostLike(im.host)
        /\ im.tag # Absent => Without(im.tag, {"/", ":", "@"})
        /\ im.digest # Absent => Without(im.digest, {"/", "@"})
    BY ImagesAssumption
  <1> QED
    BY <1>1, <1>2, <1>3, WithoutMeans

(* What comes after a host is the path, and no "/" comes after that.       *)
LEMMA RestIs ==
    ASSUME NEW im \in Images, im.wellformed
    PROVE  /\ Rest(im) \in Seq(Tokens(im)) /\ Len(im.path) <= Len(Rest(im))
           /\ \A i \in 1..Len(im.path) : Rest(im)[i] = im.path[i]
           /\ \A i \in 1..Len(Rest(im)) : Rest(im)[i] = "/" => i <= Len(im.path)
  <1> DEFINE S == Tokens(im)
             p == im.path
             t == TagPart(im)
             d == DigestPart(im)
  <1>1. p \in Seq(S)
    BY Parts
  <1>2. t \in Seq(S) /\ \A i \in 1..Len(t) : t[i] # "/"
    <2>1. CASE im.tag = Absent
      BY <2>1 DEF TagPart
    <2>2. CASE im.tag # Absent
      <3>1. im.tag \in Seq(S) /\ \A i \in 1..Len(im.tag) : im.tag[i] # "/"
        BY <2>2, Parts
      <3>2. <<":">> \in Seq(S) /\ Len(<<":">>) = 1 /\ <<":">>[1] = ":"
        BY DEF Tokens
      <3>3. t = <<":">> \o im.tag
        BY <2>2 DEF TagPart
      <3>4. /\ t \in Seq(S) /\ Len(t) = 1 + Len(im.tag)
            /\ \A i \in 1..(1 + Len(im.tag)) : t[i] = IF i <= 1 THEN <<":">>[i] ELSE im.tag[i - 1]
        BY <3>1, <3>2, <3>3, ConcatProperties
      <3>5. Len(im.tag) \in Nat
        BY <3>1, LenProperties
      <3> HIDE DEF t
      <3>6. ASSUME NEW i \in 1..Len(t) PROVE t[i] # "/"
        <4>1. i = 1 \/ i - 1 \in 1..Len(im.tag)
          BY <3>4, <3>5
        <4> QED
          BY <3>1, <3>2, <3>4, <3>5, <4>1
      <3> QED
        BY <3>4, <3>6
    <2> QED
      BY <2>1, <2>2
  <1>3. d \in Seq(S) /\ \A i \in 1..Len(d) : d[i] # "/"
    <2>1. CASE im.digest = Absent
      BY <2>1 DEF DigestPart
    <2>2. CASE im.digest # Absent
      <3>1. im.digest \in Seq(S) /\ \A i \in 1..Len(im.digest) : im.digest[i] # "/"
        BY <2>2, Parts
      <3>2. <<"@">> \in Seq(S) /\ Len(<<"@">>) = 1 /\ <<"@">>[1] = "@"
        BY DEF Tokens
      <3>3. d = <<"@">> \o im.digest
        BY <2>2 DEF DigestPart
      <3>4. /\ d \in Seq(S) /\ Len(d) = 1 + Len(im.digest)
            /\ \A i \in 1..(1 + Len(im.digest)) :
                  d[i] = IF i <= 1 THEN <<"@">>[i] ELSE im.digest[i - 1]
        BY <3>1, <3>2, <3>3, ConcatProperties
      <3>5. Len(im.digest) \in Nat
        BY <3>1, LenProperties
      <3> HIDE DEF d
      <3>6. ASSUME NEW i \in 1..Len(d) PROVE d[i] # "/"
        <4>1. i = 1 \/ i - 1 \in 1..Len(im.digest)
          BY <3>4, <3>5
        <4> QED
          BY <3>1, <3>2, <3>4, <3>5, <4>1
      <3> QED
        BY <3>4, <3>6
    <2> QED
      BY <2>1, <2>2
  <1> DEFINE u == p \o t
             v == u \o d
  <1> HIDE DEF S, p, t, d
  <1>4. /\ u \in Seq(S) /\ Len(u) = Len(p) + Len(t)
        /\ \A i \in 1..(Len(p) + Len(t)) : u[i] = IF i <= Len(p) THEN p[i] ELSE t[i - Len(p)]
    BY <1>1, <1>2, ConcatProperties
  <1> HIDE DEF u
  <1>5. /\ v \in Seq(S) /\ Len(v) = Len(u) + Len(d)
        /\ \A i \in 1..(Len(u) + Len(d)) : v[i] = IF i <= Len(u) THEN u[i] ELSE d[i - Len(u)]
    BY <1>3, <1>4, ConcatProperties
  <1>6. Len(p) \in Nat /\ Len(t) \in Nat /\ Len(d) \in Nat
    BY <1>1, <1>2, <1>3, LenProperties
  <1> HIDE DEF v
  <1>7. ASSUME NEW i \in 1..Len(p) PROVE v[i] = p[i]
    <2>1. i <= Len(u) /\ i \in 1..(Len(u) + Len(d)) /\ i \in 1..(Len(p) + Len(t)) /\ i <= Len(p)
      BY <1>4, <1>6
    <2> QED
      BY <1>4, <1>5, <2>1
  <1>8. ASSUME NEW i \in 1..Len(v), ~ (i <= Len(p)) PROVE v[i] # "/"
    <2>1. CASE i <= Len(u)
      <3>1. i - Len(p) \in 1..Len(t) /\ i \in 1..(Len(p) + Len(t)) /\ i \in 1..(Len(u) + Len(d))
        BY <1>4, <1>5, <1>6, <1>8, <2>1
      <3> QED
        BY <1>2, <1>4, <1>5, <1>8, <2>1, <3>1
    <2>2. CASE ~ (i <= Len(u))
      <3>1. i - Len(u) \in 1..Len(d) /\ i \in 1..(Len(u) + Len(d))
        BY <1>4, <1>5, <1>6, <1>8, <2>2
      <3> QED
        BY <1>3, <1>5, <2>2, <3>1
    <2> QED
      BY <2>1, <2>2
  <1>9. Rest(im) = v
    BY DEF Rest, v, u, p, t, d
  <1>10. Len(p) <= Len(v)
    BY <1>4, <1>5, <1>6
  <1> QED
    BY <1>5, <1>7, <1>8, <1>9, <1>10 DEF p, S

LEMMA TextIs ==
    ASSUME NEW im \in Images, im.wellformed
    PROVE  Text(im) = IF im.host = Absent THEN Rest(im) ELSE im.host \o <<"/">> \o Rest(im)
  <1> DEFINE S == Tokens(im)
             h == IF im.host = Absent THEN <<>> ELSE im.host \o <<"/">>
  <1>1. h \in Seq(S)
    <2>1. <<"/">> \in Seq(S)
      BY DEF Tokens
    <2>2. im.host # Absent => im.host \in Seq(S)
      BY Parts
    <2> QED
      BY <2>1, <2>2, ConcatProperties
  <1>2. im.path \in Seq(S)
    BY Parts
  <1>3. TagPart(im) \in Seq(S)
    <2>1. <<":">> \in Seq(S)
      BY DEF Tokens
    <2>2. im.tag # Absent => im.tag \in Seq(S)
      BY Parts
    <2> QED
      BY <2>1, <2>2, ConcatProperties DEF TagPart
  <1>4. DigestPart(im) \in Seq(S)
    <2>1. <<"@">> \in Seq(S)
      BY DEF Tokens
    <2>2. im.digest # Absent => im.digest \in Seq(S)
      BY Parts
    <2> QED
      BY <2>1, <2>2, ConcatProperties DEF DigestPart
  <1>5. Text(im) = h \o im.path \o TagPart(im) \o DigestPart(im)
    BY DEF Text, TagPart, DigestPart
  <1> HIDE DEF h, S
  <1>0. ASSUME NEW a \in Seq(S), NEW b \in Seq(S), NEW c \in Seq(S)
        PROVE  (a \o b) \o c = a \o (b \o c)
    BY ConcatAssociative
  <1>6. h \o im.path \o TagPart(im) = h \o (im.path \o TagPart(im))
    BY <1>1, <1>2, <1>3, <1>0
  <1>7. im.path \o TagPart(im) \in Seq(S)
    BY <1>2, <1>3, ConcatProperties
  <1>8. h \o (im.path \o TagPart(im)) \o DigestPart(im) = h \o Rest(im)
    BY <1>1, <1>4, <1>7, <1>0 DEF Rest
  <1>9. Rest(im) \in Seq(S)
    BY RestIs DEF S
  <1>10. im.host = Absent => h \o Rest(im) = Rest(im)
    BY <1>9, ConcatEmptySeq DEF h
  <1> QED
    BY <1>5, <1>6, <1>8, <1>10 DEF h
-----------------------------------------------------------------------------
(* ImageRef::parse *)

LEMMA OverItself ==
    ASSUME NEW S, NEW s \in Seq(S)
    PROVE  s \in Seq(ToSet(s)) /\ DOMAIN s = 1..Len(s)
  <1>1. DOMAIN s = 1..Len(s) /\ Len(s) \in Nat
    BY LenProperties
  <1>2. \A i \in 1..Len(s) : s[i] \in ToSet(s)
    BY <1>1 DEF ToSet
  <1> QED
    BY <1>1, <1>2, IsASeq

LEMMA RegistryIsHostLike ==
    ASSUME NEW S, NEW s \in Seq(S)
    PROVE  is_registry(s) <=> HostLike(s)
  <1>1. \A e : Contains(s, e) <=> e \in ToSet(s)
    BY OverItself DEF Contains, ToSet
  <1> QED
    BY <1>1 DEF is_registry, HostLike

(* Where no host was written, none is found. *)
LEMMA NoHostFound ==
    ASSUME NEW im \in Images, im.wellformed, im.host = Absent, Contains(Rest(im), "/")
    PROVE  ~is_registry(split_once(Rest(im), "/")[1])
  <1> DEFINE r == Rest(im)
             p == im.path
             I == {i \in 1..Len(r) : r[i] = "/"}
  <1>1. /\ r \in Seq(Tokens(im)) /\ p \in Seq(Tokens(im)) /\ Len(p) <= Len(r)
        /\ \A i \in 1..Len(p) : r[i] = p[i]
        /\ \A i \in I : i <= Len(p)
    BY RestIs, Parts
  <1>2. Len(r) \in Nat /\ Len(p) \in Nat /\ DOMAIN p = 1..Len(p)
    BY <1>1, LenProperties
  <1>3. I # {} /\ I \subseteq Nat
    BY DEF Contains
  <1>4. split_once(r, "/") = Cut(r, Min(I))
    BY <1>3 DEF split_once, SelectInSeq
  <1>5. \A i \in I : i \in 1..Len(r) /\ r[i] = "/"
    OBVIOUS
  <1>6. \A i \in 1..Len(r) : r[i] = "/" => i \in I
    OBVIOUS
  <1>7. ~ (\E k \in DOMAIN im.path :
              im.path[k] = "/" /\ Without(SubSeq(im.path, 1, k - 1), {"/"})
              /\ HostLike(SubSeq(im.path, 1, k - 1)))
    BY ImagesAssumption
  <1> HIDE DEF I, r, p
  <1>8. PICK k \in I : \A i \in I : k <= i
    BY <1>3, LeastElement
  <1>9. Min(I) = k
    BY <1>3, <1>8, MinIs
  <1>10. k \in 1..Len(p) /\ p[k] = "/" /\ k \in 1..Len(r)
    BY <1>1, <1>2, <1>5
  <1> DEFINE s == SubSeq(p, 1, k - 1)
  <1>11. /\ s \in Seq(Tokens(im)) /\ Len(s) = k - 1
         /\ \A i \in 1..(k - 1) : s[i] = p[i]
    <2>1. \A i \in 1..(k - 1) : p[i] \in Tokens(im)
      BY <1>1, <1>2, <1>10, ElementOfSeq
    <2> QED
      BY <1>2, <1>10, <2>1, SubSeqProperties
  <1>12. SubSeq(r, 1, k - 1) = s
    <2>1. \A i \in 1..(k - 1) : r[i] \in Tokens(im)
      BY <1>1, <1>2, <1>10, ElementOfSeq
    <2>2. /\ SubSeq(r, 1, k - 1) \in Seq(Tokens(im)) /\ Len(SubSeq(r, 1, k - 1)) = k - 1
          /\ \A i \in 1..(k - 1) : SubSeq(r, 1, k - 1)[i] = r[i]
      BY <1>2, <1>10, <2>1, SubSeqProperties
    <2>3. \A i \in 1..(k - 1) : r[i] = p[i]
      BY <1>1, <1>2, <1>10
    <2> HIDE DEF s
    <2> QED
      BY <1>11, <2>2, <2>3, SeqEqual
  <1> HIDE DEF s
  <1>13. ~Contains(s, "/")
    <2>1. ASSUME NEW i \in 1..(k - 1), s[i] = "/" PROVE FALSE
      <3>1. r[i] = "/" /\ i \in 1..Len(r)
        BY <1>1, <1>2, <1>10, <1>11, <2>1
      <3> QED
        BY <1>6, <1>8, <1>10, <3>1
    <2> QED
      BY <1>11, <2>1 DEF Contains
  <1>14. Without(s, {"/"})
    BY <1>11, <1>13, OverItself, WithoutIs
  <1>15. ~HostLike(s)
    BY <1>2, <1>7, <1>10, <1>14 DEF p, s
  <1>16. ~is_registry(s)
    BY <1>11, <1>15, RegistryIsHostLike
  <1>17. Cut(r, k)[1] = s
    BY <1>12 DEF Cut
  <1> QED
    BY <1>4, <1>9, <1>16, <1>17 DEF r

(* The registry that the parser finds is the host that was written. *)
Host(im) == IF im.host = Absent THEN docker_io ELSE im.host

LEMMA ParseIs ==
    ASSUME NEW im \in Images, im.wellformed
    PROVE  Parsed[im] =
             [registry   |-> Host(im),
              repository |-> IF Host(im) = docker_io /\ ~Contains(Reference(Rest(im))[1], "/")
                             THEN <<"library", "/">> \o Reference(Rest(im))[1]
                             ELSE Reference(Rest(im))[1],
              reference  |-> Reference(Rest(im))[2]]
  <1>1. Parsed[im] = parse(Text(im))
    BY DEF Parsed
  <1>2. CASE im.host = Absent
    <2>1. Text(im) = Rest(im)
      BY <1>2, TextIs
    <2>2. ~ (Contains(Text(im), "/") /\ is_registry(split_once(Text(im), "/")[1]))
      BY <1>2, <2>1, NoHostFound
    <2> QED
      BY <1>1, <1>2, <2>1, <2>2 DEF parse, Host
  <1>3. CASE im.host # Absent
    <2>1. Text(im) = im.host \o <<"/">> \o Rest(im)
      BY <1>3, TextIs
    <2>2. /\ im.host \in Seq(Tokens(im)) /\ Rest(im) \in Seq(Tokens(im)) /\ "/" \in Tokens(im)
          /\ HostLike(im.host) /\ \A i \in 1..Len(im.host) : im.host[i] # "/"
      BY <1>3, Parts, RestIs DEF Tokens
    <2>3. split_once(Text(im), "/") = <<im.host, Rest(im)>>
      <3> DEFINE text == Text(im)
      <3>1. text = im.host \o <<"/">> \o Rest(im)
        BY <2>1
      <3> HIDE DEF text
      <3>2. split_once(text, "/") = <<im.host, Rest(im)>>
        BY <2>2, <3>1, SplitAtFirst
      <3> QED
        BY <3>2 DEF text
    <2>4. Contains(Text(im), "/")
      <3>1. /\ Len(Text(im)) = Len(im.host) + 1 + Len(Rest(im))
            /\ Text(im)[Len(im.host) + 1] = "/"
        BY <2>1, <2>2, CutAt
      <3>2. Len(im.host) \in Nat /\ Len(Rest(im)) \in Nat
        BY <2>2, LenProperties
      <3> QED
        BY <3>1, <3>2 DEF Contains
    <2>5. is_registry(im.host)
      BY <2>2, RegistryIsHostLike
    <2> DEFINE text == Text(im)
               rest == Rest(im)
               host == im.host
    <2> HIDE DEF text, rest
    <2>6. split_once(text, "/")[1] = host /\ split_once(text, "/")[2] = rest
      BY <2>3 DEF text, rest
    <2>7. Contains(text, "/") /\ is_registry(split_once(text, "/")[1])
      BY <2>4, <2>5, <2>6 DEF text
    <2>8. parse(text) =
             [registry   |-> host,
              repository |-> IF host = docker_io /\ ~Contains(Reference(rest)[1], "/")
                             THEN <<"library", "/">> \o Reference(rest)[1]
                             ELSE Reference(rest)[1],
              reference  |-> Reference(rest)[2]]
      BY <2>6, <2>7 DEF parse
    <2> QED
      BY <1>1, <1>3, <2>8 DEF Host, text, rest
  <1> QED
    BY <1>2, <1>3

(* A digest is cut off at the "@", a tag at the last ":".                  *)
LEMMA DigestFound ==
    ASSUME NEW S, NEW s \in Seq(S), NEW t \in Seq(S), "@" \in S,
           \A i \in 1..Len(s) : s[i] # "@"
    PROVE  Reference(s \o <<"@">> \o t) = <<s, t>>
  <1> DEFINE r == s \o <<"@">> \o t
  <1>1. Len(s) \in Nat /\ Len(t) \in Nat
    BY LenProperties
  <1>2. Len(r) = Len(s) + 1 + Len(t) /\ r[Len(s) + 1] = "@"
    BY CutAt
  <1>3. split_once(r, "@") = <<s, t>>
    BY SplitAtFirst
  <1> HIDE DEF r
  <1>4. Len(s) + 1 \in 1..Len(r)
    BY <1>1, <1>2
  <1>5. Contains(r, "@")
    BY <1>2, <1>4 DEF Contains
  <1>6. Reference(r) = <<s, t>>
    BY <1>3, <1>5 DEF Reference
  <1> QED
    BY <1>6 DEF r

LEMMA TagFound ==
    ASSUME NEW S, NEW s \in Seq(S), NEW t \in Seq(S), ":" \in S,
           \A i \in 1..Len(s) : s[i] # "@", \A i \in 1..Len(t) : t[i] \notin {":", "@"}
    PROVE  Reference(s \o <<":">> \o t) = <<s, t>>
  <1> DEFINE r == s \o <<":">> \o t
  <1>1. Len(s) \in Nat /\ Len(t) \in Nat
    BY LenProperties
  <1>2. /\ Len(r) = Len(s) + 1 + Len(t) /\ r[Len(s) + 1] = ":"
        /\ \A i \in 1..Len(s) : r[i] = s[i]
        /\ \A i \in 1..Len(t) : r[Len(s) + 1 + i] = t[i]
    BY CutAt
  <1>3. Cut(r, rfind(r, ":")) = <<s, t>>
    BY SplitAtLast
  <1> HIDE DEF r
  <1>4. Len(s) + 1 \in 1..Len(r)
    BY <1>1, <1>2
  <1>5. Contains(r, ":")
    BY <1>2, <1>4 DEF Contains
  <1>6. ASSUME NEW i \in 1..Len(r) PROVE r[i] # "@"
    <2>1. CASE i \in 1..Len(s)
      BY <1>2, <2>1
    <2>2. CASE i = Len(s) + 1
      BY <1>2, <2>2
    <2>3. CASE i > Len(s) + 1
      <3>1. i - (Len(s) + 1) \in 1..Len(t) /\ i = Len(s) + 1 + (i - (Len(s) + 1))
        BY <1>1, <1>2, <2>3
      <3> QED
        BY <1>2, <3>1
    <2> QED
      BY <1>1, <1>2, <2>1, <2>2, <2>3
  <1>7. ~Contains(r, "@")
    BY <1>6 DEF Contains
  <1>8. Reference(r) = <<s, t>>
    BY <1>3, <1>5, <1>7 DEF Reference
  <1> QED
    BY <1>8 DEF r

(* Two texts and the separator between them hold no "@".                   *)
LEMMA NoneInEither ==
    ASSUME NEW S, NEW s \in Seq(S), NEW t \in Seq(S), ":" \in S,
           \A i \in 1..Len(s) : s[i] # "@", \A i \in 1..Len(t) : t[i] # "@"
    PROVE  /\ s \o <<":">> \o t \in Seq(S)
           /\ \A i \in 1..Len(s \o <<":">> \o t) : (s \o <<":">> \o t)[i] # "@"
  <1> DEFINE r == s \o <<":">> \o t
  <1>1. Len(s) \in Nat /\ Len(t) \in Nat
    BY LenProperties
  <1>2. /\ r \in Seq(S)
        /\ Len(r) = Len(s) + 1 + Len(t) /\ r[Len(s) + 1] = ":"
        /\ \A i \in 1..Len(s) : r[i] = s[i]
        /\ \A i \in 1..Len(t) : r[Len(s) + 1 + i] = t[i]
    BY CutAt
  <1> HIDE DEF r
  <1>3. ASSUME NEW i \in 1..Len(r) PROVE r[i] # "@"
    <2>1. CASE i \in 1..Len(s)
      BY <1>2, <2>1
    <2>2. CASE i = Len(s) + 1
      BY <1>2, <2>2
    <2>3. CASE i > Len(s) + 1
      <3>1. i - (Len(s) + 1) \in 1..Len(t) /\ i = Len(s) + 1 + (i - (Len(s) + 1))
        BY <1>1, <1>2, <2>3
      <3> QED
        BY <1>2, <3>1
    <2> QED
      BY <1>1, <1>2, <2>1, <2>2, <2>3
  <1> QED
    BY <1>2, <1>3 DEF r

(* With a tag, a digest, both or neither, the parser tells the reference   *)
(* from the name, to which the tag belongs if there is a digest too.       *)
LEMMA ReferenceIs ==
    ASSUME NEW im \in Images, im.wellformed
    PROVE  Reference(Rest(im)) =
             <<Name(im), IF im.digest # Absent THEN im.digest
                         ELSE IF im.tag # Absent THEN im.tag ELSE <<"latest">>>>
  <1> DEFINE S == Tokens(im)
             p == im.path
             t == im.tag
             d == im.digest
  <1>1. /\ p \in Seq(S) /\ \A i \in 1..Len(p) : p[i] \notin {":", "@"}
        /\ ":" \in S /\ "@" \in S
    BY Parts DEF Tokens
  <1>2. d # Absent => d \in Seq(S)
    BY Parts
  <1>3. t # Absent => t \in Seq(S) /\ \A i \in 1..Len(t) : t[i] \notin {":", "@"}
    BY Parts
  <1>4. Rest(im) = p \o (IF t = Absent THEN <<>> ELSE <<":">> \o t)
                     \o (IF d = Absent THEN <<>> ELSE <<"@">> \o d)
    BY DEF Rest, TagPart, DigestPart
  <1>5. p \o <<>> = p
    BY <1>1, ConcatEmptySeq
  <1>0. Name(im) = IF Absent \in {t, d} THEN p ELSE p \o <<":">> \o t
    BY DEF Name
  <1> HIDE DEF p, t, d, S
  <1>9. CASE d # Absent /\ t # Absent
    <2> DEFINE n == p \o <<":">> \o t
    <2>1. Rest(im) = p \o (<<":">> \o t) \o (<<"@">> \o d)
      BY <1>4, <1>9
    <2>2. p \o (<<":">> \o t) = n
      BY <1>1, <1>3, <1>9, Regroup
    <2>3. n \in Seq(S) /\ \A i \in 1..Len(n) : n[i] # "@"
      BY <1>1, <1>3, <1>9, NoneInEither
    <2> HIDE DEF n
    <2>4. n \o (<<"@">> \o d) = n \o <<"@">> \o d
      BY <1>1, <1>2, <1>9, <2>3, Regroup
    <2>5. Reference(n \o <<"@">> \o d) = <<n, d>>
      BY <1>1, <1>2, <1>9, <2>3, DigestFound
    <2>6. Name(im) = n
      BY <1>0, <1>9 DEF n
    <2> QED
      BY <1>9, <2>1, <2>2, <2>4, <2>5, <2>6 DEF d
  <1>6. CASE d # Absent /\ t = Absent
    <2>1. t = Absent /\ Name(im) = p
      BY <1>0, <1>6
    <2>2. Rest(im) = p \o (<<"@">> \o d)
      BY <1>4, <1>5, <1>6, <2>1
    <2>3. p \o (<<"@">> \o d) = p \o <<"@">> \o d
      BY <1>1, <1>2, <1>6, Regroup
    <2>4. Reference(p \o <<"@">> \o d) = <<p, d>>
      BY <1>1, <1>2, <1>6, DigestFound
    <2> QED
      BY <1>6, <2>1, <2>2, <2>3, <2>4 DEF d
  <1>7. CASE d = Absent /\ t # Absent
    <2>1. Rest(im) = p \o (<<":">> \o t) \o <<>>
      BY <1>4, <1>7
    <2>2. p \o (<<":">> \o t) = p \o <<":">> \o t
      BY <1>1, <1>3, <1>7, Regroup
    <2>3. p \o <<":">> \o t \in Seq(S)
      BY <1>1, <1>3, <1>7, CutAt
    <2>4. (p \o <<":">> \o t) \o <<>> = p \o <<":">> \o t
      BY <2>3, ConcatEmptySeq
    <2>5. Reference(p \o <<":">> \o t) = <<p, t>>
      BY <1>1, <1>3, <1>7, TagFound
    <2> QED
      BY <1>0, <1>7, <2>1, <2>2, <2>4, <2>5 DEF t, d
  <1>8. CASE d = Absent /\ t = Absent
    <2>1. Rest(im) = p
      BY <1>4, <1>5, <1>8
    <2>2. ~Contains(p, ":") /\ ~Contains(p, "@")
      BY <1>1 DEF Contains
    <2> QED
      BY <1>0, <1>8, <2>1, <2>2 DEF Reference, t, d
  <1> QED
    BY <1>6, <1>7, <1>8, <1>9

(* A tag brings no "/" into the name. *)
LEMMA NoMoreIn ==
    ASSUME NEW S, NEW s \in Seq(S), NEW t \in Seq(S), ":" \in S,
           \A i \in 1..Len(t) : t[i] # "/"
    PROVE  Contains(s \o <<":">> \o t, "/") <=> Contains(s, "/")
  <1> DEFINE r == s \o <<":">> \o t
  <1>1. Len(s) \in Nat /\ Len(t) \in Nat
    BY LenProperties
  <1>2. /\ Len(r) = Len(s) + 1 + Len(t) /\ r[Len(s) + 1] = ":"
        /\ \A i \in 1..Len(s) : r[i] = s[i]
        /\ \A i \in 1..Len(t) : r[Len(s) + 1 + i] = t[i]
    BY CutAt
  <1> HIDE DEF r
  <1>3. ASSUME NEW i \in 1..Len(r), r[i] = "/" PROVE i \in 1..Len(s)
    <2>1. i # Len(s) + 1
      BY <1>2, <1>3
    <2>2. CASE i > Len(s) + 1
      <3>1. i - (Len(s) + 1) \in 1..Len(t) /\ i = Len(s) + 1 + (i - (Len(s) + 1))
        BY <1>1, <1>2, <2>2
      <3> QED
        BY <1>2, <1>3, <3>1
    <2> QED
      BY <1>1, <1>2, <2>1, <2>2
  <1>4. \A i \in 1..Len(s) : i \in 1..Len(r)
    BY <1>1, <1>2
  <1>5. Contains(r, "/") <=> Contains(s, "/")
    BY <1>2, <1>3, <1>4 DEF Contains
  <1> QED
    BY <1>5 DEF r

LEMMA SlashInPath ==
    ASSUME NEW im \in Images, im.wellformed
    PROVE  Without(im.path, {"/"}) <=> ~Contains(Name(im), "/")
  <1> DEFINE p == im.path
             t == im.tag
             S == Tokens(im)
  <1>1. p \in Seq(S) /\ ":" \in S
    BY Parts DEF Tokens
  <1>2. t # Absent => t \in Seq(S) /\ \A i \in 1..Len(t) : t[i] # "/"
    BY Parts
  <1>3. Name(im) = p \/ (t # Absent /\ Name(im) = p \o <<":">> \o t)
    BY DEF Name
  <1> HIDE DEF p, t, S
  <1>4. Contains(Name(im), "/") <=> Contains(p, "/")
    BY <1>1, <1>2, <1>3, NoMoreIn
  <1>5. Without(p, {"/"}) <=> ~Contains(p, "/")
    BY <1>1, OverItself, WithoutIs
  <1> QED
    BY <1>4, <1>5 DEF p
-----------------------------------------------------------------------------
(* credentials_for *)

LEMMA EarliestIsOne ==
    ASSUME NEW P, P \subseteq Nat \X Nat, P # {}
    PROVE  Earliest(P) \in P
  <1> DEFINE A == {p[1] : p \in P}
  <1>1. A \subseteq Nat /\ A # {}
    OBVIOUS
  <1>2. PICK a \in A : \A b \in A : a <= b
    BY <1>1, LeastElement
  <1> DEFINE B == {p[2] : p \in {q \in P : q[1] = a}}
  <1>3. B \subseteq Nat /\ B # {}
    BY <1>2
  <1>4. PICK b \in B : \A c \in B : b <= c
    BY <1>3, LeastElement
  <1>5. PICK p \in P : p[1] = a /\ p[2] = b
    BY <1>4
  <1>6. ASSUME NEW q \in P PROVE p[1] < q[1] \/ (p[1] = q[1] /\ p[2] <= q[2])
    <2>1. q[1] \in A /\ q[1] \in Nat /\ a \in Nat
      BY <1>1, <1>2
    <2>2. a <= q[1]
      BY <1>2, <2>1
    <2>3. q[1] = a => q[2] \in B
      OBVIOUS
    <2>4. q[1] = a => b <= q[2]
      BY <1>4, <2>3
    <2> QED
      BY <1>5, <2>1, <2>2, <2>4
  <1> QED
    BY <1>6, Zenon DEF Earliest

(* A dockerconfig that was read, and its entries *)
LEMMA EntriesFit ==
    ASSUME NEW s \in Secrets \ {Absent, Garbage}, NEW i \in DOMAIN s
    PROVE  /\ DOMAIN s \subseteq Nat
           /\ s[i].host # Absent /\ s[i].login # Garbage
           /\ Anonymous \notin {s[i].auth, s[i].login}
           /\ \A c \in {s[i].auth, s[i].login} \ {Absent, Garbage} : c.home = Home(s[i].host)
  <1>1. /\ s \in Seq(ToSet(s))
        /\ \A e \in ToSet(s) :
              /\ e.host # Absent /\ e.login # Garbage /\ Anonymous \notin {e.auth, e.login}
              /\ \A c \in {e.auth, e.login} \ {Absent, Garbage} : c.home = Home(e.host)
    BY SecretsAssumption
  <1>2. DOMAIN s = 1..Len(s)
    BY <1>1, LenProperties
  <1>3. s[i] \in ToSet(s)
    BY DEF ToSet
  <1> QED
    BY <1>1, <1>2, <1>3

LEMMA PositionsArePairs ==
    ASSUME NEW cs \in Seq(Secrets \ {Absent})
    PROVE  /\ Positions(cs) \subseteq Nat \X Nat
           /\ \A i, j : <<i, j>> \in Positions(cs) <=>
                          i \in DOMAIN cs /\ cs[i] # Garbage /\ j \in DOMAIN cs[i]
           /\ \A p \in Positions(cs) : p = <<p[1], p[2]>>
           /\ \A i \in DOMAIN cs : cs[i] \in Secrets \ {Absent}
  <1>1. DOMAIN cs \subseteq Nat /\ \A i \in DOMAIN cs : cs[i] \in Secrets \ {Absent}
    BY LenProperties, ElementOfSeq
  <1>2. \A i \in Readable(cs) : i \in DOMAIN cs /\ cs[i] \in Secrets \ {Absent, Garbage}
    BY <1>1 DEF Readable
  <1>3. \A i \in Readable(cs) : {i} \X DOMAIN cs[i] \subseteq Nat \X Nat
    BY <1>1, <1>2, EntriesFit
  <1>4. \A i, j : <<i, j>> \in Positions(cs) <=>
                    i \in DOMAIN cs /\ cs[i] # Garbage /\ j \in DOMAIN cs[i]
    BY DEF Positions, Readable
  <1>5. \A p \in Positions(cs) : \E i \in Readable(cs) : p \in {i} \X DOMAIN cs[i]
    BY DEF Positions
  <1> QED
    BY <1>1, <1>3, <1>4, <1>5

LEMMA SameHome ==
    ASSUME NEW h, NEW g, h # Absent \/ h = docker_io, g # Absent
    PROVE  host_matches(h, g) <=> Home(h) = Home(g)
  <1>1. docker_io \in docker_aliases
    BY DEF docker_aliases
  <1> QED
    BY <1>1 DEF host_matches, Home

(* What is sent to a host: nothing, if no secret holds a login for it, or  *)
(* a credential of its own.                                                *)
LEMMA CredentialFits ==
    ASSUME NEW cs \in Seq(Secrets \ {Absent}), NEW h, h # Absent \/ h = docker_io
    PROVE  LET c == credentials_for(h, cs) IN
           /\ c = Anonymous <=> Usable(h, cs) = {}
           /\ c # Anonymous => c.home = Home(h)
  <1> DEFINE U == Usable(h, cs)
             c == credentials_for(h, cs)
  <1>1. U = {} => c = Anonymous
    BY DEF credentials_for
  <1>2. ASSUME U # {} PROVE c # Anonymous /\ c.home = Home(h)
    <2>1. U \subseteq Positions(cs) /\ Positions(cs) \subseteq Nat \X Nat
      BY PositionsArePairs DEF Usable
    <2> DEFINE p == Earliest(U)
               e == cs[p[1]][p[2]]
    <2>2. p \in U
      BY <1>2, <2>1, EarliestIsOne
    <2>3. c = decode_entry(e)
      BY <1>2 DEF credentials_for, EntryAt
    <2>4. p \in Positions(cs) /\ host_matches(h, e.host) /\ decode_entry(e) # Absent
      BY <2>2 DEF Usable, EntryAt
    <2> HIDE DEF p
    <2>5. /\ cs[p[1]] \in Secrets \ {Absent, Garbage} /\ p[2] \in DOMAIN cs[p[1]]
      BY <2>4, PositionsArePairs
    <2>6. /\ e.host # Absent /\ e.login # Garbage /\ Anonymous \notin {e.auth, e.login}
          /\ \A d \in {e.auth, e.login} \ {Absent, Garbage} : d.home = Home(e.host)
      BY <2>5, EntriesFit
    <2> HIDE DEF e
    <2>7. Home(e.host) = Home(h)
      BY <2>4, <2>6, SameHome
    <2>8. decode_entry(e) \in {e.auth, e.login} \ {Absent, Garbage}
      BY <2>4, <2>6 DEF decode_entry
    <2> HIDE DEF c
    <2> QED
      BY <2>3, <2>6, <2>7, <2>8
  <1> QED
    BY <1>1, <1>2

-----------------------------------------------------------------------------
(* The state machine *)

(* What is being sent was picked from the secrets read for this request.   *)
Picked ==
    phase = "asking" =>
        image.wellformed /\ sent = credentials_for(Parsed[image].registry, configs)

Inv == TypeOK /\ Picked

LEMMA RangesAreFinite ==
    ASSUME NEW rs \in References
    PROVE  IsFiniteSet(Range(rs)) /\ Range(rs) \subseteq Int /\ Range(rs) \subseteq Names
  <1>1. rs \in Seq(Int)
    BY ReferencesAssumption
  <1>2. DOMAIN rs = 1..Len(rs) /\ Len(rs) \in Nat
    BY <1>1, LenProperties
  <1>3. IsFiniteSet(1..Len(rs))
    BY <1>2, FS_Interval
  <1>4. rs \in Surjection(1..Len(rs), Range(rs))
    BY <1>1, <1>2 DEF Surjection, Range
  <1>5. IsFiniteSet(Range(rs))
    BY <1>3, <1>4, FS_Surjection
  <1>6. Range(rs) \subseteq Int
    BY <1>1, RangeOfSeq
  <1>7. Range(rs) \subseteq Names
    BY DEF Names
  <1> QED
    BY <1>5, <1>6, <1>7

LEMMA NothingRead ==
    ASSUME NEW rs \in References
    PROVE  /\ <<>> \in Seq(Secrets \ {Absent})
           /\ Len(<<>>) + Cardinality({}) <= Cardinality(Range(rs))
           /\ Len(<<>>) + Cardinality(Range(rs)) <= Cardinality(Range(rs))
  <1>1. Cardinality({}) = 0 /\ Cardinality(Range(rs)) \in Nat
    BY FS_EmptySet, FS_CardinalityType, RangesAreFinite
  <1> QED
    BY <1>1

LEMMA InitInv == Init => Inv
  <1> SUFFICES ASSUME Init PROVE Inv
    OBVIOUS
  <1>1. refs \in References
    BY DEF Init
  <1>2. /\ <<>> \in Seq(Secrets \ {Absent})
        /\ Len(<<>>) + Cardinality({}) <= Cardinality(Range(refs))
    BY <1>1, NothingRead
  <1>3. TypeOK
    BY <1>2 DEF Init, TypeOK
  <1>4. Picked
    BY DEF Init, Picked
  <1> QED
    BY <1>3, <1>4 DEF Inv

(* One name less to read, and at most one dockerconfig more.               *)
LEMMA OneLess ==
    ASSUME TypeOK, NEW n \in unread
    PROVE  /\ n \in Names /\ secrets[n] \in Secrets
           /\ unread \ {n} \subseteq Range(refs)
           /\ Len(configs) + Cardinality(unread \ {n}) <= Cardinality(Range(refs))
           /\ \A s \in Secrets \ {Absent} :
                 /\ Append(configs, s) \in Seq(Secrets \ {Absent})
                 /\ Len(Append(configs, s)) + Cardinality(unread \ {n}) <= Cardinality(Range(refs))
  <1>1. /\ refs \in References /\ unread \subseteq Range(refs) /\ secrets \in [Names -> Secrets]
        /\ configs \in Seq(Secrets \ {Absent})
        /\ Len(configs) + Cardinality(unread) <= Cardinality(Range(refs))
    BY DEF TypeOK
  <1>2. IsFiniteSet(Range(refs)) /\ Range(refs) \subseteq Names
    BY <1>1, RangesAreFinite
  <1>3. IsFiniteSet(unread)
    BY <1>1, <1>2, FS_Subset
  <1>4. Cardinality(unread \ {n}) = Cardinality(unread) - 1
    BY <1>3, FS_RemoveElement
  <1>5. Cardinality(unread) \in Nat /\ Cardinality(Range(refs)) \in Nat /\ Len(configs) \in Nat
    BY <1>1, <1>2, <1>3, FS_CardinalityType, LenProperties
  <1>6. \A s \in Secrets \ {Absent} :
           /\ Append(configs, s) \in Seq(Secrets \ {Absent})
           /\ Len(Append(configs, s)) = Len(configs) + 1
    BY <1>1, AppendProperties
  <1>7. /\ Len(configs) + Cardinality(unread \ {n}) <= Cardinality(Range(refs))
        /\ Len(configs) + 1 + Cardinality(unread \ {n}) <= Cardinality(Range(refs))
    BY <1>1, <1>4, <1>5
  <1>8. \A s \in Secrets \ {Absent} :
           Len(Append(configs, s)) + Cardinality(unread \ {n}) <= Cardinality(Range(refs))
    BY <1>6, <1>7
  <1>9. n \in Names /\ secrets[n] \in Secrets /\ unread \ {n} \subseteq Range(refs)
    BY <1>1, <1>2
  <1> QED
    BY <1>6, <1>7, <1>8, <1>9

LEMMA NextInv == Inv /\ [Next]_vars => Inv'
  <1> SUFFICES ASSUME Inv, [Next]_vars PROVE Inv'
    OBVIOUS
  <1> USE DEF Inv
  <1>1. /\ <<>> \in Seq(Secrets \ {Absent}) /\ refs \in References
        /\ Len(<<>>) + Cardinality({}) <= Cardinality(Range(refs))
        /\ Len(<<>>) + Cardinality(Range(refs)) <= Cardinality(Range(refs))
    BY NothingRead DEF TypeOK
  <1>2. CASE Begin
    <2>1. TypeOK'
      BY <1>1, <1>2 DEF Begin, TypeOK, world
    <2>2. Picked'
      BY <1>2 DEF Begin, Picked
    <2> QED
      BY <2>1, <2>2
  <1>3. CASE ReadSecret
    <2>1. PICK n \in unread :
            /\ unread' = unread \ {n}
            /\ configs' = IF secrets[n] = Absent THEN configs ELSE Append(configs, secrets[n])
      BY <1>3 DEF ReadSecret
    <2>2. /\ secrets[n] \in Secrets /\ unread' \subseteq Range(refs)
          /\ configs' \in Seq(Secrets \ {Absent})
          /\ Len(configs') + Cardinality(unread') <= Cardinality(Range(refs))
      BY <2>1, OneLess DEF TypeOK
    <2>3. TypeOK'
      BY <1>3, <2>2 DEF ReadSecret, TypeOK, world
    <2>4. Picked'
      BY <1>3 DEF ReadSecret, Picked
    <2> QED
      BY <2>3, <2>4
  <1>4. CASE ReadFails
    <2>1. PICK n \in unread : unread' = unread \ {n}
      BY <1>4 DEF ReadFails
    <2>2. /\ unread' \subseteq Range(refs)
          /\ Len(configs) + Cardinality(unread') <= Cardinality(Range(refs))
      BY <2>1, OneLess
    <2>3. TypeOK'
      BY <1>4, <2>2 DEF ReadFails, TypeOK, world
    <2>4. Picked'
      BY <1>4 DEF ReadFails, Picked
    <2> QED
      BY <2>3, <2>4
  <1>5. CASE Ask
    <2>1. TypeOK'
      BY <1>5 DEF Ask, TypeOK, world
    <2>2. Picked'
      BY <1>5 DEF Ask, Picked, world
    <2> QED
      BY <2>1, <2>2
  <1>6. CASE Refuse
    <2>1. TypeOK'
      BY <1>1, <1>6 DEF Refuse, Return, TypeOK, world
    <2>2. Picked'
      BY <1>6 DEF Refuse, Return, Picked
    <2> QED
      BY <2>1, <2>2
  <1>7. CASE Answered
    <2>1. available' \in BOOLEAN
      <3>1. published \in BOOLEAN
        BY DEF TypeOK
      <3> QED
        BY <1>7, <3>1 DEF Answered
    <2>2. TypeOK'
      BY <1>1, <1>7, <2>1 DEF Answered, Return, TypeOK, world
    <2>3. Picked'
      BY <1>7 DEF Answered, Return, Picked
    <2> QED
      BY <2>2, <2>3
  <1>8. CASE Crash
    <2>1. TypeOK'
      BY <1>1, <1>8 DEF Crash, Return, TypeOK, world
    <2>2. Picked'
      BY <1>8 DEF Crash, Return, Picked
    <2> QED
      BY <2>1, <2>2
  <1>9. CASE Publish
    <2>1. TypeOK'
      BY <1>9 DEF Publish, TypeOK
    <2>2. Picked'
      BY <1>9 DEF Publish, Picked
    <2> QED
      BY <2>1, <2>2
  <1>10. CASE Calm
    <2>1. TypeOK'
      BY <1>10 DEF Calm, TypeOK
    <2>2. Picked'
      BY <1>10 DEF Calm, Picked
    <2> QED
      BY <2>1, <2>2
  <1>11. ASSUME NEW n \in Names, NEW s \in Secrets, SetSecret(n, s) PROVE Inv'
    <2>1. TypeOK'
      BY <1>11 DEF SetSecret, TypeOK
    <2>2. Picked'
      BY <1>11 DEF SetSecret, Picked
    <2> QED
      BY <2>1, <2>2
  <1>12. ASSUME NEW a \in Admissions, SetAccepts(a) PROVE Inv'
    <2>1. TypeOK'
      BY <1>12 DEF SetAccepts, TypeOK
    <2>2. Picked'
      BY <1>12 DEF SetAccepts, Picked
    <2> QED
      BY <2>1, <2>2
  <1>13. CASE UNCHANGED vars
    BY <1>13 DEF vars, world, TypeOK, Picked
  <1> QED
    BY <1>2, <1>3, <1>4, <1>5, <1>6, <1>7, <1>8, <1>9, <1>10, <1>11, <1>12, <1>13
    DEF Next, Reconcile

(* The invariant: every state is well typed, and a request that is on its  *)
(* way carries what credentials_for found in the secrets read for it.      *)
THEOREM AlwaysPicked == Spec => []Inv
  <1> QED
    BY InitInv, NextInv, PTL DEF Spec

(* No secret is read twice and none that is missing is kept: what was read *)
(* and what is still to be read are no more than the names in the pod.     *)
THEOREM RegistryTypes == Spec => []TypeOK
  <1>1. Inv => TypeOK
    BY DEF Inv
  <1> QED
    BY <1>1, AlwaysPicked, PTL

(* ImageRef::parse finds what the writer of the reference put in, in every *)
(* image, with a tag, a digest, both or neither.                           *)
THEOREM ParserIsExact == Spec => []ParsedAsWritten
  <1>1. Inv => ParsedAsWritten
    <2> SUFFICES ASSUME Inv, image.wellformed
                 PROVE  Parsed[image] =
            [registry   |-> IF image.host = Absent THEN docker_io ELSE image.host,
             repository |-> IF image.host \in {Absent, docker_io} /\ Without(image.path, {"/"})
                            THEN <<"library", "/">> \o Name(image) ELSE Name(image),
             reference  |-> IF image.digest # Absent THEN image.digest
                            ELSE IF image.tag # Absent THEN image.tag ELSE <<"latest">>]
      BY DEF ParsedAsWritten
    <2>1. image \in Images
      BY DEF Inv, TypeOK
    <2> DEFINE ref == IF image.digest # Absent THEN image.digest
                      ELSE IF image.tag # Absent THEN image.tag ELSE <<"latest">>
    <2>2. Reference(Rest(image)) = <<Name(image), ref>>
      BY <2>1, ReferenceIs
    <2>3. Without(image.path, {"/"}) <=> ~Contains(Name(image), "/")
      BY <2>1, SlashInPath
    <2>4. Host(image) = docker_io <=> image.host \in {Absent, docker_io}
      BY DEF Host
    <2> HIDE DEF ref
    <2>5. Reference(Rest(image))[1] = Name(image) /\ Reference(Rest(image))[2] = ref
      BY <2>2
    <2>6. Parsed[image] =
            [registry   |-> Host(image),
             repository |-> IF image.host \in {Absent, docker_io} /\ Without(image.path, {"/"})
                            THEN <<"library", "/">> \o Name(image) ELSE Name(image),
             reference  |-> ref]
      BY <2>1, <2>3, <2>4, <2>5, ParseIs
    <2> QED
      BY <2>6 DEF Host, ref
  <1> QED
    BY <1>1, AlwaysPicked, PTL

(* The registry that the controller's parser finds is the one that         *)
(* oci-client asks, up to the names of Docker Hub.                         *)
LEMMA SameRegistry ==
    ASSUME NEW im \in Images, im.wellformed
    PROVE  /\ Parsed[im].registry # Absent \/ Parsed[im].registry = docker_io
           /\ Home(Parsed[im].registry) = Home(im.host)
  <1> DEFINE name == Reference(Rest(im))[1]
             repository == IF Host(im) = docker_io /\ ~Contains(name, "/")
                           THEN <<"library", "/">> \o name ELSE name
             reference == Reference(Rest(im))[2]
  <1>1. Parsed[im] = [registry |-> Host(im), repository |-> repository, reference |-> reference]
    BY ParseIs
  <1> HIDE DEF repository, reference
  <1>2. Parsed[im].registry = Host(im)
    BY <1>1
  <1>3. docker_io \in docker_aliases
    BY DEF docker_aliases
  <1> QED
    BY <1>2, <1>3 DEF Host, Home

(* A registry is only ever shown a credential of its own, although one     *)
(* parser decides who is asked and another what is shown.                  *)
THEOREM SentOnlyToItsHost == Spec => []SentToItsHost
  <1>1. Inv => SentToItsHost
    <2> SUFFICES ASSUME Inv, phase = "asking", sent # Anonymous
                 PROVE  sent.home = Home(image.host)
      BY DEF SentToItsHost
    <2> DEFINE h == Parsed[image].registry
    <2>1. /\ image \in Images /\ image.wellformed /\ configs \in Seq(Secrets \ {Absent})
          /\ sent = credentials_for(h, configs)
      BY DEF Inv, TypeOK, Picked
    <2>2. (h # Absent \/ h = docker_io) /\ Home(h) = Home(image.host)
      BY <2>1, SameRegistry
    <2> HIDE DEF h
    <2>3. sent.home = Home(h)
      BY <2>1, <2>2, CredentialFits
    <2> QED
      BY <2>2, <2>3
  <1> QED
    BY <1>1, AlwaysPicked, PTL

(* A request goes out without a credential only if none of the secrets     *)
(* read for it holds one for the registry: garbage in one of them, or in   *)
(* an entry, hides no other.                                               *)
THEOREM AnonymousOnlyIfNone == Spec => []AnonymousOnlyIfNothingUsable
  <1>1. Inv => AnonymousOnlyIfNothingUsable
    <2> SUFFICES ASSUME Inv, phase = "asking", sent = Anonymous,
                        NEW i \in DOMAIN configs, NEW j \in Offers(configs[i])
                 PROVE  FALSE
      BY DEF AnonymousOnlyIfNothingUsable
    <2> DEFINE h == Parsed[image].registry
               e == configs[i][j]
    <2>1. /\ image \in Images /\ image.wellformed /\ configs \in Seq(Secrets \ {Absent})
          /\ sent = credentials_for(h, configs)
      BY DEF Inv, TypeOK, Picked
    <2>2. (h # Absent \/ h = docker_io) /\ Home(h) = Home(image.host)
      BY <2>1, SameRegistry
    <2>3. /\ configs[i] \notin {Absent, Garbage} /\ j \in DOMAIN configs[i]
          /\ Home(e.host) = Home(image.host) /\ Login(e) \notin {Absent, Garbage}
      BY DEF Offers
    <2>4. configs[i] \in Secrets \ {Absent, Garbage} /\ <<i, j>> \in Positions(configs)
      BY <2>1, <2>3, PositionsArePairs
    <2>5. e.host # Absent
      BY <2>3, <2>4, EntriesFit
    <2>6. e = EntryAt(<<i, j>>, configs)
      BY DEF EntryAt
    <2> HIDE DEF h, e
    <2>7. host_matches(h, e.host)
      BY <2>2, <2>3, <2>5, SameHome
    <2>8. decode_entry(e) # Absent
      BY <2>3 DEF decode_entry, Login
    <2>9. <<i, j>> \in Usable(h, configs)
      BY <2>4, <2>6, <2>7, <2>8 DEF Usable
    <2>10. Usable(h, configs) = {}
      BY <2>1, <2>2, CredentialFits
    <2> QED
      BY <2>9, <2>10
  <1> QED
    BY <1>1, AlwaysPicked, PTL
=============================================================================
