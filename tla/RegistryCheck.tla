---------------------------- MODULE RegistryCheck ----------------------------
(***************************************************************************)
(* The controller finds out whether an image can be pulled: it reads the   *)
(* pod's pull secrets, one call each, picks a credential and asks the      *)
(* registry for the manifest, again and again.  Meanwhile the image gets   *)
(* pushed, secrets come, go and are rotated, and calls fail.               *)
(***************************************************************************)
EXTENDS RegistryAuth

CONSTANTS
    Images,          \* images, as [host, path, tag, digest, wellformed]
    References,      \* what imagePullSecrets may list: sequences of names
    Secrets,         \* what a secret may hold: a dockerconfig, or Absent
    Admissions       \* what a registry may accept: sets of credentials, Anonymous

Names == UNION {Range(refs) : refs \in References}

(* The references are sorted by name, so names are numbers here.           *)
ASSUME ReferencesAssumption == \A refs \in References : refs \in Seq(Int)

(* The grammar of the images that oci-client takes (to the others nothing  *)
(* happens): a host looks like one, by a "." or ":" or by being localhost, *)
(* and the first segment of a path without a host does not; ":" and "@"    *)
(* begin the tag and the digest, so only a digest contains a ":".          *)
Without(text, separators) == text \in Seq(ToSet(text) \ separators)

HostLike(text) == text = <<"localhost">> \/ ToSet(text) \cap {".", ":"} # {}

ASSUME ImagesAssumption ==
    \A im \in Images : im.wellformed =>
        /\ Without(im.path, {":", "@"})
        /\ im.host # Absent => Without(im.host, {"/", "@"}) /\ HostLike(im.host)
        /\ im.host = Absent =>
              \A k \in DOMAIN im.path :
                  im.path[k] = "/" /\ Without(SubSeq(im.path, 1, k - 1), {"/"}) =>
                      ~HostLike(SubSeq(im.path, 1, k - 1))
        /\ im.tag # Absent => Without(im.tag, {"/", ":", "@"})
        /\ im.digest # Absent => Without(im.digest, {"/", "@"})

(* The image as the pod spells it. *)
Text(im) ==
    (IF im.host = Absent THEN <<>> ELSE im.host \o <<"/">>) \o im.path
    \o (IF im.tag = Absent THEN <<>> ELSE <<":">> \o im.tag)
    \o (IF im.digest = Absent THEN <<>> ELSE <<"@">> \o im.digest)

(* ImageRef::parse of each of them. *)
Parsed == [im \in Images |-> parse(Text(im))]

(* The registry that oci-client asks: all names of Docker Hub are one.     *)
Home(host) == IF host = Absent \/ host \in docker_aliases THEN docker_io ELSE host

(* What is written under a host, if it can be read, is a credential that   *)
(* this host has issued.                                                   *)
ASSUME SecretsAssumption ==
    \A s \in Secrets \ {Absent, Garbage} :
        /\ s \in Seq(ToSet(s))
        /\ \A e \in ToSet(s) :
              /\ e.host # Absent /\ e.login # Garbage /\ Anonymous \notin {e.auth, e.login}
              /\ \A c \in {e.auth, e.login} \ {Absent, Garbage} : c.home = Home(e.host)

VARIABLES
    image,       \* never changes
    refs,        \* the pod's imagePullSecrets; never changes
    secrets,     \* secrets[n]: what the secret named n holds
    accepts,     \* what the image's registry accepts
    published,   \* the image has been pushed
    calm,        \* nothing changes and no call fails any more
    phase,       \* of the reconcile
    unread,      \* the names still to be read
    configs,     \* the dockerconfigs read so far
    sent,        \* the credential in the request
    available    \* the last answer

world == <<image, refs, secrets, accepts, published, calm>>
vars == <<world, phase, unread, configs, sent, available>>

TypeOK ==
    /\ image \in Images /\ refs \in References
    /\ secrets \in [Names -> Secrets] /\ accepts \in Admissions
    /\ published \in BOOLEAN /\ calm \in BOOLEAN /\ available \in BOOLEAN
    /\ phase \in {"waiting", "reading", "asking"}
    /\ unread \subseteq Range(refs) /\ configs \in Seq(Secrets \ {Absent})
    /\ Len(configs) + Cardinality(unread) <= Cardinality(Range(refs))
    /\ published => image.wellformed

Init ==
    /\ image \in Images /\ refs \in References
    /\ secrets \in [Names -> Secrets] /\ accepts \in Admissions
    /\ published = FALSE /\ calm = FALSE
    /\ phase = "waiting" /\ unread = {} /\ configs = <<>> /\ sent = Anonymous
    /\ available = FALSE

-----------------------------------------------------------------------------
(* reconcile: its locals end with it. *)
Return ==
    /\ phase' = "waiting"
    /\ unread' = {} /\ configs' = <<>> /\ sent' = Anonymous

(* pull_secrets: the names, each of them once. *)
Begin ==
    /\ phase = "waiting"
    /\ phase' = "reading"
    /\ unread' = Range(refs)
    /\ configs' = <<>>
    /\ UNCHANGED <<world, sent, available>>

(* They have been sorted. *)
IsNext(n) == n \in unread /\ \A m \in unread : n <= m

ReadSecret_or_stop ==                       \* faulty: a missing secret is an error
    /\ phase = "reading"
    /\ \E n \in unread :
          /\ IsNext(n)
          /\ IF secrets[n] = Absent
             THEN Return
             ELSE /\ unread' = unread \ {n} /\ configs' = Append(configs, secrets[n])
                  /\ UNCHANGED <<phase, sent>>
    /\ UNCHANGED <<world, available>>

ReadSecret_unchecked ==                     \* faulty: takes a missing secret as well
    /\ phase = "reading"
    /\ \E n \in unread :
          /\ IsNext(n)
          /\ unread' = unread \ {n}
          /\ configs' = Append(configs, secrets[n])
    /\ UNCHANGED <<world, phase, sent, available>>

(* secrets.get: what is missing or has no .dockerconfigjson is skipped.    *)
ReadSecret ==
    /\ phase = "reading"
    /\ \E n \in unread :
          /\ IsNext(n)
          /\ unread' = unread \ {n}
          /\ configs' = IF secrets[n] = Absent THEN configs ELSE Append(configs, secrets[n])
    /\ UNCHANGED <<world, phase, sent, available>>

(* A read that fails is skipped as well. *)
ReadFails ==
    /\ phase = "reading" /\ ~calm
    /\ \E n \in unread : IsNext(n) /\ unread' = unread \ {n}
    /\ UNCHANGED <<world, phase, configs, sent, available>>

(* is_available *)
Ask ==
    /\ phase = "reading" /\ unread = {} /\ image.wellformed
    /\ sent' = credentials_for(Parsed[image].registry, configs)
    /\ phase' = "asking"
    /\ UNCHANGED <<world, unread, configs, available>>

(* What oci-client cannot parse is not available. *)
Refuse ==
    /\ phase = "reading" /\ unread = {} /\ ~image.wellformed
    /\ Return /\ available' = FALSE
    /\ UNCHANGED world

(* fetch_manifest_digest, whose errors all count as not available.  The    *)
(* answer FALSE may also be a lost call.                                   *)
Answered ==
    /\ phase = "asking"
    /\ available' \in {published /\ sent \in accepts} \cup (IF calm THEN {} ELSE {FALSE})
    /\ Return
    /\ UNCHANGED world

(* The controller restarts: every pod is reconciled anew. *)
Crash ==
    /\ phase # "waiting" /\ ~calm
    /\ Return /\ available' = FALSE
    /\ UNCHANGED world

-----------------------------------------------------------------------------
(* The owners of the image and of the secrets *)

Publish ==
    /\ ~calm /\ ~published /\ image.wellformed
    /\ published' = TRUE
    /\ UNCHANGED <<image, refs, secrets, accepts, calm, phase, unread, configs, sent, available>>

SetSecret(n, s) ==
    /\ ~calm
    /\ secrets' = [secrets EXCEPT ![n] = s]
    /\ UNCHANGED <<image, refs, accepts, published, calm, phase, unread, configs, sent, available>>

(* A password is rotated, a repository opened or closed to the public. *)
SetAccepts(a) ==
    /\ ~calm
    /\ accepts' = a
    /\ UNCHANGED <<image, refs, secrets, published, calm, phase, unread, configs, sent, available>>

Calm ==
    /\ ~calm
    /\ calm' = TRUE
    /\ UNCHANGED <<image, refs, secrets, accepts, published, phase, unread, configs, sent, available>>

-----------------------------------------------------------------------------
Reconcile == Begin \/ ReadSecret \/ Ask \/ Refuse \/ Answered

Next ==
    \/ Reconcile \/ ReadFails \/ Crash \/ Publish \/ Calm
    \/ \E n \in Names, s \in Secrets : SetSecret(n, s)
    \/ \E a \in Admissions : SetAccepts(a)

(* Every reconcile requeues the pod, so it comes again. *)
Spec == Init /\ [][Next]_vars /\ WF_vars(Reconcile)

-----------------------------------------------------------------------------
(* Properties *)

(* The parser finds the parts of a reference that its writer put in, with  *)
(* Docker's defaults for those left out, whatever separators they contain. *)
(* The digest wins over a tag, which then stays with the repository.       *)
Name(im) == IF Absent \in {im.tag, im.digest} THEN im.path ELSE im.path \o <<":">> \o im.tag

ParsedAsWritten ==
    image.wellformed =>
        Parsed[image] =
            [registry   |-> IF image.host = Absent THEN docker_io ELSE image.host,
             repository |-> IF image.host \in {Absent, docker_io} /\ Without(image.path, {"/"})
                            THEN <<"library", "/">> \o Name(image) ELSE Name(image),
             reference  |-> IF image.digest # Absent THEN image.digest
                            ELSE IF image.tag # Absent THEN image.tag ELSE <<"latest">>]

(* No registry is shown a credential that another one issued, although     *)
(* who is asked is decided by oci-client's reading of the image and what   *)
(* is shown by the controller's own.                                       *)
SentToItsHost ==
    phase = "asking" /\ sent # Anonymous => sent.home = Home(image.host)

Login(e) == IF e.auth = Absent THEN e.login ELSE e.auth

(* The entries for the image's registry in a secret that can be read.      *)
Offers(dockerconfig) ==
    IF dockerconfig \in {Absent, Garbage} THEN {}
    ELSE {i \in DOMAIN dockerconfig :
            /\ Home(dockerconfig[i].host) = Home(image.host)
            /\ Login(dockerconfig[i]) \notin {Absent, Garbage}}

(* The controller asks as nobody only if no secret it has read holds a     *)
(* credential for the registry; what is garbage hides no other.            *)
AnonymousOnlyIfNothingUsable ==
    phase = "asking" /\ sent = Anonymous =>
        \A i \in DOMAIN configs : Offers(configs[i]) = {}

(* The credential that comes first, by secret name and then by entry. *)
FirstOffer ==
    LET all == UNION {{n} \X Offers(secrets[n]) : n \in Range(refs)}
    IN IF all = {} THEN Anonymous ELSE Login(EntryAt(Earliest(all), secrets))

(* Once the image is there and the first credential offered for it is the  *)
(* one its registry accepts, the controller sees it, whatever went wrong   *)
(* before: a secret that came late, a password that was rotated, calls     *)
(* that failed.  And it stops seeing what has been closed to it.           *)
EventuallySeen ==
    <>[](calm => (available <=> published /\ FirstOffer \in accepts))
=============================================================================
