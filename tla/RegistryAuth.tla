---------------------------- MODULE RegistryAuth ----------------------------
(***************************************************************************)
(* Which credential the controller shows to which registry: the parser of  *)
(* image references and the search through the pull secrets.  Pure.        *)
(*                                                                         *)
(* A text is a sequence of tokens, in which the separators "/", ":", "@"   *)
(* and "." are tokens of their own.  A credential knows the registry that  *)
(* issued it, which the code does not see.                                 *)
(***************************************************************************)
EXTENDS Integers, Sequences, SequencesExt

CONSTANTS
    Absent,      \* a field that is not there
    Garbage,     \* base64, UTF-8, JSON or an auths that cannot be read
    Anonymous    \* RegistryAuth::Anonymous

-----------------------------------------------------------------------------
(* imageref.rs *)

Cut(s, i) == <<SubSeq(s, 1, i - 1), SubSeq(s, i + 1, Len(s))>>
split_once(s, sep) == Cut(s, SelectInSeq(s, LAMBDA t : t = sep))
rfind(s, sep) == SelectLastInSeq(s, LAMBDA t : t = sep)

(* A leading segment is a registry if it looks like a host. *)
is_registry(segment) ==
    segment = <<"localhost">> \/ Contains(segment, ".") \/ Contains(segment, ":")

docker_io == <<"docker", ".", "io">>

Reference_tag_first(rest) ==                \* faulty: the digest's own colon
    IF Contains(rest, ":") THEN Cut(rest, rfind(rest, ":"))
    ELSE <<rest, <<"latest">>>>

Reference(rest) ==
    IF Contains(rest, "@") THEN split_once(rest, "@")
    ELSE IF Contains(rest, ":") THEN Cut(rest, rfind(rest, ":"))
    ELSE <<rest, <<"latest">>>>

parse(text) ==
    LET parts == split_once(text, "/")
        hosted == Contains(text, "/") /\ is_registry(parts[1])
        registry == IF hosted THEN parts[1] ELSE docker_io
        ref == Reference(IF hosted THEN parts[2] ELSE text)
        library == registry = docker_io /\ ~Contains(ref[1], "/")
    IN [registry |-> registry,
        repository |-> IF library THEN <<"library", "/">> \o ref[1] ELSE ref[1],
        reference |-> ref[2]]

-----------------------------------------------------------------------------
(* auth.rs.  A dockerconfig is the sequence of the entries of its "auths"  *)
(* in the order of their keys, or Garbage.                                 *)

docker_aliases ==
    {docker_io,
     <<"index", ".", "docker", ".", "io">>,
     <<"https", ":", "/", "/", "index", ".", "docker", ".", "io", "/", "v1", "/">>,
     <<"registry-1", ".", "docker", ".", "io">>}

host_matches_either(host, entry_host) ==    \* faulty: one of the two is enough
    host = entry_host \/ host \in docker_aliases \/ entry_host \in docker_aliases

host_matches(host, entry_host) ==
    host = entry_host \/ {host, entry_host} \subseteq docker_aliases

(* An "auth" field decides, even if it cannot be decoded. *)
decode_entry(entry) ==
    IF entry.auth = Absent THEN entry.login
    ELSE IF entry.auth = Garbage THEN Absent ELSE entry.auth

(* Positions are pairs: which dockerconfig, and which entry in it. *)
Readable(dockerconfigs) == {i \in DOMAIN dockerconfigs : dockerconfigs[i] # Garbage}

Positions(dockerconfigs) ==
    UNION {{i} \X DOMAIN dockerconfigs[i] : i \in Readable(dockerconfigs)}

EntryAt(p, dockerconfigs) == dockerconfigs[p[1]][p[2]]

Usable(host, dockerconfigs) ==
    {p \in Positions(dockerconfigs) :
        /\ host_matches(host, EntryAt(p, dockerconfigs).host)
        /\ decode_entry(EntryAt(p, dockerconfigs)) # Absent}

Earliest(positions) ==
    CHOOSE p \in positions :
        \A q \in positions : p[1] < q[1] \/ (p[1] = q[1] /\ p[2] <= q[2])

credentials_for_or_nothing(host, dockerconfigs) ==   \* faulty: garbage ends the search
    LET usable == Usable(host, dockerconfigs)
    IN IF usable = {} \/ Contains(dockerconfigs, Garbage) THEN Anonymous
       ELSE decode_entry(EntryAt(Earliest(usable), dockerconfigs))

(* The first match that can be decoded; what is malformed is passed over.  *)
credentials_for(host, dockerconfigs) ==
    LET usable == Usable(host, dockerconfigs)
    IN IF usable = {} THEN Anonymous
       ELSE decode_entry(EntryAt(Earliest(usable), dockerconfigs))
=============================================================================
