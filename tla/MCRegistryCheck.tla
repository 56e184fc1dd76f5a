--------------------------- MODULE MCRegistryCheck ---------------------------
(* The images, secrets and registries with which RegistryCheck is checked. *)
EXTENDS RegistryCheck

Hub == <<"index", ".", "docker", ".", "io">>
Ghcr == <<"ghcr", ".", "io">>
Local == <<"localhost">>
Port == <<"registry", ":", "5000">>

Image(host, path, tag, digest, wellformed) ==
    [host |-> host, path |-> path, tag |-> tag, digest |-> digest, wellformed |-> wellformed]
Sha == <<"sha256", ":", "abc">>

SomeImages ==
    {Image(Absent, <<"nginx">>, Absent, Absent, TRUE),
     Image(Absent, <<"acme", "/", "app">>, <<"1">>, Absent, TRUE),
     Image(docker_io, <<"nginx">>, <<"1">>, Sha, TRUE),
     Image(Hub, <<"nginx">>, Absent, Sha, TRUE),
     Image(Hub, <<"acme", "/", "app">>, <<"1", ".", "2">>, Absent, TRUE),
     Image(Ghcr, <<"app">>, <<"1">>, Absent, TRUE),
     Image(Ghcr, <<"acme", "/", "app">>, <<"1">>, Sha, TRUE),
     Image(Local, <<"app">>, Absent, Absent, TRUE),
     Image(Port, <<"acme", "/", "app">>, <<"1">>, Sha, TRUE),
     Image(Ghcr, <<"APP">>, <<"1">>, Absent, FALSE)}

Credential(home, version) == [home |-> home, version |-> version]
Entry(host, auth, login) == [host |-> host, auth |-> auth, login |-> login]

(* Secrets for one registry, with its old or new password, for two, for    *)
(* Docker Hub under two names, and those that are broken in some way.      *)
SomeSecrets ==
    {Absent, Garbage,
     <<Entry(Ghcr, Credential(Ghcr, 1), Absent),
       Entry(Hub, Absent, Credential(docker_io, 1))>>,
     <<Entry(Hub, Garbage, Credential(docker_io, 2)),
       Entry(docker_io, Credential(docker_io, 2), Absent)>>,
     <<Entry(Ghcr, Absent, Absent), Entry(Port, Credential(Port, 1), Absent)>>}

SomeAdmissions ==
    {{Anonymous},
     {Credential(docker_io, 1), Credential(Ghcr, 1), Credential(Port, 1)},
     {Credential(docker_io, 2), Anonymous}}

SomeReferences == {<<>>, <<1>>, <<2, 1, 2>>}
=============================================================================
