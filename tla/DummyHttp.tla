------------------------------ MODULE DummyHttp ------------------------------
(***************************************************************************)
(* The pure part of the two dummy programs: where they listen, what they   *)
(* call themselves and what they answer.  An environment variable is Unset,*)
(* Blank (nothing but white space) or its trimmed value.                   *)
(***************************************************************************)
EXTENDS Naturals

CONSTANTS Unset, Blank

Kinds == {"backend", "frontend"}

(* listen: STUBBY_BACKEND_LISTEN or STUBBY_FRONTEND_LISTEN; port:          *)
(* STUBBY_PORT; app_name: STUBBY_APP_NAME.                                 *)
Given(v) == v \notin {Unset, Blank}

-----------------------------------------------------------------------------
(* main.rs *)

Address(host, port) == [host |-> host, port |-> port]

DefaultPort(kind) == IF kind = "backend" THEN 8080 ELSE 80

listen_addr_blank(kind, env) ==            \* faulty: a blank STUBBY_PORT counts
    IF Given(env.listen) THEN env.listen
    ELSE Address("0.0.0.0", IF env.port # Unset THEN env.port ELSE DefaultPort(kind))

listen_addr_fixed(kind, env) ==            \* faulty: STUBBY_PORT is not read
    IF Given(env.listen) THEN env.listen ELSE Address("0.0.0.0", DefaultPort(kind))

listen_addr(kind, env) ==
    IF Given(env.listen) THEN env.listen
    ELSE Address("0.0.0.0", IF Given(env.port) THEN env.port ELSE DefaultPort(kind))

(* listen_addr().parse::<SocketAddr>().  A text that is no port number is  *)
(* represented by a number out of range.                                   *)
Parses(addr) == addr.port \in 0..65535

-----------------------------------------------------------------------------
(* lib.rs *)

app_name(env) == IF Given(env.app_name) THEN env.app_name ELSE "stubby"

-----------------------------------------------------------------------------
(* routes.rs.  An answer names the application where the page shows it.    *)
Answer(status, body, app) == [status |-> status, body |-> body, app |-> app]

health == Answer(200, "ok", Unset)
ready == Answer(200, "ok", Unset)

backend_router(path, env) ==
    CASE path = "/health" -> health
      [] path = "/ready" -> ready
      [] path = "/openapi.json" -> Answer(200, "openapi", app_name(env))
      [] path = "/docs" -> Answer(200, "swagger-ui", Unset)
      [] OTHER -> Answer(200, "dummy", app_name(env))

frontend_router(path, env) ==
    CASE path = "/health" -> health
      [] path = "/ready" -> ready
      [] path = "/style.css" -> Answer(200, "stylesheet", Unset)
      [] OTHER -> Answer(200, "index", app_name(env))

router_strict(kind, path, env) ==          \* faulty: other paths are not found
    IF path \in {"/health", "/ready"} THEN health ELSE Answer(404, "not found", Unset)

router(kind, path, env) ==
    IF kind = "backend" THEN backend_router(path, env) ELSE frontend_router(path, env)
=============================================================================
