------------------------------- MODULE MCProxy -------------------------------
(***************************************************************************)
(* The request path for TLC: routes of the registry, upstream health, the  *)
(* proxy engine, the chain of redirects of one request.  Each module takes *)
(* what the others produce as an arbitrary input (an order of upstreams, a *)
(* redirect), so one behaviour follows one of them ("focus") and the       *)
(* others keep still.                                                      *)
(***************************************************************************)
EXTENDS ProxyEngine, RedirectChain, HealthChecker, RepositoryRoutes, TLC

VARIABLES focus, operations

(* Bound: what is begun of health checks, activations and edits. *)
MaxOperations == 3
Begins ==
  \/ ~(inFlight' \subseteq inFlight)
  \/ \E w \in Workers : CheckNow(w)
  \/ loading = NoReading /\ loading' # NoReading
  \/ disabled' # disabled \/ servers' # servers

(* Conditional requests of two addresses for the same object, one of them  *)
(* HEAD, auxiliary resources that may be handed over, adapter targets with *)
(* credentials.                                                            *)
ClientCall(ip, repo, sort, plain, match, head, accel) ==
  [ip |-> ip, repo |-> repo, kind |-> sort, plain |-> plain, match |-> match, head |-> head,
   accel |-> accel]
MCCalls ==
  {ClientCall("a1", "meta", "object", TRUE, TRUE, FALSE, FALSE),
   ClientCall("a2", "meta", "object", TRUE, TRUE, TRUE, FALSE),
   ClientCall("a2", "pkg", "auxiliary", TRUE, FALSE, FALSE, TRUE),
   ClientCall("a1", "pkg", "adapter", FALSE, FALSE, TRUE, FALSE)}
MCOrders == {<<"u1", "u2">>}
MCProfile ==
  [m \in {"meta", "pkg"} |-> [cache |-> TRUE, rewrite |-> m = "meta", follow |-> m = "meta"]]
MCMirrorMax == [m \in {"meta", "pkg"} |-> IF m = "pkg" THEN 1 ELSE 0]

(* Two upstreams of one origin with nested bases, a rewrite host, and a    *)
(* host that is neither.                                                   *)
URL(origin, path) == [origin |-> origin, path |-> path]
MCTargets ==
  {URL(o, p) : o \in {"A", "B"},
               p \in {<<"r", "x">>, <<"r", "s", "x">>, <<"y">>, <<"r", "s", "y">>}}
  \cup {URL("C", <<"z">>), URL("B", <<"q", "bad">>)}
MCBases == {URL("A", <<"r">>), URL("A", <<"r", "s">>)}
MCBlocked == {<<"bad">>, <<"s", "x">>}

MCFirstUpstreams == 1 :> Row("m1", 1, 1, TRUE) @@ 2 :> Row("m1", 2, 2, TRUE)

(* Nested paths, a path below the base path, a path that the process       *)
(* answers itself, a path and a host that one of the layouts reserves, a   *)
(* registry with and without a token endpoint.                             *)
PathRow(path, registry, origins, token) ==
  [mode |-> "path", path |-> path, enabled |-> TRUE, registry |-> registry, origins |-> origins,
   token |-> token]
HostRow(host) ==
  [mode |-> "host", host |-> host, enabled |-> TRUE, registry |-> FALSE, origins |-> {"o2"},
   token |-> Nowhere]
MCRows ==
  {PathRow(<<"a">>, FALSE, {"o1"}, Nowhere), PathRow(<<"a", "b">>, TRUE, {"o1", "o2"}, Nowhere),
   PathRow(<<"m", "c">>, TRUE, {"o1", "o2"}, "o2"), PathRow(<<"help">>, FALSE, {"o1"}, Nowhere),
   PathRow(<<"metrics", "a">>, FALSE, {"o1"}, Nowhere), HostRow("h1")}
MCLayouts ==
  {[admin |-> <<"x">>, console |-> "h3", shared |-> "h2", base |-> <<"m">>],
   [admin |-> <<"a">>, console |-> "h2", shared |-> "h1", base |-> <<>>]}
MCProbes ==
  {<<>>, <<"a">>, <<"a", "b">>, <<"a", "b", "c">>, <<"m">>, <<"m", "c">>, <<"m", "a">>, <<"m", "x">>, <<"x">>,
   <<"metrics">>, <<"metrics", "a">>, <<"m", "metrics">>, <<"m", "c", "d">>, <<"m", "help", "a">>,
   <<"_mirror_auth", "d">>}

MCInit ==
  /\ focus \in {"proxy", "redirects", "health", "routes"}
  /\ ProxyInit /\ RedirectInit /\ HealthInit /\ RoutesInit
  /\ operations = 0
  /\ focus # "routes" => layout = CHOOSE l \in Layouts : TRUE

MCNext ==
  /\ \/ /\ focus = "proxy" /\ ProxyNext
        /\ UNCHANGED <<redirectVars, healthVars, routesVars>>
     \/ /\ focus = "redirects" /\ RedirectNext
        /\ UNCHANGED <<proxyVars, healthVars, routesVars>>
     \/ /\ focus = "health" /\ HealthNext
        /\ operations' = IF Begins THEN operations + 1 ELSE operations
        /\ operations' <= MaxOperations
        /\ UNCHANGED <<proxyVars, redirectVars, routesVars>>
     \/ /\ focus = "routes" /\ RoutesNext
        /\ UNCHANGED <<proxyVars, redirectVars, healthVars>>
  /\ UNCHANGED focus /\ (focus # "health" => UNCHANGED operations)

MCSpec == MCInit /\ [][MCNext]_<<proxyVars, redirectVars, healthVars, routesVars, focus, operations>>

MCSymmetry == Permutations(Requests)
==============================================================================
