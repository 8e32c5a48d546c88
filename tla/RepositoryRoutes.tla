-------------------------- MODULE RepositoryRoutes --------------------------
(***************************************************************************)
(* Who answers a request: what the process answers itself on every host,   *)
(* then the routing snapshot of the registry with its host, path and       *)
(* base-path lookups; the conflict rules every save and every generated    *)
(* configuration obeys; and the token endpoint of a registry, which is     *)
(* learned from its challenges.  A path is a sequence of segments.         *)
(***************************************************************************)
EXTENDS Naturals, Sequences, FiniteSets, SequencesExt, FiniteSetsExt

CONSTANTS
  Ids,       \* repositories, numbers in the order of the table
  Rows,      \* what a repository may be configured as
  Layouts,   \* settings a start may find: admin path and host (console),
             \* shared host, base path
  Probes     \* paths that clients request

(* Ids begin at 1, and "elsewhere" is a host that no repository has and    *)
(* the administration neither.  NormalizeBasePath refuses some paths.      *)
ASSUME RoutesAssumption ==
  /\ Ids \subseteq Nat \ {0} /\ IsFiniteSet(Ids)
  /\ \A row \in Rows : \/ row.mode = "path" /\ row.path \in Seq(Range(row.path))
                       \/ row.mode = "host" /\ row.host # "elsewhere"
  /\ \A l \in Layouts : /\ l.admin \in Seq(Range(l.admin)) /\ l.base \in Seq(Range(l.base))
                        /\ l.base # <<>> => l.base[1] \notin {"_repo", "_mirrorrelay", "_mirror_auth"}
                        /\ l.console \notin {"elsewhere", l.shared}
  /\ \A p \in Probes : p \in Seq(Range(p))

VARIABLES
  layout,    \* the settings the process runs with
  desired,   \* the table of repositories
  routes,    \* Registry.value
  checked,   \* auxiliary: the settings routes was generated under
  learned,   \* Engine.tokenTargets
  asking,    \* a repository's row as a request in flight holds it
  asked      \* auxiliary: the token request of the last step

routesVars == <<layout, desired, routes, checked, learned, asking, asked>>

NoRow == [mode |-> "none"]
Nowhere == "nowhere"
Nobody == [id |-> 0, row |-> NoRow]
(* Paths no repository may take, with the administration path of the layout. *)
SystemPaths == {<<"healthz">>, <<"metrics">>, <<"_mirror_auth">>, <<"_mirrorrelay">>}
Reserved(l) == SystemPaths \cup {l.admin}

-----------------------------------------------------------------------------
RoutePathsOverlap(left, right) == IsPrefix(left, right) \/ IsPrefix(right, left)

PathRows(rows) == {i \in Ids : rows[i].mode = "path"}
HostRows(rows) == {i \in Ids : rows[i].mode = "host"}

(* The rules for a list of repositories, disabled ones included. *)
ValidateRouteConflicts(rows, l) ==
  /\ \A i, j \in HostRows(rows) : i # j => rows[i].host # rows[j].host
  /\ \A i \in HostRows(rows) : rows[i].host \notin {l.shared, l.console}
  /\ \A i \in PathRows(rows) : \A p \in Reserved(l) : ~RoutePathsOverlap(rows[i].path, p)
  /\ \A i, j \in PathRows(rows) : i > j => ~RoutePathsOverlap(rows[i].path, rows[j].path)

-----------------------------------------------------------------------------
(* The enabled path repositories at or above a path; the longest is taken, *)
(* the first in the table of two that are as long.                         *)
AtOrAbove(rows, path) == {i \in PathRows(rows) : rows[i].enabled /\ IsPrefix(rows[i].path, path)}
Longest(rows, found) ==
  CHOOSE i \in found : \A j \in found :
    \/ Len(rows[i].path) > Len(rows[j].path)
    \/ Len(rows[i].path) = Len(rows[j].path) /\ i <= j

(* A repository and what is left of the path below it. *)
Routed(i, rest) == [id |-> i, rest |-> rest]
Unrouted == Routed(0, <<>>)
Below(p, path) == SubSeq(path, Len(p) + 1, Len(path))

(* Mutant: the base path is not taken off. *)
Route_Whole(rows, base, host, path) ==
  LET here == AtOrAbove(rows, path)
  IN IF here # {} THEN Routed(Longest(rows, here), Below(rows[Longest(rows, here)].path, path)) ELSE Unrouted

(* Registry.Route: the host (the last row of the table that has it), then  *)
(* the path as it is, then the path below the base path.                   *)
Route(rows, base, host, path) ==
  LET named == {i \in HostRows(rows) : rows[i].host = host}
      Found(p) == LET i == Longest(rows, AtOrAbove(rows, p)) IN Routed(i, Below(rows[i].path, p))
      inside == base # <<>> /\ IsPrefix(base, path) /\ Len(path) > Len(base)
  IN IF named # {} /\ rows[Max(named)].enabled THEN Routed(Max(named), path)
     ELSE IF AtOrAbove(rows, path) # {} THEN Found(path)
     ELSE IF inside /\ AtOrAbove(rows, Below(base, path)) # {} THEN Found(Below(base, path))
     ELSE Unrouted

-----------------------------------------------------------------------------
(* What the process answers itself, on every host.  An address with and    *)
(* without its last slash is one here.                                     *)

(* Config.Subpath: below the base path, unless it is already. *)
Subpath(l, path) == IF IsPrefix(l.base, path) THEN path ELSE l.base \o path
Roots(l) == {<<>>, l.base}

ClusterPaths ==
  {<<"api", "v1", "cluster">> \o p :
     p \in {<<"manifest">>, <<"health">>, <<"sync", "apply">>, <<"sync", "purge">>}}

(* isAdminPath: also with an administration host, where it is "not found". *)
IsAdminPath(l, path) ==
  \/ \E b \in Roots(l) : path \in {b \o <<"healthz">>, b \o <<"metrics">>}
  \/ IsPrefix(l.admin, path) \/ IsPrefix(Subpath(l, l.admin), path)

(* publicHandler: the help pages, the style sheet and the icons. *)
IsPage(l, path) ==
  \E b \in Roots(l) : \/ IsPrefix(b \o <<"help">>, path) \/ IsPrefix(b \o <<"ui", "icons">>, path)
                      \/ path = b \o <<"ui", "custom.css">>

(* resolveRequestRoute: auxiliary resources, and tokens of a repository    *)
(* ("id" is a number).                                                     *)
IsEndpoint(l, path) ==
  \E b \in Roots(l) : \/ IsPrefix(b \o <<"_mirrorrelay", "upstream">>, path)
                      \/ IsPrefix(b \o <<"_mirror_auth", "id">>, path)

AnswersItself(l, path) ==
  path \in ClusterPaths \/ IsAdminPath(l, path) \/ IsPage(l, path) \/ IsEndpoint(l, path)

(* The index of the repositories, on a host that none of them has. *)
IsIndex(rows, l, host, path) ==
  path \in Roots(l) /\ ~\E i \in HostRows(rows) : rows[i].enabled /\ rows[i].host = host

(* Handler, publicHandler and resolveRequestRoute: who has a request. *)
Dispatch(rows, l, host, path) ==
  IF host = l.console \/ AnswersItself(l, path) \/ IsIndex(rows, l, host, path)
  THEN Unrouted ELSE Route(rows, l.base, host, path)

-----------------------------------------------------------------------------
(* Generate checks the rules again before anything is activated, and the   *)
(* activation may fail: the snapshot then stays (NginxController).         *)
Activate(rows, l) ==
  \/ ValidateRouteConflicts(rows, l) /\ routes' = rows /\ checked' = l
  \/ UNCHANGED <<routes, checked>>

(* Create or update of a repository. *)
SaveRepository(i, row) ==
  LET proposed == [desired EXCEPT ![i] = row]
  IN /\ ValidateRouteConflicts(proposed, layout)
     /\ desired' = proposed
     /\ Activate(proposed, layout)
     /\ asked' = Nobody
     /\ UNCHANGED <<layout, learned, asking>>

(* Delete: what remains is validated like a save. *)
DeleteRepository(i) ==
  /\ desired[i] # NoRow
  /\ desired' = [desired EXCEPT ![i] = NoRow]
  /\ ValidateRouteConflicts(desired', layout)
  /\ Activate(desired', layout)
  /\ asked' = Nobody
  /\ UNCHANGED <<layout, learned, asking>>

(* The scheduled refresh. *)
RefreshRoutes ==
  /\ Activate(desired, layout)
  /\ asked' = Nobody
  /\ UNCHANGED <<layout, desired, learned, asking>>

(* A restart with other settings: the desired repositories, or, when they  *)
(* are refused, the last active ones.  The token targets are lost.         *)
RestartWith(l) ==
  /\ layout' = l
  /\ Activate(desired, l)
  /\ learned' = [i \in Ids |-> Nowhere] /\ asking' = Nobody /\ asked' = Nobody
  /\ UNCHANGED desired

-----------------------------------------------------------------------------
(* An enabled registry in full_proxy mode. *)
ServesTokens(i) == routes[i] # NoRow /\ routes[i].enabled /\ routes[i].registry

(* A request to a registry is routed; the row it holds may be replaced     *)
(* before the answer comes.                                                *)
AskRegistry(i) ==
  /\ asking = Nobody /\ ServesTokens(i)
  /\ asking' = [id |-> i, row |-> routes[i]] /\ asked' = Nobody
  /\ UNCHANGED <<layout, desired, routes, checked, learned>>

(* rewriteBearerChallenges: a realm of an allowed origin is remembered, or *)
(* the configured token endpoint in its place; another one is an error.    *)
Challenge(realm) ==
  /\ asking # Nobody
  /\ LET row == asking.row
         target == IF row.token # Nowhere THEN row.token ELSE realm
     IN learned' = IF realm \in row.origins THEN [learned EXCEPT ![asking.id] = target] ELSE learned
  /\ asking' = Nobody /\ asked' = Nobody
  /\ UNCHANGED <<layout, desired, routes, checked>>

(* tokenTarget: the configured one, else the learned one; in either case   *)
(* of an origin the repository allows now.                                 *)
TokenTarget(i) ==
  LET target == IF routes[i].token # Nowhere THEN routes[i].token ELSE learned[i]
  IN IF target \in routes[i].origins THEN target ELSE Nowhere

(* A client asks for a token; without a target it is refused. *)
AskToken(i) ==
  /\ ServesTokens(i) /\ TokenTarget(i) # Nowhere
  /\ asked' = [id |-> i, row |-> routes[i], target |-> TokenTarget(i)]
  /\ UNCHANGED <<layout, desired, routes, checked, learned, asking>>

RoutesInit ==
  /\ layout \in Layouts /\ checked = layout
  /\ desired = [i \in Ids |-> NoRow] /\ routes = desired
  /\ learned = [i \in Ids |-> Nowhere]
  /\ asking = Nobody /\ asked = Nobody

RoutesNext ==
  \/ \E i \in Ids : \/ \E row \in Rows : SaveRepository(i, row)
                    \/ DeleteRepository(i) \/ AskRegistry(i) \/ AskToken(i)
  \/ RefreshRoutes
  \/ \E l \in Layouts : RestartWith(l)
  \/ \E row \in Rows : \E realm \in row.origins : Challenge(realm)

RoutesSpec == RoutesInit /\ [][RoutesNext]_routesVars

-----------------------------------------------------------------------------
(* Whatever was saved, deleted and activated, at most one enabled          *)
(* repository lies at or above a path and one has a host, so that the      *)
(* answer of Route does not depend on the order of the table; also of the  *)
(* configuration a restart recovered (registry.go, "len(root) >").         *)
RoutesUnambiguous ==
  /\ \A i, j \in PathRows(routes) : i # j =>
       ~\E path \in Probes : {i, j} \subseteq AtOrAbove(routes, path)
  /\ \A i, j \in HostRows(routes) : i # j => routes[i].host # routes[j].host

(* On the shared host no path repository takes what the rules reserve,     *)
(* although the snapshot may have been made under other settings (the      *)
(* rules keep it from the fixed paths, the dispatch from the present       *)
(* administration), unless the base path is such a path (/metrics may be); *)
(* nor what is reserved below the base path, unless its own path lies at,  *)
(* above or below the base path.  And with a snapshot of these settings no *)
(* repository has the shared host itself (ValidateRouteConflicts, Handler, *)
(* Registry.Route).                                                        *)
ReservedUnrouted ==
  LET Taken(i, p) == Dispatch(routes, layout, layout.shared, p).id = i
  IN /\ \A i \in HostRows(routes), p \in Probes : checked = layout => ~Taken(i, p)
     /\ \A i \in PathRows(routes), p \in Probes, q \in Reserved(layout) :
          IsPrefix(q, p) => ~Taken(i, p) \/ IsPrefix(q, layout.base)
     /\ \A i \in PathRows(routes), p \in Probes, q \in SystemPaths :
          IsPrefix(layout.base \o q, p) =>
            ~Taken(i, p) \/ RoutePathsOverlap(routes[i].path, layout.base)

(* What keeps requests for the address of a path repository from it: its   *)
(* or another one's own path that continues the base path or lies above    *)
(* it; a page of the process, which no rule refuses; with a base path,     *)
(* what the process serves there when the path or the administration       *)
(* begins with the base path itself; an administration path newer than     *)
(* the snapshot.                                                           *)
Hidden(i, address) ==
  \/ \E j \in AtOrAbove(routes, address) : j # i \/ routes[j].path # address
  \/ IsPage(layout, address) \/ address \in ClusterPaths
  \/ /\ layout.base # <<>>
     /\ AnswersItself(layout, address) \/ address = layout.base
     /\ IsPrefix(layout.base, routes[i].path) \/ IsPrefix(layout.admin, address)
  \/ checked # layout /\ \E q \in {layout.admin, Subpath(layout, layout.admin)} : IsPrefix(q, address)

(* The public address of an enabled repository, the one the index and the  *)
(* Nginx integration give, reaches it and its root, below the base path or *)
(* not, unless it is hidden; every other address of its own host reaches   *)
(* it too, unless that became the administration's host.                   *)
PublicAddressReaches ==
  \A i \in Ids : routes[i] # NoRow /\ routes[i].enabled =>
    IF routes[i].mode = "host"
    THEN \A p \in Probes : ~AnswersItself(layout, p) =>
           \/ Dispatch(routes, layout, routes[i].host, p) = Routed(i, p)
           \/ checked # layout /\ routes[i].host = layout.console
    ELSE LET address == Subpath(layout, routes[i].path)
         IN \/ Dispatch(routes, layout, "elsewhere", address) = Routed(i, <<>>)
            \/ Hidden(i, address)

(* The credentials of a token request go to an origin that the repository, *)
(* as it is configured when they go, allows, and to the configured token   *)
(* endpoint where there is one, although the target may have been learned  *)
(* by a request that was routed under an earlier configuration.            *)
TokensGoToConfigured ==
  asked # Nobody =>
    /\ asked.target \in asked.row.origins
    /\ asked.row.token # Nowhere => asked.target = asked.row.token

(* Requests reach the repository their address names and no other place:   *)
(* for every history of saves, deletions, refreshes and restarts.          *)
RoutesSound ==
  RoutesUnambiguous /\ ReservedUnrouted /\ PublicAddressReaches /\ TokensGoToConfigured

(* Not met: every repository the rules accept is reached at its address.   *)
(* One at /help/ is accepted, and the help pages answer.                   *)
AcceptedIsReached ==
  checked = layout =>
    \A i \in PathRows(routes) : routes[i].enabled =>
      Dispatch(routes, layout, "elsewhere", Subpath(layout, routes[i].path)).id = i
=============================================================================
