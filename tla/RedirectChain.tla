---------------------------- MODULE RedirectChain ----------------------------
(***************************************************************************)
(* One proxied request and the redirects the transport follows for it:     *)
(* roundTrip, followRedirects, the package policy of the repository and    *)
(* the credentials of the client.  What the origins answer, and where they *)
(* redirect to, is arbitrary.  A URL is an origin and a path, a path is a  *)
(* sequence of segments, and so is a rule of the package policy.           *)
(***************************************************************************)
EXTENDS Naturals, Sequences, SequencesExt

CONSTANTS
  Targets,          \* URLs that occur in routes and redirects
  Bases,            \* effective base URLs of the upstreams
  RewriteOrigins,   \* token_upstream and rewrite_hosts
  BlockedPackages, AllowedPackages,  \* the rules of the repository
  MaxHops           \* redirect.max_hops

(* compilePackagePatterns refuses an empty rule. *)
ASSUME RedirectAssumption ==
  /\ MaxHops \in Nat
  /\ \A url \in Targets \cup Bases : url.path \in Seq(Range(url.path))
  /\ \A rule \in BlockedPackages : rule \in Seq(Range(rule)) /\ rule # <<>>

VARIABLES
  leg,      \* "start", "send", "answer", "ended"
  kind,     \* the route: a repository object, an auxiliary resource beside the
            \* bases, an adapter target, a token target
  bases,    \* meta.repository.Upstreams, as effective base URLs
  at,       \* meta.logicalURL
  home,     \* meta.credentialOrigin
  carries,  \* the request the next hop is derived from has the credentials
  hop, visited,
  fetched   \* auxiliary: what went out, in order: the URL, with credentials or not

redirectVars == <<leg, kind, bases, at, home, carries, hop, visited, fetched>>

NoURL == [origin |-> "none", path |-> <<>>]

(* matchPackagePattern: a rule names a base name or a whole path. *)
Matches(rule, path) == path # <<>> /\ (rule = path \/ rule = <<Last(path)>>)
(* isPackageBlocked. *)
Blocked(path) ==
  \/ \E rule \in BlockedPackages : Matches(rule, path)
  \/ AllowedPackages # {} /\ ~\E rule \in AllowedPackages : Matches(rule, path)

(* The path of the base, with a slash, is a prefix: a URL is below a base, *)
(* never the base itself.                                                  *)
BasesOf(url, own) == {b \in own : b.origin = url.origin /\ IsStrictPrefix(b.path, url.path)}
Relative(b, url) == SubSeq(url.path, Len(b.path) + 1, Len(url.path))

(* validateRepositoryTarget: the name under every base of the repository   *)
(* that covers the URL, the whole path when none does.                     *)
ValidateRepositoryTarget(url, own) ==
  IF BasesOf(url, own) = {} THEN ~Blocked(url.path)
  ELSE \A b \in BasesOf(url, own) : ~Blocked(Relative(b, url))

(* Token exchange is exempt from the package rules. *)
Permitted(url) == kind = "token" \/ ValidateRepositoryTarget(url, bases)

(* isAllowedRewriteOrigin. *)
AllowedOrigin(url, own) == url.origin \in {b.origin : b \in own} \cup RewriteOrigins

-----------------------------------------------------------------------------
(* The upstreams a route leaves in the repository: resolveRequestRoute     *)
(* narrows them to the one an auxiliary URL was signed for.                *)
BasesFor(route, b) == IF route = "auxiliary" THEN {b} ELSE Bases

(* What a route may ask for: an object below the active base, a resource   *)
(* of its origin that is not below it (mapBrowsableURL signs no other), an *)
(* adapter or token target of an allowed origin.                           *)
Routable(route, b, url) ==
  CASE route = "object"    -> b \in BasesOf(url, Bases)
    [] route = "auxiliary" -> url.origin = b.origin /\ ~IsPrefix(b.path, url.path)
    [] OTHER               -> AllowedOrigin(url, Bases)

(* ServeHTTP.  The credentials belong to the origin of the active          *)
(* upstream, those of a token request to the target.                       *)
StartRequest ==
  /\ leg = "start"
  /\ kind' \in {"object", "auxiliary", "adapter", "token"}
  /\ \E url \in Targets, b \in Bases :
       /\ Routable(kind', b, url)
       /\ bases' = BasesFor(kind', b)
       /\ kind' # "token" => ValidateRepositoryTarget(url, bases')
       /\ at' = url /\ visited' = {url}
       /\ home' = IF kind' = "token" THEN url.origin ELSE b.origin
  /\ carries' \in BOOLEAN
  /\ leg' = "send"
  /\ UNCHANGED <<hop, fetched>>

(* roundTrip removes the credentials for a target away from their origin.  *)
SentCredentials == carries /\ at.origin = home

SendRequest ==
  /\ leg = "send" /\ Permitted(at)
  /\ fetched' = Append(fetched, [url |-> at, credentials |-> SentCredentials])
  /\ leg' = "answer"
  /\ UNCHANGED <<kind, bases, at, home, carries, hop, visited>>

(* Mutant: every hop is derived from the request of the client. *)
NextRedirectRequest_Original(target) == carries' = carries

(* nextRedirectRequest: a hop is derived from the one before it. *)
NextRedirectRequest(target) == carries' = (carries /\ at.origin = target.origin)

WithinHops == hop < MaxHops

Followable(target) ==
  WithinHops /\ Permitted(target) /\ AllowedOrigin(target, bases) /\ target \notin visited

FollowRedirect ==
  /\ leg = "answer"
  /\ \E target \in Targets :
       /\ Followable(target)
       /\ NextRedirectRequest(target)
       /\ at' = target /\ visited' = visited \cup {target}
  /\ hop' = hop + 1 /\ leg' = "send"
  /\ UNCHANGED <<kind, bases, home, fetched>>

(* The limit, the policy, the origin or a loop: an error for the client.   *)
RefuseRedirect ==
  /\ leg = "answer"
  /\ \E target \in Targets : ~Followable(target)
  /\ leg' = "ended"
  /\ UNCHANGED <<kind, bases, at, home, carries, hop, visited, fetched>>

(* Any other answer, a redirect without a location, or no answer. *)
EndChain ==
  /\ leg = "answer"
  /\ leg' = "ended"
  /\ UNCHANGED <<kind, bases, at, home, carries, hop, visited, fetched>>

RedirectInit ==
  /\ leg = "start" /\ kind = "object" /\ bases = Bases /\ at = NoURL /\ home = "none" /\ carries = FALSE
  /\ hop = 0 /\ visited = {} /\ fetched = <<>>

RedirectNext == StartRequest \/ SendRequest \/ FollowRedirect \/ RefuseRedirect \/ EndChain

RedirectSpec == RedirectInit /\ [][RedirectNext]_redirectVars

-----------------------------------------------------------------------------
(* The client's credentials go to their own origin only, and a chain that  *)
(* left it never gets them back, even when it returns (roundTrip and       *)
(* nextRedirectRequest).                                                   *)
CredentialsStayHome ==
  \A i \in DOMAIN fetched : fetched[i].credentials =>
    \A j \in 1..i : fetched[j].url.origin = home

UnnamedUnder(own) ==
  kind # "token" =>
    \A i \in DOMAIN fetched :
      /\ fetched[i].url.path # <<>> => <<Last(fetched[i].url.path)>> \notin BlockedPackages
      /\ \A b \in own, rule \in BlockedPackages :
           fetched[i].url # [origin |-> b.origin, path |-> b.path \o rule]

(* Nothing that a rule of the repository names is fetched, wherever in the *)
(* chain it comes up and however the bases overlap: not a base name, and   *)
(* not a path under some upstream.  For an auxiliary resource the upstream *)
(* is the one it was signed for only, so that a name under another base is *)
(* fetched there (validateRepositoryTarget, resolveRequestRoute).          *)
BlockedNeverFetched == UnnamedUnder(bases)

(* One request makes at most one fetch more than it may follow redirects,  *)
(* and none twice (followRedirects).                                       *)
ChainIsBounded ==
  Len(fetched) <= MaxHops + 1 /\ \A i, j \in DOMAIN fetched : i # j => fetched[i] # fetched[j]

(* However the origins redirect, the policy of the first request holds for *)
(* the whole chain: credentials, package rules, number of hops.            *)
RedirectsKeepPolicy == CredentialsStayHome /\ BlockedNeverFetched /\ ChainIsBounded

(* Of every request: overlapping upstream bases do not let a more specific *)
(* base strip a directory that a blocking rule covers.                     *)
BlockedUnderEveryBase == UnnamedUnder(Bases)
==============================================================================
