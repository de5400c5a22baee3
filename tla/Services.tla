------------------------------ MODULE Services ------------------------------
(***************************************************************************)
(* What one run of the program publishes, as a function of what the stack   *)
(* configures: the services it deploys, the Traefik routes and A records     *)
(* that lead to them, the OAuth clients the login provider is told of, and    *)
(* which pod may call which.                                                *)
(*                                                                          *)
(* A configuration c has                                                    *)
(*   hostnames : from the names of services to where they are published      *)
(*   zones     : the zones whose records the stack makes                     *)
(*   github    : whether GitHub's OAuth app is configured                    *)
(*   apns, transmet, suffix, nodes : whether the push key, the reader's      *)
(*               secrets, the tailnet's suffix and an entry are there        *)
(*   cdn       : {} or the name a CDN fronts                                 *)
(*                                                                          *)
(* A hostname is the sequence of its labels, and a path that of its segments *)
(* ("/" is <<"">>), so that a zone is a suffix and a prefix a prefix. Charts  *)
(* from other repositories appear by what services.ts hands them and takes    *)
(* back.                                                                     *)
(***************************************************************************)
EXTENDS Naturals, Sequences

(***************************** Services and clients ************************)

When(condition, s) == IF condition THEN s ELSE {}

Sites == {"files", "blit", "groglog", "koan-site", "sbr-site"}

Has(c, n) == n \in DOMAIN c.hostnames

\* What stands. The rest of the stack asks the same questions of c.
HasHydra(c)    == Has(c, "mcp-gateway") /\ Has(c, "auth")
HasAuth(c)     == Has(c, "auth") /\ c.github
HasRelay(c)    == Has(c, "koan-push-relay") /\ c.apns
HasTransmet(c) == Has(c, "transmet") /\ c.transmet
HasWriter(c, n) == Has(c, n) /\ Has(c, "auth")
HasGrafana(c)  == Has(c, "metrics") /\ Has(c, "auth")
HasProfiles(c) == Has(c, "singbox-profiles") /\ c.nodes /\ c.suffix

\* A route over the whole of a host.
Bare(service, hostname) ==
  [service |-> service, name |-> service, hostname |-> hostname, paths |-> {},
   priority |-> 0, middlewares |-> {}, redirect |-> TRUE]

\* One secret per client, named for it and kept in state.
OidcSecret(id) == <<id, "oidc">>

Client(id, hostname, callback) == [id |-> id, redirect |-> [host |-> hostname, path |-> callback]]

\* What a constructor hands back, with the secret it was handed.
Deployed(service, routes, oidc, secret) ==
  [service |-> service, routes |-> routes, oidc |-> oidc, secret |-> secret]

At(c, n) == When(Has(c, n), {Bare(n, c.hostnames[n])})

Site(c, n) == Deployed(n, At(c, n), {}, {})

Koan(c) == When(Has(c, "koan"), {Site(c, "koan")})

KoanDemo(c) == When(Has(c, "koan-demo"), {Site(c, "koan-demo")})

\* Floods stop at Traefik: each of the relay's routes carries both limits.
PushRelay(c) ==
  When(HasRelay(c),
       {Deployed("koan-push-relay",
                 {[r EXCEPT !.middlewares = {"koan-push-relay-rate", "koan-push-relay-in-flight"}] :
                    r \in At(c, "koan-push-relay")}, {}, {})})

Tubele(c) == When(Has(c, "tubele"), {Site(c, "tubele")})

\* A relying party whose client is always asked for: our own callback path.
RelyingParty(c, n) ==
  Deployed(n, At(c, n), {Client(n, c.hostnames[n], <<"auth", "callback">>)}, {OidcSecret(n)})

\* Hydra comes with the gateway, and its bare host is the provider's.
Gateway(c) ==
  When(HasHydra(c),
       {[RelyingParty(c, "mcp-gateway") EXCEPT
           !.routes = @ \cup {Bare("mcp-gateway-hydra", c.hostnames["auth"])}]})

Mariastew(c) == When(HasWriter(c, "mariastew"), {RelyingParty(c, "mariastew")})

Slsk(c) == When(HasWriter(c, "slsk"), {RelyingParty(c, "slsk")})

\* The reader has a password: sign-on is added when there is a provider.
Transmet(c) ==
  When(HasTransmet(c),
       {IF Has(c, "auth") THEN RelyingParty(c, "transmet") ELSE Site(c, "transmet")})

\* The store is always there; Grafana is built and published with a provider.
Metrics(c) ==
  When(HasGrafana(c),
       {Deployed("grafana", {Bare("grafana", c.hostnames["metrics"])},
                 {Client("metrics", c.hostnames["metrics"], <<"login", "generic_oauth">>)},
                 {OidcSecret("metrics")})})

ProfileServer(c) == When(HasProfiles(c), {Site(c, "singbox-profiles")})

CreateServices(c) ==
  UNION {{Site(c, n) : n \in Sites}, Koan(c), KoanDemo(c), PushRelay(c), Tubele(c), Gateway(c),
         Mariastew(c), Transmet(c), Slsk(c), Metrics(c), ProfileServer(c)}

Registrations(c) ==
  UNION {{[id |-> o.id, redirect |-> o.redirect, secret |-> s] : o \in d.oidc, s \in d.secret} :
           d \in CreateServices(c)}

\* What the provider is told of when it starts.
FirstPartyClients(c) ==
  When(HasAuth(c),
       {[id |-> r.id, secret |-> r.secret, redirects |-> {r.redirect}] : r \in Registrations(c)})

(********************************** Routes **********************************)

Exact(path)   == [kind |-> "exact", of |-> path]
Prefix(path)  == [kind |-> "prefix", of |-> path]

\* A prefix that ends in a slash is a prefix of segments.
Matches(rule, path) ==
  \/ rule.kind = "exact" /\ path = rule.of
  \/ rule.kind = "prefix" /\ Len(path) > Len(rule.of) /\ SubSeq(path, 1, Len(rule.of)) = rule.of

AuthRoutes == {Prefix(<<"auth">>), Prefix(<<"assets">>), Exact(<<"">>), Exact(<<"healthz">>)}

RegistrationRoute == Exact(<<"register">>)

\* Registration apart, so that it can be limited: Hydra's redirect covers it.
ProviderRoutes(c) ==
  When(HasAuth(c),
       {[Bare("auth", c.hostnames["auth"]) EXCEPT !.paths = AuthRoutes, !.priority = 100],
        [Bare("auth", c.hostnames["auth"]) EXCEPT
           !.name = "auth-register", !.paths = {RegistrationRoute}, !.priority = 100,
           !.middlewares = {"auth-register-rate"}, !.redirect = FALSE]})

\* One exact path of Hydra's host, rewritten to another and ahead of both.
PathAlias(c) ==
  When(HasHydra(c),
       {[Bare("mcp-gateway-hydra", c.hostnames["auth"]) EXCEPT
           !.name = "oauth-as-metadata", !.paths = {Exact(<<".well-known", "oauth-authorization-server">>)},
           !.priority = 200, !.middlewares = {"oauth-as-metadata-rewrite"}, !.redirect = FALSE]})

\* The CDN's own name, on a path nobody is told: refused at a service's name.
CdnRoute(c) ==
  {[Bare("xray-xhttp", h) EXCEPT !.paths = {Prefix(<<"secret">>)}] : h \in c.cdn}

AllRoutes(c) ==
  UNION {d.routes : d \in CreateServices(c)} \cup ProviderRoutes(c) \cup PathAlias(c) \cup CdnRoute(c)

\* Traefik takes the highest priority, a rule's length where none is stated:
\* a host of this stack's makes one far below 100.
RuleLength == 20

Priority(route) == IF route.priority = 0 THEN RuleLength ELSE route.priority

RouteMatch(route, hostname, path) ==
  /\ hostname = route.hostname
  /\ route.paths = {} \/ \E rule \in route.paths : Matches(rule, path)

Preferred(routes, hostname, path) ==
  LET matching == {r \in routes : RouteMatch(r, hostname, path)}
  IN  {r \in matching : \A s \in matching : Priority(s) <= Priority(r)}

\* Who answers over https, and who sends a plain request there.
Answering(c, hostname, path) == Preferred(AllRoutes(c), hostname, path)

Redirecting(c, hostname, path) ==
  Preferred({r \in AllRoutes(c) : r.redirect}, hostname, path)

(********************************** Records *********************************)

\* Two labels, whatever the zone has.
ZoneFor(zones, hostname) ==
  {z \in zones : z = SubSeq(hostname, Len(hostname) - 1, Len(hostname))}

\* "@" at the apex.
RecordName(hostname) == IF Len(hostname) = 2 THEN <<"@">> ELSE SubSeq(hostname, 1, Len(hostname) - 2)

ServiceRecord(zone, hostname, proxied) ==
  [of |-> hostname, zone |-> zone, name |-> RecordName(hostname), proxied |-> proxied]

\* One for each hostname the routes share, where its zone is one of ours.
Records(c) ==
  LET hosts == {r.hostname : r \in AllRoutes(c) \ CdnRoute(c)}
  IN  UNION {{ServiceRecord(z, h, FALSE) : z \in ZoneFor(c.zones, h)} : h \in hosts}
      \cup UNION {{ServiceRecord(z, h, TRUE) : z \in ZoneFor(c.zones, h)} : h \in c.cdn}

\* The CDN's name must be its own and in a zone that can proxy it.
CdnRefused(c) ==
  \E h \in c.cdn : (\E n \in DOMAIN c.hostnames : c.hostnames[n] = h) \/ ZoneFor(c.zones, h) = {}

(***************************** Who may call whom ****************************)

\* Pods that send nothing but to the internet and the cluster's resolver.
ConfinedSites == Sites

ConfinedDemo(c) == {d.service : d \in KoanDemo(c)}

Admit(to, port, from) == [to |-> to, port |-> port, from |-> from]

\* The callers beside the gateway itself that the package is told to admit.
HydraCallers(c) ==
  {Admit("mcp-gateway-hydra", "admin", {"auth", "mcp-gateway"}),
   Admit("mcp-gateway-hydra", "public",
         {"traefik", "mcp-gateway"} \cup {n \in {"transmet"} : HasTransmet(c) /\ Has(c, "auth")})}

FilesPolicy == {Admit("files", "http", {"traefik"})}

StorePolicy == {Admit("vmsingle", "http", {"vmagent", "grafana"})}

RedisPolicy(c) == When(HasAuth(c), {Admit("auth-redis", "redis", {"auth"})})

Policies(c) == FilesPolicy \cup StorePolicy \cup RedisPolicy(c) \cup When(HasHydra(c), HydraCallers(c))

\* No pod reaches the port on which Traefik believes who the caller is.
ProxyPort(to, port) == to = "traefik" /\ port = "proxy"

\* A policy admits only whom it names, and a pod without one admits anybody.
Reaches(c, from, to, port) ==
  /\ from \notin ConfinedSites \cup ConfinedDemo(c)
  /\ ~ProxyPort(to, port)
  /\ (\E p \in Policies(c) : p.to = to)
       => \E p \in Policies(c) : p.to = to /\ p.port = port /\ from \in p.from

Call(from, to, port) == [from |-> from, to |-> to, port |-> port]

\* The backends of the routes, and the addresses services are started with.
RouteCalls(c) ==
  {Call("traefik", r.service, IF r.service = "mcp-gateway-hydra" THEN "public" ELSE "http") :
     r \in AllRoutes(c) \ CdnRoute(c)}

AuthCalls(c) ==
  When(HasAuth(c), {Call("auth", "auth-redis", "redis"), Call("auth", "mcp-gateway-hydra", "admin")})

StoreCalls(c) == {Call("vmagent", "vmsingle", "http")}
                 \cup When(HasGrafana(c), {Call("grafana", "vmsingle", "http")})

Backchannel(c) ==
  When(HasTransmet(c) /\ Has(c, "auth"), {Call("transmet", "mcp-gateway-hydra", "public")})

\* The gateway's one row that names a pod it does not bring itself.
GatewayCalls(c) == When(HasHydra(c), {Call("mcp-gateway", "slsk", "internal")})

Calls(c) == RouteCalls(c) \cup AuthCalls(c) \cup StoreCalls(c) \cup Backchannel(c) \cup GatewayCalls(c)

\* The pods behind the Services that the routes and the calls name.
Standing(c) ==
  {d.service : d \in CreateServices(c)} \cup {"vmsingle", "vmagent"}
  \cup When(HasHydra(c), {"mcp-gateway-hydra"})
  \cup When(HasAuth(c), {"auth", "auth-redis"})
=============================================================================
