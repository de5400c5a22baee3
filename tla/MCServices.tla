----------------------------- MODULE MCServices -----------------------------
(***************************************************************************)
(* What services.ts and main.ts publish, looked at over every combination of *)
(* the names and secrets that other parts of the stack ask about. The rest    *)
(* of the names are there together or not at all.                            *)
(***************************************************************************)
EXTENDS Services, FiniteSets

AllNames ==
  [n \in Sites \cup {"auth", "mcp-gateway", "koan", "koan-demo", "koan-push-relay", "tubele", "mariastew",
                     "slsk", "transmet", "metrics", "singbox-profiles"} |->
     CASE n = "blit"     -> <<"blit", "cc">>
       [] n = "files"    -> <<"files", "radiosilence", "dev">>
       [] n = "sbr-site" -> <<"sbr", "example", "co", "uk">>
       [] OTHER          -> <<n, "blit", "cc">>]

Zones == {<<"blit", "cc">>, <<"radiosilence", "dev">>, <<"example", "co", "uk">>}

\* The names something else depends on; the others are there with what they need,
\* without it, or not at all.
Asked == {"auth", "mcp-gateway", "slsk", "transmet"}

Configurations ==
  {[hostnames |-> [n \in asked \cup others[1] |-> AllNames[n]], zones |-> Zones, github |-> g,
    transmet |-> s, apns |-> others[2], nodes |-> others[2], suffix |-> others[2],
    cdn |-> IF others[2] THEN {<<"cdn", "blit", "cc">>} ELSE {}] :
     asked \in SUBSET Asked, g \in BOOLEAN, s \in BOOLEAN,
     others \in {<<{}, FALSE>>, <<DOMAIN AllNames \ Asked, FALSE>>, <<DOMAIN AllNames \ Asked, TRUE>>}}

\* Where the CDN's name is refused: a service's own, or in a zone of nobody's.
RefusedCdn == {{<<"blit", "cc">>}, {<<"cdn", "nowhere", "org">>}, {<<"cdn", "example", "co", "uk">>}}

Complete(c) == HasHydra(c) /\ HasAuth(c)

\* The login provider's router in main.rs, and what Hydra serves on that host.
AuthServes ==
  {<<"">>, <<"healthz">>, <<"assets", "app.css">>, <<"auth", "login">>,
   <<"auth", "github", "callback">>, <<"auth", "consent">>}

HydraServes == {<<"oauth2", "auth">>, <<"userinfo">>, <<".well-known", "openid-configuration">>}

Alias == <<".well-known", "oauth-authorization-server">>

Paths == AuthServes \cup HydraServes \cup {Alias, <<"register">>, <<"secret", "stream">>,
                                            <<"auth", "callback">>, <<"login", "generic_oauth">>}

Hosts(c) == {r.hostname : r \in AllRoutes(c)}

\* Whatever is configured, a service that signs people in is registered with the
\* secret it was handed, for one address only, where that same service answers.
ASSUME ClientsMeetTheirServices ==
  \A c \in Configurations : \A d \in CreateServices(c) : \A o \in d.oidc :
    /\ \A r \in Answering(c, o.redirect.host, o.redirect.path) : r.service = d.service
    /\ Answering(c, o.redirect.host, o.redirect.path) # {}
    /\ HasAuth(c) => {f \in FirstPartyClients(c) : f.id = o.id \/ f.secret \in d.secret}
                       = {[id |-> o.id, secret |-> s, redirects |-> {o.redirect}] : s \in d.secret}

\* No two routes of the stack have one name, and no request finds two answers of
\* the same priority, over https or before the redirect to it.
ASSUME OneAnswer ==
  \A c \in Configurations :
    /\ \A r, s \in AllRoutes(c) : r.name = s.name => r = s
    /\ \A h \in Hosts(c), p \in Paths :
         Cardinality(Answering(c, h, p)) <= 1 /\ Cardinality(Redirecting(c, h, p)) <= 1

\* The provider and Hydra share a host: each path the provider serves is its
\* own, registration only under its limit, and everything else is Hydra's.
ASSUME HostIsShared ==
  \A c \in {d \in Configurations : Complete(d)} :
    LET host == c.hostnames["auth"]
    IN  /\ \A p \in AuthServes : {r.service : r \in Answering(c, host, p)} = {"auth"}
        /\ {<<r.service, r.middlewares>> : r \in Answering(c, host, <<"register">>)}
             = {<<"auth", {"auth-register-rate"}>>}
        /\ \A p \in HydraServes \cup {Alias} : {r.service : r \in Answering(c, host, p)} = {"mcp-gateway-hydra"}
        /\ {r.middlewares : r \in Answering(c, host, Alias)} = {{"oauth-as-metadata-rewrite"}}

\* Whatever is answered over https is sent there from http, unless the provider
\* stands without the gateway whose Hydra redirects for it.
ASSUME RedirectedToHttps ==
  \A c \in {d \in Configurations : HasAuth(d) => HasHydra(d)} : \A h \in Hosts(c), p \in Paths :
    Answering(c, h, p) # {} => Redirecting(c, h, p) # {}

\* A published host has one A record, under its own name, where its zone has two
\* labels, and none otherwise; only the CDN's is proxied, and it is its own.
ASSUME RecordsNameTheirHosts ==
  \A c \in Configurations :
    /\ \A h \in Hosts(c) :
         LET mine == {r \in Records(c) : r.of = h}
         IN  Cardinality(mine) = (IF h = AllNames["sbr-site"] THEN 0 ELSE 1)
    /\ \A r \in Records(c) :
         /\ r.of = (IF r.name = <<"@">> THEN <<>> ELSE r.name) \o r.zone
         /\ r.proxied <=> r.of \in c.cdn
    /\ ~CdnRefused(c)
    /\ "blit" \in DOMAIN c.hostnames => \A cdn \in RefusedCdn : CdnRefused([c EXCEPT !.cdn = cdn])

\* A pod can reach what it is configured to call, and it is there: but for a
\* provider without the gateway (whose Hydra it, and the reader, would call) and
\* the gateway's row for a Soulseek client that is not deployed.
ASSUME CallsAreAdmitted ==
  \A c \in Configurations : \A call \in Calls(c) :
    /\ Reaches(c, call.from, call.to, call.port)
    /\ \/ call.to \in Standing(c)
       \/ call.to = "mcp-gateway-hydra" /\ ~HasHydra(c)
       \/ call.to = "slsk" /\ ~Has(c, "slsk")

\* What authenticates nobody is reached by its own callers alone: Hydra's admin
\* port, the logins in flight, the metrics' store, and the port that believes
\* what it is told of the caller's address.
ASSUME UnauthenticatedAreFenced ==
  \A c \in Configurations :
    LET pods == Standing(c) \cup {"traefik", "samba"}
        callers(to, port) == {p \in pods : Reaches(c, p, to, port)}
    IN  /\ HasHydra(c) => callers("mcp-gateway-hydra", "admin") \subseteq {"auth", "mcp-gateway"}
        /\ HasAuth(c) => callers("auth-redis", "redis") = {"auth"}
        /\ callers("vmsingle", "http") \subseteq {"vmagent", "grafana"}
        /\ callers("traefik", "proxy") = {}
=============================================================================
