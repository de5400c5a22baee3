--------------------------------- MODULE Vpn ---------------------------------
(***************************************************************************)
(* The VPN of the gateway: the entries, resolver, exits and ingress as        *)
(* Kubernetes workloads, the profiles that are made of the same parameters,  *)
(* and the updates that change them.                                        *)
(*                                                                         *)
(* Pulumi writes a workload's Secret or ConfigMap and then its template,     *)
(* several workloads at once, waits for the pods, and deletes last what is   *)
(* no longer declared. Kubernetes replaces a pod whose template has changed. *)
(* A process reads its configuration when it starts. A workload's content    *)
(* is the parameters its configuration is made of; a credential is the       *)
(* number of the change that it was issued after. Edge nodes, which are no    *)
(* part of the cluster, are not here.                                       *)
(***************************************************************************)
EXTENDS Profiles

CONSTANTS
  User,       \* people of the roster
  Owner,      \* who has a deployment without a roster
  Exit,       \* names an exit may have
  Derived,    \* the port each name gives (deriveExitPort)
  Explicit,   \* ports a configuration may set
  Static,     \* workloads whose content is a text: unbound, traefik, samba
  MaxEdits,   \* bound: commits that change the stack
  MaxCuts     \* bound: updates cut short, and containers that restart

\* An exit's objects are named `exit-` and its name, which no other workload is. Two
\* of the profiles' tags are made that way as well, and no exit is named after them.
ASSUME VpnAssumption ==
  /\ Owner \notin User
  /\ Derived \in [Exit -> Nat \ {0}]
  /\ Explicit \subseteq Nat \ {0}
  /\ Static \subseteq {"unbound", "traefik", "samba"}
  /\ Exit \cap {"xray", "hysteria", "profiles", "unbound", "traefik", "samba", "cdn"} = {}
  /\ Exit \cap {"direct", "select"} = {}
  /\ MaxEdits \in Nat
  /\ MaxCuts \in Nat

VARIABLES
  conf,        \* the stack at main's head
  issued,      \* Pulumi: the credentials, and what each is kept by
  objects,     \* Kubernetes: Secrets and ConfigMaps, and what takes effect as written
  templates,   \* Kubernetes: the annotation of each workload's template
  labels,      \* Kubernetes: exits whose node is labelled
  pods,        \* Kubernetes: each workload's pods, running
  stackUpdate, \* the update in progress or last ended
  tables,      \* history: the tables that were ever served
  admins,      \* history: users who were ever admins
  confEdits, cuts

vars == <<conf, issued, objects, templates, labels, pods, stackUpdate, tables,
             admins, confEdits, cuts>>

Gateway == "primary"
Role == {"admin", "guest", "none"}

-----------------------------------------------------------------------------
(* What the stack declares. *)

\* Nobody on the roster: one implicit admin.
Roster(c) ==
  LET named == {u \in User : c.roles[u] # "none"}
  IN  IF named = {} THEN [u \in {Owner} |-> "admin"] ELSE [u \in named |-> c.roles[u]]

Users(c) == DOMAIN Roster(c)
With(c, role) == {u \in Users(c) : Roster(c)[u] = role}

Exits(c) == {e \in Exit : c.exits[e] # 0}

\* Two exits that share a port of the node, or a CDN hostname that is a service's
\* or of no zone, end the program.
ExitPortsClash(c) == \E e, f \in Exits(c) : e # f /\ c.exits[e] = c.exits[f]
CdnRefused(c) == c.cdn = "refused"
Refused(c) == ExitPortsClash(c) \/ CdnRefused(c)

\* The credentials, each with what it is kept by: a rotation reissues those of the
\* gateway, a new name the certificate, and nothing those of exits.
KeptBy(c, x) == CASE x[1] = "cert" -> c.sni [] x[1] = "psk" -> 0 [] OTHER -> c.rotation

Kept(c) ==
  [x \in {<<"reality">>, <<"obfs">>, <<"cert">>}
         \cup {<<"id", u>> : u \in Users(c)}
         \cup {<<"auth", u>> : u \in With(c, "admin")}
         \cup (IF c.cdn = "off" THEN {} ELSE {<<"path">>})
         \cup {<<"psk", e>> : e \in Exits(c)} |-> KeptBy(c, x)]

Issue(c) ==
  [x \in DOMAIN issued \cup DOMAIN Kept(c) |->
    IF x \in DOMAIN Kept(c) /\ (x \in DOMAIN issued => issued[x].by # Kept(c)[x])
    THEN [by |-> Kept(c)[x], stamp |-> confEdits + 1]
    ELSE issued[x]]

Stamp(x) == issued[x].stamp

\* createXray: the clients, the guests among them, the key, and the CDN's inbound.
XrayConfig(c) ==
  [ids    |-> [u \in Users(c) |-> Stamp(<<"id", u>>)],
   guests |-> With(c, "guest"),
   key    |-> Stamp(<<"reality">>),
   names  |-> {"own", "borrowed"},
   path   |-> IF c.cdn = "off" THEN 0 ELSE Stamp(<<"path">>)]

\* createHysteria: admins only, on every port.
HysteriaConfig(c) ==
  [auth  |-> [u \in With(c, "admin") |-> Stamp(<<"auth", u>>)],
   obfs  |-> Stamp(<<"obfs">>),
   cert  |-> Stamp(<<"cert">>),
   ports |-> {"443", "alt"}]

\* createExit
ExitConfig(c, e) == [port |-> c.exits[e], password |-> Stamp(<<"psk", e>>)]

\* createProfileServer: what its routes are made of.
Table(c) ==
  [roles |-> Roster(c),
   nodes |-> [n \in {Gateway} |-> [xray |-> XrayConfig(c), hysteria |-> HysteriaConfig(c)]],
   exits |-> [e \in Exits(c) |-> ExitConfig(c, e)]]

\* Workloads have pods; the CDN's route takes effect as written.
Workloads(c) == {"xray", "hysteria", "profiles"} \cup Static \cup Exits(c)
Routes(c) == IF c.cdn = "off" THEN {} ELSE {"cdn"}

Content(c, w) ==
  CASE w = "xray"      -> XrayConfig(c)
    [] w = "hysteria"  -> HysteriaConfig(c)
    [] w = "profiles"  -> Table(c)
    [] w = "cdn"       -> Stamp(<<"path">>)
    [] w \in Static    -> c.text[w]
    [] w \in Exit      -> ExitConfig(c, w)

\* The annotation that makes a template change with the content: its hash. Samba's is
\* the name of its ConfigMap.
Annotation(w, content) == IF w = "samba" THEN "samba" ELSE content

\* Mutant: the new pod first, as the charts and Deployments do.
SurgeEverywhere(w) == 1

\* The old pod leaves first where the node's ports are exclusive.
MaxSurge(w) == IF w = "profiles" THEN 1 ELSE 0

\* The ports of its node a pod binds; those of different programs differ.
Ports(w, content) ==
  IF w \in Exit THEN {<<"exit", content.port>>} ELSE IF w = "profiles" THEN {} ELSE {<<w, 0>>}

\* Mounted as single files, which a running pod keeps as they were.
MountedOnce == {"unbound", "samba"}

Init ==
  /\ conf = [roles |-> [u \in User |-> IF u = CHOOSE v \in User : TRUE THEN "admin" ELSE "guest"],
             rotation |-> 0, sni |-> 0, cdn |-> "off",
             exits |-> [e \in Exit |-> IF e = CHOOSE f \in Exit : TRUE THEN Derived[e] ELSE 0],
             text |-> [w \in Static |-> 0]]
  /\ issued = [x \in DOMAIN Kept(conf) |-> [by |-> 0, stamp |-> 1]]
  /\ objects = [w \in Workloads(conf) \cup Routes(conf) |-> Content(conf, w)]
  /\ templates = [w \in Workloads(conf) |-> Annotation(w, objects[w])]
  /\ labels = Exits(conf)
  /\ pods = [w \in Workloads(conf) |-> {[annotation |-> templates[w], run |-> objects[w]]}]
  /\ stackUpdate = "ok"
  /\ tables = {Table(conf)}
  /\ admins = With(conf, "admin")
  /\ confEdits = 0
  /\ cuts = 0

-----------------------------------------------------------------------------
(* People and faults. *)

Changes(c) ==
  {[c EXCEPT !.roles[u] = role] : u \in User, role \in Role}
  \cup {[c EXCEPT !.rotation = @ + 1], [c EXCEPT !.sni = @ + 1]}
  \cup {[c EXCEPT !.cdn = cdn] : cdn \in {"off", "on", "refused"}}
  \cup {[c EXCEPT !.exits[e] = port] : e \in Exit, port \in {0} \cup Explicit}
  \cup {[c EXCEPT !.exits[e] = Derived[e]] : e \in Exit}
  \cup {[c EXCEPT !.text[w] = @ + 1] : w \in Static}

\* A commit is merged; an update runs on one commit.
EditConf ==
  /\ confEdits < MaxEdits
  /\ stackUpdate # "running"
  /\ \E c \in Changes(conf) \ {conf} : conf' = c
  /\ confEdits' = confEdits + 1
  /\ stackUpdate' = "none"
  /\ UNCHANGED <<issued, objects, templates, labels, pods, tables, admins, cuts>>

-----------------------------------------------------------------------------
(* An update. *)

Held(w) == IF w \in DOMAIN pods THEN pods[w] ELSE {}

BeginUpdate ==
  /\ stackUpdate \in {"none", "failed"}
  /\ IF Refused(conf)
     THEN stackUpdate' = "failed" /\ UNCHANGED <<issued, admins>>
     ELSE /\ stackUpdate' = "running"
          /\ issued' = Issue(conf)
          /\ admins' = admins \cup With(conf, "admin")
  /\ UNCHANGED <<conf, objects, templates, labels, pods, tables, confEdits, cuts>>

Put(f, x, v) == [y \in DOMAIN f \cup {x} |-> IF y = x THEN v ELSE f[y]]
Written(w) == w \in DOMAIN objects /\ objects[w] = Content(conf, w)

PutObject(w) ==
  /\ stackUpdate = "running"
  /\ ~Written(w)
  /\ objects' = Put(objects, w, Content(conf, w))
  /\ UNCHANGED <<conf, issued, templates, labels, pods, stackUpdate, tables, admins,
                 confEdits, cuts>>

\* The node's label, which an exit's pods select.
PutLabel(e) ==
  /\ stackUpdate = "running"
  /\ e \in Exits(conf) \ labels
  /\ labels' = labels \cup {e}
  /\ UNCHANGED <<conf, issued, objects, templates, pods, stackUpdate, tables, admins,
                 confEdits, cuts>>

\* An exit's DaemonSet comes after its node's label; every one after its Secret.
Gated(w) == w \in Exit => w \in labels
Current(w) == w \in DOMAIN templates /\ templates[w] = Annotation(w, Content(conf, w))

PutTemplate(w) ==
  /\ stackUpdate = "running"
  /\ Written(w)
  /\ Gated(w)
  /\ ~Current(w)
  /\ templates' = Put(templates, w, Annotation(w, Content(conf, w)))
  /\ pods' = Put(pods, w, Held(w))
  /\ UNCHANGED <<conf, issued, objects, labels, stackUpdate, tables, admins, confEdits, cuts>>

\* Pulumi waits for the pods there should be: none where no node has the label.
Wanted(w) == w \in Exit => w \in labels
Ready(w) == pods[w] = {} <=> ~Wanted(w)
RolledOut(w) == Ready(w) /\ \A p \in pods[w] : p.annotation = templates[w]

Without(f, S) == [x \in DOMAIN f \ S |-> f[x]]

EndUpdate ==
  /\ stackUpdate = "running"
  /\ \A w \in Workloads(conf) : Written(w) /\ Current(w) /\ RolledOut(w)
  /\ \A w \in Routes(conf) : Written(w)
  /\ Exits(conf) \subseteq labels
  /\ LET gone == DOMAIN objects \ (Workloads(conf) \cup Routes(conf))
     IN  /\ objects' = Without(objects, gone)
         /\ templates' = Without(templates, gone)
         /\ pods' = Without(pods, gone)
         /\ labels' = labels \ gone
  /\ issued' = Without(issued, DOMAIN issued \ DOMAIN Kept(conf))
  /\ stackUpdate' = "ok"
  /\ UNCHANGED <<conf, tables, admins, confEdits, cuts>>

\* Any call may fail, and the update with it.
CutShort ==
  /\ stackUpdate = "running"
  /\ cuts < MaxCuts
  /\ cuts' = cuts + 1
  /\ stackUpdate' = "failed"
  /\ UNCHANGED <<conf, issued, objects, templates, labels, pods, tables, admins, confEdits>>

-----------------------------------------------------------------------------
(* Kubernetes. *)

Kubernetes(w, now) ==
  /\ pods' = [pods EXCEPT ![w] = now]
  /\ tables' = IF w = "profiles" THEN tables \cup {p.run : p \in now} ELSE tables
  /\ UNCHANGED <<conf, issued, objects, templates, labels, stackUpdate, admins, confEdits>>

Outdated(w) == {p \in pods[w] : p.annotation # templates[w]}

\* maxUnavailable 1 where nothing may surge; otherwise another pod goes on serving.
RemovePod(w) ==
  /\ w \in DOMAIN templates
  /\ \E p \in Outdated(w) :
      /\ MaxSurge(w) = 0 \/ pods[w] # {p}
      /\ Kubernetes(w, pods[w] \ {p})
  /\ UNCHANGED cuts

Bound(w) == UNION {Ports(w, p.run) : p \in Held(w)}

\* Mutant: nothing waits for the ports, as without the host's network.
StartPodAnyway(w) ==
  /\ w \in DOMAIN templates
  /\ Wanted(w)
  /\ pods[w] \subseteq Outdated(w)
  /\ Cardinality(pods[w]) <= MaxSurge(w)
  /\ Kubernetes(w, pods[w] \cup {[annotation |-> templates[w], run |-> objects[w]]})
  /\ UNCHANGED cuts

\* A pod starts on what it is mounted, once the ports of the node are free: until
\* then its process exits and is started again.
StartPod(w) ==
  /\ w \in DOMAIN templates
  /\ Wanted(w)
  /\ pods[w] \subseteq Outdated(w)
  /\ Cardinality(pods[w]) <= MaxSurge(w)
  /\ \A v \in DOMAIN pods : Ports(w, objects[w]) \cap Bound(v) = {}
  /\ Kubernetes(w, pods[w] \cup {[annotation |-> templates[w], run |-> objects[w]]})
  /\ UNCHANGED cuts

\* A container that restarts reads what its pod is mounted by now.
Restart(w) ==
  /\ cuts < MaxCuts
  /\ w \notin MountedOnce
  /\ \E p \in pods[w] :
      /\ p.run # objects[w]
      /\ \A v \in DOMAIN pods \ {w} : Ports(w, objects[w]) \cap Bound(v) = {}
      /\ Kubernetes(w, (pods[w] \ {p}) \cup {[p EXCEPT !.run = objects[w]]})
  /\ cuts' = cuts + 1

Deploys ==
  \/ BeginUpdate
  \/ \E w \in Workloads(conf) \cup Routes(conf) : PutObject(w)
  \/ \E e \in Exit : PutLabel(e)
  \/ \E w \in Workloads(conf) : PutTemplate(w)
  \/ EndUpdate

Rolls == \E w \in DOMAIN pods : RemovePod(w) \/ StartPod(w)

Next ==
  \/ EditConf
  \/ Deploys
  \/ CutShort
  \/ Rolls
  \/ \E w \in DOMAIN pods : Restart(w)

\* Deploys are repeated until one ends well, and Kubernetes goes on. One fairness is
\* enough: each of the two has only so much to do before it is the other's turn.
Spec == Init /\ [][Next]_vars /\ WF_vars(Rolls \/ Deploys)

-----------------------------------------------------------------------------
(* What a person reaches. *)

Running(w) == {p.run : p \in Held(w)}

\* Xray knows a client by its id, per user; hysteria lets whoever it knows anywhere.
ThroughXray(x, u, leaf) ==
  IF u \in DOMAIN x.ids /\ x.ids[u] = leaf.id THEN XrayAllows[(u \in x.guests)] ELSE {}

\* What a leaf of a user's profile reaches at its node.
Reach(u, leaf) ==
  CASE leaf.leaf = "reality" ->
         UNION {ThroughXray(x, u, leaf) :
                 x \in {x \in Running("xray") : x.key = leaf.key /\ leaf.name \in x.names}}
    [] leaf.leaf = "xhttp" ->
         UNION {ThroughXray(x, u, leaf) :
                 x \in {x \in Running("xray") :
                         /\ x.path = leaf.path
                         /\ "cdn" \in DOMAIN objects
                         /\ objects["cdn"] = leaf.path}}
    [] leaf.leaf = "hy2" ->
         IF \E h \in Running("hysteria") :
              /\ h.obfs = leaf.obfs
              /\ h.cert = leaf.cert
              /\ leaf.port \in h.ports
              /\ u \in DOMAIN h.auth
              /\ h.auth[u] = leaf.password
         THEN Destination ELSE {}

LeavesOf(t, u) ==
  {Leaf(t, u, tag) : tag \in UNION {EntryTags(t, u, n, client) :
                                    n \in DOMAIN t.nodes, client \in {"sing-box", "sbr"}}}

\* With all a person was ever handed, which they may keep.
Reached(u) == UNION {Reach(u, leaf) : leaf \in UNION {LeavesOf(t, u) : t \in {t \in tables : u \in DOMAIN t.roles}}}

\* An exit answers on the tailnet, with its key.
ExitAnswers(o) ==
  \E x \in Running(o.exit) : x.port = o.port /\ x.password = o.password

\* The gateway's resolver is a process of the gateway.
Answered(server) == server.at.class = "loopback4" => Running("unbound") # {}

WorksThrough(u, p, leaf) ==
  LET reached == Reach(u, leaf)
      resolver == p.servers[p.resolver]
  IN  /\ Within({"public4"}) \subseteq reached
      /\ resolver.at \in reached /\ Answered(resolver)
      /\ Roster(conf)[u] = "admin" => Tailnet \subseteq reached

Works(u, client) ==
  \A t \in Running("profiles") :
    LET p == Profile(t, u, client)
        leaves == {o \in DOMAIN p.outbounds : "leaf" \in DOMAIN p.outbounds[o]}
        exits == {o \in DOMAIN p.outbounds : "exit" \in DOMAIN p.outbounds[o]}
    IN  /\ WellFormed(p, client)
        /\ \A tag \in leaves : WorksThrough(u, p, p.outbounds[tag])
        /\ \A tag \in exits : ExitAnswers(p.outbounds[tag])

-----------------------------------------------------------------------------
(* Properties *)

TypeOK ==
  /\ conf.roles \in [User -> Role]
  /\ stackUpdate \in {"none", "running", "ok", "failed"}
  /\ \A x \in DOMAIN issued : issued[x].stamp \in 1..(confEdits + 1)
  /\ DOMAIN templates \subseteq DOMAIN objects
  /\ DOMAIN pods = DOMAIN templates
  /\ \A w \in DOMAIN pods : Cardinality(pods[w]) <= 1 + MaxSurge(w)
  /\ \A v, w \in DOMAIN pods : v # w => Bound(v) \cap Bound(w) = {}
  /\ labels \subseteq Exit
  /\ confEdits \in 0..MaxEdits
  /\ cuts \in 0..MaxCuts

\* A process that reads, when its pod or its container starts, what an update wrote
\* and did not yet tell the template of. Where the update is cut short and its commit
\* reverted, the template never changes again and the process keeps what it read.
Astray(w) == \E p \in Held(w) : p.annotation # Annotation(w, p.run)

\* What there is for a guest: by address the internet, and by name what the entry's own
\* `direct` dials as well.
Confines == Internet \cup (Named \cap (Tailnet \cup (Within({"loopback4"}) \cap Dns)))

\* By address a guest reaches the internet and nothing else, with everything they were
\* ever handed; whoever was never an admin never reaches more, at no moment of a
\* rollout; and after an update that ended well neither does who was one, and who is
\* off the roster reaches nothing at all (xray.ts: the profile is not the boundary),
\* but for processes that went astray. By name also what `direct` allows is reached
\* (xray.ts:50, 247), where the note on the strategy (xray.ts:126) would have it denied.
GuestsConfined ==
  \A u \in User \cup {Owner} :
    /\ u \notin admins => Reached(u) \subseteq Confines
    /\ stackUpdate = "ok" /\ ~Astray("xray") /\ ~Astray("hysteria") =>
        /\ u \notin Users(conf) => Reached(u) = {}
        /\ u \in With(conf, "guest") => Reached(u) \subseteq Confines

\* After an update that ended well, and left no process astray, every profile that is
\* served works for its user: each way in leads to a process that accepts it, from
\* which the profile's resolver answers and an admin reaches the tailnet, and each
\* exit answers; the document is one a client accepts, and its routes keep the
\* tailnet off the exits (singbox.ts: any entry composes with any exit).
OfferedWorks ==
  stackUpdate = "ok" /\ (\A w \in DOMAIN pods : ~Astray(w)) =>
    /\ RoutedAsMeant
    /\ \A t \in Running("profiles") : DOMAIN t.roles = Users(conf)
    /\ \A u \in Users(conf), client \in UNION {Clients(t) : t \in Running("profiles")} :
         Works(u, client)

Declared ==
  /\ stackUpdate = "ok"
  /\ DOMAIN templates = Workloads(conf)
  /\ \A w \in Workloads(conf) : Running(w) = {Content(conf, w)}

\* A port a declared exit needs is held by one that is not declared any more, whose
\* deletion comes after the wait for the first.
PortTaken ==
  \E e \in Exits(conf), f \in Exit \ Exits(conf) : <<"exit", conf.exits[e]>> \in Bound(f)

\* Every process runs on what main declares in the end, whatever was cut short or
\* restarted: a rollout that waits for a port its predecessor holds, or a
\* configuration no template changes with, would never get there. A stack the
\* program refuses waits for its next edit, and so does an exit that takes over the
\* port of one deleted in the same update; a process that went astray stays so where
\* the update that should have told its template was cut short and taken back.
DeclaredInTheEnd ==
  \/ <>[]Declared
  \/ <>[]Refused(conf)
  \/ <>[]PortTaken
  \/ <>[](stackUpdate = "ok" /\ \E w \in DOMAIN pods : Astray(w))
=============================================================================
