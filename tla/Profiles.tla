------------------------------ MODULE Profiles ------------------------------
(***************************************************************************)
(* The client profiles (packages/vpn/src/singbox.ts): what buildProfile     *)
(* makes of a user, the nodes and the exits, and what the entry lets a user *)
(* reach (xray.ts). Pure, as in the source.                                *)
(*                                                                         *)
(* A destination is the range its address is in, whether it is asked for    *)
(* DNS, and whether the address or a name is given for it: a profile's tun   *)
(* gives addresses, another client of the entry may give names. An outbound  *)
(* is a record, known by what it is of; its tag in the document is the words *)
(* that are joined, and names are one word. A rule of the route is the       *)
(* destinations it matches and what is done with them. A table is what the   *)
(* profiles are made of: the users' roles, each node's parameters and the    *)
(* exits'. Timings, MTUs, the tun and the caches are left out.              *)
(***************************************************************************)
EXTENDS Integers, Sequences, FiniteSets

V4 == {"tailnet4", "loopback4", "zero", "ten", "oneSevenTwo", "oneNineTwo", "link", "public4"}
V6 == {"tailnet6", "loopback6", "ula6", "link6", "public6"}
Public == {"public4", "public6"}
Destination == [class: V4 \cup V6, port: {"dns", "other"}, by: {"address", "name"}]

Within(classes) == {d \in Destination : d.class \in classes}
Internet == Within(Public)
Tailnet == Within({"tailnet4", "tailnet6"})
Dns == {d \in Destination : d.port = "dns"}
Named == {d \in Destination : d.by = "name"}

\* Mutant: the gateway's own addresses are left to Xray's list.
DenyWithoutLoopback == Within({"tailnet4", "tailnet6", "zero", "ten", "oneSevenTwo",
                               "oneNineTwo", "link", "ula6"})

\* GUEST_DENY_CIDRS; fc00::/7 holds the tailnet's range as well.
GuestDeny == Within({"tailnet4", "tailnet6", "loopback4", "zero", "loopback6", "ten",
                     "oneSevenTwo", "oneNineTwo", "link", "ula6"})

\* Mutant: the resolver's port is not let through.
TailnetOnly == Tailnet

\* FREEDOM_FINAL_RULES, which all allow: the resolver on the loopback, the tailnet.
FinalRules == (Within({"loopback4"}) \cap Dns) \cup Tailnet

\* Xray's own list, which `freedom` refuses where no final rule matched.
PrivateList == Within((V4 \cup V6) \ Public)

\* The guests' rule comes first, and matches addresses only. The rule after it matches
\* all there is, so no name is resolved for a second look at the first (IPIfNonMatch):
\* it goes to `direct`, which is `freedom` and decides by the address it resolves to.
Blocked == GuestDeny \ Named

XrayAllows ==
  [guest \in BOOLEAN |->
    {d \in Destination : ~(guest /\ d \in Blocked) /\ (d \in FinalRules \/ d \notin PrivateList)}]

-----------------------------------------------------------------------------
(* The outbounds of a user's profile, by tag. *)

IsAdmin(t, u) == t.roles[u] = "admin"

HyTags(t, n) == {<<"hy2", n, port>> : port \in t.nodes[n].hysteria.ports}
RealityTags(t, n) == {<<"reality", n, name>> : name \in t.nodes[n].xray.names}

\* The node serves the CDN entry, and the profile is for a client that knows it.
XhttpTags(t, n, client) ==
  IF client = "sbr" /\ t.nodes[n].xray.path # 0 THEN {<<"xhttp", n>>} ELSE {}

EntryTags(t, u, n, client) ==
  (IF IsAdmin(t, u) THEN HyTags(t, n) ELSE {}) \cup RealityTags(t, n) \cup XhttpTags(t, n, client)

Leaf(t, u, tag) ==
  LET node == t.nodes[tag[2]]
  IN  CASE tag[1] = "hy2" ->
             [leaf |-> "hy2", node |-> tag[2], port |-> tag[3], user |-> u,
              password |-> node.hysteria.auth[u], obfs |-> node.hysteria.obfs,
              cert |-> node.hysteria.cert]
        [] tag[1] = "reality" ->
             [leaf |-> "reality", node |-> tag[2], name |-> tag[3],
              id |-> node.xray.ids[u], key |-> node.xray.key]
        [] tag[1] = "xhttp" ->
             [leaf |-> "xhttp", node |-> tag[2], path |-> node.xray.path,
              id |-> node.xray.ids[u], resolver |-> "local"]

Urltest(members) == [members |-> members, default |-> {}]
Selector(members, default) == [members |-> members, default |-> {default}]

Entry == <<"entry-select">>
AutoOne == <<"auto">>
AutoAll == <<"auto-all">>
ExitDirect == <<"exit-direct">>
ExitSelect == <<"exit-select">>

\* A tag as it is written: the words that are joined by dashes. A node's own group has
\* the node's name.
Joined(tag) ==
  CASE tag[1] = "node"   -> <<tag[2]>>
    [] tag = AutoAll    -> <<"auto", "all">>
    [] tag = Entry      -> <<"entry", "select">>
    [] tag = ExitDirect -> <<"exit", "direct">>
    [] tag = ExitSelect -> <<"exit", "select">>
    [] OTHER            -> tag

Leaves(t, u, client) == UNION {EntryTags(t, u, n, client) : n \in DOMAIN t.nodes}

\* One node: its leaves, under `auto` where there is a choice. Several: a group each.
Groups(t, u, client) ==
  LET tags(n) == EntryTags(t, u, n, client)
      nodes == DOMAIN t.nodes
      all == Leaves(t, u, client)
      choice == Cardinality(all) > 1
  IN  IF Cardinality(nodes) = 1
      THEN [tag \in {Entry} \cup (IF choice THEN {AutoOne} ELSE {}) |->
              CASE tag = AutoOne           -> Urltest(all)
                [] tag = Entry /\ choice  -> Selector(all \cup {AutoOne}, AutoOne)
                [] tag = Entry /\ ~choice -> Selector(all, CHOOSE x \in all : TRUE)]
      ELSE [tag \in ({"auto", "node"} \X nodes) \cup {AutoAll, Entry} |->
              CASE tag[1] = "auto" -> Urltest(tags(tag[2]))
                [] tag[1] = "node" -> Selector(tags(tag[2]) \cup {<<"auto", tag[2]>>}, <<"auto", tag[2]>>)
                [] tag = AutoAll   -> Urltest(all)
                [] tag = Entry     -> Selector(({"node"} \X nodes) \cup {AutoAll}, AutoAll)]

\* Guests have no exits; without exits there is no group of them.
ExitsOf(t, u) == IF IsAdmin(t, u) THEN DOMAIN t.exits ELSE {}

ExitGroups(t, u) ==
  LET exits == {"exit"} \X ExitsOf(t, u)
  IN  [tag \in IF exits = {} THEN {} ELSE exits \cup {ExitDirect, ExitSelect} |->
         CASE tag[1] = "exit"  -> [exit |-> tag[2], port |-> t.exits[tag[2]].port,
                                   password |-> t.exits[tag[2]].password, detour |-> Entry]
           [] tag = ExitDirect -> Selector({Entry}, Entry)
           [] tag = ExitSelect -> Selector(exits \cup {ExitDirect}, ExitDirect)]

Outbounds(t, u, client) ==
  LET leaves == Leaves(t, u, client)
      groups == Groups(t, u, client)
      exits == ExitGroups(t, u)
  IN  [tag \in leaves \cup DOMAIN groups \cup DOMAIN exits |->
         CASE tag \in leaves        -> Leaf(t, u, tag)
           [] tag \in DOMAIN groups -> groups[tag]
           [] tag \in DOMAIN exits  -> exits[tag]]

Address(class, port) == [class |-> class, port |-> port, by |-> "address"]

\* Every resolver is asked through the entry but the network's own.
Servers(t, client) ==
  [s \in {"gw-cache", "cf-doh", "ts-dns"}
          \cup (IF \E n \in DOMAIN t.nodes : XhttpTags(t, n, client) # {} THEN {"local"} ELSE {}) |->
     CASE s = "gw-cache" -> [at |-> Address("loopback4", "dns"), detour |-> {Entry}]
       [] s = "cf-doh"   -> [at |-> Address("public4", "other"), detour |-> {Entry}]
       [] s = "ts-dns"   -> [at |-> Address("tailnet4", "dns"), detour |-> {Entry}]
       [] s = "local"    -> [at |-> Address("link", "dns"), detour |-> {}]]

\* In this order, the first that matches; sniffing is a step on the way.
Rules ==
  << [match |-> Within({"tailnet6"}), action |-> "entry"],
     [match |-> Within(V6) \cap Dns,  action |-> "hijack-dns"],
     [match |-> Within(V6),           action |-> "reject"],
     [match |-> Destination,          action |-> "sniff"],
     [match |-> Dns,                  action |-> "hijack-dns"],
     [match |-> Within({"tailnet4"}), action |-> "entry"] >>

Profile(t, u, client) ==
  [outbounds |-> Outbounds(t, u, client),
   servers   |-> Servers(t, client),
   resolver  |-> IF IsAdmin(t, u) THEN "gw-cache" ELSE "cf-doh",
   final     |-> IF ExitsOf(t, u) = {} THEN Entry ELSE ExitSelect]

\* The paths of the table: a profile per user, and a second one once a node has
\* an entry only sbr can dial.
Clients(t) ==
  {"sing-box"} \cup (IF \E n \in DOMAIN t.nodes : t.nodes[n].xray.path # 0 THEN {"sbr"} ELSE {})

-----------------------------------------------------------------------------
(* What a client makes of a profile. *)

\* What an outbound leans on: its members, its detour, and what it takes to resolve
\* its server.
Mentions(p, tag) ==
  LET o == p.outbounds[tag]
  IN  CASE "members" \in DOMAIN o  -> o.members
        [] "detour" \in DOMAIN o   -> {o.detour}
        [] "resolver" \in DOMAIN o -> p.servers[o.resolver].detour
        [] OTHER                   -> {}

\* No way down is longer than these steps.
Onward(p, tags) == tags \cup UNION {Mentions(p, g) : g \in tags}
Below(p, tag) ==
  Onward(p, Onward(p, Onward(p, Onward(p, Onward(p, Mentions(p, tag))))))

\* Every name is of something and of one thing, defaults are members, nothing leans on
\* itself, and a client is given no outbound it refuses.
WellFormed(p, client) ==
  /\ p.final \in DOMAIN p.outbounds
  /\ p.resolver \in DOMAIN p.servers
  /\ \A s \in DOMAIN p.servers : p.servers[s].detour \subseteq DOMAIN p.outbounds
  /\ \A x, y \in DOMAIN p.outbounds : Joined(x) = Joined(y) => x = y
  /\ \A tag \in DOMAIN p.outbounds :
      LET o == p.outbounds[tag]
      IN  /\ "resolver" \in DOMAIN o => o.resolver \in DOMAIN p.servers
          /\ Mentions(p, tag) \subseteq DOMAIN p.outbounds
          /\ "members" \in DOMAIN o => o.members # {} /\ o.default \subseteq o.members
          /\ tag \notin Below(p, tag)
          /\ client = "sing-box" => tag[1] # "xhttp"

\* What is done with a destination, and whether it was sniffed before.
Routed(d) ==
  LET hit(i) == d \in Rules[i].match
      first == {i \in DOMAIN Rules : hit(i) /\ Rules[i].action # "sniff"
                  /\ \A j \in 1..(i - 1) : ~hit(j) \/ Rules[j].action = "sniff"}
  IN  IF first = {} THEN "final"
      ELSE LET i == CHOOSE i \in first : TRUE
           IN  IF Rules[i].action = "reject" /\ \E j \in 1..(i - 1) : Rules[j].action = "sniff"
               THEN "close" ELSE Rules[i].action

\* The tailnet is left at the entry and never at an exit; other IPv6 is refused at
\* the tun in the way a client falls back from; names are asked of the profile's
\* resolvers; the rest goes where the user chose.
RoutedAsMeant ==
  \A d \in Destination \ Named :
    Routed(d) =
      IF d.class = "tailnet6" \/ (d.class = "tailnet4" /\ d.port = "other") THEN "entry"
      ELSE IF d.port = "dns" THEN "hijack-dns"
      ELSE IF d.class \in V6 THEN "reject"
      ELSE "final"
=============================================================================
