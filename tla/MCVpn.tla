-------------------------------- MODULE MCVpn --------------------------------
(***************************************************************************)
(* A person of each role, and two exits of which one may take the other's    *)
(* port.                                                                    *)
(***************************************************************************)
EXTENDS Vpn

MCDerived == [e \in Exit |-> IF e = "home" THEN 1 ELSE 2]

\* With edges beside the gateway, any of which may have the CDN's entry: what is
\* made of such tables is a function of them, and needs no behaviour.
MCNode(path, names) ==
  [xray     |-> [ids |-> [u \in User |-> 1], guests |-> {}, key |-> 1, names |-> names,
                 path |-> path],
   hysteria |-> [auth |-> [u \in User |-> 1], obfs |-> 1, cert |-> 1, ports |-> {"443", "alt"}]]

MCTables ==
  {[roles |-> roles, nodes |-> nodes, exits |-> [e \in exits |-> [port |-> 1, password |-> 1]]] :
     roles \in [User -> {"admin", "guest"}],
     nodes \in UNION {[ns -> {MCNode(path, names) : path \in {0, 1}, names \in {{"own"}, {"own", "borrowed"}}}] :
                      ns \in {{"primary"}, {"primary", "edge"}, {"primary", "edge", "other"}}},
     exits \in SUBSET Exit}

\* Whatever the nodes and exits, every document is one its client accepts.
ASSUME ProfilesCompose ==
  \A t \in MCTables : \A u \in User, client \in Clients(t) :
    WellFormed(Profile(t, u, client), client)

\* A node or an exit whose name makes a tag that there is: an admin's client refuses.
ASSUME TagsCollide ==
  \A nodes \in {{"primary", "all"}, {"primary"}}, exit \in {"home", "direct", "select"} :
    LET t == [roles |-> [u \in User |-> "admin"],
              nodes |-> [n \in nodes |-> MCNode(0, {"own"})],
              exits |-> [e \in {exit} |-> [port |-> 1, password |-> 1]]]
    IN  \A u \in User :
          WellFormed(Profile(t, u, "sing-box"), "sing-box")
            <=> "all" \notin nodes /\ exit = "home"
=============================================================================
