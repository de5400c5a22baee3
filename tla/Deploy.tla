------------------------------- MODULE Deploy -------------------------------
(***************************************************************************)
(* `pulumi up` on one box: the gateway with its tailnet name and cluster,   *)
(* or an edge with its transports and the profiles that name them.          *)
(*                                                                         *)
(* What the program declares is a table, one row per resource or group of   *)
(* resources. Pulumi is external: it takes the rows in the order of their   *)
(* dependencies, several at once, compares each with what it recorded, and  *)
(* does again what differs; the first failure ends the update, and the next *)
(* one goes by what was recorded. The tailnet's device list is external.    *)
(* A row that is replaced with the machine (`replaceWith`) is taken to be   *)
(* done again even when the update that replaced the machine failed first,  *)
(* as one with `serverTriggers` is by its recorded trigger.                 *)
(***************************************************************************)
EXTENDS Integers, FiniteSets

CONSTANTS
  Programs,    \* the programs looked at: sets of rows
  MaxEdits,    \* bound: commits that change an input
  MaxFaults,   \* bound: commands and calls that fail
  MaxVisits    \* bound: people's devices that take the hostname

ASSUME DeployAssumption ==
  /\ MaxEdits \in Nat
  /\ MaxFaults \in Nat
  /\ MaxVisits \in Nat

-----------------------------------------------------------------------------
(* The program. Of a row: what it comes after (`dependsOn`), the inputs in its *)
(* text or its triggers, the rows whose output it takes, and whether it is of  *)
(* the box, so that a new box is without it.                                 *)

Row(after, inputs, reads, onBox) ==
  [after |-> after, inputs |-> inputs, reads |-> reads, onBox |-> onBox]

\* gateway.ts and edge.ts: the firewall is in no other row's text.
Server == Row({}, {"image"}, {}, FALSE)

\* vps.ts. The three sysctl files are one row: none takes an input.
Sysctls  == Row({"server"}, {}, {}, TRUE)
Patching == Row({"server"}, {"proToken"}, {}, TRUE)
AdminSsh == Row({"server"}, {"adminKey"}, {}, TRUE)

\* tailscale-systemd.ts. The key is in no trigger but in the text.
TailscaleInstall == Row({"server"}, {"tailscale"}, {}, TRUE)
TailscaleUp      == Row({"tailscale-install"}, {"authKey"}, {}, TRUE)
TailscaleSelf    == Row({"tailscale-up"}, {}, {}, TRUE)
TailscaleName    == Row({"tailscale-self"}, {"apiClient"}, {"tailscale-self"}, TRUE)

\* k3s.ts, and the label gateway.ts puts on the node.
K3sNodeConfig == Row({"server", "tailscale-name"}, {}, {}, TRUE)
K3sInstall    == Row({"server", "k3s-node-config"}, {"k3s"}, {}, TRUE)
\* Mutant: the credentials are not read again from a new box.
KubeconfigKept == Row({"server", "k3s-install"}, {}, {}, FALSE)
K3sKubeconfig == Row({"server", "k3s-install"}, {}, {}, TRUE)
EntryLabel    == Row({"k3s-install"}, {"entryLabel"}, {}, TRUE)

\* main.ts: what is in the cluster, through a provider made of the kubeconfig.
TailnetPolicy == Row({}, {}, {}, FALSE)
\* Mutant: the provider is made of the installer's output.
ThroughInstaller(after, inputs) == Row(after, inputs, {"k3s-install"}, TRUE)
InCluster(after, inputs) == Row(after, inputs, {"k3s-kubeconfig"}, TRUE)
TailnetRoutes == InCluster({"tailnet-policy"}, {"tailscale"})
Cilium        == InCluster({"k3s-install", "tailnet-routes"}, {"cilium"})
Namespace     == InCluster({"cilium"}, {})
Transports    == InCluster({"namespace", "entry-label"}, {"entryLabel"})
RegisterRoute == InCluster({"namespace"}, {})
\* Mutant: the route is not told to wait for the one that relieves it.
AuthRouteAlone == InCluster({"namespace"}, {"registerRoute"})
AuthRoute     == InCluster({"namespace", "auth-register"}, {"registerRoute"})

\* hysteria-systemd.ts and xray-systemd.ts, on an edge.
HysteriaInstall == Row({"server"}, {}, {}, TRUE)
HysteriaConfig  == Row({"hysteria-install"}, {"sni", "altPort"}, {}, TRUE)
XrayInstall     == Row({"server"}, {"xray"}, {}, TRUE)
XrayPublicKey   == Row({}, {}, {"xray-install"}, FALSE)
XrayConfig      == Row({}, {}, {"xray-public-key"}, TRUE)

\* Mutant: the certificate is handed on before the box has it.
ProfileUngated == Row({}, {"sni", "altPort"}, {"server", "xray-public-key"}, FALSE)

\* main.ts: the profiles name the edge's address and key and pin its certificate.
Profile == Row({"hysteria-config"}, {"sni", "altPort"}, {"server", "xray-public-key"}, FALSE)

Resource ==
  {"server", "sysctls", "patching", "admin-ssh", "tailscale-install", "tailscale-up",
   "tailscale-self", "tailscale-name", "k3s-node-config", "k3s-install",
   "k3s-kubeconfig", "entry-label", "tailnet-policy", "tailnet-routes", "cilium",
   "namespace", "transports", "auth-register", "auth-route", "hysteria-install",
   "hysteria-config", "xray-install", "xray-public-key", "xray-config", "profile"}

Table ==
  [r \in Resource |->
    CASE r = "server"             -> Server
      [] r = "sysctls"            -> Sysctls
      [] r = "patching"           -> Patching
      [] r = "admin-ssh"          -> AdminSsh
      [] r = "tailscale-install"  -> TailscaleInstall
      [] r = "tailscale-up"       -> TailscaleUp
      [] r = "tailscale-self"     -> TailscaleSelf
      [] r = "tailscale-name"     -> TailscaleName
      [] r = "k3s-node-config"    -> K3sNodeConfig
      [] r = "k3s-install"        -> K3sInstall
      [] r = "k3s-kubeconfig"     -> K3sKubeconfig
      [] r = "entry-label"        -> EntryLabel
      [] r = "tailnet-policy"     -> TailnetPolicy
      [] r = "tailnet-routes"     -> TailnetRoutes
      [] r = "cilium"             -> Cilium
      [] r = "namespace"          -> Namespace
      [] r = "transports"         -> Transports
      [] r = "auth-register"      -> RegisterRoute
      [] r = "auth-route"         -> AuthRoute
      [] r = "hysteria-install"   -> HysteriaInstall
      [] r = "hysteria-config"    -> HysteriaConfig
      [] r = "xray-install"       -> XrayInstall
      [] r = "xray-public-key"    -> XrayPublicKey
      [] r = "xray-config"        -> XrayConfig
      [] r = "profile"            -> Profile]

Input == UNION {Table[r].inputs : r \in Resource}

\* Rows with a `delete`, and those whose replacement begins with it
\* (deleteBeforeReplace): the gateway's name is unique at Hetzner, an edge has none.
HasDelete == {"admin-ssh"}
\* Mutant: the new key is written first.
ServerFirst(p) == IF "profile" \in p THEN {} ELSE {"server"}
DeletedFirst(p) == {"admin-ssh"} \cup (IF "profile" \in p THEN {} ELSE {"server"})

\* What is made through the provider of the cluster.
ClusterRows == {"tailnet-routes", "cilium", "namespace", "transports", "auth-register",
                "auth-route"}

\* gateway.ts and edge.ts. Only the gateway has a claim of its name (edge.ts passes no
\* client for it); registration and the route that leaves it out come together.
ASSUME ProgramsAssumption ==
  \A p \in Programs :
    /\ p \subseteq Resource
    /\ "server" \in p
    /\ "auth-route" \in p => "auth-register" \in p
    /\ "tailscale-name" \in p => "tailscale-up" \in p
    /\ "profile" \in p => "hysteria-config" \in p /\ "tailscale-name" \notin p

\* All a row waits for: the rows before it, those before them, and so on; no chain of
\* rows is longer than thirty-two.
Direct == [r \in Resource |-> {r} \cup Table[r].after \cup Table[r].reads]
Further(reach) == [r \in Resource |-> UNION {reach[s] : s \in reach[r]}]
Ancestors ==
  LET reach == Further(Further(Further(Further(Further(Direct)))))
  IN  [r \in Resource |-> reach[r] \ {r}]

-----------------------------------------------------------------------------
VARIABLES
  program,   \* the rows there are, constant
  conf,      \* the inputs of main's head; 0 is unset
  state,     \* Pulumi: what it recorded of each row, and the row's output
  pending,   \* Pulumi: replaced rows whose `delete` is still to come
  update,    \* the update in progress or last ended, and its claim of the name
  made,      \* Hetzner: how many machines were ever made, which numbers them
  boxes,     \* and those there are
  holds,     \* what is in effect, by row and machine
  devices,   \* Tailscale: the name of each machine's device; 0 is a person's
  served,    \* history: the certificates each machine has served
  cut,       \* history: rows cut off after their work, which Pulumi did not record
  edits, faults, visits

vars == <<program, conf, state, pending, update, made, boxes, holds, devices,
          served, cut, edits, faults, visits>>
counters == <<edits, faults, visits>>
world == <<made, boxes, holds, devices, served, cut>>

With(f, x, v) == [y \in DOMAIN f \cup {x} |-> IF y = x THEN v ELSE f[y]]
Without(f, S) == [x \in DOMAIN f \ S |-> f[x]]

Idle(result) == [running |-> FALSE, result |-> result, listed |-> FALSE, remove |-> {},
                 rename |-> FALSE]

Init ==
  /\ program \in Programs
  /\ conf = [i \in Input |-> IF i = "registerRoute" THEN 0 ELSE 1]
  /\ state = <<>>
  /\ pending = {}
  /\ update = Idle("none")
  /\ made = 0
  /\ boxes = {}
  /\ holds = <<>>
  /\ devices = <<>>
  /\ served = {}
  /\ cut = {}
  /\ edits = 0
  /\ faults = 0
  /\ visits = 0

\* The rows main's head declares: no admin key, no resource for it; /register has
\* a route of its own from some commit on.
Wanted ==
  {r \in program :
    /\ r = "admin-ssh" => conf["adminKey"] # 0
    /\ r = "auth-register" => conf["registerRoute"] # 0}

Output(r) == IF r \in DOMAIN state THEN state[r].out ELSE 0
Live == Output("server")

\* Which machine's effect a row is; 0 for what is on none.
Place(r) == IF Table[r].onBox THEN Live ELSE 0

Target(r) ==
  [ins   |-> [i \in Table[r].inputs |-> conf[i]],
   reads |-> [s \in Table[r].reads \cap program |-> Output(s)],
   box   |-> Place(r)]

Recorded(r) ==
  /\ r \in DOMAIN state
  /\ Target(r) = [ins |-> state[r].ins, reads |-> state[r].reads, box |-> state[r].box]

Outdated == {r \in Wanted : ~Recorded(r)}

\* Rows are taken in any order their dependencies allow; what is as recorded is
\* passed over.
Ready ==
  LET outdated == Outdated
  IN  IF update.running THEN {r \in outdated : Ancestors[r] \cap outdated = {}} ELSE {}

-----------------------------------------------------------------------------
(* What a command does. *)

\* The key pair and the cluster's authority are made once on a box, and the
\* device is the box's; a command's id and what it printed are those of its run.
OutputOf(r) ==
  CASE r = "server"       -> made + 1
    [] r = "xray-install" -> <<Live, conf["xray"]>>
    [] r = "k3s-install"  -> <<Live, conf["k3s"]>>
    [] OTHER              -> Live
\* A box already attached keeps the token it has (createAutomaticPatching); ports
\* that are no longer wanted are closed and the wanted ones opened
\* (createHysteriaSystemd). Of the others only the text matters.
Held(r, box) ==
  IF <<r, box>> \in DOMAIN holds THEN holds[<<r, box>>].kept ELSE {}

Closed(open, wanted) == open \ wanted

Kept(r) ==
  LET old == Held(r, Place(r))
  IN  CASE r = "patching" ->
             IF old # {} THEN old ELSE {conf["proToken"]} \ {0}
        [] r = "hysteria-config" ->
             (old \ Closed(old, {conf["altPort"]})) \cup {conf["altPort"]}
        [] OTHER -> {}

NameTaken == \E d \in DOMAIN devices : devices[d] = "hostname"

\* `tailscale up`: a box that is a device stays the one it is; a new one is named
\* after its hostname if no other device is.
Registered ==
  IF Live \in DOMAIN devices THEN devices
  ELSE With(devices, Live, IF NameTaken THEN "suffixed" ELSE "hostname")

Holding(r) == [ins |-> Target(r).ins, reads |-> Target(r).reads, kept |-> Kept(r)]

Effects(r) ==
  /\ holds' = With(holds, <<r, Place(r)>>, Holding(r))
  /\ devices' = IF r = "tailscale-up" THEN Registered ELSE devices
  /\ served' = IF r = "hysteria-config" THEN served \cup {<<Live, conf["sni"]>>}
               ELSE served
  /\ IF r = "server" THEN boxes' = boxes \cup {made + 1} /\ made' = made + 1
     ELSE UNCHANGED <<boxes, made>>

NoEffects == UNCHANGED world

Entry(r) == [out |-> OutputOf(r), ins |-> Target(r).ins, reads |-> Target(r).reads,
             box |-> Place(r)]

\* A replaced row that has a `delete` and is not deleted first is deleted last.
Done(r) ==
  /\ state' = With(state, r, Entry(r))
  /\ pending' = IF r \in HasDelete \cap DOMAIN state THEN pending \cup {r} ELSE pending
  /\ UNCHANGED update

Fails ==
  /\ faults < MaxFaults
  /\ faults' = faults + 1
  /\ update' = Idle("failed")
  /\ UNCHANGED <<state, pending>>

-----------------------------------------------------------------------------
(* An update. *)

\* The workflow lets one update run at a time.
Start ==
  /\ ~update.running
  /\ update' = [Idle("none") EXCEPT !.running = TRUE]
  /\ UNCHANGED <<program, conf, state, pending, world, counters>>

MustGoFirst(r) == r \in DeletedFirst(program) \cap DOMAIN state

\* What a machine held goes with it.
DeleteFirst(r) ==
  /\ MustGoFirst(r)
  /\ \/ /\ state' = Without(state, {r})
        /\ holds' = IF r = "server" THEN Without(holds, {h \in DOMAIN holds : h[2] = Live})
                    ELSE Without(holds, {<<r, state[r].box>>})
        /\ boxes' = IF r = "server" THEN boxes \ {Live} ELSE boxes
        /\ UNCHANGED <<pending, update, faults>>
     \/ Fails /\ UNCHANGED <<holds, boxes>>
  /\ UNCHANGED <<program, conf, made, devices, served, cut, edits, visits>>

\* A command may fail before or after it did its work; a call to Hetzner's or the
\* cluster's API that fails made nothing.
Run(r) ==
  /\ ~MustGoFirst(r)
  /\ r # "tailscale-name"
  /\ \/ Effects(r) /\ Done(r) /\ cut' = cut \ {r} /\ UNCHANGED faults
     \/ r \notin {"server"} \cup ClusterRows /\ Effects(r) /\ cut' = cut \cup {r} /\ Fails
     \/ NoEffects /\ Fails
  /\ UNCHANGED <<program, conf, edits, visits>>

\* Mutants: everything of that name goes; nothing does; every machine ever made.
AllOthers(self) == DOMAIN devices \ {self}
NoPredecessors(self) == {}
OtherMachines(self) == 1..made \ {self}

\* planClaim, on the list as it was: the devices of this tag and hostname other
\* than the box itself go, and it is renamed if it has another name. A person's
\* device is not of the tag.
Predecessors(self) == DOMAIN devices \ {0, self}

ListDevices ==
  /\ "tailscale-name" \in Ready
  /\ ~update.listed
  /\ \/ /\ update' = [update EXCEPT !.listed = TRUE, !.remove = Predecessors(Live),
                                     !.rename = devices[Live] # "hostname"]
        /\ UNCHANGED <<state, pending, faults>>
     \/ Fails
  /\ UNCHANGED <<program, conf, world, edits, visits>>

RemoveDevice(d) ==
  /\ update.listed
  /\ d \in update.remove
  /\ \/ /\ devices' = Without(devices, {d})
        /\ update' = [update EXCEPT !.remove = @ \ {d}]
        /\ UNCHANGED <<state, pending, faults>>
     \/ Fails /\ UNCHANGED devices
  /\ UNCHANGED <<program, conf, made, boxes, holds, served, cut, edits, visits>>

\* The rename is refused while another device holds the name; the claim is done
\* once nothing is left to do.
Rename ==
  /\ update.listed
  /\ update.remove = {}
  /\ \/ /\ update.rename => ~\E d \in DOMAIN devices \ {Live} : devices[d] = "hostname"
        /\ devices' = IF update.rename THEN With(devices, Live, "hostname") ELSE devices
        /\ state' = With(state, "tailscale-name", Entry("tailscale-name"))
        /\ holds' = With(holds, <<"tailscale-name", Place("tailscale-name")>>,
                        Holding("tailscale-name"))
        /\ update' = [update EXCEPT !.listed = FALSE, !.rename = FALSE]
        /\ UNCHANGED <<pending, faults>>
     \/ /\ update.rename
        /\ \E d \in DOMAIN devices \ {Live} : devices[d] = "hostname"
        /\ update' = Idle("failed")
        /\ UNCHANGED <<state, pending, holds, devices, faults>>
     \/ Fails /\ UNCHANGED <<holds, devices>>
  /\ UNCHANGED <<program, conf, made, boxes, served, cut, edits, visits>>

\* Once every row is as it should be, what is no longer declared is deleted, with
\* what was replaced: rows in effect, and machines.
Finish ==
  /\ update.running
  /\ Outdated = {}
  /\ \/ LET gone == (DOMAIN state \ Wanted) \cup pending
        IN  /\ state' = Without(state, DOMAIN state \ Wanted)
            /\ pending' = {}
            /\ boxes' = {Live}
            /\ holds' = Without(holds, {h \in DOMAIN holds : h[1] \in gone
                                                         \/ h[2] \notin {0, Live}})
            /\ update' = Idle("ok")
            /\ UNCHANGED faults
     \/ Fails /\ UNCHANGED <<boxes, holds>>
  /\ UNCHANGED <<program, conf, made, devices, served, cut, edits, visits>>

-----------------------------------------------------------------------------
(* What people do. *)

\* A commit that changes an input is merged; an update runs on one commit.
Edit(i, v) ==
  /\ ~update.running
  /\ edits < MaxEdits
  /\ \E r \in program : i \in Table[r].inputs
  /\ v # conf[i]
  /\ conf' = [conf EXCEPT ![i] = v]
  /\ update' = [update EXCEPT !.result = "none"]
  /\ edits' = edits + 1
  /\ UNCHANGED <<program, state, pending, world, faults, visits>>

\* A person's device registers under the hostname.
Visit ==
  /\ visits < MaxVisits
  /\ "tailscale-name" \in program
  /\ devices' = With(devices, 0, IF NameTaken THEN "suffixed" ELSE "hostname")
  /\ visits' = visits + 1
  /\ UNCHANGED <<program, conf, state, pending, update, made, boxes, holds, served,
                 cut, edits, faults>>

Proceed ==
  \/ \E r \in Ready : DeleteFirst(r) \/ Run(r)
  \/ ListDevices
  \/ \E d \in DOMAIN devices : RemoveDevice(d)
  \/ Rename
  \/ Finish

Next ==
  \/ Start
  \/ Proceed
  \/ \E i \in Input, v \in 0..2 : Edit(i, v)
  \/ Visit

Spec == Init /\ [][Next]_vars

\* Deploys go on, and a command ends.
FairSpec == Spec /\ WF_vars(Start) /\ WF_vars(Proceed)

-----------------------------------------------------------------------------
(* Properties *)

TypeOK ==
  /\ program \subseteq Resource
  /\ conf \in [Input -> 0..2]
  /\ DOMAIN state \subseteq program
  /\ \A r \in DOMAIN state : state[r].box \in 0..made
  /\ pending \subseteq HasDelete
  /\ update.result \in {"none", "ok", "failed"}
  /\ update.remove \subseteq DOMAIN devices
  /\ boxes \subseteq 1..made
  /\ \A h \in DOMAIN holds : h[1] \in program /\ h[2] \in boxes \cup {0}
  /\ DOMAIN devices \subseteq 0..made
  /\ \A d \in DOMAIN devices : devices[d] \in {"hostname", "suffixed"}

\* What a row does is in effect where it should be, with main's inputs and the
\* outputs there are now. Of the Pro token the box keeps the one it was attached
\* with, as createAutomaticPatching says.
InEffect(r) ==
  LET at == <<r, Place(r)>>
  IN  /\ at \in DOMAIN holds
      /\ holds[at].ins = Target(r).ins
      /\ holds[at].reads = Target(r).reads
      /\ r = "hysteria-config" => holds[at].kept = {conf["altPort"]}
      /\ r = "patching" /\ conf["proToken"] # 0 => holds[at].kept # {}

Configured ==
  /\ boxes = {Live}
  /\ \A r \in Wanted \ cut : InEffect(r)
  /\ \A r \in program \ (Wanted \cup cut) : <<r, Place(r)>> \notin DOMAIN holds

\* An update that ends well leaves every box as main's head says, also after a
\* rebuild, a rotated key, and updates that failed half way (serverTriggers,
\* replaceWith, deleteBeforeReplace, the label command without a delete). The
\* exception is Pulumi's: a command cut off after its work is not on record, so
\* taking its edit back before the next update does nothing.
ConfiguredWhenDone == update.result = "ok" => Configured

\* The kubeconfig is of the cluster that answers at the tailnet name it gives
\* (createK3s reads it per box, createTailscaleSystemd claims the name).
ApiReached ==
  update.result = "ok" /\ {"tailscale-name", "k3s-kubeconfig"} \subseteq program
  => /\ devices[Live] = "hostname"
     /\ Output("k3s-kubeconfig") = Live

\* The claim removes devices of machines that are gone, never the box's own nor a
\* person's that shares its name, whatever happens between the list and the calls.
OnlyPredecessorsRemoved ==
  [][\A d \in DOMAIN devices : d \notin DOMAIN devices' => d # 0 /\ d \notin boxes]_vars

\* Nothing in the cluster is replaced unless the cluster is: an edit of the
\* installer's command does not change the kubeconfig the provider is made of.
ClusterOutlivesInstalls ==
  [][\A r \in ClusterRows \cap DOMAIN state \cap DOMAIN state' :
       state'[r].reads # state[r].reads => state'[r].box # state[r].box]_vars

\* From the update that takes /register from the provider's route on, the route with
\* the rate limit has it: it never falls to Hydra (main.ts).
RegisterLimited ==
  \A b \in boxes :
    LET route == <<"auth-route", b>>
    IN  route \in DOMAIN holds /\ holds[route].ins["registerRoute"] # 0
          => <<"auth-register", b>> \in DOMAIN holds

\* The profiles never pin a certificate the box they name has not served, nor name
\* a box that is gone, while an update rebuilds it or fails on the way.
ProfilePinsServed ==
  <<"profile", 0>> \in DOMAIN holds =>
    LET p == holds[<<"profile", 0>>]
    IN  /\ p.reads["server"] \in boxes
        /\ <<p.reads["server"], p.ins["sni"]>> \in served

\* However updates fail, once they fail no more and nothing is edited the box gets
\* what main's head says; a person's device that has the name stops it, until it is
\* renamed (claim-tailnet-name.ts).
ConfiguredInTheEnd ==
  <>[]Configured \/ <>[](0 \in DOMAIN devices /\ devices[0] = "hostname")
=============================================================================
