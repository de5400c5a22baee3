---------------------------- MODULE DeployProofs ----------------------------
(***************************************************************************)
(* Theorems about Deploy, for any programs its assumption allows and any    *)
(* number of edits, faults and visits.                                     *)
(***************************************************************************)
EXTENDS Deploy, TLAPS

-----------------------------------------------------------------------------
(* The table, and what comes before what. *)

LEMMA HostRows ==
  /\ Table["server"] = Server
  /\ Table["sysctls"] = Sysctls
  /\ Table["patching"] = Patching
  /\ Table["admin-ssh"] = AdminSsh
  /\ Table["tailscale-install"] = TailscaleInstall
  /\ Table["tailscale-up"] = TailscaleUp
  /\ Table["tailscale-self"] = TailscaleSelf
  /\ Table["tailscale-name"] = TailscaleName
  /\ Table["k3s-node-config"] = K3sNodeConfig
  /\ Table["k3s-install"] = K3sInstall
  /\ Table["k3s-kubeconfig"] = K3sKubeconfig
  /\ Table["entry-label"] = EntryLabel
  BY DEF Table, Resource

LEMMA OtherRows ==
  /\ Table["tailnet-policy"] = TailnetPolicy
  /\ Table["tailnet-routes"] = TailnetRoutes
  /\ Table["cilium"] = Cilium
  /\ Table["namespace"] = Namespace
  /\ Table["transports"] = Transports
  /\ Table["auth-register"] = RegisterRoute
  /\ Table["auth-route"] = AuthRoute
  /\ Table["hysteria-install"] = HysteriaInstall
  /\ Table["hysteria-config"] = HysteriaConfig
  /\ Table["xray-install"] = XrayInstall
  /\ Table["xray-public-key"] = XrayPublicKey
  /\ Table["xray-config"] = XrayConfig
  /\ Table["profile"] = Profile
  BY DEF Table, Resource

LEMMA RowFacts ==
  /\ \A r \in Resource : Table[r].inputs \subseteq Input
  /\ \A r \in {"server", "tailnet-policy", "profile"} : ~Table[r].onBox
  /\ \A r \in {"admin-ssh", "tailscale-up", "tailscale-name", "k3s-kubeconfig",
               "hysteria-config"} \cup ClusterRows : Table[r].onBox
  /\ Table["patching"].inputs = {"proToken"}
  /\ Table["auth-route"].inputs = {"registerRoute"}
  /\ Table["hysteria-config"].inputs = {"sni", "altPort"}
  /\ Table["profile"].inputs = {"sni", "altPort"}
  /\ Table["profile"].reads = {"server", "xray-public-key"}
  /\ \A r \in ClusterRows : Table[r].reads = {"k3s-kubeconfig"}
  /\ \A r \in Resource : {"admin-ssh", "auth-register"} \cap Table[r].reads = {}
<1>1. \A r \in Resource : Table[r].inputs \subseteq Input
  BY DEF Input
<1>3. \A r \in ClusterRows : Table[r].onBox /\ Table[r].reads = {"k3s-kubeconfig"}
  BY OtherRows DEF ClusterRows, TailnetRoutes, Cilium, Namespace, Transports, RegisterRoute,
                   AuthRoute, InCluster, Row
<1>4. /\ Table["patching"].inputs = {"proToken"}
      /\ ~Table["server"].onBox
      /\ \A r \in {"admin-ssh", "tailscale-up", "tailscale-name", "k3s-kubeconfig"} :
           Table[r].onBox
  BY HostRows DEF Server, Patching, AdminSsh, TailscaleUp, TailscaleName, K3sKubeconfig, Row
<1>5. /\ Table["auth-route"].inputs = {"registerRoute"}
      /\ Table["hysteria-config"].inputs = {"sni", "altPort"}
      /\ Table["hysteria-config"].onBox
      /\ Table["profile"].inputs = {"sni", "altPort"}
      /\ Table["profile"].reads = {"server", "xray-public-key"}
      /\ ~Table["profile"].onBox
      /\ ~Table["tailnet-policy"].onBox
  BY OtherRows DEF AuthRoute, InCluster, HysteriaConfig, Profile, TailnetPolicy, Row
<1>6. \A r \in {"server", "sysctls", "patching", "admin-ssh", "tailscale-install",
                "tailscale-up", "tailscale-self", "tailscale-name", "k3s-node-config",
                "k3s-install", "k3s-kubeconfig", "entry-label"} :
        {"admin-ssh", "auth-register"} \cap Table[r].reads = {}
  BY HostRows DEF Row, Server, Sysctls, Patching, AdminSsh, TailscaleInstall, TailscaleUp,
                  TailscaleSelf, TailscaleName, K3sNodeConfig, K3sInstall, K3sKubeconfig,
                  EntryLabel
<1>7. \A r \in {"tailnet-policy", "hysteria-install", "hysteria-config", "xray-install",
                "xray-public-key", "xray-config", "profile"} :
        {"admin-ssh", "auth-register"} \cap Table[r].reads = {}
  BY OtherRows DEF Row, TailnetPolicy, HysteriaInstall, HysteriaConfig, XrayInstall,
                   XrayPublicKey, XrayConfig, Profile
<1>8. \A r \in Resource : {"admin-ssh", "auth-register"} \cap Table[r].reads = {}
  BY <1>3, <1>6, <1>7 DEF Resource, ClusterRows
<1>. QED
  BY <1>1, <1>3, <1>4, <1>5, <1>8

\* Reaching further loses nothing, and gains what is reached from what was reached.
LEMMA FurtherFacts ==
  ASSUME NEW reach, \A r \in Resource : r \in reach[r]
  PROVE  /\ \A r \in Resource : r \in Further(reach)[r]
         /\ \A r \in Resource : reach[r] \subseteq Further(reach)[r]
         /\ \A r, s \in Resource : s \in reach[r] => reach[s] \subseteq Further(reach)[r]
  BY DEF Further

Two == Further(Direct)
Four == Further(Two)

LEMMA ReachFacts ==
  /\ \A r, s \in Resource : s \in Direct[r] => Direct[s] \subseteq Two[r]
  /\ \A r, s \in Resource : s \in Two[r] => Two[s] \subseteq Four[r]
  /\ \A r \in Resource : Direct[r] \subseteq Two[r] /\ Two[r] \subseteq Four[r]
  /\ \A r \in Resource : Four[r] \ {r} \subseteq Ancestors[r]
<1>0. \A r \in Resource : r \in Direct[r]
  BY DEF Direct
<1>1. /\ \A r \in Resource : r \in Two[r]
      /\ \A r \in Resource : Direct[r] \subseteq Two[r]
      /\ \A r, s \in Resource : s \in Direct[r] => Direct[s] \subseteq Two[r]
  BY <1>0, FurtherFacts DEF Two
<1>2. /\ \A r \in Resource : r \in Four[r]
      /\ \A r \in Resource : Two[r] \subseteq Four[r]
      /\ \A r, s \in Resource : s \in Two[r] => Two[s] \subseteq Four[r]
  BY <1>1, FurtherFacts DEF Four
<1>3. /\ \A r \in Resource : r \in Further(Four)[r]
      /\ \A r \in Resource : Four[r] \subseteq Further(Four)[r]
  BY <1>2, FurtherFacts
<1>4. /\ \A r \in Resource : r \in Further(Further(Four))[r]
      /\ \A r \in Resource : Four[r] \subseteq Further(Further(Four))[r]
  BY <1>3, FurtherFacts
<1>5. \A r \in Resource : Four[r] \subseteq Further(Further(Further(Four)))[r]
  BY <1>4, FurtherFacts
<1>6. \A r \in Resource : Ancestors[r] = Further(Further(Further(Four)))[r] \ {r}
  BY DEF Ancestors, Four, Two
<1>. QED
  BY <1>1, <1>2, <1>5, <1>6

\* What is done on a box, or names it, waits for the machine.
LEMMA ServerBefore ==
  \A r \in Resource : Table[r].onBox \/ r = "profile" => "server" \in Ancestors[r]
<1> USE DEF Row
<1>1. \A r \in {"sysctls", "patching", "admin-ssh", "tailscale-install", "k3s-node-config",
                "k3s-install", "k3s-kubeconfig"} : "server" \in Direct[r]
  BY HostRows DEF Direct, Resource, Sysctls, Patching, AdminSsh, TailscaleInstall,
                  K3sNodeConfig, K3sInstall, K3sKubeconfig
<1>2. \A r \in {"hysteria-install", "xray-install", "profile"} : "server" \in Direct[r]
  BY OtherRows DEF Direct, Resource, HysteriaInstall, XrayInstall, Profile
<1>3. /\ "tailscale-install" \in Direct["tailscale-up"]
      /\ "tailscale-up" \in Direct["tailscale-self"]
      /\ "tailscale-self" \in Direct["tailscale-name"]
      /\ "k3s-install" \in Direct["entry-label"]
  BY HostRows DEF Direct, Resource, TailscaleUp, TailscaleSelf, TailscaleName, EntryLabel
<1>4. /\ "hysteria-install" \in Direct["hysteria-config"]
      /\ "xray-install" \in Direct["xray-public-key"]
      /\ "xray-public-key" \in Direct["xray-config"]
  BY OtherRows DEF Direct, Resource, HysteriaConfig, XrayPublicKey, XrayConfig
<1>5. \A r \in ClusterRows : "k3s-kubeconfig" \in Direct[r]
  BY RowFacts DEF Direct, Resource, ClusterRows
<1>6. \A r \in Resource \ {"tailscale-self", "tailscale-name", "xray-config", "server",
                           "tailnet-policy"} : "server" \in Two[r]
  BY <1>1, <1>2, <1>3, <1>4, <1>5, ReachFacts DEF Resource, ClusterRows
<1>7. \A r \in {"tailscale-self", "tailscale-name", "xray-config"} : "server" \in Four[r]
  BY <1>3, <1>4, <1>6, ReachFacts DEF Resource
<1>8. \A r \in Resource \ {"server", "tailnet-policy"} : "server" \in Four[r]
  BY <1>6, <1>7, ReachFacts
<1>. QED
  BY <1>8, ReachFacts, RowFacts

\* The rows a row must find done, of those the properties speak of.
LEMMA Before ==
  /\ \A r \in ClusterRows : "k3s-kubeconfig" \in Ancestors[r]
  /\ "auth-register" \in Ancestors["auth-route"]
  /\ "hysteria-config" \in Ancestors["profile"]
  /\ "tailscale-up" \in Ancestors["tailscale-name"]
<1> USE DEF Row
<1>1. \A r \in ClusterRows : "k3s-kubeconfig" \in Direct[r]
  BY RowFacts DEF Direct, Resource, ClusterRows
<1>2. /\ "auth-register" \in Direct["auth-route"]
      /\ "hysteria-config" \in Direct["profile"]
  BY OtherRows DEF Direct, Resource, InCluster, AuthRoute, Profile
<1>3. /\ "tailscale-up" \in Direct["tailscale-self"]
      /\ "tailscale-self" \in Direct["tailscale-name"]
  BY HostRows DEF Direct, Resource, TailscaleSelf, TailscaleName
<1>4. "tailscale-up" \in Two["tailscale-name"]
  BY <1>3, ReachFacts DEF Resource
<1>. QED
  BY <1>1, <1>2, <1>4, ReachFacts DEF Resource, ClusterRows

-----------------------------------------------------------------------------
(* The invariant. *)

Kind ==
  [running: BOOLEAN, result: {"none", "ok", "failed"}, listed: BOOLEAN, remove: SUBSET Nat,
   rename: BOOLEAN]

Shape ==
  /\ program \in Programs
  /\ conf \in [Input -> 0..2]
  /\ pending = {}
  /\ made \in Nat
  /\ boxes \subseteq 1..made
  /\ cut \subseteq program \ (ClusterRows \cup {"server"})
  /\ DOMAIN state \subseteq program
  /\ DOMAIN holds \subseteq program \X (boxes \cup {0})

Placed ==
  /\ "server" \in DOMAIN state => state["server"].out \in boxes
  /\ "profile" \notin program => boxes \subseteq {Live}
  /\ \A r \in DOMAIN state : state[r].box \in IF Table[r].onBox THEN 1..made ELSE {0}
  /\ \A h \in DOMAIN holds : h[2] # 0 <=> Table[h[1]].onBox

Agrees(r, holding) ==
  /\ holding.ins = state[r].ins
  /\ holding.reads = state[r].reads
  /\ r = "hysteria-config" => holding.kept = {state[r].ins["altPort"]}
  /\ r = "patching" /\ state[r].ins["proToken"] # 0 => holding.kept # {}

Backed(r) ==
  /\ <<r, state[r].box>> \in DOMAIN holds
  /\ r \notin cut => Agrees(r, holds[<<r, state[r].box>>])

OnRecord == \A r \in DOMAIN state : state[r].box \in boxes \cup {0} => Backed(r)

Leftover ==
  \A r \in {"admin-ssh", "auth-register"} :
    <<r, Live>> \in DOMAIN holds =>
      r \in cut \/ (r \in DOMAIN state /\ state[r].box = Live)

Through ==
  /\ "k3s-kubeconfig" \in DOMAIN state =>
       state["k3s-kubeconfig"].out = state["k3s-kubeconfig"].box
  /\ \A r \in ClusterRows \cap DOMAIN state :
       state[r].reads = [s \in {"k3s-kubeconfig"} \cap program |-> state[r].box]

Pinned ==
  /\ "hysteria-config" \in DOMAIN state =>
       <<state["hysteria-config"].box, state["hysteria-config"].ins["sni"]>> \in served
  /\ <<"profile", 0>> \in DOMAIN holds =>
       holds[<<"profile", 0>>].reads["server"] \in 0..Live
  /\ "profile" \in DOMAIN state =>
       state["profile"].reads["server"] \in 0..holds[<<"profile", 0>>].reads["server"]
  /\ ProfilePinsServed

Claimed ==
  /\ update \in Kind
  /\ update.running => update.result = "none"
  /\ update.listed =>
       /\ update.running
       /\ "tailscale-name" \in program
       /\ Recorded("server")
       /\ update.remove \subseteq DOMAIN devices \ {0, Live}
       /\ Live \in DOMAIN devices
       /\ ~update.rename => devices[Live] = "hostname"
  /\ ~update.listed => update.remove = {}
  /\ DOMAIN devices \subseteq 0..made
  /\ \A d \in DOMAIN devices : devices[d] \in {"hostname", "suffixed"}
  /\ \A r \in {"tailscale-up", "tailscale-name"} \cap DOMAIN state :
       state[r].box = Live => Live \in DOMAIN devices
  /\ "tailscale-name" \in DOMAIN state /\ state["tailscale-name"].box = Live
       => devices[Live] = "hostname"

-----------------------------------------------------------------------------
(* What a row that is taken finds. *)

LEMMA Wanting ==
  ASSUME Shape
  PROVE  /\ program \subseteq Resource
         /\ "server" \in Wanted
         /\ Wanted \subseteq program
         /\ \A r \in program : r \notin {"admin-ssh", "auth-register"} => r \in Wanted
  BY ProgramsAssumption DEF Shape, Wanted

LEMMA ReadyFacts ==
  ASSUME Shape, NEW r \in Ready
  PROVE  /\ update.running
         /\ r \in Wanted
         /\ r \in program
         /\ r \in Resource
         /\ ~Recorded(r)
         /\ \A s \in Ancestors[r] \cap Wanted : Recorded(s)
  BY Wanting DEF Ready, Outdated

LEMMA RecordedFacts ==
  ASSUME NEW r, Recorded(r)
  PROVE  /\ r \in DOMAIN state
         /\ state[r].ins = [i \in Table[r].inputs |-> conf[i]]
         /\ state[r].reads = [s \in Table[r].reads \cap program |-> Output(s)]
         /\ state[r].box = Place(r)
  BY DEF Recorded, Target

\* A machine on record is there.
LEMMA Standing ==
  ASSUME Shape, Placed, "server" \in DOMAIN state
  PROVE  /\ Live = state["server"].out
         /\ Live \in boxes
         /\ Live \in 1..made
         /\ Live \in Nat
<1>1. Live = state["server"].out
  BY DEF Live, Output
<1>2. Live \in boxes /\ boxes \subseteq 1..made
  BY <1>1 DEF Shape, Placed
<1>. QED
  BY <1>1, <1>2 DEF Shape

LEMMA Housed ==
  ASSUME Shape, Placed, NEW r \in Ready, Table[r].onBox \/ r = "profile"
  PROVE  /\ "server" \in DOMAIN state
         /\ Recorded("server")
         /\ Live \in boxes
         /\ Live \in 1..made
<1>1. Recorded("server")
  BY ReadyFacts, Wanting, ServerBefore
<1>. QED
  BY <1>1, RecordedFacts, Standing

LEMMA PlaceFacts ==
  ASSUME Shape, Placed, NEW r \in Ready
  PROVE  /\ Place(r) \in boxes \cup {0}
         /\ Place(r) # 0 <=> Table[r].onBox
         /\ Place(r) \in IF Table[r].onBox THEN 1..made ELSE {0}
<1>1. CASE Table[r].onBox
  BY <1>1, Housed DEF Place
<1>2. CASE ~Table[r].onBox
  BY <1>2 DEF Place
<1>. QED
  BY <1>1, <1>2

-----------------------------------------------------------------------------
(* The kinds of step. *)

\* Rows, machines and what they hold stay; a claim begins or ends, or nothing does.
Quiet ==
  /\ UNCHANGED <<program, state, pending, made, boxes, holds, devices, served, cut>>
  /\ conf' \in [Input -> 0..2]
  /\ \/ UNCHANGED <<conf, update>>
     \/ ListDevices /\ UNCHANGED conf /\ update'.listed
     \/ /\ update' \in Kind
        /\ ~update'.listed
        /\ update'.remove = {}
        /\ update'.result # "ok"
        /\ update'.running => update'.result = "none"

Ran(r) ==
  /\ r \in Ready
  /\ ~MustGoFirst(r)
  /\ r # "tailscale-name"
  /\ Effects(r)
  /\ Done(r)
  /\ cut' = cut \ {r}
  /\ UNCHANGED <<program, conf>>

CutOff(r) ==
  /\ r \in Ready
  /\ r \notin {"server", "tailscale-name"} \cup ClusterRows
  /\ Effects(r)
  /\ cut' = cut \cup {r}
  /\ update' = Idle("failed")
  /\ UNCHANGED <<program, conf, state, pending>>

Deleted(r) ==
  /\ r \in Ready
  /\ MustGoFirst(r)
  /\ state' = Without(state, {r})
  /\ holds' = IF r = "server" THEN Without(holds, {h \in DOMAIN holds : h[2] = Live})
              ELSE Without(holds, {<<r, state[r].box>>})
  /\ boxes' = IF r = "server" THEN boxes \ {Live} ELSE boxes
  /\ UNCHANGED <<program, conf, pending, update, made, devices, served, cut>>

Removed(d) ==
  /\ update.listed
  /\ d \in update.remove
  /\ devices' = Without(devices, {d})
  /\ update' = [update EXCEPT !.remove = @ \ {d}]
  /\ UNCHANGED <<program, conf, state, pending, made, boxes, holds, served, cut>>

Renamed ==
  /\ update.listed
  /\ update.remove = {}
  /\ devices' = IF update.rename THEN With(devices, Live, "hostname") ELSE devices
  /\ state' = With(state, "tailscale-name", Entry("tailscale-name"))
  /\ holds' = With(holds, <<"tailscale-name", Place("tailscale-name")>>,
                   Holding("tailscale-name"))
  /\ update' = [update EXCEPT !.listed = FALSE, !.rename = FALSE]
  /\ UNCHANGED <<program, conf, pending, made, boxes, served, cut>>

Finished ==
  /\ update.running
  /\ Outdated = {}
  /\ state' = Without(state, DOMAIN state \ Wanted)
  /\ pending' = {}
  /\ boxes' = {Live}
  /\ holds' = Without(holds, {h \in DOMAIN holds : h[1] \in (DOMAIN state \ Wanted) \cup pending
                                               \/ h[2] \notin {0, Live}})
  /\ update' = Idle("ok")
  /\ UNCHANGED <<program, conf, made, devices, served, cut>>

Visited ==
  /\ devices' = With(devices, 0, IF NameTaken THEN "suffixed" ELSE "hostname")
  /\ UNCHANGED <<program, conf, state, pending, update, made, boxes, holds, served, cut>>

LEMMA IdleFacts ==
  ASSUME NEW result \in {"none", "ok", "failed"}
  PROVE  /\ Idle(result) \in Kind
         /\ ~Idle(result).listed
         /\ ~Idle(result).running
         /\ Idle(result).remove = {}
         /\ Idle(result).result = result
  BY DEF Idle, Kind

LEMMA Steps ==
  ASSUME Shape, Claimed, [Next]_vars
  PROVE  \/ Quiet
         \/ \E r \in Ready : Ran(r) \/ CutOff(r) \/ Deleted(r)
         \/ \E d \in DOMAIN devices : Removed(d)
         \/ Renamed
         \/ Finished
         \/ Visited
<1>1. CASE UNCHANGED vars
  BY <1>1 DEF vars, Quiet, Shape
<1>2. CASE Start
  <2>1. update' \in Kind /\ ~update'.listed /\ update'.remove = {} /\ update'.result = "none"
    BY <1>2 DEF Start, Idle, Kind
  <2>. QED
    BY <1>2, <2>1 DEF Start, world, counters, Quiet, Shape
<1>3. ASSUME Fails, UNCHANGED <<program, conf, made, boxes, holds, devices, served, cut>>
      PROVE  Quiet
  BY <1>3, IdleFacts DEF Fails, Quiet, Shape
<1>4. ASSUME NEW r \in Ready, DeleteFirst(r)
      PROVE  Quiet \/ Deleted(r)
  BY <1>3, <1>4 DEF DeleteFirst, Deleted
<1>5. ASSUME NEW r \in Ready, Run(r)
      PROVE  Quiet \/ Ran(r) \/ CutOff(r)
  <2>1. CASE Effects(r) /\ Done(r) /\ cut' = cut \ {r}
    BY <1>5, <2>1 DEF Run, Ran
  <2>2. CASE r \notin {"server"} \cup ClusterRows /\ Effects(r) /\ cut' = cut \cup {r} /\ Fails
    BY <1>5, <2>2 DEF Run, CutOff, Fails
  <2>3. CASE NoEffects /\ Fails
    BY <1>3, <1>5, <2>3 DEF Run, NoEffects, world
  <2>. QED
    BY <1>5, <2>1, <2>2, <2>3 DEF Run
<1>6. CASE ListDevices
  <2>1. CASE Fails
    BY <1>3, <1>6, <2>1 DEF ListDevices, world
  <2>2. CASE update' = [update EXCEPT !.listed = TRUE, !.remove = Predecessors(Live),
                                      !.rename = devices[Live] # "hostname"]
    <3>1. update'.listed
      BY <2>2 DEF Claimed, Kind
    <3>. QED
      BY <1>6, <2>2, <3>1 DEF ListDevices, world, Quiet, Shape, Fails
  <2>. QED
    BY <1>6, <2>1, <2>2 DEF ListDevices
<1>7. ASSUME NEW d \in DOMAIN devices, RemoveDevice(d)
      PROVE  Quiet \/ Removed(d)
  BY <1>3, <1>7 DEF RemoveDevice, Removed
<1>8. CASE Rename
  <2>0. UNCHANGED <<program, conf, made, boxes, served, cut>>
    BY <1>8 DEF Rename
  <2>1. CASE Fails /\ UNCHANGED <<holds, devices>>
    BY <1>3, <2>0, <2>1
  <2>2. CASE update' = Idle("failed") /\ UNCHANGED <<state, pending, holds, devices>>
    BY <2>0, <2>2, IdleFacts DEF Quiet, Shape
  <2>3. CASE Renamed
    BY <2>3
  <2>. QED
    BY <1>8, <2>1, <2>2, <2>3 DEF Rename, Renamed
<1>9. CASE Finish
  BY <1>3, <1>9 DEF Finish, Finished
<1>10. ASSUME NEW i \in Input, NEW v \in 0..2, Edit(i, v)
       PROVE  Quiet
  <2>1. conf' \in [Input -> 0..2]
    BY <1>10 DEF Edit, Shape
  <2>2. /\ update' \in Kind
        /\ update'.listed = update.listed
        /\ update'.running = update.running
        /\ update'.remove = update.remove
        /\ update'.result = "none"
    BY <1>10 DEF Edit, Claimed, Kind
  <2>3. ~update.running
    BY <1>10 DEF Edit
  <2>. QED
    BY <1>10, <2>1, <2>2, <2>3 DEF Edit, world, Quiet, Claimed
<1>11. CASE Visit
  BY <1>11 DEF Visit, Visited
<1>. QED
  BY <1>1, <1>2, <1>4, <1>5, <1>6, <1>7, <1>8, <1>9, <1>10, <1>11 DEF Next, Proceed

LEMMA SameProgram ==
  ASSUME Shape, Claimed, [Next]_vars
  PROVE  program' = program
<1>1. CASE Quiet
  BY <1>1 DEF Quiet
<1>2. CASE \E r \in Ready : Ran(r) \/ CutOff(r) \/ Deleted(r)
  BY <1>2 DEF Ran, CutOff, Deleted
<1>3. CASE (\E d \in DOMAIN devices : Removed(d)) \/ Renamed \/ Finished \/ Visited
  BY <1>3 DEF Removed, Renamed, Finished, Visited
<1>. QED
  BY <1>1, <1>2, <1>3, Steps

\* What a command that did its work changes.
LEMMA Worked ==
  ASSUME Shape, Placed, NEW r \in Ready, Effects(r)
  PROVE  /\ DOMAIN holds' = DOMAIN holds \cup {<<r, Place(r)>>}
         /\ holds'[<<r, Place(r)>>] = Holding(r)
         /\ \A h \in DOMAIN holds : h # <<r, Place(r)>> => holds'[h] = holds[h]
         /\ r # "server" => UNCHANGED <<boxes, made>>
         /\ r = "server" => boxes' = boxes \cup {made + 1} /\ made' = made + 1
         /\ boxes \subseteq boxes'
         /\ made' \in Nat /\ made <= made'
         /\ boxes' \subseteq 1..made'
<1>1. holds' = With(holds, <<r, Place(r)>>, Holding(r))
  BY DEF Effects
<1>2. /\ r # "server" => UNCHANGED <<boxes, made>>
      /\ r = "server" => boxes' = boxes \cup {made + 1} /\ made' = made + 1
  BY DEF Effects
<1>3. /\ DOMAIN holds' = DOMAIN holds \cup {<<r, Place(r)>>}
      /\ holds'[<<r, Place(r)>>] = Holding(r)
      /\ \A h \in DOMAIN holds : h # <<r, Place(r)>> => holds'[h] = holds[h]
  BY <1>1 DEF With
<1>4. made \in Nat /\ boxes \subseteq 1..made
  BY DEF Shape
<1>5. boxes \subseteq boxes' /\ made' \in Nat /\ made <= made'
  BY <1>2, <1>4
<1>6. boxes' \subseteq 1..made'
  <2>1. CASE r = "server"
    <3>1. \A b \in boxes \cup {made + 1} : b \in 1..(made + 1)
      BY <1>4
    <3>. QED
      BY <1>2, <2>1, <3>1
  <2>. QED
    BY <1>2, <1>4, <2>1
<1>. QED
  BY <1>2, <1>3, <1>5, <1>6

\* What is recorded of a row, and of the others.
LEMMA Noted ==
  ASSUME NEW r, state' = With(state, r, Entry(r))
  PROVE  /\ DOMAIN state' = DOMAIN state \cup {r}
         /\ state'[r] = Entry(r)
         /\ \A s \in DOMAIN state : s # r => state'[s] = state[s]
         /\ r # "server" => Live' = Live
         /\ r = "server" => Live' = made + 1
<1>1. /\ DOMAIN state' = DOMAIN state \cup {r}
      /\ state'[r] = Entry(r)
      /\ \A s \in DOMAIN state : s # r => state'[s] = state[s]
  BY DEF With
<1>2. r # "server" => Live' = Live
  BY <1>1 DEF Live, Output
<1>3. r = "server" => Live' = made + 1
  BY <1>1 DEF Live, Output, Entry, OutputOf
<1>. QED
  BY <1>1, <1>2, <1>3

\* The claim's last step, which records its row as any other is.
LEMMA RenamedFacts ==
  ASSUME Shape, Placed, Claimed, Renamed
  PROVE  /\ "tailscale-name" \in program
         /\ Live \in boxes
         /\ Live \in 1..made
         /\ Place("tailscale-name") = Live
         /\ DOMAIN holds' = DOMAIN holds \cup {<<"tailscale-name", Live>>}
         /\ holds'[<<"tailscale-name", Live>>] = Holding("tailscale-name")
         /\ \A h \in DOMAIN holds : h # <<"tailscale-name", Live>> => holds'[h] = holds[h]
<1>1. "tailscale-name" \in program /\ Recorded("server")
  BY DEF Renamed, Claimed
<1>2. Live \in boxes /\ Live \in 1..made
  BY <1>1, RecordedFacts, Standing
<1>3. Place("tailscale-name") = Live
  BY RowFacts DEF Place
<1>4. holds' = With(holds, <<"tailscale-name", Live>>, Holding("tailscale-name"))
  BY <1>3 DEF Renamed
<1>. QED
  BY <1>1, <1>2, <1>3, <1>4 DEF With

\* Once every row is as main's head says, the machine is there and its row is kept.
LEMMA FinishedFacts ==
  ASSUME Shape, Placed, Finished
  PROVE  /\ \A r \in Wanted : Recorded(r)
         /\ DOMAIN state' = DOMAIN state \cap Wanted
         /\ \A r \in DOMAIN state' : state'[r] = state[r]
         /\ Live \in boxes /\ Live \in 1..made
         /\ Live' = Live
         /\ DOMAIN holds' = {h \in DOMAIN holds : h[1] \notin DOMAIN state \ Wanted
                                               /\ h[2] \in {0, Live}}
         /\ \A h \in DOMAIN holds' : holds'[h] = holds[h]
<1>1. \A r \in Wanted : Recorded(r)
  BY DEF Finished, Outdated
<1>2. "server" \in Wanted /\ "server" \in DOMAIN state
  BY <1>1, Wanting, RecordedFacts
<1>3. /\ DOMAIN state' = DOMAIN state \cap Wanted
      /\ \A r \in DOMAIN state' : state'[r] = state[r]
  BY DEF Finished, Without
<1>4. Live' = Live
  BY <1>2, <1>3 DEF Live, Output
<1>5. /\ DOMAIN holds' = DOMAIN holds
            \ {h \in DOMAIN holds : h[1] \in (DOMAIN state \ Wanted) \cup pending
                                 \/ h[2] \notin {0, Live}}
      /\ \A h \in DOMAIN holds' : holds'[h] = holds[h]
  BY DEF Finished, Without
<1>. QED
  BY <1>1, <1>2, <1>3, <1>4, <1>5, Standing DEF Shape

LEMMA DeletedFacts ==
  ASSUME Shape, Placed, NEW r \in Ready, Deleted(r)
  PROVE  /\ r \in DOMAIN state
         /\ r \in {"admin-ssh", "server"}
         /\ DOMAIN state' = DOMAIN state \ {r}
         /\ \A s \in DOMAIN state' : state'[s] = state[s]
         /\ r = "admin-ssh" =>
              /\ Live' = Live
              /\ boxes' = boxes
              /\ DOMAIN holds' = DOMAIN holds \ {<<r, state[r].box>>}
         /\ r = "server" =>
              /\ "profile" \notin program
              /\ Live' = 0
              /\ boxes' = {}
              /\ DOMAIN holds' = {h \in DOMAIN holds : h[2] # Live}
         /\ \A h \in DOMAIN holds' : holds'[h] = holds[h]
<1>1. /\ r \in DOMAIN state
      /\ r \in {"admin-ssh", "server"}
      /\ r = "server" => "profile" \notin program
  BY DEF Deleted, MustGoFirst, DeletedFirst
<1>2. DOMAIN state' = DOMAIN state \ {r} /\ \A s \in DOMAIN state' : state'[s] = state[s]
  BY DEF Deleted, Without
<1>3. CASE r = "admin-ssh"
  <2>1. holds' = Without(holds, {<<r, state[r].box>>}) /\ boxes' = boxes
    BY <1>3 DEF Deleted
  <2>2. Live' = Live
    BY <1>2, <1>3 DEF Live, Output
  <2>. QED
    BY <1>1, <1>2, <1>3, <2>1, <2>2 DEF Without
<1>4. CASE r = "server"
  <2>1. holds' = Without(holds, {h \in DOMAIN holds : h[2] = Live}) /\ boxes' = boxes \ {Live}
    BY <1>4 DEF Deleted
  <2>2. Live' = 0
    BY <1>2, <1>4 DEF Live, Output
  <2>3. boxes' = {}
    BY <1>1, <1>4, <2>1 DEF Placed
  <2>. QED
    BY <1>1, <1>2, <1>4, <2>1, <2>2, <2>3 DEF Without
<1>. QED
  BY <1>1, <1>3, <1>4

-----------------------------------------------------------------------------
(* Each part of the invariant is kept. *)

LEMMA ShapeNext ==
  ASSUME Shape, Placed, Claimed, [Next]_vars
  PROVE  Shape'
<1>1. CASE Quiet
  BY <1>1 DEF Quiet, Shape
<1>2. ASSUME NEW r \in Ready, Ran(r)
      PROVE  Shape'
  <2>1. pending' = {}
    BY <1>2 DEF Ran, Done, MustGoFirst, HasDelete, DeletedFirst, Shape
  <2>2. r \in program /\ Effects(r)
    BY <1>2, ReadyFacts DEF Ran
  <2>3. DOMAIN state' \subseteq program
    BY <1>2, <2>2, Noted DEF Ran, Done, Shape
  <2>4. DOMAIN holds' \subseteq program \X (boxes' \cup {0})
    <3>1. DOMAIN holds' = DOMAIN holds \cup {<<r, Place(r)>>} /\ boxes \subseteq boxes'
      BY <2>2, Worked
    <3>2. Place(r) \in boxes \cup {0}
      BY PlaceFacts
    <3>3. <<r, Place(r)>> \in program \X (boxes' \cup {0})
      BY <2>2, <3>1, <3>2
    <3>4. DOMAIN holds \subseteq program \X (boxes' \cup {0})
      BY <3>1 DEF Shape
    <3>. QED
      BY <3>1, <3>3, <3>4
  <2>5. made' \in Nat /\ boxes' \subseteq 1..made'
    BY <2>2, Worked
  <2>. QED
    BY <1>2, <2>1, <2>3, <2>4, <2>5 DEF Ran, Shape
<1>3. ASSUME NEW r \in Ready, CutOff(r)
      PROVE  Shape'
  <2>1. r \in program /\ Effects(r)
    BY <1>3, ReadyFacts DEF CutOff
  <2>2. DOMAIN holds' \subseteq program \X (boxes' \cup {0})
    <3>1. DOMAIN holds' = DOMAIN holds \cup {<<r, Place(r)>>} /\ boxes \subseteq boxes'
      BY <2>1, Worked
    <3>2. Place(r) \in boxes \cup {0}
      BY PlaceFacts
    <3>3. <<r, Place(r)>> \in program \X (boxes' \cup {0})
      BY <2>1, <3>1, <3>2
    <3>4. DOMAIN holds \subseteq program \X (boxes' \cup {0})
      BY <3>1 DEF Shape
    <3>. QED
      BY <3>1, <3>3, <3>4
  <2>3. made' \in Nat /\ boxes' \subseteq 1..made'
    BY <2>1, Worked
  <2>. QED
    BY <1>3, <2>1, <2>2, <2>3 DEF CutOff, Shape
<1>4. ASSUME NEW r \in Ready, Deleted(r)
      PROVE  Shape'
  <2>1. DOMAIN state' \subseteq program /\ boxes' \subseteq 1..made
    BY <1>4, DeletedFacts DEF Shape
  <2>2. DOMAIN holds' \subseteq program \X (boxes' \cup {0})
    <3>1. CASE r = "admin-ssh"
      BY <1>4, <3>1, DeletedFacts DEF Shape
    <3>2. CASE r = "server"
      BY <1>4, <3>2, DeletedFacts DEF Shape, Placed
    <3>. QED
      BY <1>4, <3>1, <3>2, DeletedFacts
  <2>. QED
    BY <1>4, <2>1, <2>2 DEF Deleted, Shape
<1>5. ASSUME NEW d, Removed(d)
      PROVE  Shape'
  BY <1>5 DEF Removed, Shape
<1>6. CASE Renamed
  <2>1. DOMAIN state' \subseteq program
    BY <1>6, Noted, RenamedFacts DEF Renamed, Shape
  <2>2. DOMAIN holds' \subseteq program \X (boxes \cup {0})
    BY <1>6, RenamedFacts DEF Shape
  <2>. QED
    BY <1>6, <2>1, <2>2 DEF Renamed, Shape
<1>7. CASE Finished
  <2>1. DOMAIN state' \subseteq program
    BY <1>7, FinishedFacts DEF Shape
  <2>2. DOMAIN holds' \subseteq program \X {0, Live}
    BY <1>7, FinishedFacts DEF Shape
  <2>3. boxes' = {Live} /\ Live \in 1..made
    BY <1>7, FinishedFacts DEF Finished
  <2>. QED
    BY <1>7, <2>1, <2>2, <2>3 DEF Finished, Shape
<1>8. CASE Visited
  BY <1>8 DEF Visited, Shape
<1>. QED
  BY <1>1, <1>2, <1>3, <1>4, <1>5, <1>6, <1>7, <1>8, Steps

LEMMA PlacedNext ==
  ASSUME Shape, Placed, Claimed, [Next]_vars
  PROVE  Placed'
<1> USE DEF Placed
<1>1. ASSUME UNCHANGED <<program, state, made, boxes, holds>>
      PROVE  Placed'
  BY <1>1 DEF Live, Output
<1>2. ASSUME NEW r \in Ready, Ran(r)
      PROVE  Placed'
  <2>0. Effects(r) /\ r \in program /\ state' = With(state, r, Entry(r))
    BY <1>2, ReadyFacts DEF Ran, Done
  <2>9. /\ DOMAIN state' = DOMAIN state \cup {r}
        /\ state'[r] = Entry(r)
        /\ \A s \in DOMAIN state : s # r => state'[s] = state[s]
    BY <2>0, Noted
  <2>1. "server" \in DOMAIN state' => state'["server"].out \in boxes'
    <3>1. boxes \subseteq boxes' /\ (r = "server" => made + 1 \in boxes')
      BY <2>0, Worked
    <3>2. r = "server" => Entry(r).out = made + 1
      BY DEF Entry, OutputOf
    <3>. QED
      BY <2>9, <3>1, <3>2
  <2>2. ASSUME "profile" \notin program
        PROVE  boxes' \subseteq {Live'}
    <3>1. CASE r = "server"
      <4>1. "server" \notin DOMAIN state
        BY <1>2, <2>2, <3>1 DEF Ran, MustGoFirst, DeletedFirst
      <4>2. Live = 0
        BY <4>1 DEF Live, Output
      <4>3. boxes = {}
        BY <2>2, <4>2 DEF Shape
      <4>. QED
        BY <2>0, <3>1, <4>3, Noted, Worked
    <3>2. CASE r # "server"
      BY <2>0, <2>2, <3>2, Noted, Worked
    <3>. QED
      BY <3>1, <3>2
  <2>3. \A s \in DOMAIN state' : state'[s].box \in IF Table[s].onBox THEN 1..made' ELSE {0}
    <3>1. state'[r].box = Place(r)
      BY <2>9 DEF Entry
    <3>2. made' \in Nat /\ made <= made' /\ made \in Nat
      BY <2>0, Worked DEF Shape
    <3>3. Place(r) \in IF Table[r].onBox THEN 1..made ELSE {0}
      BY PlaceFacts
    <3>. QED
      BY <2>9, <3>1, <3>2, <3>3
  <2>4. \A h \in DOMAIN holds' : h[2] # 0 <=> Table[h[1]].onBox
    <3>1. DOMAIN holds' = DOMAIN holds \cup {<<r, Place(r)>>}
      BY <2>0, Worked
    <3>2. Place(r) # 0 <=> Table[r].onBox
      BY PlaceFacts
    <3>. QED
      BY <3>1, <3>2
  <2>. QED
    BY <1>2, <2>1, <2>2, <2>3, <2>4 DEF Ran
<1>3. ASSUME NEW r \in Ready, CutOff(r)
      PROVE  Placed'
  <2>0. Effects(r) /\ r # "server"
    BY <1>3 DEF CutOff
  <2>1. UNCHANGED <<program, state, boxes, made>> /\ Live' = Live
    BY <1>3, <2>0, Worked DEF CutOff, Live, Output
  <2>2. \A h \in DOMAIN holds' : h[2] # 0 <=> Table[h[1]].onBox
    <3>1. DOMAIN holds' = DOMAIN holds \cup {<<r, Place(r)>>}
      BY <2>0, Worked
    <3>2. Place(r) # 0 <=> Table[r].onBox
      BY PlaceFacts
    <3>. QED
      BY <3>1, <3>2
  <2>. QED
    BY <2>1, <2>2
<1>4. ASSUME NEW r \in Ready, Deleted(r)
      PROVE  Placed'
  <2>0. UNCHANGED <<program, made>>
    BY <1>4 DEF Deleted
  <2>1. CASE r = "admin-ssh"
    <3>1. /\ DOMAIN state' \subseteq DOMAIN state
          /\ \A s \in DOMAIN state' : state'[s] = state[s]
          /\ Live' = Live /\ boxes' = boxes
          /\ DOMAIN holds' \subseteq DOMAIN holds
      BY <1>4, <2>1, DeletedFacts
    <3>. QED
      BY <2>0, <3>1
  <2>2. CASE r = "server"
    BY <1>4, <2>0, <2>2, DeletedFacts
  <2>. QED
    BY <1>4, <2>1, <2>2, DeletedFacts
<1>5. CASE Renamed
  <2>1. /\ UNCHANGED <<program, made, boxes>>
        /\ state' = With(state, "tailscale-name", Entry("tailscale-name"))
    BY <1>5 DEF Renamed
  <2>2. Live' = Live
    BY <2>1, Noted
  <2>9. /\ DOMAIN state' = DOMAIN state \cup {"tailscale-name"}
        /\ state'["tailscale-name"] = Entry("tailscale-name")
        /\ \A s \in DOMAIN state : s # "tailscale-name" => state'[s] = state[s]
    BY <2>1, Noted
  <2>3. "server" \in DOMAIN state' => state'["server"].out \in boxes
    BY <2>9
  <2>4. \A s \in DOMAIN state' : state'[s].box \in IF Table[s].onBox THEN 1..made ELSE {0}
    <3>1. state'["tailscale-name"].box = Live
      BY <1>5, <2>9, RenamedFacts DEF Entry
    <3>2. Table["tailscale-name"].onBox
      BY RowFacts
    <3>. QED
      BY <1>5, <2>9, <3>1, <3>2, RenamedFacts
  <2>5. \A h \in DOMAIN holds' : h[2] # 0 <=> Table[h[1]].onBox
    <3>1. /\ DOMAIN holds' = DOMAIN holds \cup {<<"tailscale-name", Live>>}
          /\ Live # 0
      BY <1>5, RenamedFacts
    <3>2. Table["tailscale-name"].onBox
      BY RowFacts
    <3>. QED
      BY <3>1, <3>2
  <2>. QED
    BY <2>1, <2>2, <2>3, <2>4, <2>5
<1>6. CASE Finished
  <2>1. /\ UNCHANGED <<program, made>>
        /\ boxes' = {Live}
    BY <1>6 DEF Finished
  <2>2. "server" \in DOMAIN state' => state'["server"].out = Live
    BY <1>6, FinishedFacts DEF Live, Output
  <2>. QED
    BY <1>6, <2>1, <2>2, FinishedFacts
<1>7. CASE Quiet \/ Visited \/ \E d : Removed(d)
  BY <1>1, <1>7 DEF Quiet, Visited, Removed
<1>. QED
  BY <1>2, <1>3, <1>4, <1>5, <1>6, <1>7, Steps

\* What is recorded of a row that was done agrees with what is in effect.
LEMMA Agreed ==
  ASSUME Shape, NEW r \in Resource
  PROVE  /\ Holding(r).ins = Entry(r).ins
         /\ Holding(r).reads = Entry(r).reads
         /\ r = "hysteria-config" => Holding(r).kept = {Entry(r).ins["altPort"]}
         /\ r = "patching" /\ Entry(r).ins["proToken"] # 0 => Holding(r).kept # {}
<1>1. /\ Holding(r).ins = Entry(r).ins
      /\ Holding(r).reads = Entry(r).reads
      /\ Holding(r).kept = Kept(r)
      /\ Entry(r).ins = [i \in Table[r].inputs |-> conf[i]]
  BY DEF Holding, Entry, Target
<1>2. ASSUME r = "hysteria-config"
      PROVE  Kept(r) = {conf["altPort"]} /\ Entry(r).ins["altPort"] = conf["altPort"]
  <2>1. Kept(r) = {conf["altPort"]}
    BY <1>2 DEF Kept, Closed
  <2>. QED
    BY <1>1, <1>2, <2>1, RowFacts
<1>3. ASSUME r = "patching", Entry(r).ins["proToken"] # 0
      PROVE  Kept(r) # {}
  <2>1. conf["proToken"] # 0
    BY <1>1, <1>3, RowFacts
  <2>. QED
    BY <1>3, <2>1 DEF Kept
<1>. QED
  BY <1>1, <1>2, <1>3

LEMMA OnRecordNext ==
  ASSUME Shape, Placed, Claimed, OnRecord, [Next]_vars
  PROVE  OnRecord'
<1>0. SUFFICES ASSUME NEW s \in DOMAIN state', state'[s].box \in boxes' \cup {0}
               PROVE  Backed(s)'
  BY DEF OnRecord
<1>1. ASSUME s \in DOMAIN state, state'[s] = state[s], state[s].box \in boxes \cup {0},
             <<s, state[s].box>> \in DOMAIN holds',
             holds'[<<s, state[s].box>>] = holds[<<s, state[s].box>>],
             s \notin cut' => s \notin cut
      PROVE  Backed(s)'
  BY <1>1 DEF OnRecord, Backed, Agrees
<1>2. ASSUME NEW r \in program, state'[r] = Entry(r), s = r,
             <<r, Place(r)>> \in DOMAIN holds',
             holds'[<<r, Place(r)>>] = Holding(r)
      PROVE  Backed(s)'
  <2>1. state'[r].box = Place(r)
    BY <1>2 DEF Entry
  <2>2. r \in Resource
    BY Wanting
  <2>. QED
    BY <1>2, <2>1, <2>2, Agreed DEF Backed, Agrees
<1>3. ASSUME UNCHANGED <<state, boxes, holds, cut>>
      PROVE  Backed(s)'
  <2>1. <<s, state[s].box>> \in DOMAIN holds'
    BY <1>0, <1>3 DEF OnRecord, Backed
  <2>. QED
    BY <1>0, <1>1, <1>3, <2>1
\* A row that another's work leaves alone.
<1>4. ASSUME NEW r \in Ready, Effects(r), s # r, s \in DOMAIN state, state'[s] = state[s],
             s \notin cut' => s \notin cut
      PROVE  Backed(s)'
  <2>1. state[s].box \in boxes \cup {0}
    <3>1. state[s].box \in 0..made
      BY <1>4 DEF Placed, Shape
    <3>2. boxes' = boxes \/ boxes' = boxes \cup {made + 1}
      BY <1>4, Worked
    <3>. QED
      BY <1>0, <1>4, <3>1, <3>2 DEF Shape
  <2>2. <<s, state[s].box>> \in DOMAIN holds
    BY <1>4, <2>1 DEF OnRecord, Backed
  <2>3. <<s, state[s].box>> # <<r, Place(r)>>
    BY <1>4
  <2>4. /\ <<s, state[s].box>> \in DOMAIN holds'
        /\ holds'[<<s, state[s].box>>] = holds[<<s, state[s].box>>]
    BY <1>4, <2>2, <2>3, Worked
  <2>. QED
    BY <1>1, <1>4, <2>1, <2>4
<1>5. ASSUME NEW r \in Ready, Ran(r)
      PROVE  Backed(s)'
  <2>1. Effects(r) /\ r \in program /\ state' = With(state, r, Entry(r)) /\ cut' = cut \ {r}
    BY <1>5, ReadyFacts DEF Ran, Done
  <2>2. /\ DOMAIN state' = DOMAIN state \cup {r}
        /\ state'[r] = Entry(r)
        /\ \A q \in DOMAIN state : q # r => state'[q] = state[q]
    BY <2>1, Noted
  <2>3. <<r, Place(r)>> \in DOMAIN holds' /\ holds'[<<r, Place(r)>>] = Holding(r)
    BY <2>1, Worked
  <2>4. CASE s = r
    BY <1>2, <2>1, <2>2, <2>3, <2>4
  <2>5. CASE s # r
    BY <1>0, <1>4, <2>1, <2>2, <2>5
  <2>. QED
    BY <2>4, <2>5
<1>6. ASSUME NEW r \in Ready, CutOff(r)
      PROVE  Backed(s)'
  <2>1. Effects(r) /\ r # "server" /\ state' = state /\ cut' = cut \cup {r}
    BY <1>6 DEF CutOff
  <2>2. /\ DOMAIN holds' = DOMAIN holds \cup {<<r, Place(r)>>}
        /\ boxes' = boxes
    BY <2>1, Worked
  <2>3. CASE s = r
    BY <1>0, <2>1, <2>2, <2>3 DEF OnRecord, Backed
  <2>4. CASE s # r
    BY <1>0, <1>4, <2>1, <2>4
  <2>. QED
    BY <2>3, <2>4
<1>7. ASSUME NEW r \in Ready, Deleted(r)
      PROVE  Backed(s)'
  <2>1. /\ s \in DOMAIN state /\ s # r
        /\ state'[s] = state[s]
        /\ r \in {"admin-ssh", "server"}
        /\ \A h \in DOMAIN holds' : holds'[h] = holds[h]
    BY <1>0, <1>7, DeletedFacts
  <2>2. cut' = cut
    BY <1>7 DEF Deleted
  <2>3. CASE r = "admin-ssh"
    <3>1. boxes' = boxes /\ DOMAIN holds' = DOMAIN holds \ {<<r, state[r].box>>}
      BY <1>7, <2>3, DeletedFacts
    <3>2. state[s].box \in boxes \cup {0}
      BY <1>0, <2>1, <3>1
    <3>3. <<s, state[s].box>> \in DOMAIN holds'
      BY <2>1, <3>1, <3>2 DEF OnRecord, Backed
    <3>. QED
      BY <1>1, <2>1, <2>2, <3>2, <3>3
  <2>4. CASE r = "server"
    <3>1. boxes' = {} /\ DOMAIN holds' = {h \in DOMAIN holds : h[2] # Live}
      BY <1>7, <2>4, DeletedFacts
    <3>2. "server" \in DOMAIN state
      BY <1>7, <2>4, DeletedFacts
    <3>3. Live \in 1..made
      BY <3>2, Standing
    <3>4. state[s].box = 0 /\ Live # 0
      BY <1>0, <2>1, <3>1, <3>3
    <3>5. <<s, state[s].box>> \in DOMAIN holds'
      BY <2>1, <3>1, <3>4 DEF OnRecord, Backed
    <3>. QED
      BY <1>1, <2>1, <2>2, <3>4, <3>5
  <2>. QED
    BY <2>1, <2>3, <2>4
<1>8. CASE Renamed
  <2>1. /\ state' = With(state, "tailscale-name", Entry("tailscale-name"))
        /\ UNCHANGED <<boxes, cut>>
    BY <1>8 DEF Renamed
  <2>2. /\ DOMAIN state' = DOMAIN state \cup {"tailscale-name"}
        /\ state'["tailscale-name"] = Entry("tailscale-name")
        /\ \A q \in DOMAIN state : q # "tailscale-name" => state'[q] = state[q]
    BY <2>1, Noted
  <2>3. /\ "tailscale-name" \in program
        /\ Place("tailscale-name") = Live
        /\ DOMAIN holds' = DOMAIN holds \cup {<<"tailscale-name", Live>>}
        /\ holds'[<<"tailscale-name", Live>>] = Holding("tailscale-name")
        /\ \A h \in DOMAIN holds : h # <<"tailscale-name", Live>> => holds'[h] = holds[h]
    BY <1>8, RenamedFacts
  <2>4. CASE s = "tailscale-name"
    BY <1>2, <2>2, <2>3, <2>4
  <2>5. CASE s # "tailscale-name"
    <3>1. s \in DOMAIN state /\ state'[s] = state[s] /\ state[s].box \in boxes \cup {0}
      BY <1>0, <2>1, <2>2, <2>5
    <3>2. <<s, state[s].box>> \in DOMAIN holds
      BY <3>1 DEF OnRecord, Backed
    <3>3. <<s, state[s].box>> # <<"tailscale-name", Live>>
      BY <2>5
    <3>. QED
      BY <1>1, <2>1, <2>3, <3>1, <3>2, <3>3
  <2>. QED
    BY <2>4, <2>5
<1>9. CASE Finished
  <2>1. /\ s \in DOMAIN state /\ s \in Wanted
        /\ state'[s] = state[s]
        /\ Recorded(s)
        /\ Live \in boxes
    BY <1>0, <1>9, FinishedFacts
  <2>2. state[s].box = Place(s)
    BY <2>1, RecordedFacts
  <2>3. state[s].box \in {0, Live}
    BY <2>2 DEF Place
  <2>4. <<s, state[s].box>> \in DOMAIN holds
    BY <2>1, <2>3 DEF OnRecord, Backed
  <2>5. <<s, state[s].box>> \in DOMAIN holds' /\ \A h \in DOMAIN holds' : holds'[h] = holds[h]
    BY <1>9, <2>1, <2>3, <2>4, FinishedFacts
  <2>6. cut' = cut
    BY <1>9 DEF Finished
  <2>. QED
    BY <1>1, <2>1, <2>3, <2>5, <2>6
<1>10. CASE Quiet \/ Visited \/ \E d : Removed(d)
  BY <1>3, <1>10 DEF Quiet, Visited, Removed
<1>. QED
  BY <1>5, <1>6, <1>7, <1>8, <1>9, <1>10, Steps

LEMMA LeftoverNext ==
  ASSUME Shape, Placed, Claimed, Leftover, [Next]_vars
  PROVE  Leftover'
<1>0. SUFFICES ASSUME NEW q \in {"admin-ssh", "auth-register"}, <<q, Live'>> \in DOMAIN holds'
               PROVE  q \in cut' \/ (q \in DOMAIN state' /\ state'[q].box = Live')
  BY DEF Leftover
<1> DEFINE Goal == q \in cut' \/ (q \in DOMAIN state' /\ state'[q].box = Live')
<1> USE DEF Leftover
<1>1. Table[q].onBox
  BY RowFacts DEF ClusterRows
<1>2. ASSUME NEW r \in Ready, Ran(r)
      PROVE  Goal
  <2>1. Effects(r) /\ state' = With(state, r, Entry(r)) /\ cut' = cut \ {r}
    BY <1>2 DEF Ran, Done
  <2>2. /\ DOMAIN state' = DOMAIN state \cup {r}
        /\ state'[r] = Entry(r)
        /\ \A s \in DOMAIN state : s # r => state'[s] = state[s]
        /\ r # "server" => Live' = Live
        /\ r = "server" => Live' = made + 1
    BY <2>1, Noted
  <2>3. DOMAIN holds' = DOMAIN holds \cup {<<r, Place(r)>>}
    BY <2>1, Worked
  <2>4. CASE q = r
    <3>1. state'[q].box = Live
      BY <1>1, <2>2, <2>4 DEF Entry, Place
    <3>. QED
      BY <2>2, <2>4, <3>1
  <2>5. CASE q # r /\ r # "server"
    <3>1. <<q, Live>> \in DOMAIN holds
      BY <1>0, <2>2, <2>3, <2>5
    <3>. QED
      BY <2>1, <2>2, <2>5, <3>1
  <2>6. CASE r = "server"
    <3>1. <<q, made + 1>> \in DOMAIN holds
      BY <1>0, <2>2, <2>3, <2>6
    <3>2. made + 1 \in boxes \cup {0}
      BY <3>1 DEF Shape
    <3>. QED
      BY <3>2 DEF Shape
  <2>. QED
    BY <2>4, <2>5, <2>6
<1>3. ASSUME NEW r \in Ready, CutOff(r)
      PROVE  Goal
  <2>1. Effects(r) /\ state' = state /\ cut' = cut \cup {r} /\ Live' = Live
    BY <1>3 DEF CutOff, Live, Output
  <2>2. DOMAIN holds' = DOMAIN holds \cup {<<r, Place(r)>>}
    BY <2>1, Worked
  <2>. QED
    BY <1>0, <2>1, <2>2
<1>4. ASSUME NEW r \in Ready, Deleted(r)
      PROVE  Goal
  <2>1. /\ DOMAIN state' = DOMAIN state \ {r}
        /\ \A s \in DOMAIN state' : state'[s] = state[s]
        /\ r \in {"admin-ssh", "server"}
    BY <1>4, DeletedFacts
  <2>2. cut' = cut
    BY <1>4 DEF Deleted
  <2>3. CASE r = "admin-ssh"
    <3>1. Live' = Live /\ DOMAIN holds' = DOMAIN holds \ {<<r, state[r].box>>}
      BY <1>4, <2>3, DeletedFacts
    <3>2. <<q, Live>> \in DOMAIN holds /\ <<q, Live>> # <<r, state[r].box>>
      BY <1>0, <3>1
    <3>3. q \in cut \/ (q \in DOMAIN state /\ state[q].box = Live /\ q # r)
      BY <3>2
    <3>. QED
      BY <2>1, <2>2, <3>1, <3>3
  <2>4. CASE r = "server"
    <3>1. Live' = 0 /\ DOMAIN holds' \subseteq DOMAIN holds
      BY <1>4, <2>4, DeletedFacts
    <3>2. <<q, 0>> \in DOMAIN holds
      BY <1>0, <3>1
    <3>. QED
      BY <1>1, <3>2 DEF Placed
  <2>. QED
    BY <2>1, <2>3, <2>4
<1>5. CASE Renamed
  <2>1. /\ state' = With(state, "tailscale-name", Entry("tailscale-name"))
        /\ cut' = cut
    BY <1>5 DEF Renamed
  <2>2. /\ DOMAIN state' = DOMAIN state \cup {"tailscale-name"}
        /\ \A s \in DOMAIN state : s # "tailscale-name" => state'[s] = state[s]
        /\ Live' = Live
    BY <2>1, Noted
  <2>3. DOMAIN holds' = DOMAIN holds \cup {<<"tailscale-name", Live>>}
    BY <1>5, RenamedFacts
  <2>. QED
    BY <1>0, <2>1, <2>2, <2>3
<1>6. CASE Finished
  <2>1. /\ Live' = Live
        /\ <<q, Live>> \in DOMAIN holds
        /\ q \notin DOMAIN state \ Wanted
        /\ DOMAIN state' = DOMAIN state \cap Wanted
        /\ \A r \in DOMAIN state' : state'[r] = state[r]
    BY <1>0, <1>6, FinishedFacts
  <2>. QED
    BY <1>6, <2>1 DEF Finished
<1>7. CASE Quiet \/ Visited \/ \E d : Removed(d)
  <2>1. UNCHANGED <<state, holds, cut>>
    BY <1>7 DEF Quiet, Visited, Removed
  <2>2. Live' = Live
    BY <2>1 DEF Live, Output
  <2>. QED
    BY <1>0, <2>1, <2>2
<1>. QED
  BY <1>2, <1>3, <1>4, <1>5, <1>6, <1>7, Steps

LEMMA ThroughNext ==
  ASSUME Shape, Placed, Claimed, Through, [Next]_vars
  PROVE  Through'
<1> USE DEF Through
<1>1. ASSUME UNCHANGED program,
             \A s \in DOMAIN state' \cap ({"k3s-kubeconfig"} \cup ClusterRows) :
               s \in DOMAIN state /\ state'[s] = state[s]
      PROVE  Through'
  BY <1>1
<1>2. ASSUME NEW r \in Ready, Ran(r)
      PROVE  Through'
  <2>1. /\ state' = With(state, r, Entry(r))
        /\ program' = program
        /\ r \in program
    BY <1>2, ReadyFacts DEF Ran, Done
  <2>2. /\ DOMAIN state' = DOMAIN state \cup {r}
        /\ state'[r] = Entry(r)
        /\ \A s \in DOMAIN state : s # r => state'[s] = state[s]
    BY <2>1, Noted
  <2>3. CASE r = "k3s-kubeconfig"
    <3>1. state'[r].out = Live /\ state'[r].box = Live
      BY <2>2, <2>3, RowFacts DEF Entry, OutputOf, Place
    <3>2. \A s \in ClusterRows \cap DOMAIN state' : s \in DOMAIN state /\ state'[s] = state[s]
      BY <2>2, <2>3 DEF ClusterRows
    <3>3. state'["k3s-kubeconfig"].out = state'["k3s-kubeconfig"].box
      BY <2>3, <3>1
    <3>4. \A s \in ClusterRows \cap DOMAIN state' :
            state'[s].reads = [q \in {"k3s-kubeconfig"} \cap program |-> state'[s].box]
      BY <3>2
    <3>. QED
      BY <2>1, <3>3, <3>4
  <2>4. CASE r \in ClusterRows
    <3>1. Place(r) = Live /\ Table[r].reads = {"k3s-kubeconfig"}
      BY <2>4, RowFacts DEF Place
    <3>2. ASSUME "k3s-kubeconfig" \in program
          PROVE  Output("k3s-kubeconfig") = Live
      <4>1. Recorded("k3s-kubeconfig")
        BY <2>4, <3>2, Before, ReadyFacts, Wanting
      <4>2. Place("k3s-kubeconfig") = Live
        BY RowFacts DEF Place
      <4>. QED
        BY <4>1, <4>2, RecordedFacts DEF Output
    <3>3. state'[r].reads = [s \in {"k3s-kubeconfig"} \cap program |-> Live]
      BY <2>2, <3>1, <3>2 DEF Entry, Target
    <3>4. state'[r].box = Live
      BY <2>2, <3>1 DEF Entry
    <3>5. \A s \in DOMAIN state' : s # r => s \in DOMAIN state /\ state'[s] = state[s]
      BY <2>2
    <3>6. r # "k3s-kubeconfig"
      BY <2>4 DEF ClusterRows
    <3>7. state'[r].reads = [s \in {"k3s-kubeconfig"} \cap program |-> state'[r].box]
      BY <3>3, <3>4
    <3>8. ASSUME NEW s \in ClusterRows \cap DOMAIN state'
          PROVE  state'[s].reads = [q \in {"k3s-kubeconfig"} \cap program |-> state'[s].box]
      <4>1. CASE s = r
        BY <3>7, <4>1
      <4>2. CASE s # r
        BY <3>5, <4>2
      <4>. QED
        BY <4>1, <4>2
    <3>. QED
      BY <2>1, <3>5, <3>6, <3>8
  <2>5. CASE r \notin {"k3s-kubeconfig"} \cup ClusterRows
    BY <1>1, <2>1, <2>2, <2>5
  <2>. QED
    BY <2>3, <2>4, <2>5
<1>3. ASSUME NEW r \in Ready, Deleted(r)
      PROVE  Through'
  <2>1. DOMAIN state' \subseteq DOMAIN state /\ \A s \in DOMAIN state' : state'[s] = state[s]
    BY <1>3, DeletedFacts
  <2>. QED
    BY <1>1, <1>3, <2>1 DEF Deleted
<1>4. CASE Renamed
  <2>1. /\ state' = With(state, "tailscale-name", Entry("tailscale-name"))
        /\ program' = program
    BY <1>4 DEF Renamed
  <2>2. /\ DOMAIN state' = DOMAIN state \cup {"tailscale-name"}
        /\ \A s \in DOMAIN state : s # "tailscale-name" => state'[s] = state[s]
    BY <2>1, Noted
  <2>. QED
    BY <1>1, <2>1, <2>2 DEF ClusterRows
<1>5. CASE Finished
  <2>1. DOMAIN state' \subseteq DOMAIN state /\ \A s \in DOMAIN state' : state'[s] = state[s]
    BY <1>5, FinishedFacts
  <2>. QED
    BY <1>1, <1>5, <2>1 DEF Finished
<1>6. CASE Quiet \/ Visited \/ (\E d : Removed(d)) \/ \E r \in Ready : CutOff(r)
  BY <1>1, <1>6 DEF Quiet, Visited, Removed, CutOff
<1>. QED
  BY <1>2, <1>3, <1>4, <1>5, <1>6, Steps

\* A machine's number is never more than the machines made.
LEMMA LiveFacts ==
  ASSUME Shape, Placed
  PROVE  Live \in 0..made /\ made \in Nat
<1>1. CASE "server" \in DOMAIN state
  BY <1>1, Standing DEF Shape
<1>2. CASE "server" \notin DOMAIN state
  BY <1>2 DEF Live, Output, Shape
<1>. QED
  BY <1>1, <1>2

Home == <<"profile", 0>>

\* The profiles in effect, and those on record, in a state that keeps both.
LEMMA PinnedStays ==
  ASSUME Shape, Placed, Pinned,
         DOMAIN state' \cap {"hysteria-config", "profile"} \subseteq DOMAIN state,
         \A s \in DOMAIN state' \cap {"hysteria-config", "profile"} : state'[s] = state[s],
         Home \in DOMAIN holds' => Home \in DOMAIN holds /\ holds'[Home] = holds[Home],
         "profile" \in DOMAIN state' => Home \in DOMAIN holds',
         Home \in DOMAIN holds' => Live <= Live' /\ Live' \in Nat,
         Home \in DOMAIN holds' => boxes \subseteq boxes',
         served \subseteq served'
  PROVE  Pinned'
<1>1. "hysteria-config" \in DOMAIN state' =>
        <<state'["hysteria-config"].box, state'["hysteria-config"].ins["sni"]>> \in served'
  BY DEF Pinned
<1>2. Home \in DOMAIN holds' => holds'[Home].reads["server"] \in 0..Live'
  BY LiveFacts DEF Pinned, Home
<1>3. "profile" \in DOMAIN state' =>
        state'["profile"].reads["server"] \in 0..holds'[Home].reads["server"]
  BY DEF Pinned, Home
<1>4. ProfilePinsServed'
  BY DEF Pinned, ProfilePinsServed, Home
<1>. QED
  BY <1>1, <1>2, <1>3, <1>4 DEF Pinned, Home

LEMMA PinnedNext ==
  ASSUME Shape, Placed, Claimed, OnRecord, Pinned, [Next]_vars
  PROVE  Pinned'
<1>0. /\ Home[1] = "profile" /\ Home[2] = 0
      /\ "profile" \in DOMAIN state => Home \in DOMAIN holds
  <2>1. ~Table["profile"].onBox
    BY RowFacts
  <2>2. "profile" \in DOMAIN state => state["profile"].box = 0
    BY <2>1 DEF Placed
  <2>. QED
    BY <2>2 DEF OnRecord, Backed, Home
<1>1. ASSUME NEW r \in Ready, Effects(r)
      PROVE  /\ served \subseteq served'
             /\ boxes \subseteq boxes'
             /\ DOMAIN holds' = DOMAIN holds \cup {<<r, Place(r)>>}
             /\ holds'[<<r, Place(r)>>] = Holding(r)
             /\ r # "profile" /\ Home \in DOMAIN holds' =>
                  Home \in DOMAIN holds /\ holds'[Home] = holds[Home]
             /\ Home \in DOMAIN holds => Home \in DOMAIN holds'
  <2>1. served \subseteq served'
    BY <1>1 DEF Effects
  <2>2. /\ boxes \subseteq boxes'
        /\ DOMAIN holds' = DOMAIN holds \cup {<<r, Place(r)>>}
        /\ holds'[<<r, Place(r)>>] = Holding(r)
        /\ \A h \in DOMAIN holds : h # <<r, Place(r)>> => holds'[h] = holds[h]
    BY <1>1, Worked
  <2>3. r # "profile" => Home # <<r, Place(r)>>
    BY DEF Home
  <2>. QED
    BY <2>1, <2>2, <2>3
\* What the profiles are made of when they are made.
<1>2. ASSUME NEW r \in Ready, r = "profile", Effects(r)
      PROVE  /\ Holding(r).reads["server"] = Live
             /\ Entry(r).reads["server"] = Live
             /\ <<Live, Holding(r).ins["sni"]>> \in served
             /\ Live \in boxes /\ Live \in Nat
             /\ <<r, Place(r)>> = Home
             /\ served' = served /\ boxes' = boxes
  <2>1. Live \in boxes /\ Live \in 1..made /\ Recorded("server")
    BY <1>2, Housed
  <2>2. "server" \in program /\ "hysteria-config" \in program /\ "hysteria-config" \in Wanted
    BY <1>2, ReadyFacts, Wanting, ProgramsAssumption DEF Shape
  <2>3. Target(r).reads["server"] = Output("server")
    BY <1>2, <2>2, RowFacts DEF Target
  <2>4. Target(r).ins["sni"] = conf["sni"]
    BY <1>2, RowFacts DEF Target
  <2>5. Recorded("hysteria-config")
    BY <1>2, <2>2, Before, ReadyFacts
  <2>6. /\ "hysteria-config" \in DOMAIN state
        /\ state["hysteria-config"].box = Live
        /\ state["hysteria-config"].ins["sni"] = conf["sni"]
    <3>1. /\ "hysteria-config" \in DOMAIN state
          /\ state["hysteria-config"].box = Place("hysteria-config")
          /\ state["hysteria-config"].ins = [i \in Table["hysteria-config"].inputs |-> conf[i]]
      BY <2>5, RecordedFacts
    <3>. QED
      BY <3>1, RowFacts DEF Place
  <2>7. <<Live, conf["sni"]>> \in served
    BY <2>6 DEF Pinned
  <2>8. Place(r) = 0
    BY <1>2, RowFacts DEF Place
  <2>9. served' = served /\ boxes' = boxes
    BY <1>2 DEF Effects
  <2>. QED
    BY <1>2, <2>1, <2>3, <2>4, <2>7, <2>8, <2>9 DEF Live, Holding, Entry, Home, Shape
<1>3. ASSUME NEW r \in Ready, Ran(r)
      PROVE  Pinned'
  <2>1. Effects(r) /\ r \in program /\ state' = With(state, r, Entry(r))
    BY <1>3, ReadyFacts DEF Ran, Done
  <2>2. /\ DOMAIN state' = DOMAIN state \cup {r}
        /\ state'[r] = Entry(r)
        /\ \A s \in DOMAIN state : s # r => state'[s] = state[s]
        /\ r # "server" => Live' = Live
        /\ r = "server" => Live' = made + 1
    BY <2>1, Noted
  <2>3. Live <= Live' /\ Live' \in Nat /\ Live \in Nat
    BY <2>2, LiveFacts
  <2>4. CASE r = "hysteria-config"
    <3>1. state'[r].box = Live /\ state'[r].ins["sni"] = conf["sni"]
      BY <2>2, <2>4, RowFacts DEF Entry, Target, Place
    <3>2. <<Live, conf["sni"]>> \in served'
      BY <2>1, <2>4 DEF Effects
    <3>3. Home \in DOMAIN holds' => holds'[Home].reads["server"] \in 0..Live'
      BY <1>1, <2>1, <2>2, <2>4 DEF Pinned, Home
    <3>4. "profile" \in DOMAIN state' =>
            state'["profile"].reads["server"] \in 0..holds'[Home].reads["server"]
      BY <1>0, <1>1, <2>1, <2>2, <2>4 DEF Pinned, Home
    <3>5. ProfilePinsServed'
      BY <1>1, <2>1, <2>4 DEF Pinned, ProfilePinsServed, Home
    <3>. QED
      BY <2>4, <3>1, <3>2, <3>3, <3>4, <3>5 DEF Pinned, Home
  <2>5. CASE r = "profile"
    <3>1. /\ holds'[Home].reads["server"] = Live
          /\ state'["profile"].reads["server"] = Live
          /\ Live' = Live
          /\ Home \in DOMAIN holds'
      BY <1>1, <1>2, <2>1, <2>2, <2>5
    <3>2. ProfilePinsServed'
      BY <1>1, <1>2, <2>1, <2>5, <3>1 DEF ProfilePinsServed, Home
    <3>3. "hysteria-config" \in DOMAIN state' =>
            <<state'["hysteria-config"].box, state'["hysteria-config"].ins["sni"]>> \in served'
      <4>1. served' = served
        BY <1>2, <2>1, <2>5
      <4>2. "hysteria-config" \in DOMAIN state' =>
              "hysteria-config" \in DOMAIN state
              /\ state'["hysteria-config"] = state["hysteria-config"]
        BY <2>2, <2>5
      <4>. QED
        BY <4>1, <4>2 DEF Pinned
    <3>. QED
      BY <2>3, <3>1, <3>2, <3>3 DEF Pinned, Home
  <2>6. CASE r \notin {"hysteria-config", "profile"}
    <3>1. /\ DOMAIN state' \cap {"hysteria-config", "profile"} \subseteq DOMAIN state
          /\ \A s \in DOMAIN state' \cap {"hysteria-config", "profile"} : state'[s] = state[s]
      BY <2>2, <2>6
    <3>2. "profile" \in DOMAIN state' => Home \in DOMAIN holds'
      BY <1>0, <1>1, <2>1, <2>6, <3>1
    <3>. QED
      BY <1>1, <2>1, <2>3, <2>6, <3>1, <3>2, PinnedStays
  <2>. QED
    BY <2>4, <2>5, <2>6
<1>4. ASSUME NEW r \in Ready, CutOff(r)
      PROVE  Pinned'
  <2>1. Effects(r) /\ state' = state /\ Live' = Live /\ Live \in Nat
    BY <1>4, LiveFacts DEF CutOff, Live, Output
  <2>2. CASE r = "profile"
    <3>1. holds'[Home].reads["server"] = Live /\ Home \in DOMAIN holds'
      BY <1>1, <1>2, <2>1, <2>2
    <3>2. ProfilePinsServed'
      BY <1>1, <1>2, <2>1, <2>2, <3>1 DEF ProfilePinsServed, Home
    <3>3. "profile" \in DOMAIN state => state["profile"].reads["server"] \in 0..Live
      BY <1>0, <2>1 DEF Pinned, Home
    <3>4. "hysteria-config" \in DOMAIN state =>
            <<state["hysteria-config"].box, state["hysteria-config"].ins["sni"]>> \in served'
      BY <1>1, <2>1 DEF Pinned
    <3>. QED
      BY <2>1, <3>1, <3>2, <3>3, <3>4 DEF Pinned, Home
  <2>3. CASE r # "profile"
    <3>1. /\ served \subseteq served'
          /\ boxes \subseteq boxes'
          /\ Home \in DOMAIN holds' => Home \in DOMAIN holds /\ holds'[Home] = holds[Home]
          /\ "profile" \in DOMAIN state' => Home \in DOMAIN holds'
      BY <1>0, <1>1, <2>1, <2>3
    <3>. QED
      BY <2>1, <3>1, PinnedStays
  <2>. QED
    BY <2>2, <2>3
<1>5. ASSUME NEW r \in Ready, Deleted(r)
      PROVE  Pinned'
  <2>1. /\ DOMAIN state' \subseteq DOMAIN state
        /\ \A s \in DOMAIN state' : state'[s] = state[s]
        /\ \A h \in DOMAIN holds' : holds'[h] = holds[h]
        /\ r \in {"admin-ssh", "server"}
    BY <1>5, DeletedFacts
  <2>2. served' = served
    BY <1>5 DEF Deleted
  <2>3. CASE r = "admin-ssh"
    <3>1. /\ Live' = Live /\ boxes' = boxes
          /\ DOMAIN holds' = DOMAIN holds \ {<<r, state[r].box>>}
      BY <1>5, <2>3, DeletedFacts
    <3>2. Home # <<r, state[r].box>>
      BY <2>3 DEF Home
    <3>. QED
      BY <1>0, <2>1, <2>2, <3>1, <3>2, LiveFacts, PinnedStays
  <2>4. CASE r = "server"
    <3>1. /\ "profile" \notin program
          /\ DOMAIN holds' \subseteq DOMAIN holds
      BY <1>5, <2>4, DeletedFacts
    <3>2. Home \notin DOMAIN holds' /\ "profile" \notin DOMAIN state'
      BY <1>0, <2>1, <3>1 DEF Shape
    <3>. QED
      BY <2>1, <2>2, <3>2, PinnedStays
  <2>. QED
    BY <2>1, <2>3, <2>4
<1>6. CASE Renamed
  <2>1. /\ state' = With(state, "tailscale-name", Entry("tailscale-name"))
        /\ UNCHANGED <<boxes, served>>
    BY <1>6 DEF Renamed
  <2>2. /\ DOMAIN state' = DOMAIN state \cup {"tailscale-name"}
        /\ \A s \in DOMAIN state : s # "tailscale-name" => state'[s] = state[s]
        /\ Live' = Live
    BY <2>1, Noted
  <2>3. /\ DOMAIN holds' = DOMAIN holds \cup {<<"tailscale-name", Live>>}
        /\ \A h \in DOMAIN holds : h # <<"tailscale-name", Live>> => holds'[h] = holds[h]
    BY <1>6, RenamedFacts
  <2>4. Home # <<"tailscale-name", Live>>
    BY DEF Home
  <2>. QED
    BY <1>0, <2>1, <2>2, <2>3, <2>4, LiveFacts, PinnedStays
<1>7. CASE Finished
  <2>1. /\ \A r \in Wanted : Recorded(r)
        /\ DOMAIN state' = DOMAIN state \cap Wanted
        /\ \A r \in DOMAIN state' : state'[r] = state[r]
        /\ Live' = Live
        /\ DOMAIN holds' = {h \in DOMAIN holds : h[1] \notin DOMAIN state \ Wanted
                                              /\ h[2] \in {0, Live}}
        /\ \A h \in DOMAIN holds' : holds'[h] = holds[h]
    BY <1>7, FinishedFacts
  <2>2. boxes' = {Live} /\ served' = served
    BY <1>7 DEF Finished
  <2>3. "profile" \in DOMAIN state' => Home \in DOMAIN holds'
    BY <1>0, <2>1
  <2>4. ASSUME Home \in DOMAIN holds'
        PROVE  holds[Home].reads["server"] = Live /\ Home \in DOMAIN holds
    <3>1. "profile" \in program /\ "profile" \in Wanted
      BY <1>0, <2>1, <2>4, Wanting DEF Shape
    <3>2. Recorded("profile")
      BY <2>1, <3>1
    <3>3. "profile" \in DOMAIN state /\ state["profile"].reads["server"] = Output("server")
      <4>1. /\ "profile" \in DOMAIN state
            /\ state["profile"].reads = [s \in Table["profile"].reads \cap program |-> Output(s)]
        BY <3>2, RecordedFacts
      <4>2. "server" \in Table["profile"].reads \cap program
        BY RowFacts, Wanting
      <4>. QED
        BY <4>1, <4>2
    <3>. QED
      BY <2>1, <2>4, <3>3, LiveFacts DEF Pinned, Home, Live
  <2>5. ProfilePinsServed'
    BY <2>1, <2>2, <2>4 DEF Pinned, ProfilePinsServed, Home
  <2>6. Home \in DOMAIN holds' => holds'[Home].reads["server"] \in 0..Live'
    BY <2>1, <2>4 DEF Pinned, Home
  <2>7. "profile" \in DOMAIN state' =>
          state'["profile"].reads["server"] \in 0..holds'[Home].reads["server"]
    BY <2>1, <2>3 DEF Pinned, Home
  <2>8. "hysteria-config" \in DOMAIN state' =>
          <<state'["hysteria-config"].box, state'["hysteria-config"].ins["sni"]>> \in served'
    BY <2>1, <2>2 DEF Pinned
  <2>. QED
    BY <2>5, <2>6, <2>7, <2>8 DEF Pinned, Home
<1>8. CASE Quiet \/ Visited \/ \E d : Removed(d)
  <2>1. UNCHANGED <<state, boxes, holds, served>>
    BY <1>8 DEF Quiet, Visited, Removed
  <2>2. Live' = Live
    BY <2>1 DEF Live, Output
  <2>. QED
    BY <1>0, <2>1, <2>2, LiveFacts, PinnedStays
<1>. QED
  BY <1>3, <1>4, <1>5, <1>6, <1>7, <1>8, Steps

\* What is recorded of the machine stays right while an update runs.
LEMMA ServerRecorded ==
  ASSUME Recorded("server"), UNCHANGED <<program, conf>>,
         "server" \in DOMAIN state', state'["server"] = state["server"]
  PROVE  Recorded("server")'
<1>1. Table["server"].reads = {} /\ ~Table["server"].onBox
  BY HostRows DEF Server, Row
<1>2. /\ state["server"].ins = [i \in Table["server"].inputs |-> conf[i]]
      /\ state["server"].reads = [s \in {} |-> 0]
      /\ state["server"].box = 0
  BY <1>1, RecordedFacts DEF Place
<1>3. /\ Target("server")'.ins = state'["server"].ins
      /\ Target("server")'.reads = [s \in {} |-> 0]
      /\ Target("server")'.box = 0
  BY <1>1, <1>2 DEF Target, Place
<1>. QED
  BY <1>1, <1>2 DEF Recorded, Target, Place

LEMMA ClaimedNext ==
  ASSUME Shape, Placed, Claimed, [Next]_vars
  PROVE  Claimed'
<1> DEFINE Rows == {"tailscale-up", "tailscale-name"}
<1>0. /\ \A r \in Rows \cap DOMAIN state : state[r].box \in 1..made
      /\ Live \in 0..made /\ made \in Nat
  BY RowFacts, LiveFacts DEF Placed
\* A step that keeps the list of devices, the claim and what it rests on.
<1>1. ASSUME UNCHANGED <<program, conf, state, devices, update>>, made' = made
      PROVE  Claimed'
  <2>1. Live' = Live
    BY <1>1 DEF Live, Output
  <2>2. Recorded("server") => Recorded("server")'
    BY <1>1, RecordedFacts, ServerRecorded
  <2>. QED
    BY <1>0, <1>1, <2>1, <2>2 DEF Claimed
\* `tailscale up` adds the machine's device, and changes no other.
<1>2. ASSUME NEW r \in Ready, Effects(r)
      PROVE  /\ DOMAIN devices \subseteq DOMAIN devices'
             /\ DOMAIN devices' \subseteq DOMAIN devices \cup {Live}
             /\ \A d \in DOMAIN devices : devices'[d] = devices[d]
             /\ \A d \in DOMAIN devices' : devices'[d] \in {"hostname", "suffixed"}
             /\ r = "tailscale-up" => Live \in DOMAIN devices'
  <2>1. CASE devices' = devices /\ (r = "tailscale-up" => Live \in DOMAIN devices)
    BY <2>1 DEF Claimed
  <2>2. CASE /\ Live \notin DOMAIN devices
             /\ devices' = With(devices, Live, IF NameTaken THEN "suffixed" ELSE "hostname")
    BY <2>2 DEF With, Claimed
  <2>. QED
    BY <1>2, <2>1, <2>2 DEF Effects, Registered
<1>3. ASSUME NEW r \in Ready, Ran(r)
      PROVE  Claimed'
  <2>1. /\ Effects(r) /\ state' = With(state, r, Entry(r)) /\ r # "tailscale-name"
        /\ UNCHANGED <<program, conf, update>>
    BY <1>3 DEF Ran, Done
  <2>2. /\ DOMAIN state' = DOMAIN state \cup {r}
        /\ \A s \in DOMAIN state : s # r => state'[s] = state[s]
        /\ r # "server" => Live' = Live
        /\ r = "server" => Live' = made + 1
    BY <2>1, Noted
  <2>3. made' \in Nat /\ made <= made'
    BY <2>1, Worked
  <2>4. DOMAIN devices' \subseteq 0..made'
    BY <1>0, <1>2, <2>1, <2>3 DEF Claimed
  <2>5. ASSUME update.listed
        PROVE  /\ Recorded("server")'
               /\ Live' = Live
    <3>1. r # "server" /\ Recorded("server")
      BY <2>5, ReadyFacts DEF Claimed
    <3>2. "server" \in DOMAIN state' /\ state'["server"] = state["server"]
      BY <2>2, <3>1, RecordedFacts
    <3>. QED
      BY <2>1, <2>2, <3>1, <3>2, ServerRecorded
  <2>6. update.listed =>
          /\ update.running
          /\ "tailscale-name" \in program
          /\ update.remove \subseteq DOMAIN devices' \ {0, Live'}
          /\ Live' \in DOMAIN devices'
          /\ ~update.rename => devices'[Live'] = "hostname"
    BY <1>2, <2>1, <2>5 DEF Claimed
  <2>7. ASSUME NEW s \in Rows \cap DOMAIN state', state'[s].box = Live'
        PROVE  /\ Live' \in DOMAIN devices'
               /\ s = "tailscale-name" => devices'[Live'] = "hostname"
    <3>1. CASE r = "server"
      <4>1. s \in DOMAIN state /\ state'[s] = state[s]
        BY <2>2, <3>1
      <4>. QED
        BY <1>0, <2>2, <2>7, <3>1, <4>1
    <3>2. CASE s = r
      BY <1>2, <2>1, <2>2, <3>2
    <3>3. CASE s # r /\ r # "server"
      BY <1>2, <2>1, <2>2, <2>7, <3>3 DEF Claimed
    <3>. QED
      BY <3>1, <3>2, <3>3
  <2>8. \A d \in DOMAIN devices' : devices'[d] \in {"hostname", "suffixed"}
    BY <1>2, <2>1
  <2>. QED
    BY <2>1, <2>4, <2>5, <2>6, <2>7, <2>8 DEF Claimed
<1>4. ASSUME NEW r \in Ready, CutOff(r)
      PROVE  Claimed'
  <2>1. /\ Effects(r) /\ state' = state /\ Live' = Live
        /\ update' = Idle("failed")
    BY <1>4 DEF CutOff, Live, Output
  <2>2. made' \in Nat /\ made <= made'
    BY <2>1, Worked
  <2>3. /\ DOMAIN devices' \subseteq 0..made'
        /\ DOMAIN devices \subseteq DOMAIN devices'
        /\ \A d \in DOMAIN devices : devices'[d] = devices[d]
        /\ \A d \in DOMAIN devices' : devices'[d] \in {"hostname", "suffixed"}
    BY <1>0, <1>2, <2>1, <2>2 DEF Claimed
  <2>4. \A s \in Rows \cap DOMAIN state :
          state[s].box = Live => Live \in DOMAIN devices'
    BY <2>3 DEF Claimed
  <2>5. "tailscale-name" \in DOMAIN state /\ state["tailscale-name"].box = Live
          => devices'[Live] = "hostname"
    BY <2>3 DEF Claimed
  <2>. QED
    BY <2>1, <2>3, <2>4, <2>5, IdleFacts DEF Claimed
<1>5. ASSUME NEW r \in Ready, Deleted(r)
      PROVE  Claimed'
  <2>1. /\ DOMAIN state' = DOMAIN state \ {r}
        /\ \A s \in DOMAIN state' : state'[s] = state[s]
        /\ r \in {"admin-ssh", "server"}
    BY <1>5, DeletedFacts
  <2>2. UNCHANGED <<program, conf, update, made, devices>>
    BY <1>5 DEF Deleted
  <2>3. CASE r = "admin-ssh"
    <3>1. Live' = Live
      BY <1>5, <2>3, DeletedFacts
    <3>2. Recorded("server") => Recorded("server")'
      BY <2>1, <2>2, <2>3, RecordedFacts, ServerRecorded
    <3>. QED
      BY <2>1, <2>2, <3>1, <3>2 DEF Claimed
  <2>4. CASE r = "server"
    <3>1. ~update.listed
      BY <2>4, ReadyFacts DEF Claimed
    <3>2. Live' = 0
      BY <1>5, <2>4, DeletedFacts
    <3>3. \A s \in Rows \cap DOMAIN state' : state'[s].box # Live'
      BY <1>0, <2>1, <3>2
    <3>. QED
      BY <2>2, <3>1, <3>3 DEF Claimed
  <2>. QED
    BY <2>1, <2>3, <2>4
<1>6. ASSUME NEW d, Removed(d)
      PROVE  Claimed'
  <2>1. /\ UNCHANGED <<program, conf, state, made>>
        /\ update.listed /\ d \in update.remove
    BY <1>6 DEF Removed
  <2>2. Live' = Live
    BY <2>1 DEF Live, Output
  <2>3. Recorded("server")'
    BY <2>1, RecordedFacts, ServerRecorded DEF Claimed
  <2>4. /\ update' \in Kind
        /\ update'.remove = update.remove \ {d}
        /\ update'.listed = update.listed
        /\ update'.running = update.running
        /\ update'.rename = update.rename
        /\ update'.result = update.result
    BY <1>6 DEF Removed, Claimed, Kind
  <2>5. /\ DOMAIN devices' = DOMAIN devices \ {d}
        /\ \A e \in DOMAIN devices' : devices'[e] = devices[e]
    BY <1>6 DEF Removed, Without
  <2>6. d # Live
    BY <2>1 DEF Claimed
  <2>. QED
    BY <2>1, <2>2, <2>3, <2>4, <2>5, <2>6 DEF Claimed
<1>7. CASE Renamed
  <2>1. /\ state' = With(state, "tailscale-name", Entry("tailscale-name"))
        /\ UNCHANGED <<program, conf, made>>
        /\ update.listed /\ update.remove = {}
    BY <1>7 DEF Renamed
  <2>2. /\ DOMAIN state' = DOMAIN state \cup {"tailscale-name"}
        /\ \A s \in DOMAIN state : s # "tailscale-name" => state'[s] = state[s]
        /\ Live' = Live
    BY <2>1, Noted
  <2>3. /\ update' \in Kind
        /\ ~update'.listed
        /\ update'.remove = {}
        /\ update'.running => update'.result = "none"
    BY <1>7 DEF Renamed, Claimed, Kind
  <2>4. /\ DOMAIN devices' = DOMAIN devices
        /\ devices'[Live] = "hostname"
        /\ \A d \in DOMAIN devices : devices'[d] \in {"hostname", "suffixed"}
        /\ Live \in DOMAIN devices
    BY <1>7, <2>1 DEF Renamed, Claimed, With
  <2>. QED
    BY <2>1, <2>2, <2>3, <2>4 DEF Claimed
<1>8. CASE Finished
  <2>1. /\ DOMAIN state' \subseteq DOMAIN state
        /\ \A s \in DOMAIN state' : state'[s] = state[s]
        /\ Live' = Live
    BY <1>8, FinishedFacts
  <2>2. UNCHANGED <<devices, made>> /\ update' = Idle("ok")
    BY <1>8 DEF Finished
  <2>. QED
    BY <2>1, <2>2, IdleFacts DEF Claimed
<1>9. CASE Visited
  <2>1. UNCHANGED <<program, conf, state, update, made>>
    BY <1>9 DEF Visited
  <2>2. Live' = Live
    BY <2>1 DEF Live, Output
  <2>3. /\ DOMAIN devices' = DOMAIN devices \cup {0}
        /\ \A d \in DOMAIN devices \ {0} : devices'[d] = devices[d]
        /\ devices'[0] \in {"hostname", "suffixed"}
    BY <1>9 DEF Visited, With
  <2>4. Recorded("server") => Recorded("server")' /\ Live # 0
    <3>1. ASSUME Recorded("server")
          PROVE  Recorded("server")' /\ Live # 0
      <4>1. "server" \in DOMAIN state
        BY <3>1, RecordedFacts
      <4>2. Live # 0
        BY <4>1, Standing
      <4>. QED
        BY <2>1, <3>1, <4>1, <4>2, ServerRecorded
    <3>. QED
      BY <3>1
  <2>5. \A s \in Rows \cap DOMAIN state : state[s].box # 0
    BY <1>0
  <2>6. 0 \in 0..made /\ DOMAIN devices' \subseteq 0..made
    BY <1>0, <2>3 DEF Claimed
  <2>. QED
    BY <2>1, <2>2, <2>3, <2>4, <2>5, <2>6 DEF Claimed
<1>10. CASE ListDevices /\ UNCHANGED <<program, conf, state, made, devices>> /\ update'.listed
  <2>1. "tailscale-name" \in Ready
    BY <1>10 DEF ListDevices
  <2>2. update' = [update EXCEPT !.listed = TRUE, !.remove = Predecessors(Live),
                                 !.rename = devices[Live] # "hostname"]
    BY <1>10, IdleFacts DEF ListDevices, Fails
  <2>3. Recorded("server") /\ update.running /\ "tailscale-name" \in program
    BY <2>1, Housed, ReadyFacts, RowFacts
  <2>4. Recorded("tailscale-up")
    <3>1. "tailscale-up" \in program
      BY <2>3, ProgramsAssumption DEF Shape
    <3>. QED
      BY <2>1, <3>1, Before, ReadyFacts, Wanting
  <2>5. Live \in DOMAIN devices
    <3>1. Place("tailscale-up") = Live
      BY RowFacts DEF Place
    <3>. QED
      BY <2>4, <3>1, RecordedFacts DEF Claimed
  <2>6. Live' = Live /\ Recorded("server")'
    BY <1>10, <2>3, RecordedFacts, ServerRecorded DEF Live, Output
  <2>7. Predecessors(Live) = DOMAIN devices \ {0, Live} /\ DOMAIN devices \subseteq Nat
    BY <1>0 DEF Predecessors, Claimed
  <2>8. /\ update' \in Kind
        /\ update'.listed /\ update'.running = update.running
        /\ update'.result = update.result
        /\ update'.remove = DOMAIN devices \ {0, Live}
        /\ ~update'.rename => devices[Live] = "hostname"
    BY <2>2, <2>7 DEF Claimed, Kind
  <2>. QED
    BY <1>10, <2>3, <2>5, <2>6, <2>8 DEF Claimed
<1>11. CASE Quiet
  <2>1. made' = made /\ made \in Nat
    BY <1>11, LiveFacts DEF Quiet
  <2>2. UNCHANGED <<program, state, made, devices>>
    BY <1>11 DEF Quiet
  <2>3. CASE ListDevices /\ UNCHANGED conf /\ update'.listed
    BY <1>10, <2>2, <2>3
  <2>4. CASE UNCHANGED <<conf, update>>
    BY <1>1, <2>1, <2>2, <2>4
  <2>5. CASE /\ update' \in Kind
             /\ ~update'.listed
             /\ update'.remove = {}
             /\ update'.result # "ok"
             /\ update'.running => update'.result = "none"
    <3>1. ~update'.listed /\ DOMAIN devices' \subseteq 0..made'
      BY <2>2, <2>1, <2>5 DEF Claimed
    <3>2. Live' = Live
      BY <2>2 DEF Live, Output
    <3>. QED
      BY <2>1, <2>2, <2>5, <3>1, <3>2 DEF Claimed
  <2>. QED
    BY <1>11, <2>3, <2>4, <2>5 DEF Quiet
<1>. QED
  BY <1>3, <1>4, <1>5, <1>6, <1>7, <1>8, <1>9, <1>11, Steps

-----------------------------------------------------------------------------
(* The invariant holds, and what the runs check follows from it. *)

Inv == Shape /\ Placed /\ OnRecord /\ Leftover /\ Through /\ Pinned /\ Claimed

LEMMA InvInit == Init => Inv
<1> SUFFICES ASSUME Init
             PROVE  Inv
  OBVIOUS
<1>1. /\ DOMAIN state = {} /\ DOMAIN holds = {} /\ DOMAIN devices = {}
      /\ Live = 0
  BY DEF Init, Live, Output
<1>2. Shape
  BY <1>1 DEF Init, Shape
<1>3. Placed /\ OnRecord /\ Leftover /\ Through
  BY <1>1 DEF Init, Placed, OnRecord, Leftover, Through
<1>4. Pinned
  BY <1>1 DEF Pinned, ProfilePinsServed
<1>5. Claimed
  BY <1>1, IdleFacts DEF Init, Claimed
<1>. QED
  BY <1>2, <1>3, <1>4, <1>5 DEF Inv

LEMMA InvNext == Inv /\ [Next]_vars => Inv'
  BY ShapeNext, PlacedNext, OnRecordNext, LeftoverNext, ThroughNext, PinnedNext, ClaimedNext
     DEF Inv

LEMMA InvAlways == Spec => []Inv
  BY InvInit, InvNext, PTL DEF Spec

\* Every variable keeps its type; machines, what they hold and what Pulumi records of
\* them are those there are.
THEOREM TypeCorrect == Spec => []TypeOK
<1>1. Inv => TypeOK
  <2> SUFFICES ASSUME Inv
               PROVE  TypeOK
    OBVIOUS
  <2> USE DEF Inv
  <2>1. program \subseteq Resource
    BY Wanting
  <2>2. \A r \in DOMAIN state : state[r].box \in 0..made
    BY DEF Placed, Shape
  <2>3. \A h \in DOMAIN holds : h[1] \in program /\ h[2] \in boxes \cup {0}
    BY DEF Shape
  <2>4. /\ update.result \in {"none", "ok", "failed"}
        /\ update.remove \subseteq DOMAIN devices
    BY DEF Claimed, Kind
  <2>. QED
    BY <2>1, <2>2, <2>3, <2>4 DEF TypeOK, Shape, Claimed
<1>. QED
  BY <1>1, InvAlways, PTL

\* The profiles never pin a certificate the box they name has not served, nor name a
\* box that is gone, while an update rebuilds it or fails on the way (main.ts, edge.ts).
THEOREM PinsServed == Spec => []ProfilePinsServed
  BY InvAlways, PTL DEF Inv, Pinned

\* Nothing in the cluster is replaced unless the cluster is (main.ts: the provider).
THEOREM Outlives == Spec => ClusterOutlivesInstalls
<1>1. Inv /\ Inv' /\ [Next]_vars =>
        \A r \in ClusterRows \cap DOMAIN state \cap DOMAIN state' :
          state'[r].reads # state[r].reads => state'[r].box # state[r].box
  <2> SUFFICES ASSUME Inv, Inv', [Next]_vars,
                      NEW r \in ClusterRows \cap DOMAIN state \cap DOMAIN state',
                      state'[r].box = state[r].box
               PROVE  state'[r].reads = state[r].reads
    OBVIOUS
  <2>1. program' = program
    BY SameProgram DEF Inv
  <2>2. state[r].reads = [s \in {"k3s-kubeconfig"} \cap program |-> state[r].box]
    BY DEF Inv, Through
  <2>3. state'[r].reads = [s \in {"k3s-kubeconfig"} \cap program' |-> state'[r].box]
    BY DEF Inv, Through
  <2>. QED
    BY <2>1, <2>2, <2>3
<1>. QED
  BY <1>1, InvAlways, PTL DEF Spec, ClusterOutlivesInstalls

LEMMA DevicesStay ==
  ASSUME Inv, [Next]_vars, NEW d \in DOMAIN devices \ DOMAIN devices'
  PROVE  Removed(d)
<1>1. ASSUME NEW r \in Ready, Effects(r)
      PROVE  DOMAIN devices \subseteq DOMAIN devices'
  BY <1>1 DEF Effects, Registered, With
<1>2. CASE \E r \in Ready : Ran(r) \/ CutOff(r) \/ Deleted(r)
  BY <1>1, <1>2 DEF Ran, CutOff, Deleted
<1>3. CASE Quiet \/ Finished
  BY <1>3 DEF Quiet, Finished
<1>4. CASE Renamed \/ Visited
  BY <1>4 DEF Renamed, Visited, With
<1>5. ASSUME NEW e \in DOMAIN devices, Removed(e)
      PROVE  Removed(d)
  <2>1. DOMAIN devices' = DOMAIN devices \ {e}
    BY <1>5 DEF Removed, Without
  <2>. QED
    BY <1>5, <2>1
<1>. QED
  BY <1>2, <1>3, <1>4, <1>5, Steps DEF Inv

\* The claim removes devices of machines that are gone, never the box's own nor a
\* person's that shares its name (claim-tailnet-name.ts).
THEOREM Claim == Spec => OnlyPredecessorsRemoved
<1>1. Inv /\ [Next]_vars =>
        \A d \in DOMAIN devices : d \notin DOMAIN devices' => d # 0 /\ d \notin boxes
  <2> SUFFICES ASSUME Inv, [Next]_vars, NEW d \in DOMAIN devices \ DOMAIN devices'
               PROVE  d # 0 /\ d \notin boxes
    OBVIOUS
  <2>1. update.listed /\ d \in update.remove
    BY DevicesStay DEF Removed
  <2>2. d \notin {0, Live} /\ "tailscale-name" \in program
    BY <2>1 DEF Inv, Claimed
  <2>3. boxes \subseteq {Live}
    BY <2>2, ProgramsAssumption DEF Inv, Shape, Placed
  <2>. QED
    BY <2>2, <2>3
<1>. QED
  BY <1>1, InvAlways, PTL DEF Spec, OnlyPredecessorsRemoved

-----------------------------------------------------------------------------
(* What is in effect of one row when another's is. *)

\* What is in effect, on a machine that stays, stays as long as it is wanted.
LEMMA Lasting ==
  ASSUME Inv, [Next]_vars, NEW z, NEW c, c \in boxes' \cup {0}, z # "admin-ssh",
         <<z, c>> \in DOMAIN holds, Finished => z \in Wanted
  PROVE  <<z, c>> \in DOMAIN holds'
<1>1. ASSUME NEW r \in Ready, Effects(r)
      PROVE  <<z, c>> \in DOMAIN holds'
  BY <1>1, Worked DEF Inv
<1>2. ASSUME NEW r \in Ready, Ran(r) \/ CutOff(r)
      PROVE  <<z, c>> \in DOMAIN holds'
  BY <1>1, <1>2 DEF Ran, CutOff
<1>3. ASSUME NEW r \in Ready, Deleted(r)
      PROVE  <<z, c>> \in DOMAIN holds'
  <2>1. CASE r = "admin-ssh"
    <3>1. DOMAIN holds' = DOMAIN holds \ {<<r, state[r].box>>}
      BY <1>3, <2>1, DeletedFacts DEF Inv
    <3>. QED
      BY <2>1, <3>1
  <2>2. CASE r = "server"
    <3>1. /\ boxes' = {}
          /\ DOMAIN holds' = {h \in DOMAIN holds : h[2] # Live}
          /\ "server" \in DOMAIN state
      BY <1>3, <2>2, DeletedFacts DEF Inv
    <3>2. Live \in 1..made
      BY <3>1, Standing DEF Inv
    <3>. QED
      BY <3>1, <3>2
  <2>. QED
    BY <1>3, <2>1, <2>2, DeletedFacts DEF Inv
<1>4. CASE Renamed
  BY <1>4, RenamedFacts DEF Inv
<1>5. CASE Finished
  <2>1. DOMAIN holds' = {h \in DOMAIN holds : h[1] \notin DOMAIN state \ Wanted
                                           /\ h[2] \in {0, Live}}
    BY <1>5, FinishedFacts DEF Inv
  <2>2. boxes' = {Live}
    BY <1>5 DEF Finished
  <2>. QED
    BY <1>5, <2>1, <2>2
<1>6. CASE Quiet \/ Visited \/ \E d : Removed(d)
  BY <1>6 DEF Quiet, Visited, Removed
<1>. QED
  BY <1>2, <1>3, <1>4, <1>5, <1>6, Steps DEF Inv

\* What is in effect was already, or its row has just been taken.
LEMMA Arriving ==
  ASSUME Inv, [Next]_vars, NEW a, NEW b, a # "tailscale-name", <<a, b>> \in DOMAIN holds'
  PROVE  \/ <<a, b>> \in DOMAIN holds /\ holds'[<<a, b>>] = holds[<<a, b>>]
         \/ a \in Ready /\ Effects(a) /\ b = Place(a) /\ holds'[<<a, b>>] = Holding(a)
<1> DEFINE Old == <<a, b>> \in DOMAIN holds /\ holds'[<<a, b>>] = holds[<<a, b>>]
<1> DEFINE New == a \in Ready /\ Effects(a) /\ b = Place(a) /\ holds'[<<a, b>>] = Holding(a)
<1>1. ASSUME NEW r \in Ready, Effects(r)
      PROVE  Old \/ New
  <2>1. /\ DOMAIN holds' = DOMAIN holds \cup {<<r, Place(r)>>}
        /\ holds'[<<r, Place(r)>>] = Holding(r)
        /\ \A h \in DOMAIN holds : h # <<r, Place(r)>> => holds'[h] = holds[h]
    BY <1>1, Worked DEF Inv
  <2>2. CASE <<a, b>> = <<r, Place(r)>>
    BY <1>1, <2>1, <2>2
  <2>3. CASE <<a, b>> # <<r, Place(r)>>
    BY <2>1, <2>3
  <2>. QED
    BY <2>2, <2>3
<1>2. ASSUME NEW r \in Ready, Ran(r) \/ CutOff(r)
      PROVE  Old \/ New
  BY <1>1, <1>2 DEF Ran, CutOff
<1>3. ASSUME NEW r \in Ready, Deleted(r)
      PROVE  Old
  <2>1. DOMAIN holds' \subseteq DOMAIN holds
    BY <1>3 DEF Deleted, Without
  <2>. QED
    BY <1>3, <2>1, DeletedFacts DEF Inv
<1>4. CASE Renamed
  <2>1. <<a, b>> # <<"tailscale-name", Live>>
    OBVIOUS
  <2>. QED
    BY <1>4, <2>1, RenamedFacts DEF Inv
<1>5. CASE Finished
  BY <1>5, FinishedFacts DEF Inv
<1>6. CASE Quiet \/ Visited \/ \E d : Removed(d)
  BY <1>6 DEF Quiet, Visited, Removed
<1>. QED
  BY <1>2, <1>3, <1>4, <1>5, <1>6, Steps DEF Inv

\* A row that a row taken waits for is in effect, where it should be.
LEMMA InPlace ==
  ASSUME Inv, NEW a \in Ready, NEW z \in Ancestors[a] \cap Wanted
  PROVE  <<z, Place(z)>> \in DOMAIN holds
<1>1. Recorded(z)
  BY ReadyFacts DEF Inv
<1>2. z \in DOMAIN state /\ state[z].box = Place(z)
  BY <1>1, RecordedFacts
<1>3. Place(z) \in boxes \cup {0}
  BY LiveFacts, Standing DEF Place, Inv, Live, Output
<1>. QED
  BY <1>2, <1>3 DEF Inv, OnRecord, Backed

\* A machine that is there after a step and holds something was there before it.
LEMMA StoodBefore ==
  ASSUME Inv, Inv', NEW a, NEW b \in boxes', <<a, b>> \in DOMAIN holds
  PROVE  b \in boxes /\ b # 0
<1>1. b # 0
  BY DEF Inv, Shape
<1>. QED
  BY <1>1 DEF Inv, Shape

LEMMA RegisterNext == Inv /\ Inv' /\ RegisterLimited /\ [Next]_vars => RegisterLimited'
<1> SUFFICES ASSUME Inv, Inv', RegisterLimited, [Next]_vars,
                    NEW b \in boxes', <<"auth-route", b>> \in DOMAIN holds',
                    holds'[<<"auth-route", b>>].ins["registerRoute"] # 0
             PROVE  <<"auth-register", b>> \in DOMAIN holds'
  BY DEF RegisterLimited
<1>1. Table["auth-route"].onBox /\ Table["auth-register"].onBox
      /\ Table["auth-route"].inputs = {"registerRoute"}
  BY RowFacts DEF ClusterRows
<1>2. ASSUME "auth-route" \in program, conf["registerRoute"] # 0
      PROVE  "auth-register" \in Wanted
  BY <1>2, ProgramsAssumption DEF Inv, Shape, Wanted
<1>3. CASE /\ <<"auth-route", b>> \in DOMAIN holds
           /\ holds'[<<"auth-route", b>>] = holds[<<"auth-route", b>>]
  <2>1. b \in boxes
    BY <1>3, StoodBefore
  <2>2. <<"auth-register", b>> \in DOMAIN holds
    BY <1>3, <2>1 DEF RegisterLimited
  <2>3. ASSUME Finished
        PROVE  "auth-register" \in Wanted
    <3>1. "auth-route" \in program /\ "auth-route" \notin cut
      BY <1>3 DEF Inv, Shape, ClusterRows
    <3>2. Recorded("auth-route")
      BY <2>3, <3>1, FinishedFacts, Wanting DEF Inv
    <3>3. Place("auth-route") = b
      BY <1>1, <2>3 DEF Finished, Place
    <3>4. /\ "auth-route" \in DOMAIN state
          /\ state["auth-route"].box = b
          /\ state["auth-route"].ins = [i \in {"registerRoute"} |-> conf[i]]
      BY <1>1, <3>2, <3>3, RecordedFacts
    <3>5. holds[<<"auth-route", b>>].ins = state["auth-route"].ins
      BY <2>1, <3>1, <3>4 DEF Inv, OnRecord, Backed, Agrees
    <3>6. conf["registerRoute"] # 0
      BY <1>3, <3>4, <3>5
    <3>. QED
      BY <1>2, <3>1, <3>6
  <2>. QED
    BY <2>2, <2>3, Lasting
<1>4. CASE /\ "auth-route" \in Ready /\ b = Place("auth-route")
           /\ Effects("auth-route")
           /\ holds'[<<"auth-route", b>>] = Holding("auth-route")
  <2>1. Holding("auth-route").ins = [i \in {"registerRoute"} |-> conf[i]]
    BY <1>1 DEF Holding, Target
  <2>2. "auth-register" \in Wanted
    BY <1>2, <1>4, <2>1, ReadyFacts DEF Inv
  <2>3. <<"auth-register", Place("auth-register")>> \in DOMAIN holds
    BY <1>4, <2>2, Before, InPlace
  <2>4. Place("auth-register") = b
    BY <1>1, <1>4 DEF Place
  <2>. QED
    BY <2>2, <2>3, <2>4, Lasting
<1>. QED
  BY <1>3, <1>4, Arriving

\* From the update that takes /register from the provider's route on, the route with
\* the rate limit has it (main.ts: registration before authRoute).
THEOREM Limited == Spec => []RegisterLimited
<1>1. Init => RegisterLimited
  BY DEF Init, RegisterLimited
<1>. QED
  BY <1>1, InvAlways, RegisterNext, PTL DEF Spec

-----------------------------------------------------------------------------
(* An update that ends well. *)

\* The update that ended well is the last thing that changed rows, inputs or machines.
LEMMA WhenOk ==
  ASSUME Inv, [Next]_vars, update'.result = "ok"
  PROVE  \/ Finished
         \/ /\ update.result = "ok"
            /\ UNCHANGED <<program, conf, state, boxes, holds, cut>>
<1>1. ASSUME NEW r \in Ready, Ran(r) \/ CutOff(r) \/ Deleted(r)
      PROVE  FALSE
  <2>1. update.running /\ update.result = "none"
    BY ReadyFacts DEF Inv, Claimed
  <2>. QED
    BY <1>1, <2>1, IdleFacts DEF Ran, Done, CutOff, Deleted
<1>2. ASSUME NEW d, Removed(d)
      PROVE  FALSE
  <2>1. update'.result = update.result /\ update.result = "none"
    BY <1>2 DEF Removed, Inv, Claimed, Kind
  <2>. QED
    BY <2>1
<1>3. CASE Renamed
  <2>1. update'.result = update.result /\ update.result = "none"
    BY <1>3 DEF Renamed, Inv, Claimed, Kind
  <2>. QED
    BY <2>1
<1>4. CASE Visited
  BY <1>4 DEF Visited
<1>5. CASE Quiet
  <2>1. ~ListDevices \/ ~update'.listed
    <3>1. ASSUME ListDevices, update'.listed
          PROVE  FALSE
      <4>1. update' = [update EXCEPT !.listed = TRUE, !.remove = Predecessors(Live),
                                     !.rename = devices[Live] # "hostname"]
        BY <3>1, IdleFacts DEF ListDevices, Fails
      <4>2. update.running
        BY <3>1, ReadyFacts DEF ListDevices, Inv
      <4>. QED
        BY <4>1, <4>2 DEF Inv, Claimed, Kind
    <3>. QED
      BY <3>1
  <2>. QED
    BY <1>5, <2>1 DEF Quiet
<1>. QED
  BY <1>1, <1>2, <1>3, <1>4, <1>5, Steps DEF Inv

LEMMA ConfiguredNext == Inv /\ ConfiguredWhenDone /\ [Next]_vars => ConfiguredWhenDone'
<1> SUFFICES ASSUME Inv, ConfiguredWhenDone, [Next]_vars, update'.result = "ok"
             PROVE  Configured'
  BY DEF ConfiguredWhenDone
<1>1. CASE update.result = "ok" /\ UNCHANGED <<program, conf, state, boxes, holds, cut>>
  BY <1>1 DEF ConfiguredWhenDone, Configured, InEffect, Wanted, Place, Target, Live, Output
<1>2. CASE Finished
  <2>1. /\ \A r \in Wanted : Recorded(r)
        /\ DOMAIN state' = DOMAIN state \cap Wanted
        /\ \A r \in DOMAIN state' : state'[r] = state[r]
        /\ Live \in boxes
        /\ Live' = Live
        /\ DOMAIN holds' = {h \in DOMAIN holds : h[1] \notin DOMAIN state \ Wanted
                                              /\ h[2] \in {0, Live}}
        /\ \A h \in DOMAIN holds' : holds'[h] = holds[h]
    BY <1>2, FinishedFacts DEF Inv
  <2>2. /\ UNCHANGED <<program, conf, cut>>
        /\ boxes' = {Live}
    BY <1>2 DEF Finished
  <2>3. Wanted' = Wanted
    BY <2>2 DEF Wanted
  <2>4. ASSUME NEW r \in Wanted \ cut
        PROVE  InEffect(r)'
    <3>1. r \in Resource /\ r \in program
      BY Wanting DEF Inv
    <3>2. /\ r \in DOMAIN state
          /\ state[r].ins = [i \in Table[r].inputs |-> conf[i]]
          /\ state[r].reads = [s \in Table[r].reads \cap program |-> Output(s)]
          /\ state[r].box = Place(r)
      BY <2>1, RecordedFacts
    <3>3. Place(r) \in {0, Live} /\ Place(r)' = Place(r)
      BY <2>1 DEF Place
    <3>4. <<r, Place(r)>> \in DOMAIN holds /\ Agrees(r, holds[<<r, Place(r)>>])
      BY <2>1, <3>2, <3>3 DEF Inv, OnRecord, Backed
    <3>5. /\ <<r, Place(r)>> \in DOMAIN holds'
          /\ holds'[<<r, Place(r)>>] = holds[<<r, Place(r)>>]
      BY <2>1, <3>3, <3>4
    <3>6. \A s \in Table[r].reads \cap program : Output(s)' = Output(s)
      BY <2>1, <3>1, RowFacts, Wanting DEF Output, Inv
    <3>7. Target(r).ins' = state[r].ins /\ Target(r).reads' = state[r].reads
      BY <2>2, <3>2, <3>6 DEF Target
    <3>8. r = "hysteria-config" => state[r].ins["altPort"] = conf["altPort"]
      BY <3>2, RowFacts
    <3>9. r = "patching" => state[r].ins["proToken"] = conf["proToken"]
      BY <3>2, RowFacts
    <3>. QED
      BY <2>2, <3>3, <3>4, <3>5, <3>7, <3>8, <3>9 DEF InEffect, Agrees
  <2>5. ASSUME NEW r \in program \ (Wanted \cup cut)
        PROVE  <<r, Place(r)>>' \notin DOMAIN holds'
    <3>1. r \in {"admin-ssh", "auth-register"}
      BY Wanting DEF Inv
    <3>2. Place(r) = Live /\ Place(r)' = Live
      BY <2>1, <3>1, RowFacts DEF Place, ClusterRows
    <3>3. <<r, Live>> \in DOMAIN holds => r \in DOMAIN state
      BY <3>1 DEF Inv, Leftover
    <3>. QED
      BY <2>1, <3>2, <3>3
  <2>. QED
    BY <2>1, <2>2, <2>3, <2>4, <2>5 DEF Configured
<1>. QED
  BY <1>1, <1>2, WhenOk

\* An update that ends well leaves every box as main's head says, but for commands cut
\* off after their work (vps.ts and the -systemd.ts files: triggers and replaceWith).
THEOREM Configures == Spec => []ConfiguredWhenDone
<1>1. Init => ConfiguredWhenDone
  BY IdleFacts DEF Init, ConfiguredWhenDone
<1>. QED
  BY <1>1, InvAlways, ConfiguredNext, PTL DEF Spec

\* The claim and the kubeconfig are of the machine there is.
Reached ==
  update.result = "ok" =>
    \A r \in {"tailscale-name", "k3s-kubeconfig"} \cap program :
      r \in DOMAIN state /\ state[r].box = Live

LEMMA ReachedNext == Inv /\ Reached /\ [Next]_vars => Reached'
<1> SUFFICES ASSUME Inv, Reached, [Next]_vars, update'.result = "ok",
                    NEW r \in {"tailscale-name", "k3s-kubeconfig"} \cap program'
             PROVE  r \in DOMAIN state' /\ state'[r].box = Live'
  BY DEF Reached
<1>1. CASE update.result = "ok" /\ UNCHANGED <<program, conf, state, boxes, holds, cut>>
  BY <1>1 DEF Reached, Live, Output
<1>2. CASE Finished
  <2>1. r \in Wanted
    BY <1>2, Wanting DEF Inv, Finished
  <2>2. /\ Recorded(r)
        /\ DOMAIN state' = DOMAIN state \cap Wanted
        /\ \A s \in DOMAIN state' : state'[s] = state[s]
        /\ Live' = Live
    BY <1>2, <2>1, FinishedFacts DEF Inv
  <2>3. Place(r) = Live
    BY RowFacts DEF Place
  <2>. QED
    BY <2>1, <2>2, <2>3, RecordedFacts
<1>. QED
  BY <1>1, <1>2, WhenOk

\* The kubeconfig is of the cluster that answers at the tailnet name it gives (k3s.ts,
\* tailscale-systemd.ts).
THEOREM Reaches == Spec => []ApiReached
<1>1. Init => Reached
  BY IdleFacts DEF Init, Reached
<1>2. Inv /\ Reached => ApiReached
  BY DEF Inv, Claimed, Through, Reached, ApiReached, Output
<1>. QED
  BY <1>1, <1>2, InvAlways, ReachedNext, PTL DEF Spec
=============================================================================
