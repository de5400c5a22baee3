-------------------------------- MODULE Nodes --------------------------------
(***************************************************************************)
(* The nodes of the cluster: which k3s each runs, and how pods of one reach  *)
(* those of another.                                                        *)
(*                                                                         *)
(* Pulumi installs k3s on the gateway over SSH, puts the tailnet's policy    *)
(* and the two DaemonSets of the pod network, releases Cilium and writes two *)
(* Plans; the system-upgrade-controller, which is external, moves the nodes  *)
(* by them. On every node the DaemonSets' loops assert the tailnet           *)
(* preferences and the routing rules that pod traffic needs, while reboots,  *)
(* `tailscale up --reset` and reinstalled machines take them away. Versions  *)
(* are minors.                                                               *)
(***************************************************************************)
EXTENDS Integers, FiniteSets, TLC

CONSTANTS
  Agent,       \* nodes that joined from a seed
  Support,     \* Cilium minor -> the k3s minors it is tested against, inclusive
  MaxMinor,    \* bound: k3s minors there are
  MaxBumps,    \* bound: commits that change a version
  MaxMishaps,  \* bound: reboots, resets, reinstalls, updates cut short
  Spent        \* bound: how many of each are not left to a first deploy

Gate == "gateway"
Node == {Gate} \cup Agent

ASSUME NodesAssumption ==
  /\ Gate \notin Agent
  /\ \A c \in DOMAIN Support : Support[c] \in (1..MaxMinor) \X (1..MaxMinor)
  /\ MaxMinor \in Nat \ {0}
  /\ MaxBumps \in Nat
  /\ MaxMishaps \in Nat
  /\ Spent \in Nat /\ Spent <= MaxBumps /\ Spent <= MaxMishaps

VARIABLES
  versions,  \* main's head: k3s, and Cilium
  rollout,   \* the update in progress or last ended
  installed, \* Pulumi: the version recorded of the gateway's install
  put,       \* what there is of the tailnet's policy and the two DaemonSets
  cilium,    \* the release in the cluster; 0 is none
  plans,     \* the version of each Plan, 0 if it is not written, and the nodes it
             \* has not seen to yet
  k3s,       \* each node's version
  jobs,      \* the controller's jobs by node: their version, and whether they drained
  on,        \* nodes that are up
  prefs,     \* tailscaled: what a node advertises, and whether it accepts and masks
  approved,  \* Tailscale: nodes whose route has been approved
  rules,     \* nodes whose table has the two rules
  bumps, mishaps

vars == <<versions, rollout, installed, put, cilium, plans, k3s, jobs, on, prefs, approved, rules,
          bumps, mishaps>>
k8sVars == <<installed, put, cilium, plans, k3s, jobs>>
netVars == <<prefs, approved, rules>>

-----------------------------------------------------------------------------
(* Versions *)

\* checkCiliumSupport: a minor that is not in the table is refused as well.
Supported(v) ==
  /\ v.cilium \in DOMAIN Support
  /\ v.k3s >= Support[v.cilium][1]
  /\ v.k3s <= Support[v.cilium][2]

Covers(p) == IF p = "server" THEN {Gate} ELSE Agent
PlanOf(n) == IF n = Gate THEN "server" ELSE "agent"

\* Both were bumped so far by commits that raise them.
Bump ==
  /\ bumps < MaxBumps
  /\ rollout # "running"
  /\ \E k \in versions.k3s..MaxMinor, c \in versions.cilium..MaxMinor :
      LET v == [k3s |-> k, cilium |-> c]
      IN  v # versions /\ versions' = v
  /\ bumps' = bumps + 1
  /\ rollout' = "none"
  /\ UNCHANGED <<k8sVars, netVars, on, mishaps>>

\* The configuration is parsed before anything is done.
BeginRollout ==
  /\ rollout \in {"none", "failed"}
  /\ rollout' = IF Supported(versions) THEN "running" ELSE "failed"
  /\ UNCHANGED <<versions, k8sVars, netVars, on, bumps, mishaps>>

\* The command's trigger is the version, not what the node runs.
InstallK3s ==
  /\ rollout = "running"
  /\ Gate \in on
  /\ installed # versions.k3s
  /\ installed' = versions.k3s
  /\ k3s' = [k3s EXCEPT ![Gate] = versions.k3s]
  /\ UNCHANGED <<versions, rollout, put, cilium, plans, jobs, netVars, on, bumps, mishaps>>

\* The Plans and the rules come after the release, and all that is in the cluster
\* after the install.
Planned == installed = versions.k3s /\ cilium = versions.cilium

Networking == {"policy", "routes", "rules"}

\* Mutant: the DaemonSet does not wait for the policy.
Unordered(x) ==
  CASE x = "policy" -> TRUE
    [] x = "routes" -> installed = versions.k3s
    [] x = "rules"  -> Planned

\* The policy is Tailscale's, not the cluster's, and what approves the routes.
MayPut(x) ==
  CASE x = "policy" -> TRUE
    [] x = "routes" -> installed = versions.k3s /\ "policy" \in put
    [] x = "rules"  -> Planned

Put(x) ==
  /\ rollout = "running"
  /\ x \notin put
  /\ MayPut(x)
  /\ put' = put \cup {x}
  /\ UNCHANGED <<versions, rollout, installed, cilium, plans, k3s, jobs, netVars, on, bumps,
                 mishaps>>

ReleaseCilium ==
  /\ rollout = "running"
  /\ installed = versions.k3s
  /\ "routes" \in put
  /\ cilium # versions.cilium
  /\ cilium' = versions.cilium
  /\ UNCHANGED <<versions, rollout, installed, put, plans, k3s, jobs, netVars, on, bumps, mishaps>>

PutPlan(p) ==
  /\ rollout = "running"
  /\ Planned
  /\ plans[p].version # versions.k3s
  /\ plans' = [plans EXCEPT ![p] = [version |-> versions.k3s, due |-> Covers(p)]]
  /\ UNCHANGED <<versions, rollout, installed, put, cilium, k3s, jobs, netVars, on, bumps, mishaps>>

EndRollout ==
  /\ rollout = "running"
  /\ Planned
  /\ put = Networking
  /\ \A p \in DOMAIN plans : plans[p].version = versions.k3s
  /\ rollout' = "ok"
  /\ UNCHANGED <<versions, k8sVars, netVars, on, bumps, mishaps>>

CutRollout ==
  /\ rollout = "running"
  /\ mishaps < MaxMishaps
  /\ mishaps' = mishaps + 1
  /\ rollout' = "failed"
  /\ UNCHANGED <<versions, k8sVars, netVars, on, bumps>>

-----------------------------------------------------------------------------
(* The controller. *)

\* Mutant: the image's tag moves with main.
MovingTag(p) == versions.k3s

\* The image's tag is the Plan's version.
JobVersion(p) == plans[p].version

Busy(p) == Covers(p) \cap DOMAIN jobs
JobsWith(n, job) == [m \in DOMAIN jobs \cup {n} |-> IF m = n THEN job ELSE jobs[m]]
JobsWithout(n) == [m \in DOMAIN jobs \ {n} |-> jobs[m]]

\* Mutant: as many as there are.
StartAnyJob(n) ==
  /\ JobVersion(PlanOf(n)) # 0
  /\ n \in plans[PlanOf(n)].due
  /\ jobs' = JobsWith(n, [version |-> JobVersion(PlanOf(n)), drained |-> FALSE])
  /\ UNCHANGED <<versions, rollout, installed, put, cilium, plans, k3s, netVars, on, bumps,
                 mishaps>>

\* One node of a Plan at a time (`concurrency`).
StartJob(n) ==
  /\ JobVersion(PlanOf(n)) # 0
  /\ n \in plans[PlanOf(n)].due
  /\ Busy(PlanOf(n)) = {}
  /\ jobs' = JobsWith(n, [version |-> JobVersion(PlanOf(n)), drained |-> FALSE])
  /\ UNCHANGED <<versions, rollout, installed, put, cilium, plans, k3s, netVars, on, bumps,
                 mishaps>>

\* `prepare`: an agent's job goes no further until the server's Plan is complete.
\* What was left over from a Plan that has changed since is dropped.
Stale(n) == jobs[n].version # JobVersion(PlanOf(n))
Prepared(n) == n \in Agent => plans["server"].version # 0 /\ plans["server"].due = {}

Drain(n) ==
  /\ n \in DOMAIN jobs
  /\ ~jobs[n].drained
  /\ n \in on
  /\ \/ Stale(n) /\ jobs' = JobsWithout(n)
     \/ /\ ~Stale(n)
        /\ Prepared(n)
        /\ jobs' = [jobs EXCEPT ![n].drained = TRUE]
  /\ UNCHANGED <<versions, rollout, installed, put, cilium, plans, k3s, netVars, on, bumps,
                 mishaps>>

\* The image is taken to leave a newer k3s alone. Were it to put its own back, a job
\* left over from before a second bump could set the gateway behind its agents.
Replaced(n) == IF k3s[n] > jobs[n].version THEN k3s[n] ELSE jobs[n].version

Upgrade(n) ==
  /\ n \in DOMAIN jobs
  /\ jobs[n].drained
  /\ n \in on
  /\ k3s' = [k3s EXCEPT ![n] = Replaced(n)]
  /\ plans' = IF Stale(n) THEN plans ELSE [plans EXCEPT ![PlanOf(n)].due = @ \ {n}]
  /\ jobs' = JobsWithout(n)
  /\ UNCHANGED <<versions, rollout, installed, put, cilium, netVars, on, bumps, mishaps>>

-----------------------------------------------------------------------------
(* The pod network. *)

\* `tailscale up --reset`, and a machine that has just joined.
Reset == [routes |-> {}, accepts |-> FALSE, masks |-> TRUE]

\* On a node's cilium_host, which there is once Cilium has started, are the routes of
\* every podCIDR; its own is the one that holds the device's address.
OnCiliumHost(n) == IF cilium = 0 THEN {} ELSE Node

OwnCidr(n) == {c \in OnCiliumHost(n) : c = n}

\* Mutant: tailscaled goes on masking the pods' addresses.
AssertedMasking(n) == [routes |-> OwnCidr(n), accepts |-> TRUE, masks |-> TRUE]

\* createTailnetRoutes: what the loop asserts.
Asserted(n) == [routes |-> OwnCidr(n), accepts |-> TRUE, masks |-> FALSE]

\* autoApprovers: a node that advertises its podCIDR is approved on the spot by the
\* policy there is, and by none that is put later.
ApprovedOnTheSpot == IF "policy" \in put THEN Node ELSE {}

\* Until Cilium has started the loop finds nothing, and tries again.
RoutesPass(n) ==
  /\ "routes" \in put
  /\ n \in on
  /\ OwnCidr(n) # {}
  /\ prefs[n] # Asserted(n)
  /\ prefs' = [prefs EXCEPT ![n] = Asserted(n)]
  /\ approved' = approved \cup ({n} \cap ApprovedOnTheSpot)
  /\ UNCHANGED <<versions, rollout, k8sVars, rules, on, bumps, mishaps>>

RulesPass(n) ==
  /\ "rules" \in put
  /\ n \in on \ rules
  /\ rules' = rules \cup {n}
  /\ UNCHANGED <<versions, rollout, k8sVars, prefs, approved, on, bumps, mishaps>>

\* A pod of m is reached from one of n, with the address a policy knows it by.
Reaches(n, m) ==
  /\ prefs[n].accepts
  /\ m \in prefs[m].routes \cap approved
  /\ ~prefs[m].masks
  /\ n \in rules

-----------------------------------------------------------------------------
(* Mishaps *)

Mishap == mishaps < MaxMishaps /\ mishaps' = mishaps + 1

\* The rules are not kept over a reboot, and tailscaled that restarts puts its own first.
PowerOff(n) ==
  /\ Mishap
  /\ n \in on
  /\ on' = on \ {n}
  /\ rules' = rules \ {n}
  /\ UNCHANGED <<versions, rollout, k8sVars, prefs, approved, bumps>>

PowerOn(n) ==
  /\ n \notin on
  /\ on' = on \cup {n}
  /\ UNCHANGED <<versions, rollout, k8sVars, netVars, bumps, mishaps>>

LoseRules(n) ==
  /\ Mishap
  /\ n \in rules
  /\ rules' = rules \ {n}
  /\ UNCHANGED <<versions, rollout, k8sVars, prefs, approved, on, bumps>>

\* The command that joins the tailnet runs again on the gateway, which stays the device
\* it was.
ResetGateway ==
  /\ Mishap
  /\ Gate \in on
  /\ prefs' = [prefs EXCEPT ![Gate] = Reset]
  /\ UNCHANGED <<versions, rollout, k8sVars, approved, rules, on, bumps>>

\* An agent is installed again from a seed, whose version is the server's on the day
\* the drive was made, and joins the tailnet as another device.
Reflash(n) ==
  /\ Mishap
  /\ n \in on
  /\ \E v \in 1..k3s[Gate] : k3s' = [k3s EXCEPT ![n] = v]
  /\ plans' = [plans EXCEPT !["agent"].due = @ \cup {n}]
  /\ jobs' = JobsWithout(n)
  /\ prefs' = [prefs EXCEPT ![n] = Reset]
  /\ approved' = approved \ {n}
  /\ rules' = rules \ {n}
  /\ UNCHANGED <<versions, rollout, installed, put, cilium, on, bumps>>

\* A cluster that was deployed.
Deployed ==
  /\ rollout = "ok"
  /\ put = Networking
  /\ cilium = 1
  /\ plans = [p \in {"server", "agent"} |-> [version |-> 1, due |-> {}]]
  /\ prefs = [n \in Node |-> Asserted(n)]
  /\ approved = Node
  /\ rules = Node
  /\ bumps = 0
  /\ mishaps = 0

\* One that has its nodes and k3s, and nothing in it.
Bare ==
  /\ rollout = "running"
  /\ put = {}
  /\ cilium = 0
  /\ plans = [p \in {"server", "agent"} |-> [version |-> 0, due |-> {}]]
  /\ prefs = [n \in Node |-> Reset]
  /\ approved = {}
  /\ rules = {}
  /\ bumps = Spent
  /\ mishaps = Spent

Init ==
  /\ Deployed \/ Bare
  /\ versions = [k3s |-> 1, cilium |-> 1]
  /\ installed = 1
  /\ k3s = [n \in Node |-> 1]
  /\ jobs = <<>>
  /\ on = Node

Rollout ==
  \/ BeginRollout
  \/ InstallK3s
  \/ \E x \in Networking : Put(x)
  \/ ReleaseCilium
  \/ \E p \in DOMAIN plans : PutPlan(p)
  \/ EndRollout

Controller == \E n \in Node : StartJob(n) \/ Drain(n) \/ Upgrade(n)
Loops == \E n \in Node : RoutesPass(n) \/ RulesPass(n) \/ PowerOn(n)

Next ==
  \/ Bump
  \/ Rollout
  \/ CutRollout
  \/ Controller
  \/ Loops
  \/ ResetGateway
  \/ \E n \in Node : PowerOff(n) \/ LoseRules(n)
  \/ \E n \in Agent : Reflash(n)

\* Deploys are repeated until one ends well; the controller and the loops go on, and
\* a node that is off is turned on. What each has to do is bounded until the next
\* mishap, so one fairness is enough.
Spec == Init /\ [][Next]_vars /\ WF_vars(Rollout \/ Controller \/ Loops)

-----------------------------------------------------------------------------
(* Properties *)

TypeOK ==
  /\ rollout \in {"none", "running", "ok", "failed"}
  /\ k3s \in [Node -> 1..MaxMinor]
  /\ \A p \in DOMAIN plans : plans[p].version \in 0..MaxMinor /\ plans[p].due \subseteq Covers(p)
  /\ DOMAIN jobs \subseteq Node /\ \A p \in DOMAIN plans : Cardinality(Busy(p)) <= 1
  /\ put \subseteq Networking
  /\ on \subseteq Node /\ rules \subseteq on /\ approved \subseteq Node
  /\ bumps \in 0..MaxBumps /\ mishaps \in 0..MaxMishaps

\* No agent ever runs a k3s newer than the server's, whichever Plan the controller
\* sees first, however often the version moves meanwhile, and whatever an agent was
\* flashed with (upgrades.ts: the order Kubernetes' skew policy requires).
AgentsNotNewer == \A n \in Agent : k3s[n] <= k3s[Gate]

\* No node's pods are behind a route that waits for someone to approve it: whatever
\* part of a first deploy has been done, cut or repeated when Cilium starts and the
\* loops find a route, the policy that approves it was there (main.ts: "come after
\* the policy, whose autoApprovers approve them").
RoutesApproved == \A n \in Node : prefs[n].routes # {} => n \in approved

\* In the end every node runs main's k3s, which the Cilium in the cluster is tested
\* against, and pods reach each other between any two, whatever was reset, rebooted
\* or flashed, and wherever a deploy was cut. Versions that do not pair wait for an
\* edit.
FleetInTheEnd ==
  \/ <>[](/\ \A n \in Node : k3s[n] = versions.k3s
          /\ cilium \in DOMAIN Support
          /\ \A n \in Node : k3s[n] \in Support[cilium][1]..Support[cilium][2]
          /\ \A n, m \in Node : n # m => Reaches(n, m))
  \/ <>[](rollout # "ok" /\ ~Supported(versions))
=============================================================================
