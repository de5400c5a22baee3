----------------------------- MODULE NodesProofs -----------------------------
(***************************************************************************)
(* Theorems about Nodes, for any agents, any table of supported versions    *)
(* and any number of bumps and mishaps.                                    *)
(***************************************************************************)
EXTENDS Nodes, FiniteSetTheorems, TLAPS

Minor == 1..MaxMinor
Plan == {"server", "agent"}
PlanState == [version: 0..MaxMinor, due: SUBSET Node]
Pref == [routes: SUBSET Node, accepts: BOOLEAN, masks: BOOLEAN]
Job == [version: Minor, drained: BOOLEAN]

\* What TypeOK says of `jobs` through Cardinality, without it.
OneJob == \A p \in Plan : \A m, n \in Busy(p) : m = n

Typed ==
  /\ rollout \in {"none", "running", "ok", "failed"}
  /\ versions \in [k3s: Minor, cilium: Minor]
  /\ installed \in Minor
  /\ put \subseteq Networking
  /\ plans \in [Plan -> PlanState]
  /\ \A p \in Plan : plans[p].due \subseteq Covers(p)
  /\ k3s \in [Node -> Minor]
  /\ DOMAIN jobs \subseteq Node
  /\ jobs \in [DOMAIN jobs -> Job]
  /\ on \subseteq Node
  /\ rules \subseteq on
  /\ prefs \in [Node -> Pref]
  /\ approved \subseteq Node
  /\ bumps \in 0..MaxBumps
  /\ mishaps \in 0..MaxMishaps

USE DEF Plan, Minor

\* A node's job is dropped; the others' stay.
LEMMA WithoutJob ==
  ASSUME Typed, NEW n \in Node
  PROVE  /\ DOMAIN JobsWithout(n) = DOMAIN jobs \ {n}
         /\ JobsWithout(n) \in [DOMAIN JobsWithout(n) -> Job]
         /\ \A m \in DOMAIN jobs : m # n => JobsWithout(n)[m] = jobs[m]
  BY DEF Typed, JobsWithout

LEMMA TypedInit == Init => Typed
<1> SUFFICES ASSUME Init
             PROVE  Typed
  OBVIOUS
<1> USE NodesAssumption DEF Init, Typed
<1>1. \A n \in Node : Asserted(n) \in Pref /\ Reset \in Pref
  BY DEF Asserted, OwnCidr, OnCiliumHost, Reset, Pref
<1>2. CASE Deployed
  BY <1>1, <1>2 DEF Deployed, PlanState, Covers, Job
<1>3. CASE Bare
  BY <1>1, <1>3 DEF Bare, PlanState, Covers, Job
<1>. QED
  BY <1>2, <1>3

LEMMA TypedNext == Typed /\ [Next]_vars => Typed'
<1> SUFFICES ASSUME Typed, [Next]_vars
             PROVE  Typed'
  OBVIOUS
<1> USE NodesAssumption DEF Typed
<1>1. CASE Bump
  BY <1>1 DEF Bump, k8sVars, netVars
<1>2. CASE BeginRollout
  BY <1>2 DEF BeginRollout, k8sVars, netVars
<1>3. CASE InstallK3s
  BY <1>3 DEF InstallK3s, netVars, Node
<1>4. CASE ReleaseCilium
  BY <1>4 DEF ReleaseCilium, netVars
<1>5. ASSUME NEW p \in Plan, PutPlan(p)
      PROVE  Typed'
  BY <1>5 DEF PutPlan, netVars, Covers, Node, PlanState
<1>6. CASE EndRollout
  BY <1>6 DEF EndRollout, k8sVars, netVars
<1>7. CASE CutRollout
  BY <1>7 DEF CutRollout, k8sVars, netVars
<1>8. ASSUME NEW n \in Node, StartJob(n)
      PROVE  Typed'
  <2>1. PlanOf(n) \in Plan
    BY DEF PlanOf
  <2>2. JobVersion(PlanOf(n)) \in Minor
    <3>1. plans[PlanOf(n)].version \in 0..MaxMinor
      BY <2>1 DEF PlanState
    <3>2. plans[PlanOf(n)].version # 0
      BY <1>8 DEF StartJob, JobVersion
    <3>. QED
      BY <3>1, <3>2 DEF JobVersion
  <2>3. PICK j \in Job : jobs' = JobsWith(n, j)
    BY <1>8, <2>2 DEF StartJob, Job
  <2>4. DOMAIN jobs' = DOMAIN jobs \cup {n} /\ jobs' \in [DOMAIN jobs' -> Job]
    BY <2>3 DEF JobsWith
  <2>. QED
    BY <1>8, <2>4 DEF StartJob, netVars
<1>9. ASSUME NEW n \in Node, Drain(n)
      PROVE  Typed'
  <2>1. CASE jobs' = JobsWithout(n)
    BY <1>9, <2>1, WithoutJob DEF Drain, netVars
  <2>2. CASE jobs' = [jobs EXCEPT ![n].drained = TRUE]
    BY <1>9, <2>2 DEF Drain, netVars, Job
  <2>. QED
    BY <1>9, <2>1, <2>2 DEF Drain
<1>10. ASSUME NEW n \in Node, Upgrade(n)
       PROVE  Typed'
  <2>1. k3s' \in [Node -> Minor]
    BY <1>10 DEF Upgrade, Replaced, Job
  <2>2. /\ plans' \in [Plan -> PlanState]
        /\ \A p \in Plan : plans'[p].due \subseteq Covers(p)
    BY <1>10 DEF Upgrade, PlanOf, PlanState
  <2>3. DOMAIN jobs' \subseteq Node /\ jobs' \in [DOMAIN jobs' -> Job]
    BY <1>10, WithoutJob DEF Upgrade
  <2>. QED
    BY <1>10, <2>1, <2>2, <2>3 DEF Upgrade, netVars
<1>11. ASSUME NEW n \in Node, RoutesPass(n)
       PROVE  Typed'
  <2>1. Asserted(n) \in Pref
    BY DEF Asserted, Pref, OwnCidr, OnCiliumHost
  <2>. QED
    BY <1>11, <2>1 DEF RoutesPass, k8sVars
<1>12. ASSUME NEW n \in Node, RulesPass(n)
       PROVE  Typed'
  BY <1>12 DEF RulesPass, k8sVars
<1>13. ASSUME NEW n \in Node, PowerOn(n)
       PROVE  Typed'
  BY <1>13 DEF PowerOn, k8sVars, netVars
<1>14. CASE ResetGateway
  BY <1>14 DEF ResetGateway, Mishap, k8sVars, Reset, Pref, Node
<1>15. ASSUME NEW n \in Node, PowerOff(n)
       PROVE  Typed'
  BY <1>15 DEF PowerOff, Mishap, k8sVars
<1>16. ASSUME NEW n \in Node, LoseRules(n)
       PROVE  Typed'
  BY <1>16 DEF LoseRules, Mishap, k8sVars
<1>17. ASSUME NEW n \in Agent, Reflash(n)
       PROVE  Typed'
  <2>1. n \in Node /\ Gate \in Node
    BY DEF Node
  <2>2. k3s' \in [Node -> Minor]
    BY <1>17, <2>1 DEF Reflash
  <2>3. /\ plans' \in [Plan -> PlanState]
        /\ \A p \in Plan : plans'[p].due \subseteq Covers(p)
    BY <1>17, <2>1 DEF Reflash, Covers, PlanState
  <2>4. prefs' \in [Node -> Pref]
    BY <1>17 DEF Reflash, Reset, Pref
  <2>5. DOMAIN jobs' \subseteq Node /\ jobs' \in [DOMAIN jobs' -> Job]
    BY <1>17, <2>1, WithoutJob DEF Reflash
  <2>6. mishaps' \in 0..MaxMishaps
    BY <1>17 DEF Reflash, Mishap
  <2>. QED
    BY <1>17, <2>1, <2>2, <2>3, <2>4, <2>5, <2>6 DEF Reflash
<1>18. CASE UNCHANGED vars
  BY <1>18 DEF vars
<1>19. ASSUME NEW x \in Networking, Put(x)
       PROVE  Typed'
  BY <1>19 DEF Put, netVars
<1>. QED
  BY <1>1, <1>2, <1>3, <1>4, <1>5, <1>6, <1>7, <1>8, <1>9, <1>10, <1>11, <1>12, <1>13,
     <1>14, <1>15, <1>16, <1>17, <1>18, <1>19 DEF Next, Rollout, Controller, Loops

LEMMA TypedAlways == Spec => []Typed
  BY TypedInit, TypedNext, PTL DEF Spec

-----------------------------------------------------------------------------
(* One job of each Plan at a time. *)

LEMMA OneJobNext == Typed /\ OneJob /\ [Next]_vars => OneJob'
<1> SUFFICES ASSUME Typed, OneJob, [Next]_vars
             PROVE  OneJob'
  OBVIOUS
<1>1. ASSUME NEW n \in Node, StartJob(n)
      PROVE  OneJob'
  <2>1. DOMAIN jobs' = DOMAIN jobs \cup {n}
    BY <1>1 DEF StartJob, JobsWith
  <2>2. ASSUME NEW p \in Plan
        PROVE  \A m, k \in (Busy(p))' : m = k
    <3>1. CASE p = PlanOf(n)
      BY <1>1, <2>1, <3>1 DEF StartJob, Busy, Covers
    <3>2. CASE p # PlanOf(n)
      <4>1. n \notin Covers(p)
        BY <3>2, NodesAssumption DEF Covers, PlanOf, Node
      <4>. QED
        BY <2>1, <4>1 DEF OneJob, Busy, Covers
    <3>. QED
      BY <3>1, <3>2
  <2>. QED
    BY <2>2 DEF OneJob
<1>2. CASE DOMAIN jobs' \subseteq DOMAIN jobs
  BY <1>2 DEF OneJob, Busy, Covers
<1>3. (\E n \in Node : StartJob(n)) \/ DOMAIN jobs' \subseteq DOMAIN jobs
  BY DEF Next, vars, k8sVars, netVars, Bump, Rollout, BeginRollout, InstallK3s, Put,
     ReleaseCilium, PutPlan, EndRollout, CutRollout, Controller, Drain, Upgrade, Loops,
     RoutesPass, RulesPass,
     PowerOn, ResetGateway, PowerOff, LoseRules, Reflash, JobsWithout, Node
<1>. QED
  BY <1>1, <1>2, <1>3

LEMMA AtMostOne ==
  ASSUME NEW S, \A x, y \in S : x = y
  PROVE  Cardinality(S) <= 1
<1>1. CASE S = {}
  BY <1>1, FS_EmptySet
<1>2. CASE S # {}
  <2>1. PICK x \in S : TRUE
    BY <1>2
  <2>2. S = {x}
    BY <2>1
  <2>. QED
    BY <2>2, FS_Singleton
<1>. QED
  BY <1>1, <1>2

\* Every variable keeps its type, and the controller works at one node of a Plan at a
\* time (upgrades.ts, `concurrency`).
THEOREM TypeCorrect == Spec => []TypeOK
<1>1. Init => OneJob
  BY DEF Init, OneJob, Busy
<1>2. Typed /\ OneJob => TypeOK
  <2> SUFFICES ASSUME Typed, OneJob
               PROVE  TypeOK
    OBVIOUS
  <2>1. DOMAIN plans = Plan
    BY DEF Typed
  <2>2. \A p \in Plan : Cardinality(Busy(p)) <= 1
    BY AtMostOne DEF OneJob
  <2>3. \A p \in Plan : plans[p].version \in 0..MaxMinor /\ plans[p].due \subseteq Covers(p)
    BY DEF Typed, PlanState
  <2>. QED
    BY <2>1, <2>2, <2>3 DEF Typed, TypeOK
<1>. QED
  BY <1>1, <1>2, TypedAlways, OneJobNext, PTL DEF Spec

-----------------------------------------------------------------------------
(* No agent ahead of the server. The gateway runs what Pulumi installed last,  *)
(* which no Plan and no job left over from one is ahead of.                    *)

Ordered ==
  /\ k3s[Gate] = installed
  /\ installed <= versions.k3s
  /\ \A p \in Plan : plans[p].version <= installed
  /\ \A n \in DOMAIN jobs : jobs[n].version <= installed

LEMMA OrderedNext ==
  Typed /\ Ordered /\ AgentsNotNewer /\ [Next]_vars => (Ordered /\ AgentsNotNewer)'
<1> SUFFICES ASSUME Typed, Ordered, AgentsNotNewer, [Next]_vars
             PROVE  (Ordered /\ AgentsNotNewer)'
  OBVIOUS
<1> USE NodesAssumption DEF Ordered, AgentsNotNewer
<1>0. Gate \in Node /\ Agent \subseteq Node
  BY DEF Node
<1>00. /\ versions.k3s \in Int /\ installed \in Int /\ k3s \in [Node -> Int]
       /\ \A p \in Plan : plans[p].version \in Int
       /\ \A n \in DOMAIN jobs : jobs[n].version \in Int
  BY DEF Typed, Job, PlanState
<1>1. CASE Bump
  <2>1. versions'.k3s \in Int /\ versions.k3s <= versions'.k3s
    BY <1>00, <1>1 DEF Bump
  <2>2. UNCHANGED <<installed, plans, k3s, jobs>>
    BY <1>1 DEF Bump, k8sVars
  <2>. QED
    BY <1>00, <2>1, <2>2
<1>2. CASE InstallK3s
  <2>1. k3s'[Gate] = versions.k3s /\ \A n \in Agent : k3s'[n] = k3s[n]
    BY <1>0, <1>2 DEF InstallK3s, Typed
  <2>2. installed' = versions.k3s /\ UNCHANGED <<versions, plans, jobs>>
    BY <1>2 DEF InstallK3s
  <2>. QED
    BY <1>0, <1>00, <2>1, <2>2
<1>3. ASSUME NEW p \in Plan, PutPlan(p)
      PROVE  (Ordered /\ AgentsNotNewer)'
  BY <1>3 DEF PutPlan, Planned, Typed, PlanState
<1>4. ASSUME NEW n \in Node, StartJob(n)
      PROVE  (Ordered /\ AgentsNotNewer)'
  BY <1>4 DEF StartJob, JobsWith, JobVersion, PlanOf
<1>5. ASSUME NEW n \in Node, Drain(n)
      PROVE  (Ordered /\ AgentsNotNewer)'
  <2>1. /\ DOMAIN jobs' \subseteq DOMAIN jobs
        /\ \A m \in DOMAIN jobs' : jobs'[m].version = jobs[m].version
    <3>1. CASE jobs' = JobsWithout(n)
      BY <3>1, WithoutJob
    <3>2. CASE jobs' = [jobs EXCEPT ![n].drained = TRUE]
      BY <3>2 DEF Typed, Job
    <3>. QED
      BY <1>5, <3>1, <3>2 DEF Drain
  <2>. QED
    BY <1>5, <2>1 DEF Drain
<1>6. ASSUME NEW n \in Node, Upgrade(n)
      PROVE  (Ordered /\ AgentsNotNewer)'
  <2>1. /\ DOMAIN jobs' \subseteq DOMAIN jobs
        /\ \A m \in DOMAIN jobs' : jobs'[m] = jobs[m]
    BY <1>6 DEF Upgrade, JobsWithout
  <2>2. \A p \in Plan : plans'[p].version = plans[p].version
    BY <1>6 DEF Upgrade, Typed, PlanState
  <2>3. k3s'[Gate] = installed
    BY <1>0, <1>00, <1>6 DEF Upgrade, Replaced, Typed
  <2>4. \A m \in Agent : k3s'[m] <= installed
    BY <1>0, <1>00, <1>6 DEF Upgrade, Replaced, Typed
  <2>. QED
    BY <1>6, <2>1, <2>2, <2>3, <2>4 DEF Upgrade
<1>7. ASSUME NEW n \in Agent, Reflash(n)
      PROVE  (Ordered /\ AgentsNotNewer)'
  BY <1>0, <1>7 DEF Reflash, JobsWithout, Typed, PlanState
<1>8. CASE UNCHANGED <<versions, installed, plans, k3s, jobs>>
  BY <1>8
<1>9. \/ Bump \/ InstallK3s \/ \E p \in Plan : PutPlan(p)
      \/ \E n \in Node : StartJob(n) \/ Drain(n) \/ Upgrade(n)
      \/ \E n \in Agent : Reflash(n)
      \/ UNCHANGED <<versions, installed, plans, k3s, jobs>>
  BY DEF Typed, Next, vars, k8sVars, netVars, Rollout, BeginRollout, Put, ReleaseCilium, EndRollout,
     CutRollout, Controller, Loops, RoutesPass, RulesPass, PowerOn, ResetGateway, PowerOff,
     LoseRules
<1>. QED
  BY <1>1, <1>2, <1>3, <1>4, <1>5, <1>6, <1>7, <1>8, <1>9

\* No agent ever runs a k3s newer than the server's (upgrades.ts), however many nodes
\* there are, whatever is flashed or cut short, and however often versions move.
THEOREM Skew == Spec => []AgentsNotNewer
<1>1. Init => Ordered /\ AgentsNotNewer
  BY DEF Init, Deployed, Bare, Ordered, AgentsNotNewer, Node
<1>. QED
  BY <1>1, TypedAlways, OrderedNext, PTL DEF Spec

-----------------------------------------------------------------------------
(* Routes are approved. The policy is there wherever the loops can run, and a   *)
(* node loses its approval only with its routes.                               *)

PolicyFirst == "routes" \in put => "policy" \in put

LEMMA PolicyNext == PolicyFirst /\ [Next]_vars => PolicyFirst'
<1> SUFFICES ASSUME PolicyFirst, [Next]_vars
             PROVE  PolicyFirst'
  OBVIOUS
<1>1. ASSUME NEW x \in Networking, Put(x)
      PROVE  PolicyFirst'
  <2>1. put' = put \cup {x} /\ (x = "routes" => "policy" \in put)
    BY <1>1 DEF Put, MayPut
  <2>. QED
    BY <2>1 DEF PolicyFirst
<1>2. CASE UNCHANGED put
  BY <1>2 DEF PolicyFirst
<1>3. (\E x \in Networking : Put(x)) \/ UNCHANGED put
  BY DEF Next, vars, k8sVars, Bump, Rollout, BeginRollout, InstallK3s, ReleaseCilium, PutPlan,
     EndRollout, CutRollout, Controller, StartJob, Drain, Upgrade, Loops, RoutesPass, RulesPass,
     PowerOn, ResetGateway, PowerOff, LoseRules, Reflash
<1>. QED
  BY <1>1, <1>2, <1>3

LEMMA ApprovedNext ==
  Typed /\ PolicyFirst /\ RoutesApproved /\ [Next]_vars => RoutesApproved'
<1> SUFFICES ASSUME Typed, PolicyFirst, RoutesApproved, [Next]_vars
             PROVE  RoutesApproved'
  OBVIOUS
<1>0. prefs \in [Node -> Pref] /\ Reset.routes = {} /\ Gate \in Node /\ Agent \subseteq Node
  BY DEF Typed, Reset, Node
<1>1. ASSUME NEW n \in Node, RoutesPass(n)
      PROVE  RoutesApproved'
  <2>1. approved' = approved \cup {n}
    BY <1>1 DEF RoutesPass, PolicyFirst, ApprovedOnTheSpot
  <2>2. \A m \in Node : m # n => prefs'[m] = prefs[m]
    BY <1>1 DEF RoutesPass, Typed
  <2>. QED
    BY <2>1, <2>2 DEF RoutesApproved
<1>2. ASSUME NEW n \in Node, prefs' = [prefs EXCEPT ![n] = Reset],
             approved \ {n} \subseteq approved'
      PROVE  RoutesApproved'
  BY <1>0, <1>2 DEF RoutesApproved
<1>3. CASE UNCHANGED <<prefs, approved>>
  BY <1>3 DEF RoutesApproved
<1>4. CASE ResetGateway
  BY <1>0, <1>2, <1>4 DEF ResetGateway
<1>5. ASSUME NEW n \in Agent, Reflash(n)
      PROVE  RoutesApproved'
  BY <1>0, <1>2, <1>5 DEF Reflash
<1>6. \/ \E n \in Node : RoutesPass(n)
      \/ ResetGateway \/ \E n \in Agent : Reflash(n)
      \/ UNCHANGED <<prefs, approved>>
  BY DEF Next, vars, k8sVars, netVars, Bump, Rollout, BeginRollout, InstallK3s, Put,
     ReleaseCilium, PutPlan, EndRollout, CutRollout, Controller, StartJob, Drain, Upgrade, Loops,
     RulesPass, PowerOn, PowerOff, LoseRules
<1>. QED
  BY <1>1, <1>3, <1>4, <1>5, <1>6

\* Wherever a node advertises its pods' route Tailscale has approved it, from the first
\* deploy on, whatever is cut, reset or flashed, and for any number of agents
\* (main.ts, tailnet-policy.ts).
THEOREM Approval == Spec => []RoutesApproved
<1>1. Init => PolicyFirst /\ RoutesApproved
  BY DEF Init, Deployed, Bare, Networking, PolicyFirst, RoutesApproved, Reset
<1>. QED
  BY <1>1, TypedAlways, PolicyNext, ApprovedNext, PTL DEF Spec
=============================================================================
