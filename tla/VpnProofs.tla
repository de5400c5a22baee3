------------------------------ MODULE VpnProofs ------------------------------
(***************************************************************************)
(* Theorems about Vpn, for any people, exits, workloads and ports and any    *)
(* number of edits, updates cut short and containers that restart.          *)
(***************************************************************************)
EXTENDS Vpn, FiniteSetTheorems, TLAPS

Conf == [roles: [User -> Role], rotation: Nat, sni: Nat, cdn: {"off", "on", "refused"},
         exits: [Exit -> Nat], text: [Static -> Nat]]

IsPod(p) == \E a, r : p = [annotation |-> a, run |-> r]

Counted ==
  /\ conf \in Conf
  /\ stackUpdate \in {"none", "running", "ok", "failed"}
  /\ \A x \in DOMAIN issued : issued[x].stamp \in 1..(confEdits + 1)
  /\ labels \subseteq Exit
  /\ confEdits \in 0..MaxEdits
  /\ cuts \in 0..MaxCuts

Kinded ==
  /\ DOMAIN templates \subseteq DOMAIN objects
  /\ "cdn" \notin DOMAIN templates
  /\ DOMAIN pods = DOMAIN templates
  /\ \A w \in DOMAIN pods : \A p \in pods[w] : IsPod(p)

Sized == \A w \in DOMAIN pods : IsFiniteSet(pods[w]) /\ Cardinality(pods[w]) <= 1 + MaxSurge(w)

Apart == \A v, w \in DOMAIN pods : v # w => Bound(v) \cap Bound(w) = {}

-----------------------------------------------------------------------------
(* The counters, the configuration and the credentials. *)

LEMMA ChangesTyped ==
  ASSUME NEW c \in Conf
  PROVE  Changes(c) \subseteq Conf
<1>1. ASSUME NEW u \in User, NEW role \in Role
      PROVE  [c EXCEPT !.roles[u] = role] \in Conf
  BY <1>1 DEF Conf
<1>2. [c EXCEPT !.rotation = @ + 1] \in Conf /\ [c EXCEPT !.sni = @ + 1] \in Conf
  BY DEF Conf
<1>3. ASSUME NEW cdn \in {"off", "on", "refused"}
      PROVE  [c EXCEPT !.cdn = cdn] \in Conf
  BY <1>3 DEF Conf
<1>4. ASSUME NEW e \in Exit, NEW port \in {0} \cup Explicit
      PROVE  [c EXCEPT !.exits[e] = port] \in Conf
  BY <1>4, VpnAssumption DEF Conf
<1>5. ASSUME NEW e \in Exit
      PROVE  [c EXCEPT !.exits[e] = Derived[e]] \in Conf
  BY <1>5, VpnAssumption DEF Conf
<1>6. ASSUME NEW w \in Static
      PROVE  [c EXCEPT !.text[w] = @ + 1] \in Conf
  BY <1>6 DEF Conf
<1>. QED
  BY <1>1, <1>2, <1>3, <1>4, <1>5, <1>6 DEF Changes

LEMMA CountedInit == Init => Counted
<1> SUFFICES ASSUME Init
             PROVE  Counted
  OBVIOUS
<1>1. conf \in Conf
  BY VpnAssumption DEF Init, Conf, Role
<1>2. labels \subseteq Exit
  BY DEF Init, Exits
<1>3. \A x \in DOMAIN issued : issued[x].stamp \in 1..(confEdits + 1)
  BY DEF Init
<1>. QED
  BY <1>1, <1>2, <1>3, VpnAssumption DEF Init, Counted

LEMMA CountedNext == Counted /\ [Next]_vars => Counted'
<1> SUFFICES ASSUME Counted, [Next]_vars
             PROVE  Counted'
  OBVIOUS
<1> USE VpnAssumption DEF Counted
<1>1. CASE UNCHANGED vars
  BY <1>1 DEF vars
<1>2. CASE EditConf
  <2>1. conf' \in Conf
    BY <1>2, ChangesTyped DEF EditConf
  <2>2. confEdits \in Nat /\ confEdits' = confEdits + 1 /\ confEdits' \in 0..MaxEdits
    BY <1>2 DEF EditConf
  <2>3. \A x \in DOMAIN issued : issued[x].stamp \in 1..(confEdits' + 1)
    BY <2>2
  <2>. QED
    BY <1>2, <2>1, <2>2, <2>3 DEF EditConf
<1>3. CASE BeginUpdate
  <2>1. ASSUME NEW x \in DOMAIN Issue(conf)
        PROVE  Issue(conf)[x].stamp \in 1..(confEdits + 1)
    BY DEF Issue, Kept
  <2>2. issued' = issued \/ issued' = Issue(conf)
    BY <1>3 DEF BeginUpdate
  <2>3. \A x \in DOMAIN issued' : issued'[x].stamp \in 1..(confEdits + 1)
    BY <2>1, <2>2
  <2>. QED
    BY <1>3, <2>3 DEF BeginUpdate
<1>4. ASSUME NEW w, PutObject(w)
      PROVE  Counted'
  BY <1>4 DEF PutObject
<1>5. ASSUME NEW e, PutLabel(e)
      PROVE  Counted'
  BY <1>5 DEF PutLabel, Exits
<1>6. ASSUME NEW w, PutTemplate(w)
      PROVE  Counted'
  BY <1>6 DEF PutTemplate
<1>7. CASE EndUpdate
  <2>1. /\ UNCHANGED <<conf, confEdits, cuts>>
        /\ stackUpdate' = "ok"
        /\ labels' \subseteq labels
        /\ issued' = Without(issued, DOMAIN issued \ DOMAIN Kept(conf))
    BY <1>7 DEF EndUpdate
  <2>2. \A x \in DOMAIN issued' : issued'[x].stamp \in 1..(confEdits + 1)
    BY <2>1 DEF Without
  <2>. QED
    BY <2>1, <2>2
<1>8. CASE CutShort
  BY <1>8 DEF CutShort
<1>9. ASSUME NEW w, RemovePod(w) \/ StartPod(w) \/ Restart(w)
      PROVE  Counted'
  <2>1. /\ UNCHANGED <<conf, issued, labels, stackUpdate, confEdits>>
        /\ cuts' \in 0..MaxCuts
    BY <1>9 DEF RemovePod, StartPod, Restart, Kubernetes
  <2>. QED
    BY <2>1
<1>. QED
  BY <1>1, <1>2, <1>3, <1>4, <1>5, <1>6, <1>7, <1>8, <1>9 DEF Next, Deploys, Rolls

-----------------------------------------------------------------------------
(* The pods, their number and their ports. *)

\* What a step of Kubernetes does to a workload's pods.
Removed(w, p) ==
  /\ p \in Outdated(w)
  /\ pods' = [pods EXCEPT ![w] = pods[w] \ {p}]

Fresh(w) == [annotation |-> templates[w], run |-> objects[w]]

Started(w) ==
  /\ pods[w] \subseteq Outdated(w)
  /\ Cardinality(pods[w]) <= MaxSurge(w)
  /\ \A v \in DOMAIN pods : Ports(w, objects[w]) \cap Bound(v) = {}
  /\ pods' = [pods EXCEPT ![w] = pods[w] \cup {Fresh(w)}]

Again(w, p) == [annotation |-> p.annotation, run |-> objects[w]]

Restarted(w, p) ==
  /\ p \in pods[w]
  /\ \A v \in DOMAIN pods \ {w} : Ports(w, objects[w]) \cap Bound(v) = {}
  /\ pods' = [pods EXCEPT ![w] = (pods[w] \ {p}) \cup {Again(w, p)}]

LEMMA KubernetesSteps ==
  ASSUME Kinded, NEW w \in DOMAIN pods, RemovePod(w) \/ StartPod(w) \/ Restart(w)
  PROVE  /\ UNCHANGED <<conf, issued, objects, templates, labels, stackUpdate, admins>>
         /\ Started(w) \/ \E p \in pods[w] : Removed(w, p) \/ Restarted(w, p)
<1>1. CASE RemovePod(w)
  BY <1>1 DEF RemovePod, Kubernetes, Removed, Outdated
<1>2. CASE StartPod(w)
  BY <1>2 DEF StartPod, Kubernetes, Started, Fresh
<1>3. CASE Restart(w)
  <2>1. PICK p \in pods[w] :
          /\ \A v \in DOMAIN pods \ {w} : Ports(w, objects[w]) \cap Bound(v) = {}
          /\ Kubernetes(w, (pods[w] \ {p}) \cup {[p EXCEPT !.run = objects[w]]})
    BY <1>3 DEF Restart
  <2>2. PICK a, r : p = [annotation |-> a, run |-> r]
    BY DEF Kinded, IsPod
  <2>3. [p EXCEPT !.run = objects[w]] = Again(w, p)
    BY <2>2 DEF Again
  <2>4. Restarted(w, p)
    BY <2>1, <2>3 DEF Kubernetes, Restarted
  <2>. QED
    BY <2>1, <2>4 DEF Kubernetes
<1>. QED
  BY <1>1, <1>2, <1>3

\* A pod that starts or restarts is a pod.
LEMMA RolledKinded ==
  ASSUME Kinded, NEW w \in DOMAIN pods, UNCHANGED <<objects, templates>>,
         Started(w) \/ \E p \in pods[w] : Removed(w, p) \/ Restarted(w, p)
  PROVE  Kinded'
<1>1. PICK now : /\ pods' = [pods EXCEPT ![w] = now]
                 /\ \A q \in now : q \in pods[w] \/ IsPod(q)
  BY DEF Started, Removed, Restarted, Fresh, Again, IsPod
<1>2. /\ DOMAIN pods' = DOMAIN pods
      /\ \A v \in DOMAIN pods : \A q \in pods'[v] : q \in pods[v] \/ IsPod(q)
  BY <1>1
<1>. QED
  BY <1>2 DEF Kinded

LEMMA RolledSized ==
  ASSUME Sized, NEW w \in DOMAIN pods,
         Started(w) \/ \E p \in pods[w] : Removed(w, p) \/ Restarted(w, p)
  PROVE  Sized'
<1>1. MaxSurge(w) \in {0, 1}
  BY DEF MaxSurge
<1>2. IsFiniteSet(pods[w]) /\ Cardinality(pods[w]) \in Nat /\ Cardinality(pods[w]) <= 1 + MaxSurge(w)
  BY FS_CardinalityType DEF Sized
<1>3. PICK now : /\ pods' = [pods EXCEPT ![w] = now]
                 /\ IsFiniteSet(now) /\ Cardinality(now) <= 1 + MaxSurge(w)
  <2>1. CASE Started(w)
    <3>1. /\ IsFiniteSet(pods[w] \cup {Fresh(w)})
          /\ Cardinality(pods[w] \cup {Fresh(w)})
               = IF Fresh(w) \in pods[w] THEN Cardinality(pods[w]) ELSE Cardinality(pods[w]) + 1
      BY <1>2, FS_AddElement
    <3>2. Cardinality(pods[w]) <= MaxSurge(w)
      BY <2>1 DEF Started
    <3>3. Cardinality(pods[w] \cup {Fresh(w)}) <= 1 + MaxSurge(w)
      BY <1>1, <1>2, <3>1, <3>2
    <3>. QED
      BY <2>1, <3>1, <3>3 DEF Started
  <2>2. ASSUME NEW p \in pods[w]
        PROVE  /\ IsFiniteSet(pods[w] \ {p})
               /\ Cardinality(pods[w] \ {p}) = Cardinality(pods[w]) - 1
    BY <1>2, FS_RemoveElement
  <2>3. ASSUME NEW p \in pods[w], Removed(w, p)
        PROVE  \E now : /\ pods' = [pods EXCEPT ![w] = now]
                        /\ IsFiniteSet(now) /\ Cardinality(now) <= 1 + MaxSurge(w)
    <3>1. IsFiniteSet(pods[w] \ {p}) /\ Cardinality(pods[w] \ {p}) = Cardinality(pods[w]) - 1
      BY <2>2
    <3>2. Cardinality(pods[w] \ {p}) <= 1 + MaxSurge(w)
      BY <1>1, <1>2, <3>1
    <3>. QED
      BY <2>3, <3>1, <3>2 DEF Removed
  <2>4. ASSUME NEW p \in pods[w], Restarted(w, p)
        PROVE  \E now : /\ pods' = [pods EXCEPT ![w] = now]
                        /\ IsFiniteSet(now) /\ Cardinality(now) <= 1 + MaxSurge(w)
    <3> DEFINE rest == pods[w] \ {p}
    <3>1. IsFiniteSet(rest) /\ Cardinality(rest) = Cardinality(pods[w]) - 1
      BY <2>2
    <3>2. /\ IsFiniteSet(rest \cup {Again(w, p)})
          /\ Cardinality(rest \cup {Again(w, p)})
               = IF Again(w, p) \in rest THEN Cardinality(rest) ELSE Cardinality(rest) + 1
      BY <3>1, FS_AddElement
    <3>3. Cardinality(rest \cup {Again(w, p)}) <= 1 + MaxSurge(w)
      BY <1>1, <1>2, <3>1, <3>2
    <3>. QED
      BY <2>4, <3>2, <3>3 DEF Restarted
  <2>. QED
    BY <2>1, <2>3, <2>4
<1>. QED
  BY <1>3 DEF Sized

\* A pod that starts binds what is free; one that restarts, what no other workload has.
LEMMA RolledApart ==
  ASSUME Apart, NEW w \in DOMAIN pods, UNCHANGED objects,
         Started(w) \/ \E p \in pods[w] : Removed(w, p) \/ Restarted(w, p)
  PROVE  Apart'
<1>1. /\ DOMAIN pods' = DOMAIN pods
      /\ \A v \in DOMAIN pods : v # w => pods'[v] = pods[v]
      /\ \A q \in pods'[w] : q \in pods[w] \/ q.run = objects[w]
      /\ (\E q \in pods'[w] : q \notin pods[w]) =>
           \A v \in DOMAIN pods \ {w} : Ports(w, objects[w]) \cap Bound(v) = {}
  BY DEF Started, Removed, Restarted, Fresh, Again
<1>2. \A v \in DOMAIN pods : v # w => Bound(v)' = Bound(v)
  BY <1>1 DEF Bound, Held
<1>3. ASSUME NEW v \in DOMAIN pods, v # w
      PROVE  Bound(w)' \cap Bound(v) = {}
  <2>1. Bound(w) \cap Bound(v) = {}
    BY <1>3 DEF Apart
  <2>2. ASSUME NEW port \in Bound(w)'
        PROVE  port \notin Bound(v)
    <3>1. PICK q \in pods'[w] : port \in Ports(w, q.run)
      BY <1>1, <2>2 DEF Bound, Held
    <3>2. CASE q \in pods[w]
      BY <2>1, <3>1, <3>2 DEF Bound, Held
    <3>3. CASE q \notin pods[w]
      BY <1>1, <1>3, <3>1, <3>3
    <3>. QED
      BY <3>2, <3>3
  <2>. QED
    BY <2>2
<1>. QED
  BY <1>1, <1>2, <1>3 DEF Apart

Housed == Kinded /\ Sized /\ Apart

LEMMA WorkloadNames ==
  ASSUME NEW c
  PROVE  "cdn" \notin Workloads(c)
  BY VpnAssumption DEF Workloads, Exits

LEMMA HousedInit == Init => Housed
<1> SUFFICES ASSUME Init
             PROVE  Housed
  OBVIOUS
<1>1. Kinded
  <2>1. /\ DOMAIN templates = Workloads(conf)
        /\ DOMAIN objects = Workloads(conf) \cup Routes(conf)
        /\ DOMAIN pods = Workloads(conf)
    BY DEF Init
  <2>2. \A w \in DOMAIN pods : \A p \in pods[w] : IsPod(p)
    BY DEF Init, IsPod
  <2>. QED
    BY <2>1, <2>2, WorkloadNames DEF Kinded
<1>2. Sized
  <2>1. \A w \in DOMAIN pods : \E p : pods[w] = {p}
    BY DEF Init
  <2>2. \A w \in DOMAIN pods : IsFiniteSet(pods[w]) /\ Cardinality(pods[w]) = 1
    BY <2>1, FS_Singleton
  <2>3. \A w : MaxSurge(w) \in {0, 1}
    BY DEF MaxSurge
  <2>. QED
    BY <2>2, <2>3 DEF Sized
<1>3. Apart
  <2>1. PICK e : Exits(conf) \subseteq {e}
    BY DEF Init, Exits
  <2>2. ASSUME NEW w \in DOMAIN pods, NEW port \in Bound(w)
        PROVE  /\ w \in Exit => w = e /\ port[1] = "exit"
               /\ w \notin Exit => port[1] = w /\ w # "exit"
    <3>1. w \in Workloads(conf)
      BY DEF Init
    <3>2. \E run : port \in Ports(w, run)
      BY DEF Bound, Held
    <3>3. \/ w \in Exits(conf)
          \/ w \in {"xray", "hysteria", "profiles", "unbound", "traefik", "samba"}
      BY <3>1, VpnAssumption DEF Workloads
    <3>4. CASE w \in Exit
      <4>1. w = e
        BY <2>1, <3>3, <3>4, VpnAssumption
      <4>. QED
        BY <3>2, <3>4, <4>1 DEF Ports
    <3>5. CASE w \notin Exit
      <4>1. w # "exit"
        BY <3>3, <3>5 DEF Exits
      <4>. QED
        BY <3>2, <3>5, <4>1 DEF Ports
    <3>. QED
      BY <3>4, <3>5
  <2>. QED
    BY <2>2 DEF Apart
<1>. QED
  BY <1>1, <1>2, <1>3 DEF Housed

\* Steps that leave each workload's pods as they are, and may add a workload.
LEMMA HousedPut ==
  ASSUME Housed, NEW w \in Workloads(conf), PutTemplate(w)
  PROVE  Housed'
<1>1. /\ w \in DOMAIN objects
      /\ objects' = objects
      /\ DOMAIN templates' = DOMAIN templates \cup {w}
      /\ pods' = Put(pods, w, Held(w))
  BY DEF PutTemplate, Written, Put
<1>2. /\ DOMAIN pods' = DOMAIN pods \cup {w}
      /\ \A v \in DOMAIN pods' : pods'[v] = Held(v)
  BY <1>1 DEF Put, Held
<1>3. \A v : Held(v)' = Held(v)
  BY <1>2 DEF Held
<1>4. Kinded'
  BY <1>1, <1>2, WorkloadNames DEF Housed, Kinded, Held
<1>5. Sized'
  <2>1. \A v : MaxSurge(v) \in {0, 1}
    BY DEF MaxSurge
  <2>2. \A v : IsFiniteSet(Held(v)) /\ Cardinality(Held(v)) <= 1 + MaxSurge(v)
    BY <2>1, FS_EmptySet DEF Housed, Sized, Held
  <2>. QED
    BY <1>2, <2>2 DEF Sized
<1>6. Apart'
  <2>1. \A v : Bound(v)' = Bound(v)
    BY <1>3 DEF Bound
  <2>2. \A v : v \notin DOMAIN pods => Bound(v) = {}
    BY DEF Bound, Held
  <2>. QED
    BY <2>1, <2>2 DEF Housed, Apart
<1>. QED
  BY <1>4, <1>5, <1>6 DEF Housed

LEMMA HousedEnd == Housed /\ EndUpdate => Housed'
<1> SUFFICES ASSUME Housed, EndUpdate
             PROVE  Housed'
  OBVIOUS
<1>1. PICK gone : /\ objects' = Without(objects, gone)
                  /\ templates' = Without(templates, gone)
                  /\ pods' = Without(pods, gone)
  BY DEF EndUpdate
<1>2. /\ DOMAIN pods' = DOMAIN pods \ gone
      /\ \A v \in DOMAIN pods' : pods'[v] = pods[v]
      /\ DOMAIN templates' = DOMAIN templates \ gone
      /\ DOMAIN objects' = DOMAIN objects \ gone
  BY <1>1 DEF Without
<1>3. Kinded'
  BY <1>2 DEF Housed, Kinded
<1>4. Sized'
  BY <1>2 DEF Housed, Sized
<1>5. Apart'
  <2>1. \A v \in DOMAIN pods' : Bound(v)' = Bound(v)
    BY <1>2 DEF Bound, Held
  <2>. QED
    BY <1>2, <2>1 DEF Housed, Apart
<1>. QED
  BY <1>3, <1>4, <1>5 DEF Housed

LEMMA HousedNext == Housed /\ [Next]_vars => Housed'
<1> SUFFICES ASSUME Housed, [Next]_vars
             PROVE  Housed'
  OBVIOUS
<1>1. CASE UNCHANGED <<objects, templates, pods>>
  BY <1>1 DEF Housed, Kinded, Sized, Apart, Bound, Held
<1>2. CASE EditConf \/ BeginUpdate \/ CutShort \/ UNCHANGED vars
  BY <1>1, <1>2 DEF EditConf, BeginUpdate, CutShort, vars
<1>3. ASSUME NEW e, PutLabel(e)
      PROVE  Housed'
  BY <1>1, <1>3 DEF PutLabel
<1>4. ASSUME NEW w, PutObject(w)
      PROVE  Housed'
  <2>1. /\ UNCHANGED <<templates, pods>>
        /\ DOMAIN objects \subseteq DOMAIN objects'
    BY <1>4 DEF PutObject, Put
  <2>. QED
    BY <2>1 DEF Housed, Kinded, Sized, Apart, Bound, Held
<1>5. ASSUME NEW w \in DOMAIN pods, RemovePod(w) \/ StartPod(w) \/ Restart(w)
      PROVE  Housed'
  <2>1. Kinded /\ Sized /\ Apart
    BY DEF Housed
  <2>2. /\ UNCHANGED <<objects, templates>>
        /\ Started(w) \/ \E p \in pods[w] : Removed(w, p) \/ Restarted(w, p)
    BY <1>5, <2>1, KubernetesSteps
  <2>3. Kinded'
    BY <2>1, <2>2, RolledKinded
  <2>4. Sized'
    BY <2>1, <2>2, RolledSized
  <2>5. Apart'
    BY <2>1, <2>2, RolledApart
  <2>. QED
    BY <2>3, <2>4, <2>5 DEF Housed
<1>. QED
  BY <1>2, <1>3, <1>4, <1>5, HousedPut, HousedEnd DEF Next, Deploys, Rolls

\* Every variable keeps its type; there are no more pods of a workload than its
\* rollout allows, and no two workloads bind a port of the node (exit.ts, xray.ts and
\* hysteria.ts: maxSurge 0 on the host's network).
THEOREM TypeCorrect == Spec => []TypeOK
<1>1. Counted /\ Housed => TypeOK
  BY DEF Counted, Housed, Kinded, Sized, Apart, TypeOK, Conf
<1>2. Init => Counted /\ Housed
  BY CountedInit, HousedInit
<1>3. Counted /\ Housed /\ [Next]_vars => (Counted /\ Housed)'
  BY CountedNext, HousedNext
<1>. QED
  BY <1>1, <1>2, <1>3, PTL DEF Spec

-----------------------------------------------------------------------------
(* What the entries' configurations grant. *)

\* Whoever was never an admin is a guest of every entry that knows them.
Grants(w, x) ==
  /\ w = "xray" => \A u \in DOMAIN x.ids : u \in admins \/ u \in x.guests
  /\ w = "hysteria" => DOMAIN x.auth \subseteq admins

Granted ==
  /\ stackUpdate = "running" => With(conf, "admin") \subseteq admins
  /\ \A w \in DOMAIN objects : Grants(w, objects[w])
  /\ \A w \in DOMAIN pods : \A p \in pods[w] : Grants(w, p.run)

\* What xray.ts denies a guest leaves the internet, and what is dialled by a name.
LEMMA GuestsAllowed == XrayAllows[TRUE] \subseteq Confines
<1> SUFFICES ASSUME NEW d \in Destination, d \notin Blocked,
                    d \in FinalRules \/ d \notin PrivateList
             PROVE  d \in Confines
  BY DEF XrayAllows
<1>1. d.class \in V4 \cup V6
  BY DEF Destination
<1>2. FinalRules \subseteq GuestDeny
  BY DEF FinalRules, GuestDeny, Within, Tailnet
<1>3. CASE d \in FinalRules
  <2>1. d \in Named
    BY <1>2, <1>3 DEF Blocked
  <2>. QED
    BY <1>3, <2>1 DEF FinalRules, Confines
<1>4. CASE d \notin PrivateList
  <2>1. d \in Internet
    BY <1>1, <1>4 DEF PrivateList, Internet, Within
  <2>. QED
    BY <2>1 DEF Confines
<1>. QED
  BY <1>3, <1>4

\* A way in is one of three.
LEMMA WaysIn ==
  ASSUME NEW t, NEW u, NEW leaf \in LeavesOf(t, u)
  PROVE  leaf.leaf \in {"hy2", "reality", "xhttp"}
<1>1. PICK n, client, tag : tag \in EntryTags(t, u, n, client) /\ leaf = Leaf(t, u, tag)
  BY DEF LeavesOf
<1>2. tag[1] \in {"hy2", "reality", "xhttp"}
  BY <1>1 DEF EntryTags, HyTags, RealityTags, XhttpTags
<1>3. CASE tag[1] = "hy2"
  BY <1>1, <1>3 DEF Leaf
<1>4. CASE tag[1] = "reality"
  BY <1>1, <1>4 DEF Leaf
<1>5. CASE tag[1] = "xhttp"
  BY <1>1, <1>5 DEF Leaf
<1>. QED
  BY <1>2, <1>3, <1>4, <1>5

\* What a person reaches is what the entries that know them allow.
LEMMA ReachedThrough ==
  ASSUME NEW u, NEW S,
         \A x \in Running("xray") : u \in DOMAIN x.ids => XrayAllows[(u \in x.guests)] \subseteq S,
         \A h \in Running("hysteria") : u \notin DOMAIN h.auth
  PROVE  Reached(u) \subseteq S
<1>1. ASSUME NEW leaf, leaf.leaf \in {"hy2", "reality", "xhttp"}
      PROVE  Reach(u, leaf) \subseteq S
  <2>1. \A x \in Running("xray") : ThroughXray(x, u, leaf) \subseteq S
    BY DEF ThroughXray
  <2>2. CASE leaf.leaf = "reality"
    BY <2>1, <2>2 DEF Reach
  <2>3. CASE leaf.leaf = "xhttp"
    BY <2>1, <2>3 DEF Reach
  <2>4. CASE leaf.leaf = "hy2"
    BY <2>4 DEF Reach
  <2>. QED
    BY <1>1, <2>2, <2>3, <2>4
<1>2. ASSUME NEW d \in Reached(u)
      PROVE  d \in S
  <2>1. PICK t, leaf : leaf \in LeavesOf(t, u) /\ d \in Reach(u, leaf)
    BY <1>2 DEF Reached
  <2>. QED
    BY <1>1, <2>1, WaysIn
<1>. QED
  BY <1>2

LEMMA RosterRoles ==
  ASSUME NEW c \in Conf, NEW u \in Users(c)
  PROVE  u \in With(c, "admin") \/ u \in With(c, "guest")
<1>1. CASE {v \in User : c.roles[v] # "none"} = {}
  BY <1>1 DEF Users, With, Roster
<1>2. CASE {v \in User : c.roles[v] # "none"} # {}
  <2>1. u \in User /\ c.roles[u] # "none" /\ Roster(c)[u] = c.roles[u]
    BY <1>2 DEF Users, Roster
  <2>2. c.roles[u] \in Role
    BY <2>1 DEF Conf
  <2>. QED
    BY <2>1, <2>2 DEF With, Role
<1>. QED
  BY <1>1, <1>2

LEMMA ContentGrants ==
  ASSUME conf \in Conf, With(conf, "admin") \subseteq admins, NEW w
  PROVE  Grants(w, Content(conf, w))
<1>1. CASE w = "xray"
  <2>1. Content(conf, w) = XrayConfig(conf)
    BY <1>1, VpnAssumption DEF Content
  <2>2. DOMAIN XrayConfig(conf).ids = Users(conf) /\ XrayConfig(conf).guests = With(conf, "guest")
    BY DEF XrayConfig
  <2>. QED
    BY <1>1, <2>1, <2>2, RosterRoles DEF Grants
<1>2. CASE w = "hysteria"
  <2>1. Content(conf, w) = HysteriaConfig(conf)
    BY <1>2, VpnAssumption DEF Content
  <2>2. DOMAIN HysteriaConfig(conf).auth = With(conf, "admin")
    BY DEF HysteriaConfig
  <2>. QED
    BY <1>2, <2>1, <2>2 DEF Grants
<1>. QED
  BY <1>1, <1>2 DEF Grants

\* Who once was an admin stays one of those.
LEMMA GrantsStay ==
  ASSUME NEW w, NEW x, Grants(w, x), admins \subseteq admins'
  PROVE  Grants(w, x)'
  BY DEF Grants

LEMMA GrantedInit == Init => Granted
<1> SUFFICES ASSUME Init
             PROVE  Granted
  OBVIOUS
<1>1. conf \in Conf /\ With(conf, "admin") \subseteq admins
  BY CountedInit DEF Counted, Init
<1>2. \A w : Grants(w, Content(conf, w))
  BY <1>1, ContentGrants
<1>3. \A w \in DOMAIN objects : Grants(w, objects[w])
  BY <1>2 DEF Init
<1>4. \A w \in DOMAIN pods : w \in DOMAIN objects /\ \A p \in pods[w] : p.run = objects[w]
  BY DEF Init
<1>. QED
  BY <1>1, <1>3, <1>4 DEF Granted

LEMMA GrantedNext == Counted /\ Housed /\ Granted /\ [Next]_vars => Granted'
<1> SUFFICES ASSUME Counted, Housed, Granted, [Next]_vars
             PROVE  Granted'
  OBVIOUS
<1>1. CASE BeginUpdate
  <2>1. UNCHANGED <<conf, objects, pods>> /\ admins \subseteq admins'
    BY <1>1 DEF BeginUpdate
  <2>2. stackUpdate' = "running" => With(conf, "admin") \subseteq admins'
    BY <1>1 DEF BeginUpdate
  <2>3. With(conf, "admin")' = With(conf, "admin")
    BY <2>1
  <2>4. \A w \in DOMAIN objects : Grants(w, objects[w])'
    BY <2>1, GrantsStay DEF Granted, Grants
  <2>5. \A w \in DOMAIN pods : \A p \in pods[w] : Grants(w, p.run)'
    BY <2>1 DEF Granted, Grants
  <2>. QED
    BY <2>1, <2>2, <2>3, <2>4, <2>5 DEF Granted
<1>2. ASSUME UNCHANGED <<objects, pods, admins>>,
             stackUpdate' = "running" => stackUpdate = "running" /\ UNCHANGED conf
      PROVE  Granted'
  BY <1>2 DEF Granted, Grants
<1>3. CASE EditConf \/ CutShort \/ UNCHANGED vars
  BY <1>2, <1>3 DEF EditConf, CutShort, vars
<1>4. ASSUME NEW e, PutLabel(e)
      PROVE  Granted'
  BY <1>2, <1>4 DEF PutLabel
<1>5. ASSUME NEW w, PutObject(w)
      PROVE  Granted'
  <2>1. /\ stackUpdate = "running"
        /\ objects' = Put(objects, w, Content(conf, w))
        /\ UNCHANGED <<conf, pods, admins, stackUpdate>>
    BY <1>5 DEF PutObject
  <2>2. Grants(w, Content(conf, w))
    BY <2>1, ContentGrants DEF Granted, Counted
  <2>3. \A v \in DOMAIN objects' : Grants(v, objects'[v])
    BY <2>1, <2>2 DEF Granted, Put
  <2>. QED
    BY <2>1, <2>3 DEF Granted, Grants
<1>6. ASSUME NEW w, PutTemplate(w)
      PROVE  Granted'
  <2>1. /\ pods' = Put(pods, w, Held(w))
        /\ UNCHANGED <<conf, objects, admins, stackUpdate>>
    BY <1>6 DEF PutTemplate
  <2>2. ASSUME NEW v \in DOMAIN pods', NEW p \in pods'[v]
        PROVE  v \in DOMAIN pods /\ p \in pods[v]
    <3>1. CASE v = w
      BY <2>1, <2>2, <3>1 DEF Put, Held
    <3>2. CASE v # w
      BY <2>1, <2>2, <3>2 DEF Put
    <3>. QED
      BY <3>1, <3>2
  <2>. QED
    BY <2>1, <2>2 DEF Granted, Grants
<1>7. CASE EndUpdate
  <2>1. PICK gone : /\ objects' = Without(objects, gone)
                    /\ pods' = Without(pods, gone)
    BY <1>7 DEF EndUpdate
  <2>2. UNCHANGED <<conf, admins>> /\ stackUpdate' = "ok"
    BY <1>7 DEF EndUpdate
  <2>3. \A w \in DOMAIN objects' : w \in DOMAIN objects /\ objects'[w] = objects[w]
    BY <2>1 DEF Without
  <2>4. \A w \in DOMAIN pods' : w \in DOMAIN pods /\ pods'[w] = pods[w]
    BY <2>1 DEF Without
  <2>. QED
    BY <2>2, <2>3, <2>4 DEF Granted, Grants
<1>8. ASSUME NEW w \in DOMAIN pods, RemovePod(w) \/ StartPod(w) \/ Restart(w)
      PROVE  Granted'
  <2>1. /\ UNCHANGED <<conf, objects, stackUpdate, admins>>
        /\ Started(w) \/ \E p \in pods[w] : Removed(w, p) \/ Restarted(w, p)
    BY <1>8, KubernetesSteps DEF Housed
  <2>2. w \in DOMAIN objects
    BY DEF Housed, Kinded
  <2>3. /\ DOMAIN pods' = DOMAIN pods
        /\ \A v \in DOMAIN pods : v # w => pods'[v] = pods[v]
        /\ \A q \in pods'[w] : q \in pods[w] \/ q.run = objects[w]
    BY <2>1 DEF Started, Removed, Restarted, Fresh, Again
  <2>4. \A v \in DOMAIN pods' : \A q \in pods'[v] : Grants(v, q.run)
    BY <2>2, <2>3 DEF Granted
  <2>. QED
    BY <2>1, <2>4 DEF Granted, Grants
<1>. QED
  BY <1>1, <1>3, <1>4, <1>5, <1>6, <1>7, <1>8 DEF Next, Deploys, Rolls

-----------------------------------------------------------------------------
(* After an update that ended well. *)

Provisioned == stackUpdate = "running" => DOMAIN Kept(conf) \subseteq DOMAIN issued

Settled ==
  stackUpdate = "ok" =>
    /\ DOMAIN templates = Workloads(conf)
    /\ \A w \in Workloads(conf) :
        /\ objects[w] = Content(conf, w)
        /\ templates[w] = Annotation(w, Content(conf, w))
        /\ pods[w] # {}
        /\ \A p \in pods[w] : p.annotation = templates[w]
    /\ \A w \in Routes(conf) : w \in DOMAIN objects /\ objects[w] = Content(conf, w)

LEMMA ProvisionedNext == Provisioned /\ [Next]_vars => Provisioned'
<1> SUFFICES ASSUME Provisioned, [Next]_vars
             PROVE  Provisioned'
  OBVIOUS
<1>1. CASE BeginUpdate
  <2>1. /\ conf' = conf
        /\ stackUpdate' = "running" => issued' = Issue(conf)
    BY <1>1 DEF BeginUpdate
  <2>2. DOMAIN Kept(conf) \subseteq DOMAIN Issue(conf)
    BY DEF Issue
  <2>. QED
    BY <2>1, <2>2 DEF Provisioned
<1>2. ASSUME stackUpdate' = "running" => stackUpdate = "running" /\ UNCHANGED <<conf, issued>>
      PROVE  Provisioned'
  BY <1>2 DEF Provisioned
<1>3. CASE EditConf \/ CutShort \/ EndUpdate \/ UNCHANGED vars
  BY <1>2, <1>3 DEF EditConf, CutShort, EndUpdate, vars
<1>4. ASSUME NEW w, PutLabel(w) \/ PutObject(w) \/ PutTemplate(w)
      PROVE  Provisioned'
  BY <1>2, <1>4 DEF PutLabel, PutObject, PutTemplate
<1>5. ASSUME NEW w, RemovePod(w) \/ StartPod(w) \/ Restart(w)
      PROVE  Provisioned'
  BY <1>2, <1>5 DEF RemovePod, StartPod, Restart, Kubernetes
<1>. QED
  BY <1>1, <1>3, <1>4, <1>5 DEF Next, Deploys, Rolls

\* What is declared is made of the credentials that are kept.
LEMMA SameContent ==
  ASSUME DOMAIN Kept(conf) \subseteq DOMAIN issued, conf' = conf,
         issued' = Without(issued, DOMAIN issued \ DOMAIN Kept(conf)),
         NEW w \in Workloads(conf) \cup Routes(conf)
  PROVE  Content(conf, w)' = Content(conf, w)
<1>1. \A x \in DOMAIN Kept(conf) : Stamp(x)' = Stamp(x)
  BY DEF Stamp, Without
<1>2. /\ <<"reality">> \in DOMAIN Kept(conf)
      /\ <<"obfs">> \in DOMAIN Kept(conf)
      /\ <<"cert">> \in DOMAIN Kept(conf)
      /\ \A u \in Users(conf) : <<"id", u>> \in DOMAIN Kept(conf)
      /\ \A u \in With(conf, "admin") : <<"auth", u>> \in DOMAIN Kept(conf)
      /\ conf.cdn # "off" => <<"path">> \in DOMAIN Kept(conf)
      /\ \A e \in Exits(conf) : <<"psk", e>> \in DOMAIN Kept(conf)
  BY DEF Kept
<1>3. /\ Users(conf)' = Users(conf)
      /\ With(conf, "admin")' = With(conf, "admin")
      /\ With(conf, "guest")' = With(conf, "guest")
      /\ Exits(conf)' = Exits(conf)
      /\ Roster(conf)' = Roster(conf)
  OBVIOUS
<1>4. XrayConfig(conf)' = XrayConfig(conf)
  BY <1>1, <1>2, <1>3 DEF XrayConfig
<1>5. HysteriaConfig(conf)' = HysteriaConfig(conf)
  BY <1>1, <1>2, <1>3 DEF HysteriaConfig
<1>6. \A e \in Exits(conf) : ExitConfig(conf, e)' = ExitConfig(conf, e)
  BY <1>1, <1>2, <1>3 DEF ExitConfig
<1>7. Table(conf)' = Table(conf)
  BY <1>3, <1>4, <1>5, <1>6 DEF Table
<1>8. CASE w \in {"xray", "hysteria", "profiles"}
  BY <1>4, <1>5, <1>7, <1>8, VpnAssumption DEF Content
<1>9. CASE w \in Static
  BY <1>9, VpnAssumption DEF Content
<1>10. CASE w \in Exits(conf)
  <2>1. w \in Exit
    BY <1>10 DEF Exits
  <2>. QED
    BY <1>6, <1>10, <2>1, VpnAssumption DEF Content
<1>11. CASE w \in Routes(conf)
  BY <1>1, <1>2, <1>11, VpnAssumption DEF Content, Routes
<1>. QED
  BY <1>8, <1>9, <1>10, <1>11 DEF Workloads

LEMMA SettledInit == Init => Settled /\ Provisioned
<1> SUFFICES ASSUME Init
             PROVE  Settled
  BY DEF Init, Provisioned
<1>1. ASSUME NEW w \in Workloads(conf)
      PROVE  /\ objects[w] = Content(conf, w)
             /\ templates[w] = Annotation(w, Content(conf, w))
             /\ pods[w] = {[annotation |-> templates[w], run |-> objects[w]]}
  BY DEF Init
<1>2. DOMAIN templates = Workloads(conf)
  BY DEF Init
<1>3. ASSUME NEW w \in Workloads(conf)
      PROVE  pods[w] # {} /\ \A p \in pods[w] : p.annotation = templates[w]
  <2>1. pods[w] = {[annotation |-> templates[w], run |-> objects[w]]}
    BY <1>1
  <2>. QED
    BY <2>1
<1>4. ASSUME NEW w \in Workloads(conf)
      PROVE  objects[w] = Content(conf, w) /\ templates[w] = Annotation(w, Content(conf, w))
  BY <1>1
<1>5. \A w \in Routes(conf) : w \in DOMAIN objects /\ objects[w] = Content(conf, w)
  BY DEF Init
<1>. QED
  BY <1>2, <1>3, <1>4, <1>5 DEF Settled

LEMMA SettledNext == Housed /\ Provisioned /\ Settled /\ [Next]_vars => Settled'
<1> SUFFICES ASSUME Housed, Provisioned, Settled, [Next]_vars, stackUpdate' = "ok"
             PROVE  Settled'
  BY DEF Settled
<1>1. ASSUME UNCHANGED <<conf, issued, objects, templates, pods, stackUpdate>>
      PROVE  Settled'
  <2>1. \A w : Content(conf, w)' = Content(conf, w)
    BY <1>1 DEF Content, XrayConfig, HysteriaConfig, ExitConfig, Table, Stamp
  <2>. QED
    BY <1>1, <2>1 DEF Settled
<1>2. CASE UNCHANGED vars
  BY <1>1, <1>2 DEF vars
<1>3. CASE EditConf \/ BeginUpdate \/ CutShort
  BY <1>3 DEF EditConf, BeginUpdate, CutShort
<1>4. ASSUME NEW w, PutLabel(w) \/ PutObject(w) \/ PutTemplate(w)
      PROVE  FALSE
  BY <1>4 DEF PutLabel, PutObject, PutTemplate
<1>5. CASE EndUpdate
  <2> DEFINE gone == DOMAIN objects \ (Workloads(conf) \cup Routes(conf))
  <2>1. /\ objects' = Without(objects, gone)
        /\ templates' = Without(templates, gone)
        /\ pods' = Without(pods, gone)
        /\ conf' = conf
        /\ issued' = Without(issued, DOMAIN issued \ DOMAIN Kept(conf))
        /\ stackUpdate = "running"
        /\ Exits(conf) \subseteq labels
    BY <1>5 DEF EndUpdate
  <2>2. ASSUME NEW w \in Workloads(conf)
        PROVE  /\ Content(conf, w)' = Content(conf, w)
               /\ w \in DOMAIN objects /\ objects[w] = Content(conf, w)
               /\ w \in DOMAIN templates /\ templates[w] = Annotation(w, Content(conf, w))
               /\ pods[w] # {}
               /\ \A p \in pods[w] : p.annotation = templates[w]
    <3>1. Content(conf, w)' = Content(conf, w)
      BY <2>1, SameContent DEF Provisioned
    <3>2. Written(w) /\ Current(w) /\ RolledOut(w)
      BY <1>5 DEF EndUpdate
    <3>3. Wanted(w)
      BY <2>1, VpnAssumption DEF Wanted, Workloads
    <3>. QED
      BY <3>1, <3>2, <3>3 DEF Written, Current, RolledOut, Ready
  <2>3. DOMAIN templates' = Workloads(conf)
    <3>1. Routes(conf) \cap DOMAIN templates = {}
      BY DEF Routes, Housed, Kinded
    <3>2. DOMAIN templates' = DOMAIN templates \ gone
      BY <2>1 DEF Without
    <3>3. DOMAIN templates \subseteq DOMAIN objects
      BY DEF Housed, Kinded
    <3>. QED
      BY <2>2, <3>1, <3>2, <3>3
  <2>4. ASSUME NEW w \in Workloads(conf)
        PROVE  /\ objects'[w] = objects[w]
               /\ templates'[w] = templates[w]
               /\ pods'[w] = pods[w]
    <3>1. w \notin gone /\ w \in DOMAIN objects /\ w \in DOMAIN templates /\ w \in DOMAIN pods
      BY <2>2, <2>4 DEF Housed, Kinded
    <3>. QED
      BY <2>1, <3>1 DEF Without
  <2>5. Workloads(conf)' = Workloads(conf)
    BY <2>1
  <2>6. \A w \in Workloads(conf) : Annotation(w, Content(conf, w))' = Annotation(w, Content(conf, w))
    BY <2>2 DEF Annotation
  <2>7. ASSUME NEW w \in Routes(conf)
        PROVE  w \in DOMAIN objects' /\ objects'[w] = Content(conf, w)'
    <3>1. Content(conf, w)' = Content(conf, w)
      BY <2>1, SameContent DEF Provisioned
    <3>2. Written(w)
      BY <1>5 DEF EndUpdate
    <3>. QED
      BY <2>1, <3>1, <3>2 DEF Written, Without
  <2>8. Routes(conf)' = Routes(conf)
    BY <2>1 DEF Routes
  <2>. QED
    BY <2>2, <2>3, <2>4, <2>5, <2>6, <2>7, <2>8 DEF Settled
<1>6. ASSUME NEW w \in DOMAIN pods, RemovePod(w) \/ StartPod(w) \/ Restart(w)
      PROVE  Settled'
  <2>1. /\ UNCHANGED <<conf, issued, objects, templates, stackUpdate>>
        /\ Started(w) \/ \E p \in pods[w] : Removed(w, p) \/ Restarted(w, p)
    BY <1>6, KubernetesSteps DEF Housed
  <2>2. /\ w \in Workloads(conf)
        /\ pods[w] # {}
        /\ \A p \in pods[w] : p.annotation = templates[w]
    BY <2>1 DEF Settled, Housed, Kinded
  <2>3. PICK p \in pods[w] : Restarted(w, p)
    BY <2>1, <2>2 DEF Started, Removed, Outdated
  <2>4. /\ \A v \in DOMAIN pods : v # w => pods'[v] = pods[v]
        /\ pods'[w] # {}
        /\ \A q \in pods'[w] : q.annotation = templates[w]
    <3>1. pods' = [pods EXCEPT ![w] = (pods[w] \ {p}) \cup {Again(w, p)}]
      BY <2>3 DEF Restarted
    <3>2. pods'[w] = (pods[w] \ {p}) \cup {Again(w, p)}
      BY <3>1
    <3>3. Again(w, p).annotation = templates[w]
      BY <2>2, <2>3 DEF Again
    <3>. QED
      BY <2>2, <3>1, <3>2, <3>3
  <2>5. \A v : Content(conf, v)' = Content(conf, v)
    BY <2>1 DEF Content, XrayConfig, HysteriaConfig, ExitConfig, Table, Stamp
  <2>6. Workloads(conf) = DOMAIN pods
    BY <2>1 DEF Settled, Housed, Kinded
  <2>. QED
    BY <2>1, <2>4, <2>5, <2>6 DEF Settled, Annotation
<1>. QED
  BY <1>2, <1>3, <1>4, <1>5, <1>6 DEF Next, Deploys, Rolls

-----------------------------------------------------------------------------
(* The profiles: what is in them, and that no way down them closes. *)

\* How far down a profile's tags go: no outbound leans on one of its own depth.
Depth(tag) ==
  CASE tag[1] \in {"hy2", "reality", "xhttp"} -> 0
    [] tag[1] \in {"auto", "auto-all"}        -> 1
    [] tag[1] = "node"                        -> 2
    [] tag[1] = "entry-select"                -> 3
    [] tag[1] \in {"exit", "exit-direct"}     -> 4
    [] OTHER                                  -> 5

\* What a leaf is, and which clients get one they must resolve the server of.
LEMMA LeafShape ==
  ASSUME NEW t, NEW u, NEW client, NEW tag \in Leaves(t, u, client)
  PROVE  /\ tag[1] \in {"hy2", "reality", "xhttp"}
         /\ "leaf" \in DOMAIN Leaf(t, u, tag)
         /\ "members" \notin DOMAIN Leaf(t, u, tag)
         /\ "detour" \notin DOMAIN Leaf(t, u, tag)
         /\ "exit" \notin DOMAIN Leaf(t, u, tag)
         /\ "resolver" \in DOMAIN Leaf(t, u, tag) =>
              /\ Leaf(t, u, tag).resolver = "local"
              /\ \E n \in DOMAIN t.nodes : XhttpTags(t, n, client) # {}
         /\ tag[1] = "xhttp" => client = "sbr"
<1>1. PICK n \in DOMAIN t.nodes : tag \in EntryTags(t, u, n, client)
  BY DEF Leaves
<1>2. /\ tag[1] \in {"hy2", "reality", "xhttp"}
      /\ tag[1] = "xhttp" => client = "sbr" /\ XhttpTags(t, n, client) # {}
  BY <1>1 DEF EntryTags, HyTags, RealityTags, XhttpTags
<1>3. CASE tag[1] = "hy2"
  BY <1>3 DEF Leaf
<1>4. CASE tag[1] = "reality"
  BY <1>4 DEF Leaf
<1>5. CASE tag[1] = "xhttp"
  BY <1>2, <1>5 DEF Leaf
<1>. QED
  BY <1>2, <1>3, <1>4, <1>5

IsChoice(o, S) ==
  /\ "members" \in DOMAIN o /\ o.members # {} /\ o.members \subseteq S
  /\ o.default \subseteq o.members
  /\ {"leaf", "exit", "detour", "resolver"} \cap DOMAIN o = {}

LEMMA Choices ==
  ASSUME NEW S, NEW members, members # {}, members \subseteq S
  PROVE  /\ IsChoice(Urltest(members), S)
         /\ \A default \in members : IsChoice(Selector(members, default), S)
BY DEF IsChoice, Urltest, Selector

\* The nodes' groups: each a choice among leaves and groups that lie deeper.
LEMMA GroupShape ==
  ASSUME NEW t, NEW u, NEW client, DOMAIN t.nodes # {},
         \A n \in DOMAIN t.nodes : t.nodes[n].xray.names # {},
         NEW tag \in DOMAIN Groups(t, u, client)
  PROVE  /\ tag[1] \in {"entry-select", "auto", "auto-all", "node"}
         /\ Entry \in DOMAIN Groups(t, u, client)
         /\ IsChoice(Groups(t, u, client)[tag],
                     {g \in Leaves(t, u, client) \cup DOMAIN Groups(t, u, client) :
                       Depth(g) < Depth(tag)})
<1> DEFINE all == Leaves(t, u, client)
           nodes == DOMAIN t.nodes
           tags(n) == EntryTags(t, u, n, client)
           choice == Cardinality(all) > 1
           groups == Groups(t, u, client)
           One(x) ==
             CASE x = AutoOne           -> Urltest(all)
               [] x = Entry /\ choice  -> Selector(all \cup {AutoOne}, AutoOne)
               [] x = Entry /\ ~choice -> Selector(all, CHOOSE y \in all : TRUE)
           Many(x) ==
             CASE x[1] = "auto" -> Urltest(tags(x[2]))
               [] x[1] = "node" -> Selector(tags(x[2]) \cup {<<"auto", x[2]>>}, <<"auto", x[2]>>)
               [] x = AutoAll   -> Urltest(all)
               [] x = Entry     -> Selector(({"node"} \X nodes) \cup {AutoAll}, AutoAll)
           Lower(x) == {g \in all \cup DOMAIN groups : Depth(g) < Depth(x)}
<1>1. \A n \in nodes : tags(n) # {} /\ tags(n) \subseteq all
  <2>1. ASSUME NEW n \in nodes
        PROVE  RealityTags(t, n) # {}
    BY DEF RealityTags
  <2>. QED
    BY <2>1 DEF EntryTags, Leaves
<1>2. all # {}
  BY <1>1
<1>3. \A x \in all : Depth(x) = 0
  BY LeafShape DEF Depth
<1>4. /\ Depth(Entry) = 3 /\ Depth(AutoOne) = 1 /\ Depth(AutoAll) = 1
      /\ \A n : Depth(<<"auto", n>>) = 1 /\ Depth(<<"node", n>>) = 2
  BY DEF Depth, Entry, AutoOne, AutoAll
<1>5. /\ \A x, g : g \in Lower(x) <=> g \in all \cup DOMAIN groups /\ Depth(g) < Depth(x)
      /\ tag \in DOMAIN groups
  OBVIOUS
<1>6. Cardinality(nodes) = 1 =>
        groups = [x \in {Entry} \cup (IF choice THEN {AutoOne} ELSE {}) |-> One(x)]
  BY DEF Groups
<1>7. Cardinality(nodes) # 1 =>
        groups = [x \in ({"auto", "node"} \X nodes) \cup {AutoAll, Entry} |-> Many(x)]
  BY DEF Groups
<1>8. /\ Entry # AutoOne /\ Entry # AutoAll /\ AutoAll # AutoOne
      /\ Entry[1] = "entry-select" /\ AutoOne[1] = "auto" /\ AutoAll[1] = "auto-all"
  BY DEF Entry, AutoOne, AutoAll
<1> SUFFICES /\ tag[1] \in {"entry-select", "auto", "auto-all", "node"}
             /\ Entry \in DOMAIN groups
             /\ IsChoice(groups[tag], Lower(tag))
  OBVIOUS
<1> HIDE DEF groups, all, nodes, Lower, One, Many
<1>9. CASE Cardinality(nodes) = 1
  <2>1. groups = [x \in {Entry} \cup (IF choice THEN {AutoOne} ELSE {}) |-> One(x)]
    BY <1>9, <1>6
  <2>2. Entry # AutoOne /\ Entry[1] = "entry-select" /\ AutoOne[1] = "auto"
    BY <1>8
  <2>3. CASE tag = AutoOne
    <3>1. groups[tag] = Urltest(all)
      BY <1>5, <2>1, <2>2, <2>3 DEF One
    <3>2. all \subseteq Lower(tag)
      BY <1>5, <1>3, <1>4, <2>3
    <3>. QED
      BY <1>5, <1>2, <2>1, <2>2, <2>3, <3>1, <3>2, Choices
  <2>4. CASE tag = Entry /\ choice
    <3>1. groups[tag] = Selector(all \cup {AutoOne}, AutoOne)
      BY <1>5, <2>1, <2>2, <2>4 DEF One
    <3>2. all \cup {AutoOne} \subseteq Lower(tag)
      BY <1>5, <1>3, <1>4, <2>1, <2>4
    <3>3. IsChoice(Selector(all \cup {AutoOne}, AutoOne), Lower(tag))
      BY <3>2, Choices
    <3>. QED
      BY <2>1, <2>2, <2>4, <3>1, <3>3
  <2>5. CASE tag = Entry /\ ~choice
    <3>1. groups[tag] = Selector(all, CHOOSE y \in all : TRUE)
      BY <1>5, <2>1, <2>2, <2>5 DEF One
    <3>2. all \subseteq Lower(tag)
      BY <1>5, <1>3, <1>4, <2>5
    <3>3. (CHOOSE y \in all : TRUE) \in all
      BY <1>2
    <3>4. IsChoice(Selector(all, CHOOSE y \in all : TRUE), Lower(tag))
      BY <1>2, <3>2, <3>3, Choices
    <3>. QED
      BY <2>1, <2>2, <2>5, <3>1, <3>4
  <2>. QED
    BY <1>5, <2>1, <2>3, <2>4, <2>5
<1>10. CASE Cardinality(nodes) # 1
  <2>1. groups = [x \in ({"auto", "node"} \X nodes) \cup {AutoAll, Entry} |-> Many(x)]
    BY <1>10, <1>7
  <2>2. Entry # AutoAll /\ Entry[1] = "entry-select" /\ AutoAll[1] = "auto-all"
    BY <1>8
  <2>3. Entry \in DOMAIN groups /\ AutoAll \in DOMAIN groups
    BY <2>1
  <2>4. ASSUME NEW n \in nodes, tag = <<"auto", n>>
        PROVE  tag[1] = "auto" /\ IsChoice(groups[tag], Lower(tag))
    <3>0. tag[1] = "auto" /\ tag[2] = n /\ tag \in ({"auto", "node"} \X nodes) \cup {AutoAll, Entry}
      BY <2>4
    <3>1. groups[tag] = Many(tag)
      BY <1>5, <2>1
    <3>2. Many(tag) = Urltest(tags(tag[2]))
      BY <2>2, <3>0 DEF Many
    <3>3. Many(tag) = Urltest(tags(n))
      BY <3>0, <3>2, Zenon
    <3>4. tags(n) \subseteq Lower(tag)
      BY <1>5, <1>1, <1>3, <1>4, <2>4
    <3>. QED
      BY <1>1, <3>0, <3>1, <3>3, <3>4, Choices
  <2>5. ASSUME NEW n \in nodes, tag = <<"node", n>>
        PROVE  tag[1] = "node" /\ IsChoice(groups[tag], Lower(tag))
    <3>0. tag[1] = "node" /\ tag[2] = n /\ tag \in ({"auto", "node"} \X nodes) \cup {AutoAll, Entry}
      BY <2>5
    <3>1. groups[tag] = Many(tag)
      BY <1>5, <2>1
    <3>2. Many(tag) = Selector(tags(tag[2]) \cup {<<"auto", tag[2]>>}, <<"auto", tag[2]>>)
      BY <2>2, <3>0 DEF Many
    <3>3. Many(tag) = Selector(tags(n) \cup {<<"auto", n>>}, <<"auto", n>>)
      BY <3>0, <3>2, Zenon
    <3>4. <<"auto", n>> \in DOMAIN groups
      BY <2>1
    <3>5. tags(n) \cup {<<"auto", n>>} \subseteq Lower(tag)
      BY <1>5, <1>1, <1>3, <1>4, <2>5, <3>4
    <3>6. tags(n) \cup {<<"auto", n>>} # {} /\ <<"auto", n>> \in tags(n) \cup {<<"auto", n>>}
      OBVIOUS
    <3>7. IsChoice(Selector(tags(n) \cup {<<"auto", n>>}, <<"auto", n>>), Lower(tag))
      BY <3>5, <3>6, Choices
    <3>. QED
      BY <3>0, <3>1, <3>3, <3>7
  <2>6. CASE tag = AutoAll
    <3>1. groups[tag] = Many(tag)
      BY <1>5, <2>1
    <3>2. Many(tag) = Urltest(all)
      BY <1>5, <2>1, <2>2, <2>6 DEF Many
    <3>3. all \subseteq Lower(tag)
      BY <1>5, <1>3, <1>4, <2>6
    <3>. QED
      BY <1>2, <2>2, <2>3, <2>6, <3>1, <3>2, <3>3, Choices
  <2>7. CASE tag = Entry
    <3>1. groups[tag] = Many(tag)
      BY <1>5, <2>1
    <3>2. Many(tag) = Selector(({"node"} \X nodes) \cup {AutoAll}, AutoAll)
      BY <1>5, <2>1, <2>2, <2>7 DEF Many
    <3>3. \A x \in {"node"} \X nodes : x \in DOMAIN groups /\ Depth(x) = 2
      BY <1>4, <2>1
    <3>4. ({"node"} \X nodes) \cup {AutoAll} \subseteq Lower(tag)
      BY <1>5, <1>4, <2>3, <2>7, <3>3
    <3>5. IsChoice(Selector(({"node"} \X nodes) \cup {AutoAll}, AutoAll), Lower(tag))
      BY <3>4, Choices
    <3>. QED
      BY <2>2, <2>3, <2>7, <3>1, <3>2, <3>5
  <2>8. \/ \E n \in nodes : tag = <<"auto", n>> \/ tag = <<"node", n>>
        \/ tag = AutoAll \/ tag = Entry
    BY <1>5, <2>1
  <2>. QED
    BY <2>3, <2>4, <2>5, <2>6, <2>7, <2>8
<1>. QED
  BY <1>9, <1>10 DEF groups, all, Lower

\* The exits' groups: each is dialled through the entry, or chooses among those that are.
LEMMA ExitShape ==
  ASSUME NEW t, NEW u, NEW tag \in DOMAIN ExitGroups(t, u)
  PROVE  /\ tag[1] \in {"exit", "exit-direct", "exit-select"}
         /\ ExitSelect \in DOMAIN ExitGroups(t, u)
         /\ \/ /\ tag \in {"exit"} \X ExitsOf(t, u)
               /\ ExitGroups(t, u)[tag] =
                    [exit |-> tag[2], port |-> t.exits[tag[2]].port,
                     password |-> t.exits[tag[2]].password, detour |-> Entry]
            \/ IsChoice(ExitGroups(t, u)[tag],
                        {g \in {Entry} \cup DOMAIN ExitGroups(t, u) : Depth(g) < Depth(tag)})
<1> DEFINE exits == {"exit"} \X ExitsOf(t, u)
           groups == ExitGroups(t, u)
           Of(x) ==
             CASE x[1] = "exit"  -> [exit |-> x[2], port |-> t.exits[x[2]].port,
                                     password |-> t.exits[x[2]].password, detour |-> Entry]
               [] x = ExitDirect -> Selector({Entry}, Entry)
               [] x = ExitSelect -> Selector(exits \cup {ExitDirect}, ExitDirect)
           Lower(x) == {g \in {Entry} \cup DOMAIN groups : Depth(g) < Depth(x)}
<1>1. groups = [x \in IF exits = {} THEN {} ELSE exits \cup {ExitDirect, ExitSelect} |-> Of(x)]
  BY DEF ExitGroups
<1>2. /\ ExitDirect # ExitSelect
      /\ ExitDirect[1] = "exit-direct" /\ ExitSelect[1] = "exit-select"
      /\ Depth(Entry) = 3 /\ Depth(ExitDirect) = 4 /\ Depth(ExitSelect) = 5
  BY DEF ExitDirect, ExitSelect, Entry, Depth
<1>3. \A x \in exits : x[1] = "exit" /\ Depth(x) = 4
  BY DEF Depth
<1>4. \A x, g : g \in Lower(x) <=> g \in {Entry} \cup DOMAIN groups /\ Depth(g) < Depth(x)
  OBVIOUS
<1>5. tag \in DOMAIN groups
  OBVIOUS
<1> SUFFICES /\ tag[1] \in {"exit", "exit-direct", "exit-select"}
             /\ ExitSelect \in DOMAIN groups
             /\ \/ /\ tag \in exits
                   /\ groups[tag] = [exit |-> tag[2], port |-> t.exits[tag[2]].port,
                                     password |-> t.exits[tag[2]].password, detour |-> Entry]
                \/ IsChoice(groups[tag], Lower(tag))
  OBVIOUS
<1> HIDE DEF exits, groups, Of, Lower
<1>6. DOMAIN groups = exits \cup {ExitDirect, ExitSelect} /\ groups[tag] = Of(tag)
  BY <1>1, <1>5
<1>7. CASE tag \in exits
  <2>1. Of(tag) = [exit |-> tag[2], port |-> t.exits[tag[2]].port,
                   password |-> t.exits[tag[2]].password, detour |-> Entry]
    BY <1>2, <1>3, <1>7 DEF Of
  <2>. QED
    BY <1>3, <1>6, <1>7, <2>1
<1>8. CASE tag = ExitDirect
  <2>1. Of(tag) = Selector({Entry}, Entry)
    BY <1>2, <1>8 DEF Of
  <2>2. {Entry} \subseteq Lower(tag)
    BY <1>2, <1>4, <1>8
  <2>3. IsChoice(Selector({Entry}, Entry), Lower(tag))
    BY <2>2, Choices
  <2>. QED
    BY <1>2, <1>6, <1>8, <2>1, <2>3
<1>9. CASE tag = ExitSelect
  <2>1. Of(tag) = Selector(exits \cup {ExitDirect}, ExitDirect)
    BY <1>2, <1>9 DEF Of
  <2>2. exits \cup {ExitDirect} \subseteq Lower(tag)
    BY <1>2, <1>3, <1>4, <1>6, <1>9
  <2>3. IsChoice(Selector(exits \cup {ExitDirect}, ExitDirect), Lower(tag))
    BY <2>2, Choices
  <2>. QED
    BY <1>2, <1>6, <1>9, <2>1, <2>3
<1>. QED
  BY <1>5, <1>6, <1>7, <1>8, <1>9

\* An outbound is a leaf, a group of the nodes or one of the exits.
LEMMA OutboundTags ==
  ASSUME NEW t, NEW u, NEW client
  PROVE  DOMAIN Outbounds(t, u, client) =
           Leaves(t, u, client) \cup DOMAIN Groups(t, u, client) \cup DOMAIN ExitGroups(t, u)
BY DEF Outbounds

LEMMA OutboundIs ==
  ASSUME NEW t, NEW u, NEW client, DOMAIN t.nodes # {},
         \A n \in DOMAIN t.nodes : t.nodes[n].xray.names # {},
         NEW tag
  PROVE  /\ tag \in Leaves(t, u, client) => Outbounds(t, u, client)[tag] = Leaf(t, u, tag)
         /\ tag \in DOMAIN Groups(t, u, client) =>
              Outbounds(t, u, client)[tag] = Groups(t, u, client)[tag]
         /\ tag \in DOMAIN ExitGroups(t, u) =>
              Outbounds(t, u, client)[tag] = ExitGroups(t, u)[tag]
<1> DEFINE leaves == Leaves(t, u, client)
           groups == Groups(t, u, client)
           exits == ExitGroups(t, u)
           Of(x) ==
             CASE x \in leaves        -> Leaf(t, u, x)
               [] x \in DOMAIN groups -> groups[x]
               [] x \in DOMAIN exits  -> exits[x]
           outbounds == Outbounds(t, u, client)
<1>1. outbounds = [x \in leaves \cup DOMAIN groups \cup DOMAIN exits |-> Of(x)]
  BY DEF Outbounds
<1>2. /\ tag \in leaves => tag[1] \in {"hy2", "reality", "xhttp"}
      /\ tag \in DOMAIN groups => tag[1] \in {"entry-select", "auto", "auto-all", "node"}
      /\ tag \in DOMAIN exits => tag[1] \in {"exit", "exit-direct", "exit-select"}
  BY LeafShape, GroupShape, ExitShape
<1> SUFFICES /\ tag \in leaves => outbounds[tag] = Leaf(t, u, tag)
             /\ tag \in DOMAIN groups => outbounds[tag] = groups[tag]
             /\ tag \in DOMAIN exits => outbounds[tag] = exits[tag]
  OBVIOUS
<1> HIDE DEF leaves, groups, exits, Of, outbounds
<1>3. \A x \in leaves \cup DOMAIN groups \cup DOMAIN exits : outbounds[x] = Of(x)
  BY <1>1
<1>4. tag \in leaves => Of(tag) = Leaf(t, u, tag)
  BY <1>2 DEF Of
<1>5. tag \in DOMAIN groups => Of(tag) = groups[tag]
  BY <1>2 DEF Of
<1>6. tag \in DOMAIN exits => Of(tag) = exits[tag]
  BY <1>2 DEF Of
<1>. QED
  BY <1>3, <1>4, <1>5, <1>6

\* What an outbound leans on lies deeper than itself, and is there.
LEMMA MentionsDown ==
  ASSUME NEW t, NEW u, NEW client, DOMAIN t.nodes # {},
         \A n \in DOMAIN t.nodes : t.nodes[n].xray.names # {},
         NEW p, p = Profile(t, u, client), NEW tag \in DOMAIN p.outbounds
  PROVE  /\ Mentions(p, tag) \subseteq {g \in DOMAIN p.outbounds : Depth(g) < Depth(tag)}
         /\ "resolver" \in DOMAIN p.outbounds[tag] =>
              p.outbounds[tag].resolver \in DOMAIN p.servers
         /\ "members" \in DOMAIN p.outbounds[tag] =>
              p.outbounds[tag].members # {} /\ p.outbounds[tag].default \subseteq p.outbounds[tag].members
         /\ tag[1] = "xhttp" => client = "sbr"
<1>0. /\ tag \in Leaves(t, u, client) => Outbounds(t, u, client)[tag] = Leaf(t, u, tag)
      /\ tag \in DOMAIN Groups(t, u, client) =>
           Outbounds(t, u, client)[tag] = Groups(t, u, client)[tag]
      /\ tag \in DOMAIN ExitGroups(t, u) => Outbounds(t, u, client)[tag] = ExitGroups(t, u)[tag]
  BY OutboundIs
<1> DEFINE o == p.outbounds[tag]
           leaves == Leaves(t, u, client)
           groups == Groups(t, u, client)
           exits == ExitGroups(t, u)
           Lower == {g \in DOMAIN p.outbounds : Depth(g) < Depth(tag)}
<1>1. /\ p.outbounds = Outbounds(t, u, client)
      /\ p.servers = Servers(t, client)
  BY DEF Profile
<1>2. /\ DOMAIN p.outbounds = leaves \cup DOMAIN groups \cup DOMAIN exits
      /\ tag \in leaves => o = Leaf(t, u, tag)
      /\ tag \in DOMAIN groups => o = groups[tag]
      /\ tag \in DOMAIN exits => o = exits[tag]
  <2>1. DOMAIN p.outbounds = leaves \cup DOMAIN groups \cup DOMAIN exits
    BY <1>1, OutboundTags
  <2>. QED
    BY <1>0, <1>1, <2>1
<1>3. IsChoice(o, Lower) => Mentions(p, tag) \subseteq Lower
  <2>1. "members" \in DOMAIN o /\ "detour" \notin DOMAIN o /\ "resolver" \notin DOMAIN o
          => Mentions(p, tag) = o.members
    BY DEF Mentions
  <2>. QED
    BY <2>1 DEF IsChoice
<1>4. CASE tag \in leaves
  <2>1. o = Leaf(t, u, tag)
    BY <1>2, <1>4
  <2>2. /\ tag[1] = "xhttp" => client = "sbr"
        /\ "members" \notin DOMAIN o /\ "detour" \notin DOMAIN o
        /\ "resolver" \in DOMAIN o =>
             o.resolver = "local" /\ \E n \in DOMAIN t.nodes : XhttpTags(t, n, client) # {}
    BY <1>4, <2>1, LeafShape
  <2>3. CASE "resolver" \in DOMAIN o
    <3>1. "local" \in DOMAIN p.servers /\ p.servers["local"].detour = {}
      BY <1>1, <2>2, <2>3 DEF Servers
    <3>. QED
      BY <2>2, <2>3, <3>1 DEF Mentions
  <2>4. CASE "resolver" \notin DOMAIN o
    BY <2>2, <2>4 DEF Mentions
  <2>. QED
    BY <2>3, <2>4
<1>5. CASE tag \in DOMAIN groups
  <2>1. IsChoice(o, {g \in leaves \cup DOMAIN groups : Depth(g) < Depth(tag)})
    BY <1>2, <1>5, GroupShape
  <2>2. IsChoice(o, Lower)
    BY <1>2, <2>1 DEF IsChoice
  <2>3. tag[1] # "xhttp"
    BY <1>5, GroupShape
  <2>. QED
    BY <1>3, <2>2, <2>3 DEF IsChoice
<1>6. CASE tag \in DOMAIN exits
  <2>0. Entry \in DOMAIN groups
    <3>1. DOMAIN groups # {}
      BY DEF Groups
    <3>. QED
      BY <3>1, GroupShape
  <2>1. tag[1] # "xhttp"
    BY <1>6, ExitShape
  <2>2. CASE tag \in {"exit"} \X ExitsOf(t, u) /\ exits[tag] =
               [exit |-> tag[2], port |-> t.exits[tag[2]].port,
                password |-> t.exits[tag[2]].password, detour |-> Entry]
    <3>1. /\ "members" \notin DOMAIN o /\ "resolver" \notin DOMAIN o
          /\ "detour" \in DOMAIN o /\ o.detour = Entry
      BY <1>2, <1>6, <2>2
    <3>2. Entry \in Lower
      BY <1>2, <2>0, <2>2 DEF Depth, Entry
    <3>3. Mentions(p, tag) = {Entry}
      BY <3>1 DEF Mentions
    <3>. QED
      BY <2>1, <3>1, <3>2, <3>3
  <2>3. CASE IsChoice(exits[tag], {g \in {Entry} \cup DOMAIN exits : Depth(g) < Depth(tag)})
    <3>1. IsChoice(o, Lower)
      BY <1>2, <1>6, <2>0, <2>3 DEF IsChoice
    <3>. QED
      BY <1>3, <2>1, <3>1 DEF IsChoice
  <2>. QED
    BY <1>6, <2>2, <2>3, ExitShape
<1>. QED
  BY <1>2, <1>4, <1>5, <1>6

\* What is below an outbound is in any set that has what it leans on and is closed.
LEMMA BelowIn ==
  ASSUME NEW p, NEW tag, NEW L, Mentions(p, tag) \subseteq L,
         \A g \in L : Mentions(p, g) \subseteq L
  PROVE  Below(p, tag) \subseteq L
<1>1. ASSUME NEW S, S \subseteq L
      PROVE  Onward(p, S) \subseteq L
  BY <1>1 DEF Onward
<1> HIDE DEF Onward
<1>. QED
  BY <1>1 DEF Below

LEMMA RulesAre ==
  /\ DOMAIN Rules = 1..6
  /\ Rules[1].match = Within({"tailnet6"})  /\ Rules[1].action = "entry"
  /\ Rules[2].match = Within(V6) \cap Dns   /\ Rules[2].action = "hijack-dns"
  /\ Rules[3].match = Within(V6)            /\ Rules[3].action = "reject"
  /\ Rules[4].match = Destination           /\ Rules[4].action = "sniff"
  /\ Rules[5].match = Dns                   /\ Rules[5].action = "hijack-dns"
  /\ Rules[6].match = Within({"tailnet4"})  /\ Rules[6].action = "entry"
BY DEF Rules

\* The rule that comes first decides, and one that only sniffs is passed on the way.
LEMMA FirstRule ==
  ASSUME NEW d, NEW i \in 1..6, d \in Rules[i].match, i # 4,
         \A j \in 1..(i - 1) : j = 4 \/ d \notin Rules[j].match
  PROVE  Routed(d) = Rules[i].action
<1> DEFINE hit(k) == d \in Rules[k].match
           first == {k \in DOMAIN Rules : hit(k) /\ Rules[k].action # "sniff"
                       /\ \A j \in 1..(k - 1) : ~hit(j) \/ Rules[j].action = "sniff"}
<1>1. \A k \in 1..6 : Rules[k].action = "sniff" <=> k = 4
  BY RulesAre
<1>2. first = {i}
  <2>1. i \in first
    BY <1>1, RulesAre
  <2>2. ASSUME NEW k \in first
        PROVE  k = i
    <3>1. /\ k \in 1..6 /\ hit(k) /\ k # 4
          /\ \A j \in 1..(k - 1) : ~hit(j) \/ j = 4
      BY <1>1, RulesAre
    <3>2. ~(k < i) /\ ~(i < k)
      BY <3>1
    <3>. QED
      BY <3>1, <3>2
  <2>. QED
    BY <2>1, <2>2
<1>3. ~(Rules[i].action = "reject" /\ \E j \in 1..(i - 1) : Rules[j].action = "sniff")
  <2>1. \A k \in 1..6 : Rules[k].action = "reject" => k = 3
    BY RulesAre
  <2>. QED
    BY <1>1, <2>1
<1>4. (CHOOSE k \in first : TRUE) = i
  BY <1>2
<1>5. Routed(d) = IF first = {} THEN "final"
                  ELSE IF /\ Rules[CHOOSE k \in first : TRUE].action = "reject"
                          /\ \E j \in 1..((CHOOSE k \in first : TRUE) - 1) : Rules[j].action = "sniff"
                       THEN "close" ELSE Rules[CHOOSE k \in first : TRUE].action
  BY DEF Routed
<1> HIDE DEF first
<1>. QED
  BY <1>2, <1>3, <1>4, <1>5

LEMMA NoRule ==
  ASSUME NEW d, \A i \in 1..6 : i = 4 \/ d \notin Rules[i].match
  PROVE  Routed(d) = "final"
<1>1. {k \in DOMAIN Rules : d \in Rules[k].match /\ Rules[k].action # "sniff"
        /\ \A j \in 1..(k - 1) : ~(d \in Rules[j].match) \/ Rules[j].action = "sniff"} = {}
  BY RulesAre
<1>. QED
  BY <1>1 DEF Routed

\* The route's rules do with every destination what they are there for (singbox.ts).
LEMMA RulesRoute == RoutedAsMeant
<1> SUFFICES ASSUME NEW d \in Destination \ Named
             PROVE  Routed(d) =
                      IF d.class = "tailnet6" \/ (d.class = "tailnet4" /\ d.port = "other") THEN "entry"
                      ELSE IF d.port = "dns" THEN "hijack-dns"
                      ELSE IF d.class \in V6 THEN "reject"
                      ELSE "final"
  BY DEF RoutedAsMeant
<1>0. /\ d.class \in V4 \cup V6 /\ d.port \in {"dns", "other"}
      /\ d \in Destination
      /\ \A classes : d \in Within(classes) <=> d.class \in classes
      /\ d \in Dns <=> d.port = "dns"
  BY DEF Destination, Within, Dns
<1>1. CASE d.class = "tailnet6"
  BY <1>0, <1>1, RulesAre, FirstRule
<1>2. CASE d.class \in V6 \ {"tailnet6"} /\ d.port = "dns"
  <2>1. d \in Rules[2].match /\ d \notin Rules[1].match
    BY <1>0, <1>2, RulesAre
  <2>2. Routed(d) = Rules[2].action
    BY <2>1, FirstRule
  <2>. QED
    BY <1>2, <2>2, RulesAre DEF V6
<1>3. CASE d.class \in V6 \ {"tailnet6"} /\ d.port = "other"
  <2>1. d \in Rules[3].match /\ d \notin Rules[1].match /\ d \notin Rules[2].match
    BY <1>0, <1>3, RulesAre
  <2>2. Routed(d) = Rules[3].action
    BY <2>1, FirstRule
  <2>. QED
    BY <1>3, <2>2, RulesAre DEF V6
<1>4. CASE d.class \in V4
  <2>0. d.class \notin V6
    BY <1>4 DEF V4, V6
  <2>1. d \notin Rules[1].match /\ d \notin Rules[2].match /\ d \notin Rules[3].match
    BY <1>0, <2>0, RulesAre DEF V6
  <2>2. CASE d.port = "dns"
    <3>1. Routed(d) = Rules[5].action
      BY <1>0, <2>1, <2>2, RulesAre, FirstRule
    <3>. QED
      BY <2>0, <2>2, <3>1, RulesAre DEF V6
  <2>3. CASE d.port = "other" /\ d.class = "tailnet4"
    <3>1. d \in Rules[6].match /\ d \notin Rules[5].match
      BY <1>0, <2>3, RulesAre
    <3>2. Routed(d) = Rules[6].action
      BY <2>1, <3>1, FirstRule
    <3>. QED
      BY <2>3, <3>2, RulesAre
  <2>4. CASE d.port = "other" /\ d.class # "tailnet4"
    <3>1. \A i \in 1..6 : i = 4 \/ d \notin Rules[i].match
      BY <1>0, <2>1, <2>4, RulesAre
    <3>2. Routed(d) = "final"
      BY <3>1, NoRule
    <3>. QED
      BY <2>0, <2>4, <3>2 DEF V6
  <2>. QED
    BY <1>0, <2>2, <2>3, <2>4
<1>. QED
  BY <1>0, <1>1, <1>2, <1>3, <1>4

-----------------------------------------------------------------------------
(* The theorems. *)

Inv == Counted /\ Housed /\ Granted /\ Provisioned /\ Settled

LEMMA InvAlways == Spec => []Inv
<1>1. Init => Inv
  BY CountedInit, HousedInit, GrantedInit, SettledInit DEF Inv
<1>2. Inv /\ [Next]_vars => Inv'
  BY CountedNext, HousedNext, GrantedNext, ProvisionedNext, SettledNext DEF Inv
<1>. QED
  BY <1>1, <1>2, PTL DEF Spec

\* A workload whose processes have not gone astray runs on what is declared.
LEMMA RunsAsDeclared ==
  ASSUME Inv, stackUpdate = "ok", NEW w \in Workloads(conf), w # "samba", ~Astray(w)
  PROVE  Running(w) = {Content(conf, w)}
<1>1. /\ w \in DOMAIN pods
      /\ pods[w] # {}
      /\ \A p \in pods[w] : p.annotation = Annotation(w, Content(conf, w))
  BY DEF Inv, Settled, Housed, Kinded
<1>2. \A p \in pods[w] : p.run = Content(conf, w)
  BY <1>1 DEF Astray, Held, Annotation
<1>. QED
  BY <1>1, <1>2 DEF Running, Held

\* By address a guest reaches the internet and nothing else, with everything they were
\* ever handed, at no moment of a rollout, and by name no more than `direct` dials; who
\* is off the roster reaches nothing once an update ended well (xray.ts: the profile is
\* not the boundary).
THEOREM Confined == Spec => []GuestsConfined
<1>1. Inv => GuestsConfined
  <2> SUFFICES ASSUME Inv, NEW u \in User \cup {Owner}
               PROVE  /\ u \notin admins => Reached(u) \subseteq Confines
                      /\ stackUpdate = "ok" /\ ~Astray("xray") /\ ~Astray("hysteria") =>
                           /\ u \notin Users(conf) => Reached(u) = {}
                           /\ u \in With(conf, "guest") => Reached(u) \subseteq Confines
    BY DEF GuestsConfined
  <2>1. ASSUME u \notin admins
        PROVE  Reached(u) \subseteq Confines
    <3>1. \A x \in Running("xray") : Grants("xray", x)
      BY DEF Inv, Granted, Running, Held
    <3>2. \A h \in Running("hysteria") : Grants("hysteria", h)
      BY DEF Inv, Granted, Running, Held
    <3>3. \A x \in Running("xray") : u \in DOMAIN x.ids => XrayAllows[(u \in x.guests)] \subseteq Confines
      BY <2>1, <3>1, GuestsAllowed DEF Grants
    <3>4. \A h \in Running("hysteria") : u \notin DOMAIN h.auth
      BY <2>1, <3>2 DEF Grants
    <3>. QED
      BY <3>3, <3>4, ReachedThrough
  <2>2. ASSUME stackUpdate = "ok", ~Astray("xray"), ~Astray("hysteria")
        PROVE  /\ Running("xray") = {XrayConfig(conf)}
               /\ Running("hysteria") = {HysteriaConfig(conf)}
    <3>1. "xray" \in Workloads(conf) /\ "hysteria" \in Workloads(conf)
      BY DEF Workloads
    <3>2. /\ Content(conf, "xray") = XrayConfig(conf)
          /\ Content(conf, "hysteria") = HysteriaConfig(conf)
      BY VpnAssumption DEF Content
    <3>. QED
      BY <2>2, <3>1, <3>2, RunsAsDeclared
  <2>3. /\ DOMAIN XrayConfig(conf).ids = Users(conf)
        /\ XrayConfig(conf).guests = With(conf, "guest")
        /\ DOMAIN HysteriaConfig(conf).auth = With(conf, "admin")
    BY DEF XrayConfig, HysteriaConfig
  <2>4. ASSUME stackUpdate = "ok", ~Astray("xray"), ~Astray("hysteria"), u \notin Users(conf)
        PROVE  Reached(u) = {}
    <3>1. \A x \in Running("xray") : u \notin DOMAIN x.ids
      BY <2>2, <2>3, <2>4
    <3>2. \A h \in Running("hysteria") : u \notin DOMAIN h.auth
      BY <2>2, <2>3, <2>4 DEF With
    <3>3. ASSUME NEW S
          PROVE  Reached(u) \subseteq S
      <4>1. \A x \in Running("xray") : u \in DOMAIN x.ids => XrayAllows[(u \in x.guests)] \subseteq S
        BY <3>1
      <4>. QED
        BY <3>2, <4>1, ReachedThrough
    <3>4. ASSUME NEW d
          PROVE  d \notin Reached(u)
      <4>1. Reached(u) \subseteq Confines \ {d}
        BY <3>3
      <4>. QED
        BY <4>1
    <3>. QED
      BY <3>4
  <2>5. ASSUME stackUpdate = "ok", ~Astray("xray"), ~Astray("hysteria"), u \in With(conf, "guest")
        PROVE  Reached(u) \subseteq Confines
    <3>1. \A x \in Running("xray") : u \in x.guests
      BY <2>2, <2>3, <2>5
    <3>2. \A h \in Running("hysteria") : u \notin DOMAIN h.auth
      BY <2>2, <2>3, <2>5 DEF With
    <3>. QED
      <4>1. \A x \in Running("xray") : u \in DOMAIN x.ids => XrayAllows[(u \in x.guests)] \subseteq Confines
        BY <3>1, GuestsAllowed
      <4>. QED
        BY <3>2, <4>1, ReachedThrough
  <2>. QED
    BY <2>1, <2>4, <2>5
<1>. QED
  BY <1>1, InvAlways, PTL

\* After an update that ended well every process runs on what main declares, and no
\* other workload is left; but for the file server, whose template does not change
\* with its configuration (samba.ts), and what went astray.
DeclaredWhenDone ==
  stackUpdate = "ok" =>
    /\ DOMAIN templates = Workloads(conf)
    /\ \A w \in Workloads(conf) \ {"samba"} :
         ~Astray(w) => Running(w) = {Content(conf, w)}

\* Every update that ends well has delivered what it was to (exit.ts, xray.ts,
\* hysteria.ts, unbound.ts and traefik.ts: the annotation of the content's hash).
THEOREM Delivered == Spec => []DeclaredWhenDone
<1>1. Inv => DeclaredWhenDone
  BY RunsAsDeclared DEF DeclaredWhenDone, Inv, Settled
<1>. QED
  BY <1>1, InvAlways, PTL

-----------------------------------------------------------------------------
(* A profile and what runs: every outbound of the first is something the second answers. *)

\* A leaf is what stands at a leaf's tag, and an exit what stands at an exit's.
LEMMA KindOf ==
  ASSUME NEW t, NEW u, NEW client, DOMAIN t.nodes # {},
         \A n \in DOMAIN t.nodes : t.nodes[n].xray.names # {},
         NEW tag \in DOMAIN Outbounds(t, u, client),
         NEW o, o = Outbounds(t, u, client)[tag]
  PROVE  /\ "leaf" \in DOMAIN o => tag \in Leaves(t, u, client) /\ o = Leaf(t, u, tag)
         /\ "exit" \in DOMAIN o => \E e \in ExitsOf(t, u) :
              o.exit = e /\ o.port = t.exits[e].port /\ o.password = t.exits[e].password
<1>1. CASE tag \in Leaves(t, u, client)
  <2>1. o = Leaf(t, u, tag)
    BY <1>1, OutboundIs
  <2>. QED
    BY <1>1, <2>1, LeafShape
<1>2. CASE tag \in DOMAIN Groups(t, u, client)
  <2>1. o = Groups(t, u, client)[tag]
    BY <1>2, OutboundIs
  <2>2. {"leaf", "exit"} \cap DOMAIN o = {}
    BY <1>2, <2>1, GroupShape DEF IsChoice
  <2>. QED
    BY <2>2
<1>3. CASE tag \in DOMAIN ExitGroups(t, u)
  <2>1. o = ExitGroups(t, u)[tag]
    BY <1>3, OutboundIs
  <2>2. CASE tag \in {"exit"} \X ExitsOf(t, u) /\ o =
               [exit |-> tag[2], port |-> t.exits[tag[2]].port,
                password |-> t.exits[tag[2]].password, detour |-> Entry]
    BY <2>2
  <2>3. CASE {"leaf", "exit"} \cap DOMAIN o = {}
    BY <2>3
  <2>. QED
    BY <1>3, <2>1, <2>2, <2>3, ExitShape DEF IsChoice
<1>. QED
  BY <1>1, <1>2, <1>3, OutboundTags

\* Nobody is kept from the internet, the admins' resolver or an admin's tailnet.
LEMMA Allowed ==
  /\ \A guest \in BOOLEAN : Within({"public4"}) \subseteq XrayAllows[guest]
  /\ Within({"loopback4"}) \cap Dns \subseteq XrayAllows[FALSE]
  /\ Tailnet \subseteq XrayAllows[FALSE]
<1>1. \A d : d \in Within({"public4"}) => d \in Destination /\ d.class = "public4"
  BY DEF Within
<1>2. \A d : d.class = "public4" => d \notin Blocked /\ d \notin PrivateList
  BY DEF Blocked, GuestDeny, PrivateList, Within, Public
<1>3. \A guest \in BOOLEAN : XrayAllows[guest] =
        {d \in Destination : ~(guest /\ d \in Blocked) /\ (d \in FinalRules \/ d \notin PrivateList)}
  BY DEF XrayAllows
<1>4. \A guest \in BOOLEAN : Within({"public4"}) \subseteq XrayAllows[guest]
  BY <1>1, <1>2, <1>3
<1>5. FinalRules \subseteq XrayAllows[FALSE]
  <2>1. FinalRules \subseteq Destination
    BY DEF FinalRules, Within, Tailnet
  <2>. QED
    BY <1>3, <2>1
<1>. QED
  BY <1>4, <1>5 DEF FinalRules

Calm == stackUpdate = "ok" /\ \A w \in DOMAIN pods : ~Astray(w)

\* What runs once an update ended well and nothing is astray.
LEMMA CalmRuns ==
  ASSUME Inv, Calm, "unbound" \in Static
  PROVE  /\ Running("xray") = {XrayConfig(conf)}
         /\ Running("hysteria") = {HysteriaConfig(conf)}
         /\ Running("profiles") = {Table(conf)}
         /\ Running("unbound") # {}
         /\ \A e \in Exits(conf) : Running(e) = {ExitConfig(conf, e)}
         /\ conf.cdn # "off" => "cdn" \in DOMAIN objects /\ objects["cdn"] = Stamp(<<"path">>)
<1>1. ASSUME NEW w \in Workloads(conf), w # "samba"
      PROVE  Running(w) = {Content(conf, w)}
  <2>1. w \in DOMAIN pods
    BY DEF Inv, Settled, Housed, Kinded, Calm
  <2>. QED
    BY <1>1, <2>1, RunsAsDeclared DEF Calm
<1>2. /\ {"xray", "hysteria", "profiles", "unbound"} \subseteq Workloads(conf)
      /\ Exits(conf) \subseteq Workloads(conf)
  BY DEF Workloads
<1>3. /\ Content(conf, "xray") = XrayConfig(conf)
      /\ Content(conf, "hysteria") = HysteriaConfig(conf)
      /\ Content(conf, "profiles") = Table(conf)
      /\ Content(conf, "cdn") = Stamp(<<"path">>)
  BY VpnAssumption DEF Content
<1>4. ASSUME NEW e \in Exits(conf)
      PROVE  Running(e) = {ExitConfig(conf, e)}
  <2>1. e \in Exit /\ e # "samba"
    BY VpnAssumption DEF Exits
  <2>2. Content(conf, e) = ExitConfig(conf, e)
    BY <2>1, VpnAssumption DEF Content
  <2>. QED
    BY <1>1, <1>2, <2>1, <2>2
<1>5. ASSUME conf.cdn # "off"
      PROVE  "cdn" \in DOMAIN objects /\ objects["cdn"] = Stamp(<<"path">>)
  BY <1>3, <1>5 DEF Inv, Settled, Calm, Routes
<1>6. /\ Running("xray") = {Content(conf, "xray")}
      /\ Running("hysteria") = {Content(conf, "hysteria")}
      /\ Running("profiles") = {Content(conf, "profiles")}
      /\ Running("unbound") # {}
  BY <1>1, <1>2
<1>. QED
  BY <1>3, <1>4, <1>5, <1>6

\* The parameters a profile is made of are those its node runs on: whoever dials a leaf
\* gets what Xray allows them at the least.
LEMMA LeafReaches ==
  ASSUME Inv, Calm, "unbound" \in Static, NEW u \in Users(conf),
         NEW client, NEW tag \in Leaves(Table(conf), u, client)
  PROVE  XrayAllows[(u \in With(conf, "guest"))] \subseteq Reach(u, Leaf(Table(conf), u, tag))
<1> DEFINE t == Table(conf)
           x == XrayConfig(conf)
           h == HysteriaConfig(conf)
           leaf == Leaf(t, u, tag)
           allowed == XrayAllows[(u \in With(conf, "guest"))]
<1>1. /\ DOMAIN t.nodes = {Gateway}
      /\ t.nodes[Gateway].xray = x
      /\ t.nodes[Gateway].hysteria = h
      /\ t.roles = Roster(conf)
  BY DEF Table
<1>2. tag \in EntryTags(t, u, Gateway, client)
  BY <1>1 DEF Leaves
<1>3. /\ x.ids = [v \in Users(conf) |-> Stamp(<<"id", v>>)]
      /\ x.guests = With(conf, "guest")
      /\ x.names = {"own", "borrowed"}
      /\ x.path # 0 => conf.cdn # "off" /\ x.path = Stamp(<<"path">>)
  BY DEF XrayConfig
<1>4. /\ Running("xray") = {x}
      /\ Running("hysteria") = {h}
      /\ conf.cdn # "off" => "cdn" \in DOMAIN objects /\ objects["cdn"] = Stamp(<<"path">>)
  BY CalmRuns
<1>5. leaf.id = x.ids[u] => ThroughXray(x, u, leaf) = allowed
  BY <1>3 DEF ThroughXray
<1>6. CASE tag \in RealityTags(t, Gateway)
  <2>1. /\ tag[1] = "reality" /\ tag[2] = Gateway /\ tag[3] \in x.names
    BY <1>1, <1>6 DEF RealityTags
  <2>2. leaf = [leaf |-> "reality", node |-> Gateway, name |-> tag[3], id |-> x.ids[u], key |-> x.key]
    BY <1>1, <2>1 DEF Leaf
  <2>3. {y \in Running("xray") : y.key = leaf.key /\ leaf.name \in y.names} = {x}
    BY <1>4, <2>1, <2>2
  <2>4. Reach(u, leaf) = UNION {ThroughXray(y, u, leaf) : y \in {x}}
    BY <2>2, <2>3 DEF Reach
  <2>. QED
    BY <1>5, <2>2, <2>4
<1>7. CASE tag \in XhttpTags(t, Gateway, client)
  <2>1. tag[1] = "xhttp" /\ tag[2] = Gateway /\ x.path # 0
    BY <1>1, <1>7 DEF XhttpTags
  <2>2. leaf = [leaf |-> "xhttp", node |-> Gateway, path |-> x.path, id |-> x.ids[u], resolver |-> "local"]
    BY <1>1, <2>1 DEF Leaf
  <2>3. {y \in Running("xray") : y.path = leaf.path /\ "cdn" \in DOMAIN objects
                                   /\ objects["cdn"] = leaf.path} = {x}
    BY <1>3, <1>4, <2>1, <2>2
  <2>4. Reach(u, leaf) = UNION {ThroughXray(y, u, leaf) : y \in {x}}
    BY <2>2, <2>3 DEF Reach
  <2>. QED
    BY <1>5, <2>2, <2>4
<1>8. CASE IsAdmin(t, u) /\ tag \in HyTags(t, Gateway)
  <2>1. tag[1] = "hy2" /\ tag[2] = Gateway /\ tag[3] \in h.ports
    BY <1>1, <1>8 DEF HyTags
  <2>2. leaf = [leaf |-> "hy2", node |-> Gateway, port |-> tag[3], user |-> u,
                password |-> h.auth[u], obfs |-> h.obfs, cert |-> h.cert]
    BY <1>1, <2>1 DEF Leaf
  <2>3. u \in DOMAIN h.auth
    BY <1>1, <1>8 DEF IsAdmin, With, HysteriaConfig
  <2>4. Reach(u, leaf) = Destination
    BY <1>4, <2>1, <2>2, <2>3 DEF Reach
  <2>5. allowed \subseteq Destination
    BY DEF XrayAllows
  <2>. QED
    BY <2>4, <2>5
<1>. QED
  BY <1>2, <1>6, <1>7, <1>8 DEF EntryTags

LEMMA WaysInWork ==
  ASSUME Inv, Calm, "unbound" \in Static, NEW u \in Users(conf),
         NEW client, NEW tag \in Leaves(Table(conf), u, client)
  PROVE  WorksThrough(u, Profile(Table(conf), u, client), Leaf(Table(conf), u, tag))
<1> DEFINE t == Table(conf)
           p == Profile(t, u, client)
           reached == Reach(u, Leaf(t, u, tag))
           admin == Roster(conf)[u] = "admin"
           resolver == p.servers[p.resolver]
<1>1. PICK guest \in BOOLEAN : (guest => ~admin) /\ XrayAllows[guest] \subseteq reached
  <2>1. XrayAllows[(u \in With(conf, "guest"))] \subseteq reached
    BY LeafReaches
  <2>2. (u \in With(conf, "guest")) \in BOOLEAN /\ (u \in With(conf, "guest") => ~admin)
    BY DEF With
  <2>. QED
    BY <2>1, <2>2
<1>2. Within({"public4"}) \subseteq reached
  <2>1. Within({"public4"}) \subseteq XrayAllows[guest]
    BY Allowed
  <2>. QED
    BY <1>1, <2>1
<1>3. admin => Tailnet \subseteq reached /\ Within({"loopback4"}) \cap Dns \subseteq reached
  <2>1. ASSUME admin
        PROVE  XrayAllows[FALSE] \subseteq reached
    BY <1>1, <2>1
  <2>. QED
    BY <2>1, Allowed
<1>4. /\ p.servers = Servers(t, client)
      /\ p.resolver = IF admin THEN "gw-cache" ELSE "cf-doh"
  BY DEF Profile, IsAdmin, Table
<1>5. resolver.at = IF admin THEN Address("loopback4", "dns") ELSE Address("public4", "other")
  BY <1>4 DEF Servers
<1>6. /\ Address("loopback4", "dns") \in Within({"loopback4"}) \cap Dns
      /\ Address("public4", "other") \in Within({"public4"})
  BY DEF Within, Dns, Destination, V4, V6, Address
<1>7. resolver.at \in reached
  BY <1>2, <1>3, <1>5, <1>6
<1>8. Answered(resolver)
  BY CalmRuns DEF Answered
<1>. QED
  BY <1>2, <1>3, <1>7, <1>8 DEF WorksThrough

\* No tag is made twice: what is joined tells the outbounds apart.
LEMMA TagsDiffer ==
  ASSUME NEW t, NEW u, NEW client, DOMAIN t.nodes # {},
         \A n \in DOMAIN t.nodes : t.nodes[n].xray.names # {},
         "all" \notin DOMAIN t.nodes, DOMAIN t.exits \cap {"direct", "select"} = {},
         NEW x \in DOMAIN Outbounds(t, u, client), NEW y \in DOMAIN Outbounds(t, u, client),
         Joined(x) = Joined(y)
  PROVE  x = y
<1> DEFINE nodes == DOMAIN t.nodes
           exits == DOMAIN t.exits
           One(g) ==
             \/ g = Entry
             \/ g = AutoOne /\ Cardinality(nodes) = 1
             \/ g = AutoAll
             \/ \E n \in nodes : g = <<"auto", n>>
             \/ \E n \in nodes : g = <<"node", n>> /\ Cardinality(nodes) # 1
             \/ g \in {ExitDirect, ExitSelect}
             \/ \E e \in exits : g = <<"exit", e>>
             \/ \E n \in nodes : \E port : g = <<"hy2", n, port>>
             \/ \E n \in nodes : \E name : g = <<"reality", n, name>>
             \/ \E n \in nodes : g = <<"xhttp", n>>
<1>1. ASSUME NEW g \in DOMAIN Outbounds(t, u, client)
      PROVE  One(g)
  <2>1. CASE g \in Leaves(t, u, client)
    BY <2>1 DEF Leaves, EntryTags, HyTags, RealityTags, XhttpTags
  <2>2. CASE g \in DOMAIN Groups(t, u, client)
    <3>1. CASE Cardinality(nodes) = 1
      <4>1. DOMAIN Groups(t, u, client) \subseteq {Entry, AutoOne}
        BY <3>1 DEF Groups
      <4>. QED
        BY <2>2, <3>1, <4>1
    <3>2. CASE Cardinality(nodes) # 1
      <4>1. DOMAIN Groups(t, u, client) = ({"auto", "node"} \X nodes) \cup {AutoAll, Entry}
        BY <3>2 DEF Groups
      <4>. QED
        BY <2>2, <3>2, <4>1
    <3>. QED
      BY <3>1, <3>2
  <2>3. CASE g \in DOMAIN ExitGroups(t, u)
    <3>1. DOMAIN ExitGroups(t, u) \subseteq ({"exit"} \X ExitsOf(t, u)) \cup {ExitDirect, ExitSelect}
      BY DEF ExitGroups
    <3>2. ExitsOf(t, u) \subseteq exits
      BY DEF ExitsOf
    <3>. QED
      BY <2>3, <3>1, <3>2
  <2>. QED
    BY <2>1, <2>2, <2>3, OutboundTags
<1>2. /\ Joined(Entry) = <<"entry", "select">>
      /\ Joined(AutoOne) = <<"auto">>
      /\ Joined(AutoAll) = <<"auto", "all">>
      /\ Joined(ExitDirect) = <<"exit", "direct">>
      /\ Joined(ExitSelect) = <<"exit", "select">>
      /\ \A n : /\ Joined(<<"auto", n>>) = <<"auto", n>>
               /\ Joined(<<"node", n>>) = <<n>>
               /\ Joined(<<"exit", n>>) = <<"exit", n>>
               /\ Joined(<<"xhttp", n>>) = <<"xhttp", n>>
      /\ \A n, z : /\ Joined(<<"hy2", n, z>>) = <<"hy2", n, z>>
                  /\ Joined(<<"reality", n, z>>) = <<"reality", n, z>>
  BY DEF Joined, Entry, AutoOne, AutoAll, ExitDirect, ExitSelect
<1> HIDE DEF nodes, exits
<1>3. "all" \notin nodes /\ "direct" \notin exits /\ "select" \notin exits
  BY DEF nodes, exits
<1>4. One(x) /\ One(y)
  BY <1>1
<1>. QED
  BY <1>2, <1>3, <1>4

\* Every document is one its client accepts, whatever the nodes beside the gateway and
\* the exits are: each way in stands under the groups of its node, each exit is dialled
\* through the entry, and no chain of them closes (singbox.ts: any entry composes with
\* any exit; a second document only where sbr has more to dial); as long as no node and
\* no exit is named so that its tag is one there is.
THEOREM Composes ==
  ASSUME NEW t, NEW u, NEW client \in {"sing-box", "sbr"}, DOMAIN t.nodes # {},
         \A n \in DOMAIN t.nodes : t.nodes[n].xray.names # {},
         "all" \notin DOMAIN t.nodes, DOMAIN t.exits \cap {"direct", "select"} = {}
  PROVE  WellFormed(Profile(t, u, client), client)
<1> DEFINE p == Profile(t, u, client)
           Lower(tag) == {g \in DOMAIN p.outbounds : Depth(g) < Depth(tag)}
<1>0. DOMAIN Outbounds(t, u, client) =
        Leaves(t, u, client) \cup DOMAIN Groups(t, u, client) \cup DOMAIN ExitGroups(t, u)
  BY OutboundTags
<1>1. /\ p.outbounds = Outbounds(t, u, client)
      /\ p.servers = Servers(t, client)
      /\ p.resolver = IF IsAdmin(t, u) THEN "gw-cache" ELSE "cf-doh"
      /\ p.final = IF ExitsOf(t, u) = {} THEN Entry ELSE ExitSelect
  BY DEF Profile
<1>2. \A tag \in DOMAIN p.outbounds :
        /\ Mentions(p, tag) \subseteq Lower(tag)
        /\ "resolver" \in DOMAIN p.outbounds[tag] =>
             p.outbounds[tag].resolver \in DOMAIN p.servers
        /\ "members" \in DOMAIN p.outbounds[tag] =>
             p.outbounds[tag].members # {} /\ p.outbounds[tag].default \subseteq p.outbounds[tag].members
        /\ tag[1] = "xhttp" => client = "sbr"
  BY MentionsDown
<1>3. Entry \in DOMAIN p.outbounds
  <2>1. DOMAIN Groups(t, u, client) # {}
    BY DEF Groups
  <2>2. Entry \in DOMAIN Groups(t, u, client)
    BY <2>1, GroupShape
  <2>. QED
    BY <1>0, <1>1, <2>2
<1>4. p.final \in DOMAIN p.outbounds
  <2>1. CASE ExitsOf(t, u) = {}
    BY <1>1, <1>3, <2>1
  <2>2. CASE ExitsOf(t, u) # {}
    <3>1. DOMAIN ExitGroups(t, u) # {}
      <4>1. {"exit"} \X ExitsOf(t, u) # {}
        <5>1. PICK e : e \in ExitsOf(t, u)
          BY <2>2
        <5>2. <<"exit", e>> \in {"exit"} \X ExitsOf(t, u)
          BY <5>1
        <5>. QED
          BY <5>2
      <4>2. DOMAIN ExitGroups(t, u) = {"exit"} \X ExitsOf(t, u) \cup {ExitDirect, ExitSelect}
        BY <4>1 DEF ExitGroups
      <4>. QED
        BY <4>2
    <3>2. ExitSelect \in DOMAIN ExitGroups(t, u)
      BY <3>1, ExitShape
    <3>. QED
      BY <1>0, <1>1, <2>2, <3>2
  <2>. QED
    BY <2>1, <2>2
<1>5. p.resolver \in DOMAIN p.servers
  BY <1>1 DEF Servers
<1>6. \A s \in DOMAIN p.servers : p.servers[s].detour \subseteq {Entry}
  BY <1>1 DEF Servers
<1>7. ASSUME NEW tag \in DOMAIN p.outbounds
      PROVE  tag \notin Below(p, tag)
  <2>1. \A g : Depth(g) \in 0..5
    BY DEF Depth
  <2>2. \A g \in Lower(tag) : Mentions(p, g) \subseteq Lower(tag)
    <3>. SUFFICES ASSUME NEW g \in Lower(tag), NEW h \in Mentions(p, g)
                  PROVE  h \in Lower(tag)
      OBVIOUS
    <3>1. h \in DOMAIN p.outbounds /\ Depth(h) < Depth(g) /\ Depth(g) < Depth(tag)
      BY <1>2
    <3>. QED
      BY <2>1, <3>1
  <2>3. Below(p, tag) \subseteq Lower(tag)
    BY <1>2, <2>2, BelowIn
  <2>. QED
    BY <2>1, <2>3
<1> HIDE DEF p
<1>8. \A tag \in DOMAIN p.outbounds : client = "sing-box" => tag[1] # "xhttp"
  BY <1>2
<1>9. \A x, y \in DOMAIN p.outbounds : Joined(x) = Joined(y) => x = y
  BY <1>1, TagsDiffer
<1>. QED
  BY <1>2, <1>3, <1>4, <1>5, <1>6, <1>7, <1>8, <1>9 DEF WellFormed, p

\* After an update that ended well, and left no process astray, every profile that is
\* served works for its user, where the gateway has its resolver (infra/src/main.ts
\* makes one whatever the stack says): every way in leads to a process that accepts it
\* and on to the resolver, every exit answers, and the document is one its client
\* accepts (singbox.ts: any entry composes with any exit).
THEOREM Offered == "unbound" \in Static => (Spec => []OfferedWorks)
<1>1. ASSUME "unbound" \in Static, Inv
      PROVE  OfferedWorks
  <2> SUFFICES ASSUME Calm
               PROVE  /\ RoutedAsMeant
                      /\ \A t \in Running("profiles") : DOMAIN t.roles = Users(conf)
                      /\ \A u \in Users(conf),
                           client \in UNION {Clients(t) : t \in Running("profiles")} :
                           Works(u, client)
    BY DEF OfferedWorks, Calm
  <2>1. Running("profiles") = {Table(conf)}
    BY <1>1, CalmRuns
  <2>2. \A t \in Running("profiles") : DOMAIN t.roles = Users(conf)
    BY <2>1 DEF Table, Users
  <2>3. ASSUME NEW u \in Users(conf),
               NEW client \in UNION {Clients(t) : t \in Running("profiles")}
        PROVE  Works(u, client)
    <3> DEFINE t == Table(conf)
               p == Profile(t, u, client)
    <3>1. client \in {"sing-box", "sbr"}
      BY DEF Clients
    <3>2. /\ DOMAIN t.nodes # {}
          /\ \A n \in DOMAIN t.nodes : t.nodes[n].xray.names # {}
      BY DEF Table, XrayConfig
    <3>3. WellFormed(p, client)
      <4>1. "all" \notin DOMAIN t.nodes /\ DOMAIN t.exits \cap {"direct", "select"} = {}
        BY VpnAssumption DEF Table, Exits, Gateway
      <4>. QED
        BY <3>1, <3>2, <4>1, Composes
    <3>4. p.outbounds = Outbounds(t, u, client)
      BY DEF Profile
    <3>5. ASSUME NEW tag \in DOMAIN p.outbounds, "leaf" \in DOMAIN p.outbounds[tag]
          PROVE  WorksThrough(u, p, p.outbounds[tag])
      <4>1. tag \in Leaves(t, u, client) /\ p.outbounds[tag] = Leaf(t, u, tag)
        <5>1. PICK o : o = Outbounds(t, u, client)[tag]
          OBVIOUS
        <5>2. tag \in DOMAIN Outbounds(t, u, client) /\ "leaf" \in DOMAIN o
          BY <3>4, <3>5, <5>1
        <5>3. tag \in Leaves(t, u, client)
          BY <3>2, <5>1, <5>2, KindOf
        <5>4. Outbounds(t, u, client)[tag] = Leaf(t, u, tag)
          BY <3>2, <5>3, OutboundIs
        <5>. QED
          BY <3>4, <5>3, <5>4
      <4>. QED
        BY <1>1, <4>1, WaysInWork
    <3>6. ASSUME NEW tag \in DOMAIN p.outbounds, "exit" \in DOMAIN p.outbounds[tag]
          PROVE  ExitAnswers(p.outbounds[tag])
      <4> DEFINE o == p.outbounds[tag]
      <4>1. PICK e \in ExitsOf(t, u) :
              o.exit = e /\ o.port = t.exits[e].port /\ o.password = t.exits[e].password
        BY <3>2, <3>4, <3>6, KindOf
      <4>2. e \in Exits(conf) /\ t.exits[e] = ExitConfig(conf, e)
        BY DEF ExitsOf, Table
      <4>3. Running(e) = {ExitConfig(conf, e)}
        BY <1>1, <4>2, CalmRuns
      <4>. QED
        BY <4>1, <4>2, <4>3 DEF ExitAnswers
    <3> HIDE DEF p, t
    <3>. QED
      BY <2>1, <3>3, <3>5, <3>6 DEF Works, p, t
  <2>. QED
    BY <2>2, <2>3, RulesRoute
<1>2. ASSUME "unbound" \in Static
      PROVE  Spec => []OfferedWorks
  BY <1>1, <1>2, InvAlways, PTL
<1>. QED
  BY <1>2
=============================================================================
