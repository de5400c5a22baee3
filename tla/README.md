# Verification of jaritanet

jaritanet is a Pulumi monorepo for one small cluster: a Hetzner VPS that is the
gateway, a node at home behind it, the services that run on them, and the
pipeline that deploys it all. Most of it is declarative. What is specified here
is the part with a behaviour of its own: programs, workflows and scripts that
act on shared state in an order that matters.

- [The system](#the-system): its components, their state, and what is hard
- [The modules](#the-modules): what models what, and what is left out
- [The runs](#the-runs): what TLC checks, and the bounds
- [The proofs](#the-proofs): what TLAPS proves, and how
- [Plan](#plan): what is not specified yet, in order

`PROJECT.json` lists the components, runs, mutants and hazards, and maps every
definition to the source lines it stands for.

## The system

### Login provider (`apps/auth`)

Ory Hydra issues the tokens; this service answers Hydra's two questions, who is
this person and what may the client have. It signs people in through GitHub and
lets in those on `GH_ALLOWED`.

- *State.* Its own: a login flow per trip to GitHub, in Redis, with ten minutes
  to live (`store.rs`); the flow cookie in the browser (`cookie.rs`); and its
  configuration, read once at boot (`config.rs`). Hydra's: the login and
  consent requests behind each challenge, the sessions it remembers for thirty
  days, and the consents with their tokens.
- *Operations.* `GET /login` confirms a remembered session, revokes and rejects
  a removed person, or creates a flow and redirects to GitHub. `GET /callback`
  takes the flow, compares states, exchanges the code and accepts or rejects the
  login. `GET /consent` grants a first-party client, shows the screen to any
  other, or revokes. `POST /consent` is the decision.
- *Interactions.* Each handler makes up to four calls, to Redis, GitHub and
  Hydra's admin API; each call may fail, and other requests run between any two.
- *Hard.* Tabs share one cookie; callbacks are replayed; a rollout changes the
  allowlist under requests in progress and screens already shown; a revocation
  is two calls of which either may fail.
- *Correct when* one flow is acted on once, a callback answers only its own
  challenge, nobody is let in whom no list in force names, no token lacks an
  address, and a flow that was taken ends in an answer at Hydra.

Two more parts of the same program: **client registration** (`register.rs`), a
stateless filter between a client and Hydra, and the **first-party registry**
(`ensure_first_party`), which at boot creates or updates the deployment's own
clients in Hydra; two replicas do it at once.

### CI/CD workflow (`.github/workflows/ci-cd.yml`)

- *State.* main's history; the runs, their jobs and attempts; the images pushed
  under `sha-<commit>` and what the tags `main`, `latest` and `<version>` name;
  the releases; the live stack.
- *Operations.* `changes` finds the newest push run that passed and asks what
  differs from its commit; `image` builds; `checks` gathers CI; `deploy` runs
  `pulumi up`; `promote` moves the tags; `release` cuts the release the updater
  reads.
- *Interactions.* Pushes share a concurrency group, a manual run has its own;
  `deploy` and `promote` have one group each for all runs. A superseded run
  never runs, and what it would have done is left to the next.
- *Hard.* Runs overtake each other, are superseded, fail in the middle, and are
  re-run later; the base of a diff is whatever passed last; main may be
  force-pushed between two steps of a run.
- *Correct when* nothing is lost by superseding or failing, nothing goes
  backwards, and a release names an image that exists.

The **change filter** (`shared_inputs.py`) decides from the lockfile's graph
which parts a diff touches.

### Version updater (`scripts/update-apps`)

- *State.* A clone of main and its commits, which end with the run; the text of
  each file it has read; what it has to report. Outside: the releases, the
  registries, main.
- *Operations.* Pull; for each tracked program read its newest release, confirm
  its image or chart, rewrite the pin and commit; rebase and push, up to three
  times; report in an issue.
- *Hard.* Main moves under the run; a release precedes its image; one repository
  releases several programs, in any order; a registry may be one
  nobody asks; two pins share a file that is read once; a rebase that stops stays in progress; any call may fail.
- *Correct when* what is pinned can be pulled or installed, a push does what is reported and
  nothing else, and every pin gets to its newest release in the end.

### A deploy (`packages/hetzner`, `packages/infra`, the scripts of `packages/vpn`)

`pulumi up` runs commands on the boxes over SSH, calls Hetzner's and Tailscale's
APIs, and writes to the cluster.

- *State.* What each box holds; the tailnet's devices; the cluster; what Pulumi
  recorded of each resource.
- *Operations.* Make and replace a box, install and configure what runs on it,
  join the tailnet and take its name from the devices of boxes that are gone, read
  the cluster's credentials, and put everything in the cluster through them.
- *Hard.* A command does its work and fails after it; a rebuild makes every
  command stale at once, and none may be missed; a replacement's create comes
  before the old one's delete, unless told otherwise; the name is taken in several
  calls; the credentials decide whether everything in the cluster is replaced.
- *Correct when* a deploy that ends well leaves the box as main says, and one that
  does not leaves nothing that works only by half.

### The nodes (`packages/hetzner`)

- *State.* Each node's k3s; Cilium's release; two Plans and the upgrade
  controller's jobs; each node's tailnet preferences and routing rules.
- *Operations.* The gateway's k3s is installed by Pulumi, the others' by the Plans;
  a loop on each node asserts the routes of its pods, another the rules; the
  policy that approves the routes is put before the loops.
- *Hard.* A first deploy that is cut; a new version while a Plan is under way; a node that is off, or installed
  again from an old seed; `tailscale up --reset` and reboots beside the loops.
- *Correct when* no agent is ahead of the server, no route is advertised that nothing
  approves, versions pair in the end, and pods reach each other in the end.

### The VPN (`packages/vpn`)

- *State.* The roster, the credentials that Pulumi issues, and the ConfigMaps and
  Secrets made of them; the pods of xray, hysteria, unbound, the exits and the
  server of profiles, on the ports of the nodes; the profiles people hold.
- *Operations.* An edit of the stack, issue, write, roll, delete.
- *Hard.* A pod keeps what it started with; ports of the host are exclusive; an
  edit concerns several workloads at once, which roll in any order; profiles
  outlive the roster they were made from; rules are tried in order.
- *Correct when* no guest reaches more than the internet, what is served works, and
  every process gets to what is declared.

### What is published (`packages/infra/src/services.ts`, `packages/ingress`, `packages/dns`)

A function of the configuration: the services, their routes and records, the
clients the login provider is told of, and who may call whom. Hard: two services
share a host; what one service needs another has only if it is configured.

**Media storage** (`packages/home`) snapshots, scrubs and shares the home node's
disk; **metrics**, **sites** and **mail** state resources, and what keeps them is
somebody else's code.

## The modules

| Module | Of | What it is |
|---|---|---|
| `LoginGate` | `apps/auth` | what the provider promises a relying party: the abstract specification |
| `Login` | `apps/auth/src`, the rollout of `auth.ts` | every handler, call by call |
| `MCLogin` | | the small instances of `Login` |
| `LoginProofs`, `LoginGateProofs` | | theorems about `Login` |
| `Pipeline` | `ci-cd.yml` | runs, jobs, groups, tags and releases for one container |
| `PipelineProofs`, `DeliveryProofs` | | theorems about `Pipeline` |
| `Versions` | `versions.ts` | how tags are ordered, and what is done about a pin |
| `Updater` | `update-apps.ts` | runs of the updater against a moving main |
| `UpdaterProofs` | | theorems about `Updater` |
| `Deploy` | `vps.ts`, `gateway.ts`, `edge.ts`, `k3s.ts`, the `-systemd.ts` files, `claim-tailnet-name.ts` | the commands of one box as a table, and Pulumi over it |
| `DeployProofs` | | theorems about `Deploy` |
| `Nodes` | `k3s.ts`, `cilium.ts`, `compat.ts`, `upgrades.ts`, `tailnet-*.ts` | the versions of the fleet, and its pod network |
| `NodesProofs` | | theorems about `Nodes` |
| `Profiles` | `singbox.ts`, the rules of `xray.ts` | a user's profile, and what Xray lets them reach |
| `Vpn` | the rest of `packages/vpn`, `samba.ts`, `main.ts` | the credentials, workloads and rollouts of the gateway |
| `VpnProofs` | | theorems about `Vpn` |
| `Services` | `services.ts`, `main.ts`, `ingress.ts`, `dns.ts`, `service.ts` | what one run of the program publishes |
| `MCUpdater`, `MCDeploy`, `MCNodes`, `MCVpn`, `MCServices` | | the small instances |

`Login`, `Pipeline`, `Updater`, `Deploy`, `Nodes` and `Vpn` are state machines.
`Versions`, `Profiles` and `Services` are pure, as their sources are; `Updater`
and `Vpn` are built on the first two. Four of the machines meet at main: the
pipeline decides which commit is deployed, and `Deploy`, `Nodes` and `Vpn` start
where it calls `pulumi up` on one. They are checked apart, since each takes the
others' part only as "a deploy of some commit, which may fail, and is repeated".

### Login

A request in progress is a *worker*: the handler it is in, the call it makes
next, the version of the process it is on, and what it has learned so far. Each
action of `Proceed` is one call, with everything the handler does until the next:

| Handler | Actions, in order |
|---|---|
| `login` | `GetLogin`; then `AcceptLogin`, or `RevokeConsents`, `RevokeLogins`, `RejectLogin`, or `CreateFlow` |
| `github_callback` | `TakeFlow`; then `RejectLogin`, or `ExchangeCode` and `AcceptLogin` or `RejectLogin` |
| `consent` | `GetConsent`, which shows the screen; or `AcceptConsent`; or the two revocations and `RejectConsent` |
| `consent_decision` | `GetDecision` and `AcceptConsent`, or `RejectConsent` |

`Refused` is Hydra's error for a challenge that is not open any more. `CallFails`
is any other error before a call took effect; `Lost` is an answer that does not
reach the browser after it did. A revocation that fails does not stop the
rejection (`RevokeFails`). A call whose effect is a deletion in Redis and whose
answer is lost is `FlowExpires` followed by `TakeFlow`. `MaxFaults` counts all of
these, expiries of flows and sessions included.

What is assumed of what is not in this repository, from how the code uses it:

- *Hydra.* A challenge answers to one acceptance or rejection (`routes.rs` says
  so at the consent screen). A skipped login is accepted only for the remembered
  subject (`hydra.rs`, `revoke_subject`). A login accepted without skip is
  remembered when the browser returns to Hydra. A session accepted before the
  address became a claim carries none: initial sessions are none or such a one.
- *Redis.* `GETDEL` is one step. A flow's id and its csrf are drawn together, so
  one number stands for both.
- *The browser.* A trip to GitHub or a screen can be used any number of times, in
  any order, with the cookie the jar then holds. A callback with no cookie is
  the expired page, which changes nothing and is left out.
- *The rollout.* A new process serves beside the old one, which goes once its
  requests have ended; requests killed with it are `CallFails`. All processes of
  versions `oldest..latest` serve.

Abstracted: the text of the pages, the JSON of the claims (the presence of an
address is kept), scopes, and the log.

### LoginGate

An authorization is asked, known, granted or refused; it is tied to a person;
its screen was shown or not; its tokens are live or not. Five actions. The
mapping in `Login` reads these off Hydra's requests and the screens shown.

### Pipeline

One run has a state per job. `Due` is GitHub's: a job is considered when all
that it needs, however indirectly, has ended. `Wanted` is the workflow's `if`.
`Skip` is a job that is due and not wanted. The jobs are then one action per
step that another run can see: `Changes`, `Image`, `Checks`, `Enqueue` (joining
the group of `deploy` or `promote`), `DeployCheck` and `DeployUp`, `PromoteRead`
and `PromoteTag`, `ReleaseView` and `ReleaseCreate`, `Finish`.

A commit holds a stack, an image and a version. The first two are named by the
commit that introduced them, so that a revert is a commit that names an older
one. `past` is what `git` and GitHub's comparison see.

External: a concurrency group runs one member, keeps one waiting, and cancels the
waiting one when another arrives (`Join`, `Leave`); a re-run keeps the commit and
repeats what did not pass, or everything (`Rerun`).

Left out: pull request runs, which write nothing; the `<major>` and
`<major>.<minor>` tags; the other containers, which share no state with this one
but the stack; the jobs of CI that only test, which are what makes `Checks`
fail. A cancelled running job is one that failed. Run 0 stands for every run
before, all delivered.

### Updater

A commit is what it changes: lines before, lines after. A run has a `job` with
its step, and each action is one call and what follows it:

| In the code | Action |
|---|---|
| the first `git pull` | `Sync` |
| `headSha`, `latestTag` | `ReadRelease` |
| `imageExists`, `chartListed`, `decide`, the rewrite and the commit | `CheckAndWrite` |
| `git pull --rebase --autostash` | `Pull`, then `Replay` for each commit |
| `git push`, and the retry | `Push` |
| `record` | `Record` |

Of the programs, `Checked` are those whose entry gives something to look for,
`Asked` those of them whose registry the updater has a client for. `imageExists`
answers yes for any other without asking (`Exists`), and says so in the log: the
node-exporter, which is on quay.io, is pinned on its release alone. Nothing is assumed
of when its image follows, and no property says that it can be pulled. A dependency is
not looked for either, but its lockfile has to be written, and an install of a package
that is not there fails and ends the run (`Installs`).

External: releases appear in any order (`Release`) and publish nothing, an image, a
chart or a package follows (`Publish`), and people push to main (`Edit`), which may
drop a pin, or move a dependency's to what installs. git's rebase
too: `Pull` fetches, and `Replay` puts one commit after another on what was fetched.
A line that is as the commit found it takes its value (`Applied`), one that is
neither that nor the value stops it (`Fits`), and a commit that changes nothing any
more is dropped (`Kept`). Git may also stop where neighbouring lines have changed
(`Beside`). A version is a sequence of segments and a segment
one of characters, so that 9 and 19 compare as the code compares them.

Abstracted: the regular expressions that find a pin (it is found once or not),
the text of commits and of the issue.

### Deploy

`Table` has a row for each resource or group of resources: what it depends on,
which inputs are in its text or triggers, whose output it takes, and whether it
is on the box. `Ancestors` is what a row waits for, at any distance: `Direct` with what
those wait for in turn, doubled until no chain of the table is longer. `Target` is
what a row should be recorded with and `Entry` the record, `Holding` what is then on
the box, `Effects` what its command does, and `Run` both, or only the effects with a failure after them
(`cut`), or neither. `DeleteFirst` is `deleteBeforeReplace`; `pending` is the
deletes that Pulumi runs last. The tailnet name is claimed as the script claims
it, call by call: `ListDevices`, `RemoveDevice`, `Rename`.

`Programs` is any sets of rows that `ProgramsAssumption` allows: a machine is among
them, the provider's route comes with the one for registration, the claim with
`tailscale up`, and a profile with its transport and with no claim, since `edge.ts`
passes no client for one.

The row for the DaemonSet of the tailnet's routes says that it is there, which is
all a deploy knows of it: what its loop does is in `Nodes`.

External: Pulumi takes the rows in any order their dependencies allow and stops
at the first failure; the tailnet's device list; a person's device that registers
under the name (`Visit`).

A row with `replaceWith` is taken to be done again on a new box even when the
update that made the box failed first. Pulumi gives that to triggers; for
`replaceWith` alone it is an assumption on Pulumi. Left out: the firewall, the
content of files that take no input, and more than one edge.

### Nodes

`Rollout` is the deploy as far as versions and the pod network go: the check of the
pair before anything is done, the install, the tailnet's policy and the two
DaemonSets (`Put`), Cilium, the Plans. A behaviour begins with a cluster that was
deployed, or with one that has its nodes and k3s and nothing in it. `Controller` is the
system-upgrade-controller: `StartJob`, `Drain` (and `prepare`), `Upgrade`. `Loops`
is one pass of a node's loops: the one that advertises a node's route finds nothing
until Cilium has started. The mishaps are what happens to nodes: `PowerOff`,
`LoseRules`, `ResetGateway`, `Reflash`, and an update cut short.

Assumed: versions are only raised; nodes that are off come back; Tailscale approves
a route when it is advertised, by the policy there is then, and no later policy makes
up for it ("approved on the spot", `tailnet-policy.ts:58`); the policy is declared,
that is, the OAuth client it takes is configured (without one the routes are approved
by hand); the upgrade image leaves a newer k3s alone. The last matters: were it to put its own version
back, a job left over from before a second bump could set the gateway behind its
agents, and `AgentsNotNewer` would not hold.

### Vpn and Profiles

The stack's configuration is a record, an edit changes one of its parts, and a
credential is the number of the change after which it was issued. An update
writes each workload's object and then its template, waits for the pods and
deletes last; `Issue` is what the `keepers` do. Kubernetes removes a pod whose
template has changed and starts another, before or after (`MaxSurge`); a pod
starts once its node's ports are free, and reads its configuration then. A
container that restarts reads again, unless its file is mounted singly.

A container that restarts between an update's write of the object and of the template
runs on what the template does not say. If the update fails there and its edit is
taken back, nothing replaces that pod: `Astray`. The names of an exit's objects are
`exit-<name>`, so no exit shares one with another workload (`VpnAssumption`).

`Profiles` makes a user's document of a table, as `buildProfile` does: outbounds
and groups, resolvers, route rules. A destination is the range its address is in,
whether it is asked for DNS, and whether it is given as an address or as a name. The
tun gives addresses, so what a profile's rules do is about those; the entry may be
given names, and Xray's rule for guests matches addresses only (`Blocked`). An
outbound is known by what it is of, and `Joined` is its tag as the document has it. A
node's or an exit's name is taken to be one word. `Reach` follows a leaf of a profile to a process
that accepts it, and that process' rules to what is allowed.

`MCVpn` looks at the profiles of tables with several nodes once, before the first
state (`ProfilesCompose`): the deployment declares no edge, so no behaviour of
`Vpn` has more than one. It also shows which names make a tag twice (`TagsCollide`): a
node named `all` beside another, an exit named `direct` or `select`. The schemas
(`exit.schemas.ts:64`, `schemas.ts:165`) allow any string, and `VpnAssumption`
excludes these two of the exits'.

Left out: names of nodes and exits with dashes in them, timings, the tun, the hash a
profile's URL is made of, the port a name hashes to (`Derived` is a constant, under
which two names may collide).

### Services

No state: definitions over a configuration, and seven statements about them that
TLC evaluates over 192 configurations, before the first state of `deploy`: each is
an `ASSUME` of `MCServices`, and no run lists it as a property. That `registration`
would throw for want of a secret is left out, since every caller hands it one. The
configurations are all subsets of the names others ask about (`auth`,
`mcp-gateway`, `slsk`, `transmet`), with and without GitHub's and Transmet's
secrets, and the rest there with what it needs, without it, or not at all.

| Statement | Says |
|---|---|
| `ClientsMeetTheirServices` | who signs people in is registered, with its own secret, for an address where that service answers |
| `OneAnswer` | no request finds two routes of the same priority |
| `HostIsShared` | the provider and Hydra share a host, each path having the right one, and registration its limit |
| `RedirectedToHttps` | what is answered over https is redirected there from http |
| `RecordsNameTheirHosts` | a published host has one record, of its own name; only the CDN's is proxied |
| `CallsAreAdmitted` | what a service is configured to call is there and lets it in |
| `UnauthenticatedAreFenced` | what authenticates nobody is reached by its own callers only |

## The runs

| Run | Question | Bounds |
|---|---|---|
| `login_safety` | Do callbacks racing in the tabs of a browser take each other's flows or challenges, and whom do two lists in force let in? | 1 browser, 2 authorizations, 2 requests at once, 2 flows, 1 rollout, no fault |
| `login_browsers` | Does the provider implement `LoginGate`? | 2 browsers, 2 authorizations, 1 request at once, 2 flows, 1 rollout, 1 fault |
| `login_answered` | Is a callback answered at Hydra in the end? | 1 browser, 2 authorizations, 2 requests at once, 2 flows, no fault, fairness |
| `pipeline_push` | Is anything lost by superseding or failing pushes? | 3 pushes, 2 failing jobs |
| `pipeline_manual` | Does a manual run lose anything or move it back? | 2 pushes, 1 manual run, 1 failing job |
| `pipeline_rerun` | Can a re-run deploy over a newer commit, or a release miss its image, through force-pushes and reverts? | 2 pushes, 2 attempts, 2 failing jobs or a lost base |
| `pipeline_end` | Is main delivered in the end? | 2 pushes, 1 manual run, no failing job, fairness |
| `updater` | Does a push do what it reports, whatever happened to main meanwhile, and is every pin current in the end? | 2 programs of one repository and file, 1 of them on a registry without a client, and a dependency, 2 versions, 1 edit, 1 fault, fairness |
| `deploy` | Is the box as main says after a deploy that ends well, and nothing half wrong after one that fails? | 4 parts of the program, 2 edits, 1 fault, 1 visit, fairness |
| `nodes` | Are agents ever ahead of the server, is a route advertised that nothing approves, and does the fleet end on versions that pair and on a network that routes? | 2 agents, 3 minors, 2 bumps, 2 mishaps, one of each on a first deploy, fairness |
| `vpn` | Does a guest reach more than the internet at any moment of any rollout, and does what is served work? | 2 people, 2 exits, 2 edits, 1 cut or restart, fairness |
| `samba` | Does a changed `smb.conf` reach smbd? (It does not.) | as `vpn`, 1 edit |

*Why the bounds are enough.* Two tabs are two challenges and two flows; two
requests at once make every race of two calls; one rollout gives two lists in
force and then one. One of the two challenges is of a first-party client, and one
of the two persons is on every list, the other only on the first. A fault falls
at every call of `login_browsers`, one request at a time; the proofs remove all
of these bounds, faults included, for everything but the liveness property. For
the pipeline, three pushes are one running, one waiting and one that supersedes
it; two failing jobs are a push that fails and the next that fails as well; with
a manual run, two pushes put one on either side of it.

The updater's two versions compare the other way round as text; two programs
share a repository and a file, and a third has its lockfile; one edit is what
moves main under a push, before or after the run began, and one fault falls at
every call. Runs repeat without a bound. Of `Deploy`'s table each part holds what
its properties relate, and all have the machine: what is on the host; the name and
the credentials; what is in the cluster; an edge with the profile that names it.
Two edits are a change and its reversal, or a rebuild and a change beside it, and
the fault ends an update before or after any command's work, so that the next
finds what it left. In `nodes` two bumps put a second version under a Plan in
progress, and two mishaps a node that is off and something that happens
meanwhile; the ranges of the two Cilium minors meet in one k3s minor, so there are
pairs that are refused; on a first deploy (`Spent`) one bump and one mishap fall
between any two of its steps. In `vpn` two edits can take a port or a role away and give
it to another, or back; there is a person of each role, and an exit may be given
the port of the other. The largest, `nodes` (887,000 states) and `vpn` (258,000, in
each of which it is evaluated what every profile reaches), take two minutes or three.

Workers are interchangeable and so are browsers, and no property names one, so
the safety runs of `Login` use that symmetry; the run with a liveness property
does not.

*Fairness.* `login_answered` assumes weak fairness of `Proceed(w)`: a handler
that can make its next call makes it. The HTTP client of `main.rs` times out
after fifteen seconds, so a call to GitHub or Hydra ends; a Redis command ends or
fails with its connection. Nothing is assumed of browsers, expiries or rollouts.
`pipeline_end` assumes weak fairness of `Proceed(r)`: GitHub starts what is due,
and every job has `timeout-minutes`. Nothing is assumed of pushes or people.
`updater` assumes it of `Start` (the schedule), `Proceed` (the job's time limit)
and `Publish` (an image follows its release some time). `deploy` assumes it of
`Start` (deploys go on) and `Proceed` (a command ends). `vpn` assumes weak
fairness of `Rolls \/ Deploys`, and `nodes` of `Rollout \/ Controller \/ Loops`:
deploys are repeated until one ends well, Kubernetes and the loops go on, and
nodes come back. One fairness for the lot is weaker than one for each, and it is
enough because each part has only so much to do until the next edit or mishap,
after which only the others can move.

Deadlock is not checked: a system with no request, and a main with no push, rest.
With the bounds reached the models of both stop. The same goes for nodes, a VPN
and a box that are as they should be; the updater is never at rest.

### What the documentation says and the code does not

One run has a property that a comment of the code states and TLC refutes: `samba`.
smbd reads its configuration when it starts, and the annotation that is there to
replace the pod (`samba.ts:128-130`) is the ConfigMap's name, which is the same
whatever is in it. The other workloads annotate a hash of the content.

These are behaviours of the code that the models contain, and that a property
excludes by name, a switch of a run turns off, or a statement's condition leaves
out:

*Login.*
- The callback of the first of two tabs consumes the second tab's flow, fails the
  state comparison, and answers at neither challenge (`CallbackIsAnswered` is
  about a browser with one sign-in under way).
- A removed person refused on a fresh sign-in keeps the tokens they had: only the
  path of a remembered session revokes (`routes.rs:261`).
- A consent screen shown before a person was removed still grants when it is
  approved afterwards, since the decision's handler does not look at the list
  again: the exception of `NamedWhenDecided`.

*Pipeline.*
- A manual run deploys main's head while an older push is still in CI, which then
  deploys its older tree; the newer push's own run makes up for it.
- A re-run of a failed push skips its deploy since main has moved, passes, and
  becomes the base of a waiting push, whose diff does not hold the change. The
  delivery properties are checked with one attempt for each run; for images and
  releases the proofs below let runs be re-run.
- After a force-push, the run of the abandoned commit moves `main` off the new
  history (`MainMovesForward` is checked without force-pushes).
- A manual deploy that failed half-way leaves its half under a head that passed:
  the exception of `StackDelivered`.
- A push that fails half-way through its deploy and is then reverted leaves its
  half as well, since the diff from the last run that passed is empty:
  `StackDelivered` is checked with `Reverting = FALSE`, and TLC refutes it with
  `TRUE`.
- When the search for a base comes back empty the version is compared with the
  parent's, and the bump of an earlier failed push is not released:
  `ReleaseDelivered` is checked with `Baseless = FALSE`, and TLC refutes it with
  `TRUE`.
- Re-runs and a restoring push together can keep a release from main's head, which
  neither does alone: two pushes of one version fail, a third of a newer version
  passes, and the second is re-run. Its base would be ahead of it, so it is compared
  with its parent, has nothing to release and passes. When a re-run of the third
  then fails, the second is the newest that passed, and a push that restores what it
  held asks for no release either.

*Updater.*
- A pin that a person moved while the run was under way, to where the run moves it
  too, is reported although its commit was dropped as already there; a person's
  edit on top of that stands (the second case of `PushedAsReported`).
- A program without a prefix follows what its repository released last, which may
  be the older version (`PinsMoveForward` is about those with one).

- A program on a registry without a client is pinned before its image is there, if its
  release comes first (`PinsResolve` is about what is asked for or installed).

*Nodes.*
- The comment at `main.ts:238` says that the routes need no CNI to be advertised. The
  DaemonSet needs none, but its loop reads the podCIDR off Cilium's own device, and
  finds nothing until Cilium has started (`tailnet-routes.ts:16-20`). On a first deploy
  Cilium is there before its routes are, for as long as the loops take; what the order
  gives is that each is approved as soon as it is advertised (`RoutesApproved`).

*Deploy.*
- A command that did its work and then failed is not on Pulumi's record. If its
  edit is taken back before the next update, the box keeps what it did: `cut`, the
  exception of `ConfiguredWhenDone`.
- The comment at `k3s.ts:57-59` says that a node that registers with a new address
  corrects itself on the next deploy; the command's triggers do not hold the
  address, so it does with the next box, or the next change of the tag.
- A person's device that registered under the gateway's hostname is left alone, as
  it should be, and stops every deploy at the rename: the exception of
  `ConfiguredInTheEnd`.
- On an edge, the profile that names its REALITY key waits for the key and not for
  the service that uses it.

*Vpn.*
- The comment at `xray.ts:126-130` has `IPIfNonMatch` make the guests' rule match a
  destination given as a name. Xray resolves a name for a second look at the rules only
  if none matched, and the rule for everything (`xray.ts:247`) always does: such a
  destination goes to `direct`, which dials what its final rules allow. The bound that
  `GuestsConfined` gives is therefore `Confines`: by address the internet, and by name
  what `direct` allows as well.
- Nothing refuses a node named `all` or an exit named `direct` or `select`, whose tags
  the document would have twice (`TagsCollide`).
- An exit that takes over the port of one that is deleted in the same update
  waits for a port that is freed only after the wait (`PortTaken`, an exception of
  `DeclaredInTheEnd`): the update fails every time until it is split in two.
- Edges have no resolver of their own, while an admin's profile asks its resolver
  at 127.0.0.1 of whichever node is the entry (`singbox.ts:227`, `335-350`). No
  edge is declared, and `Vpn` has none.

- A container that restarts just after its Secret was written reads the new one; if
  the update is then cut short and the edit reverted before the next, the update
  ends well and the process keeps what it read, the credentials of a person who was
  an administrator in between included. It takes a restart and a cut, one more
  mishap than `vpn` allows; the proof of `GuestsConfined` needed the exception
  (`Astray`), and a run with `MaxCuts = 2` shows it.

*Services.*
- With the provider's hostname and no `mcp-gateway` there is a provider without
  Hydra, and the services that sign people in point to nobody; without GitHub's
  secrets they stand, and nobody can sign in. The statements say which of them
  need `HasAuth` or `Complete`. The deployed stack sets all of these.
- The gateway has a row for the Soulseek client whether or not one is deployed:
  the exception of `CallsAreAdmitted`.
- A zone of three labels has no records, silently: a test of `dns.ts` says so, and
  so does `RecordsNameTheirHosts`.
- A bare host's route outranks the provider's paths once its rule is longer than
  100 characters, which takes a hostname of about 92 (`RuleLength`).

*Not in a model.*
- An entry of the snapshot directory that is no snapshot makes the snapshot job
  fail at its deletion if it sorts first, and takes the place of a snapshot if it
  sorts last; each retry takes another snapshot (`btrfs.ts:150-165`).

## The proofs

### Login

For every set of browsers, persons, challenges and workers, every sequence of
allowlists and every bound, from `LoginAssumption` alone (the null values are
not members, the first-party challenges are challenges, the bounds are numbers,
and there is a list for each version):

| Theorem | Says |
|---|---|
| `LoginProofs!TypeCorrect` | every variable keeps its type, and some version always serves |
| `LoginProofs!FlowOnce` | one flow is acted on once |
| `LoginProofs!Own` | a callback answers its own challenge |
| `LoginGateProofs!Address` | no authorization gets past its login without an address |
| `LoginGateProofs!NamedThen` | whoever is let in is named by a list in force, or had been shown the screen |
| `LoginGateProofs!Refinement` | `Login` implements `LoginGate` |

The inductive invariant has three parts, each proved on the ones before it.

- `Typed`: types, and what a request in progress carries. `TypeOK` alone is not
  inductive, since a handler looks up Hydra's state by a challenge it has only
  from some step on.
- `Flows`: ids are drawn once; a flow in Redis, and one a handler holds, belongs
  to the trip that was started for its challenge; a held flow is gone from Redis.
  `OwnResponse` needs all of it: nothing in a callback says which challenge it is
  for.
- `Guarded`: what a handler has established at each step (the person is on the
  list of its own version, which still serves; the challenge's request has the
  subject it read), and what Hydra holds at each phase. That a version in use
  serves is what makes a decision that was checked earlier still good, and is why
  `Retire` waiting for its handlers matters.

Each step has one case per action, with the parts the action cannot disturb
discharged by shared lemmas (`ReceiveType`, `OneWorker`, `RespondType`,
`FlowsKept`, `GuardedKept`).

### Pipeline

For any number of commits, manual runs, attempts and failing jobs, from
`PipelineAssumption` alone (the bounds are numbers, the switches are Booleans).
Those of `DeliveryProofs` have hypotheses of their own, below:

| Theorem | Says |
|---|---|
| `PipelineProofs!TypeCorrect` | every variable keeps its type, and one run at a time deploys, or promotes |
| `PipelineProofs!Release` | a release names an image that exists, of its version, with main force-pushed and reverted as well |
| `PipelineProofs!Forward` | unless main is force-pushed, its tag never moves back |
| `DeliveryProofs!DeployOrder` | without manual runs no deploy follows that of a newer commit |
| `DeliveryProofs!StacksReachHead` | the stack is that of a head that passed (`StackDelivered`) |
| `DeliveryProofs!ImagesReachHead` | so is the image under `main` (`ImageDelivered`) |
| `DeliveryProofs!ReleasesReachHead` | and its version is released (`ReleaseDelivered`) |

The invariants, again each on the ones before:

- `Typed`: types, the count of runs, and that no group has two active or two
  waiting members. The second half is what keeps the first when a member leaves.
- `Followed`: what the state of a job says of the rest. An image that passed, or
  a promote that is waiting or running, is of a commit that was built; a promote
  of a releasing run that passed has tagged its version; and a re-run that looks
  at the changes again promotes again, so that the plan a release goes by is the
  one its promote went by.
- `Tags`: every version tag and release names a built commit of that version.
- `Holding` and `Straight`: a promote about to move the tag holds what the tag
  is on, and without force-pushes every commit leads to all the later ones.

What is delivered is true only under conditions, and each theorem has those that
the refutations below call for:

| Theorem | Manual runs | Re-runs | No base found | Force-pushes | Restoring pushes |
|---|---|---|---|---|---|
| `DeployOrder` | excluded | any | any | any | any |
| `StacksReachHead` | any | excluded | excluded | excluded | excluded |
| `ImagesReachHead` | any | any | any | excluded | excluded |
| `ReleasesReachHead` | any | any, or | excluded | excluded | any, not both |

TLC refutes each of the four when one condition that is excluded is let in, in
instances of two or three commits, and `ReleaseDelivered` with both re-runs and
restoring pushes in one of four, the case described under the Pipeline above.

`DeployOrder` rests on `InLine`: without manual runs a run has the number of its
commit, one run is active and one waits, and the stack is never ahead of a first
attempt that runs, nor of a deploy past its look at main. The last is what a
re-run could break, and what `Current` in `DeployCheck` keeps.

The other three share `Worked` (`Traced` with two parts), which re-runs keep:

- `Working`, `Upheld`: jobs move only while their run does, each after those it waits
  for, and a job is skipped exactly when it is not wanted. A re-run repeats whatever
  follows a job it repeats, so nothing is left over that waits for something undone.

On it, images and releases each have an invariant that speaks of every run that
passed, whenever and however often it ran, rather than of the newest:

- `Shown`: `main` carries the image of each promoted commit and of each push that
  passed, or is past that commit. A run that asks for no image found a base that holds
  the same one, an earlier push that passed; one that found no base asks for an image.
- `Versioned`: a run that looked for changes asks for a release, or its version is
  out; so the version of each push that passed is, and what it was compared with.
  Without restoring pushes a newer version being out will do (`Out`), which is what a
  re-run compared with its parent has: the newer push that passed.
- `Rising`: what commits hold only changes to something new and versions never go
  back, so that two commits that hold the same agree with all those between. It is
  what force-pushes and restoring pushes take away.

That the newest push that passed exists at all times (`SomeNewest`) is `Latest`: any
set of runs has a last, by the well-foundedness of the strict subsets of a finite set.
Where runs are not re-run, `Lined` says in which order they pass:

- `Ordered`, `Queued`, `Begun`: the pushes' runs start in the order of their commits;
  one runs, the newest waits with none of its jobs begun, and those that passed are
  older than the one that runs. So its base is the newest that passed (`Behind`).

The stack needs that order, and two parts more:

- `Compared`: the push that runs has asked for what differs from the newest push
  that passed.
- `Carried`: the stack is the one the newest push that passed holds, or is past it,
  or a manual run broke it; and no deploy on its way takes it back. The second half
  is about two runs at once, a push's and a manual one, and is what makes the first
  inductive.

`Steps` says that a step starts a run, ends one, moves one job of one (`Moved`) or
re-runs one, and each part has a proof for each of the four.

### Nodes

For any agents, any table of supported pairs, any number of bumps and mishaps, from
`NodesAssumption` (the gateway is no agent, the table is of minors, the bounds are
numbers):

| Theorem | Says |
|---|---|
| `NodesProofs!TypeCorrect` | every variable keeps its type, and each Plan has one job at a time |
| `NodesProofs!Skew` | no agent ever runs a k3s newer than the gateway's |
| `NodesProofs!Approval` | no node's pods are behind a route that was advertised before there was a policy to approve it |

`AgentsNotNewer` is not inductive: an agent takes its job's version, which was once
its Plan's, which was once main's. `Ordered` is the chain these are in: jobs and
Plans are no newer than what the gateway had installed, and that no newer than main.
It holds because the Plans come after the install in the update, and the gateway
is never behind its install. `RoutesApproved` rests on the order of the first deploy
(`PolicyFirst`: where the loops are, the policy is), and on a machine that is installed
again advertising nothing until a loop comes round.

### Deploy

For any programs that `ProgramsAssumption` allows, the deployed gateway and edges
among them, and any number of edits, faults and visits:

| Theorem | Says |
|---|---|
| `DeployProofs!TypeCorrect` | every variable keeps its type |
| `DeployProofs!Configures` | after an update that ended well the machine is as main says |
| `DeployProofs!PinsServed` | the profiles name a machine there is, and a certificate it has served |
| `DeployProofs!Claim` | the claim removes no device of a machine there is, nor a person's |
| `DeployProofs!Limited` | `/register` never falls to the route without the limit |
| `DeployProofs!Reaches` | the kubeconfig is of the machine that has the tailnet name |
| `DeployProofs!Outlives` | nothing in the cluster is replaced unless its machine is |

Of the table the proof uses what each property is about (`Before`: what comes before
a row) and that all on a machine waits for the machine (`ServerBefore`). The invariant
relates Pulumi's record to the machine, which is what none of the properties say and
all need:

- `Shape` and `Placed`: what is recorded or in effect is of the program and on a
  machine there is or was; with a machine that is deleted first there is one.
- `OnRecord`: a row recorded on a machine that stands is in effect there, as
  recorded unless it was cut off after its work. `Leftover` is the converse for the
  two rows that main may take out again.
- `Through`: what is in the cluster was made with the kubeconfig of its own machine.
- `Pinned`: a recorded transport has served its certificate, and the profile in
  effect, if it is not the one on record, is a newer one.
- `Claimed`: between the list and the calls the machine is on record, is a device,
  and is not among those to remove.

Each step is then one of eight kinds (`Ran`, `CutOff`, `Renamed`, `Finished` and so
on), and each part of the invariant has a proof of each kind. The three theorems
about what stands after an update follow from `Finished`, in which nothing is
outdated.

### Vpn

For any people, exits and ports, any number of edits and of updates or containers
that fail, from `VpnAssumption` (ports are positive, exits are named apart from the
other workloads and from two of the profiles' groups, the bounds are numbers):

| Theorem | Says |
|---|---|
| `VpnProofs!TypeCorrect` | every variable keeps its type, and a workload has one pod more than declared at most |
| `VpnProofs!Confined` | who was never an administrator reaches the internet at most by address, and by name what the entry's `direct` dials as well, at any moment; after an update that ended well and left nothing astray, neither does who was one, and who is off the roster reaches nothing |
| `VpnProofs!Delivered` | after an update that ended well all that runs is what main declares, but for `samba` and what went astray |
| `VpnProofs!Composes` | whatever nodes and exits a table has, if no node is `all` and no exit `direct` or `select`, every document made of it is one its client accepts |
| `VpnProofs!Offered` | after an update that ended well and left nothing astray, every way in and every exit of every profile that is served works for its user |

`Confined` takes `Granted`: every object and every process lets in as administrators
only people who were administrators in some update. A process that is asked may be
older than the object, and the object older than the configuration, so this is said
of each. That what a guest's profile reaches is then within `Confines` is a fact
about the rules of `xray.ts` (`GuestsAllowed`), which are those of the code, address
range by address range; for names it is one about its final rules. `Delivered` takes `Settled`: at the end of an update the
templates are those of main and every pod has its template's annotation. From the
annotation to the configuration is a step only because it is the content's hash,
which is why it fails for `samba`. `Housed` counts the pods and keeps two of them off
one port.

`Composes` is about `buildProfile` alone, and for any number of nodes beside the
gateway, each with one REALITY name at least. `TagsDiffer` shows that no tag is made
twice, which takes the two hypotheses on names. `Depth` is a rank of the tags: a leaf
is 0, the urltests over leaves 1, a node's group 2, `entry-select` 3, an exit 4 and
`exit-select` 5. `GroupShape` and `ExitShape` show that what an outbound leans on is
there and of a lower rank (`MentionsDown`), so what is below it is of a lower rank as
well (`BelowIn`), and nothing leans on itself. `ProfilesCompose` evaluates the same
on tables of up to three nodes.

`Offered` puts the document and the processes side by side. Both are made of the same
`XrayConfig`, `HysteriaConfig` and `ExitConfig`, and `Settled` says that the table
served and the processes that run are those of one `conf` (`CalmRuns`): then a leaf's
key, name, id and path are those of the running Xray, an administrator's password is
known to hysteria on every port (`LeafReaches`), and what Xray allows even a guest has
the guest's resolver (`Allowed`). That no profile outlives the parameters it was made
of is what could go wrong here. The theorem assumes `"unbound" \in Static`, as
`main.ts:315` makes the resolver whatever the stack says. That the route's rules send
each destination where they should (`RulesRoute`) is a case analysis of the six
rules.

### Updater

For any programs, files and repositories that `UpdaterAssumption` allows (each
program is tracked once, one without a prefix has its repository to itself, no pin is
in the lockfile, the programs are finitely many), and any number of releases, edits
and failures:

| Theorem | Says |
|---|---|
| `UpdaterProofs!TypeCorrect` | every variable keeps its type |
| `UpdaterProofs!Lockfiles` | a manifest and the lockfile agree on main |
| `UpdaterProofs!Resolve` | what the updater pinned can be pulled, or installed, where it is asked for or is a dependency |
| `UpdaterProofs!Reports` | a push moves the pins it reports, as it reports them, and no other |
| `UpdaterProofs!Forward` | what the updater pinned it moves only to a newer version |

`Forward` assumes that of two versions one is before the other (`Ordered`).
`compareVersions` calls two spellings of one number equal, and between two tags that
say one version twice the property would say nothing. `MCUpdater` evaluates the same
of the versions of its run. Nothing else of the order is used, its transitivity
included: the version chosen is compared with the one that is pinned, which was
released before and is still listed.

All but the types and the lockfile need one invariant, `Work`, of eight parts that
are inductive only together. They follow a bump from the release that was read
to the push:

- `Sourced`: the texts in memory are the files of the clone. Without it the second
  bump of a file would undo the first.
- `Followed`: main is what was fetched until it moves, and a line that differs was
  moved by a person.
- `Origins`, `Looked`, `Sound`: what the tags of a repository are, that the version an
  entry is compared with is one of them and not older than what the updater pinned,
  and that what it pinned is still one of them.
- `Reported`: a program has one title; its version can be pulled, and its pin on main
  is what the title says it was, or a person's.
- `Made` and `Changed`: every commit moves the pins of titles only, as they say, and a
  pin of the clone differs from what was fetched only by a commit that is there.
- `Pending`: a title's commit is there, or still to be put on what was fetched, or a
  person has moved the pin. This is what a rebase could lose: a commit that is dropped
  as already there is one whose line somebody else has brought to its value.
- `Tidy`: a rebase that stopped is never pushed, and leaves nothing to put back
  unless it is still in progress.

`Steps` says of every step which of eleven kinds it is (`Bumped`, `Fetched`,
`Replayed`, `Lost`, `Pushed`, what happens outside, and so on), and each part of the
invariant has a proof by kind. `PushFacts` and `ReplayFacts` say what a push and one
commit of a rebase do to a pin.

### What is only model-checked

`CallbackIsAnswered`, `DeliveredInTheEnd`, `CurrentInTheEnd`, `ConfiguredInTheEnd`,
`DeclaredInTheEnd` and `FleetInTheEnd`: liveness under fairness is out of the
prover's reach, as is `ENABLED`. Every other property of a passing run is a theorem. What
the folds of `Versions` and `Updater` compute for every input would take an
induction over data, which the prover cannot do either. Nothing is declared
`RECURSIVE`.

## Plan

In order of what matters most.

1. **Registry** (`ensure_first_party`) and **Register** (`register.rs`): replicas
   racing at boot against Hydra's clients, and what a self-registered client may
   ever be, composed with `Login`'s consent.
2. **Btrfs** (snapshots, retries, what their metrics claim) and **SharedInputs**
   (the closure of the lockfile's graph).

*Not modelled, and not planned:* dashboards and the metrics' own programs, mail
records, the notification of profiles, the content of the sites, operator
scripts, and how the configuration is parsed (see `components` in
`PROJECT.json`): they state resources, or turn one input into one output. The
programs the stack runs are not in this repository.
